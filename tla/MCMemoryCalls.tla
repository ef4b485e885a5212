--------------------------- MODULE MCMemoryCalls ---------------------------
(* Two apps; physical addresses with memory and one without; one virtual   *)
(* address and one symbol; a value too wide for the word it is stored in.  *)
EXTENDS MemoryCalls

CONSTANTS c1, c2, hole, v1, s1, t1, a1, a2

MCApps   == {a1, a2}
MCHoles  == {hole}
MCVas    == {v1}
MCSyms   == {s1}
MCBehind == [s \in MCSyms |-> c1]
MCSize   == 256
MCDigits == {2, Scrap}

(* a1 reads and writes bytes, lists, translates and pauses, and a call of  *)
(* its may raise; a2 writes words, pauses and resumes.                     *)
MCCells  == {c1, c2, hole}
MCValues == {1, 258}
MCTasks  == {t1}

MCAsks ==
  [p \in {a1, a2} |->
     IF p = a1
       THEN {Call("READ", v1, 0, TRUE), Call("READ", s1, 0, FALSE),
             Call("READ_STR", hole, 0, TRUE), Call("READ_STR", s1, 0, TRUE),
             Call("READ_BUFFER", v1, 0, TRUE), Call("WRITE_BUFFER", v1, 1, TRUE),
             Plain("LOOKUP", TRUE), Plain("UNIMPLEMENTED", TRUE),
             Call("TRANSLATE", v1, 0, TRUE), Plain("PAUSE_VM", TRUE)} \cup Listing
       ELSE {Call("WRITE", c1, 258, TRUE)} \cup Pausing]
=============================================================================
