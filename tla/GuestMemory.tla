---------------------------- MODULE GuestMemory ----------------------------
(***************************************************************************)
(* What the memory calls of the frontend promise the apps: the guest has   *)
(* one memory.  An app's call takes effect at one moment between the call  *)
(* and its return, or after the app's death.  A read gives what its place  *)
(* held at that moment; a write changes the cell behind its place, and     *)
(* nothing else; a pause keeps the guest from changing anything.           *)
(*                                                                         *)
(* Where a place is not mapped a read gives 0 or Empty, a write nothing,   *)
(* and the app is not told.  Many bytes may be torn: they were read while  *)
(* the guest ran, or up to where the mapping ends.                         *)
(***************************************************************************)
EXTENDS Naturals

CONSTANTS Apps,
          Cells,    \* physical addresses
          Holes,    \* those of them that no memory is behind
          Vas,      \* the names that the guest maps and unmaps
          Places,   \* all the names that an app may use, Cells among them
          Words,    \* what a cell may hold
          NoPage,   \* the cell of a place that is not mapped
          Empty, Scrap, \* no bytes, and bytes of no one moment
          NoResult  \* an app that was given nothing, or nothing yet

VARIABLES mem,    \* what each cell holds; NoPage where there is no memory
          home,   \* the cell behind each place
          pauses, \* how often the guest is paused
          op,     \* what each app has asked for and not got
          seen    \* what its last read was given

memVars == <<mem, home, pauses, op, seen>>

Nothing == [kind |-> "nothing"]

Loads == {[kind |-> k, place |-> x] : k \in {"word", "text", "bytes"}, x \in Places}

Stores == {[kind |-> "store", place |-> x, word |-> w] : x \in Places, w \in Words}

Holds == {[kind |-> "pause"], [kind |-> "resume"]}

Held(x) == IF home[x] = NoPage THEN NoPage ELSE mem[home[x]]

Init ==
  /\ mem \in [Cells -> Words \cup {NoPage}]
  /\ home \in [Places -> Cells \cup {NoPage}]
  /\ \A m \in Cells : home[m] = m
  /\ pauses = 0
  /\ op = [p \in Apps |-> Nothing]
  /\ seen = [p \in Apps |-> NoResult]

(* The guest runs: it writes, maps and unmaps.                             *)
GuestRuns ==
  /\ pauses = 0
  /\ mem' \in [Cells -> Words \cup {NoPage}]
  /\ \A m \in Cells : mem'[m] # mem[m] => m \notin Holes /\ mem'[m] \in Words
  /\ home' \in [Places -> Cells \cup {NoPage}]
  /\ \A x \in Places \ Vas : home'[x] = home[x]
  /\ UNCHANGED <<pauses, op, seen>>

Ask(p, o) ==
  /\ op[p] = Nothing
  /\ op' = [op EXCEPT ![p] = o]
  /\ seen' = [seen EXCEPT ![p] = NoResult]
  /\ UNCHANGED <<mem, home, pauses>>

Failure(o) == IF o.kind = "word" THEN 0 ELSE Empty

Torn(o) ==
  \/ o.kind # "word" /\ pauses = 0
  \/ o.kind = "bytes" /\ Held(o.place) = NoPage

Given(o) ==
  {IF Held(o.place) = NoPage THEN Failure(o) ELSE Held(o.place)}
    \cup IF Torn(o) THEN {Scrap} ELSE {}

(* A text that is no number is not given to an app that asked for one.     *)
Load(p) ==
  /\ op[p] \in Loads
  /\ op' = [op EXCEPT ![p] = Nothing]
  /\ \/ \E w \in Given(op[p]) : seen' = [seen EXCEPT ![p] = [place |-> op[p].place, value |-> w]]
     \/ op[p].kind = "text" /\ seen' = seen
  /\ UNCHANGED <<mem, home, pauses>>

Store(p) ==
  /\ op[p] \in Stores
  /\ op' = [op EXCEPT ![p] = Nothing]
  /\ mem' = IF Held(op[p].place) = NoPage THEN mem
            ELSE [mem EXCEPT ![home[op[p].place]] = op[p].word]
  /\ UNCHANGED <<home, pauses, seen>>

Hold(p) ==
  /\ op[p] \in Holds
  /\ op' = [op EXCEPT ![p] = Nothing]
  /\ pauses' = IF op[p].kind = "pause" THEN pauses + 1
               ELSE IF pauses = 0 THEN 0 ELSE pauses - 1
  /\ UNCHANGED <<mem, home, seen>>

(* The app dies; what it asked to be changed is changed all the same.      *)
Forget(p) ==
  /\ op' = [op EXCEPT ![p] = IF @ \in Loads THEN Nothing ELSE @]
  /\ seen' = [seen EXCEPT ![p] = NoResult]
  /\ UNCHANGED <<mem, home, pauses>>

Next ==
  \/ GuestRuns
  \/ \E p \in Apps :
       \/ \E o \in Loads \cup Stores \cup Holds \cup {Nothing} : Ask(p, o)
       \/ Load(p) \/ Store(p) \/ Hold(p) \/ Forget(p)

Spec == Init /\ [][Next]_memVars
=============================================================================
