---------------------------- MODULE MemoryCalls ----------------------------
(***************************************************************************)
(* The calls by which apps read, write, list and pause the guest: the      *)
(* frontend's methods from lookup_symbol to get_page_mode, and the         *)
(* built-ins of the VMI partition that answer them (furnace.cpp).  A       *)
(* method clears the one protobuf that its frontend keeps, fills in a      *)
(* part, sends it, blocks, and takes its result from the first part of the *)
(* reply.  The partition serves one message at a time; the guest runs      *)
(* beside it unless it is paused.                                          *)
(*                                                                         *)
(* A call keeps its type up to the width (8, 16, 32, 64, addr) and the     *)
(* place it names; a place holds one word, or as many bytes as a buffer or *)
(* a text asks for.  `fit' is FALSE of a call whose                        *)
(* arguments protobuf or Python refuse: the method raises with its part in *)
(* the protobuf and nothing sent.  Messages of several calls are           *)
(* LinkPipeline's.                                                         *)
(***************************************************************************)
EXTENDS Integers, Sequences, SequencesExt

CONSTANTS Apps,
          Cells,    \* physical addresses
          Holes,    \* those of them that no memory is behind
          Vas,      \* virtual addresses, each in its process
          Syms,     \* kernel symbols
          Behind,   \* the physical address of each, or NoPage if it has none
          Values,   \* what apps write
          Size,     \* a stored word is a value modulo Size
          Digits,   \* the words that, read as text, spell a number
          Tasks,    \* what the guest links into its list of tasks
          InitTask, \* the head of that list, init_task
          NoPage, Empty, NoResult,
          Scrap,    \* bytes that no place ever held all at once
          Asks,     \* the calls that each app makes
          MaxCalls  \* bound: the calls of an app

ASSUME MemoryAssumption ==
  /\ Holes \subseteq Cells
  /\ Behind \in [Syms -> (Cells \ Holes) \cup {NoPage}]
  /\ Values \subseteq Nat
  /\ Size \in Nat \ {0}
  /\ InitTask \notin Tasks
  /\ Tasks # {}
  /\ IsFiniteSet(Tasks)
  /\ MaxCalls \in Nat

VARIABLES pc,     \* an app: "idle", "sent", "answered", "dead", or "orphan":
                  \* dead with its message still at the partition
          call,   \* the call it is in
          vmsg,   \* the parts in its frontend's protobuf
          asked,  \* the parts of its message not served yet
          reply,  \* the parts of its reply
          result, \* what its last read was given
          view,   \* what its last list or translation was given
          owed,   \* history: its pauses served and not given back
          balanced, \* history: no app resumed the guest without a pause of its own
          cell,   \* what each physical address holds
          page,   \* the physical address behind a virtual one
          ring,   \* the tasks linked behind init_task, in order
          next,   \* each task's next pointer; an unlinked task keeps its own
          gone,   \* the unlinked tasks whose memory was unmapped
          pauses, \* Xen's count of pauses
          walk,   \* process_process_list, while it runs
          vmiUp,  \* FALSE once the partition's process has aborted
          made    \* bounded: the calls of each app

appVars   == <<pc, call, vmsg, result, view, made>>
guestVars == <<cell, page, ring, next, gone>>
holdVars  == <<owed, balanced, pauses>>
vars == <<appVars, guestVars, holdVars, asked, reply, walk, vmiUp>>

Names  == Vas \cup Syms
Places == Cells \cup Names
Listed == Tasks \cup {InitTask}

Stored == {v % Size : v \in Values}

(* Mutant: the value is stored as it came.                                 *)
NarrowNot(v) == v

(* (uint8_t) m.value() and its like.                                       *)
Narrow(v) == v % Size

NoWalk == [on |-> FALSE]

-----------------------------------------------------------------------------
(* The calls.                                                              *)

Call(type, place, value, fit) ==
  [type |-> type, place |-> place, value |-> value, fit |-> fit]

Plain(type, fit) == Call(type, NoPage, 0, fit)

Reads(type, places) == {Call(type, x, 0, f) : x \in places, f \in BOOLEAN}

Writes(type, places, values) ==
  {Call(type, x, v, f) : x \in places, v \in values, f \in BOOLEAN}

Lookups == {Plain("LOOKUP", f) : f \in BOOLEAN}

Listing == {Plain("PROCESS_LIST", TRUE)}

Pausing == {Plain("PAUSE_VM", TRUE), Plain("RESUME_VM", TRUE)}

Translations == Reads("TRANSLATE", Names)

BufferReads == Reads("READ_BUFFER", Cells \cup Vas)

(* read_ksym sets fields that its protobuf does not have.                  *)
KsymBufferRead == {Plain("READ_KSYM", FALSE)}

PaReads   == Reads("READ", Cells) \cup Reads("READ_STR", Cells)
VaReads   == Reads("READ", Vas) \cup Reads("READ_STR", Vas)
KsymReads == Reads("READ", Syms) \cup Reads("READ_STR", Syms)

(* write_pa and write_va encode a str and raise on bytes; write_ksym takes *)
(* bytes and raises on a str.                                              *)
BufferWrites == Writes("WRITE_BUFFER", Places, Stored)

PaWrites   == Writes("WRITE", Cells, Values)
VaWrites   == Writes("WRITE", Vas, Values)
KsymWrites == Writes("WRITE", Syms, Values)

(* get_winver adds to a field that is not repeated, and raises.            *)
Getters == {Plain("LOOKUP", TRUE), Plain("UNIMPLEMENTED", TRUE), Plain("GET_WINVER", FALSE)}

Calls == UNION {Lookups, Listing, Pausing, Translations, BufferReads, KsymBufferRead,
                PaReads, VaReads, KsymReads, BufferWrites,
                PaWrites, VaWrites, KsymWrites, Getters}

ASSUME AsksAssumption == Asks \in [Apps -> SUBSET Calls]

NoCall == Plain("NONE", FALSE)

Answer(c, ok, value) == [type |-> c.type, ok |-> ok, value |-> value]

-----------------------------------------------------------------------------
(* The guest.                                                              *)

PageOf(x) == IF x \in Syms THEN Behind[x] ELSE page[x]

At(x) == IF x \in Cells THEN x ELSE PageOf(x)

Held(x) == IF At(x) = NoPage THEN NoPage ELSE cell[At(x)]

GuestWrites ==
  /\ \E m \in Cells \ Holes, w \in Stored : cell' = [cell EXCEPT ![m] = w]
  /\ UNCHANGED <<page, ring, next, gone>>

GuestMaps ==
  /\ \E x \in Vas, m \in (Cells \ Holes) \cup {NoPage} : page' = [page EXCEPT ![x] = m]
  /\ UNCHANGED <<cell, ring, next, gone>>

(* The list from init_task on, which is its 0th entry.                     *)
Entry(k) == IF k = 0 THEN InitTask ELSE ring[k]

Position(t) == CHOOSE k \in 0 .. Len(ring) : Entry(k) = t

Following(k) == IF k = Len(ring) THEN InitTask ELSE ring[k + 1]

(* A new task goes to the end of the list.  Its memory may be that of a    *)
(* task unlinked before.                                                   *)
GuestLinks ==
  /\ \E t \in Tasks \ ToSet(ring) :
       /\ ring' = Append(ring, t)
       /\ next' = [next EXCEPT ![Entry(Len(ring))] = t, ![t] = InitTask]
       /\ gone' = gone \ {t}
  /\ UNCHANGED <<cell, page>>

GuestUnlinks ==
  /\ \E i \in DOMAIN ring :
       /\ ring' = RemoveAt(ring, i)
       /\ next' = [next EXCEPT ![Entry(i - 1)] = next[ring[i]]]
  /\ UNCHANGED <<cell, page, gone>>

GuestFrees ==
  /\ \E t \in Tasks \ ToSet(ring) : gone' = gone \cup {t}
  /\ UNCHANGED <<cell, page, ring, next>>

GuestRuns ==
  /\ pauses = 0
  /\ GuestWrites \/ GuestMaps \/ GuestLinks \/ GuestUnlinks \/ GuestFrees
  /\ UNCHANGED <<appVars, holdVars, asked, reply, walk, vmiUp>>

-----------------------------------------------------------------------------
(* The frontend.                                                           *)

(* Mutant: the protobuf keeps the part of a call that raised.              *)
HelperNoClear(p, c) == vmsg' = [vmsg EXCEPT ![p] = Append(@, c)]

(* vmmsg_helper and vmsg_helper, and the fields that the method sets.      *)
Helper(p, c) == vmsg' = [vmsg EXCEPT ![p] = <<c>>]

(* send_default_reply, as far as recv(); a method that raises leaves the   *)
(* app where it was.                                                       *)
Begin(p, c) ==
  /\ pc[p] = "idle"
  /\ made[p] < MaxCalls
  /\ made' = [made EXCEPT ![p] = @ + 1]
  /\ Helper(p, c)
  /\ result' = [result EXCEPT ![p] = NoResult]
  /\ view' = [view EXCEPT ![p] = NoResult]
  /\ IF c.fit
       THEN /\ pc' = [pc EXCEPT ![p] = "sent"]
            /\ call' = [call EXCEPT ![p] = c]
            /\ asked' = [asked EXCEPT ![p] = vmsg'[p]]
       ELSE UNCHANGED <<pc, call, asked>>
  /\ UNCHANGED <<guestVars, holdVars, reply, walk, vmiUp>>

(* mget_status_result: the reply's part at index 0 of the call's type.     *)
Parts(p) == {i \in DOMAIN reply[p] : reply[p][i].type = call[p].type}

Part(p) == reply[p][Min(Parts(p))]

(* The status is not looked at: the result of a word's read that failed is *)
(* the field's default, that of a read of bytes what it got to.            *)
Word(a)  == {IF a.ok THEN a.value ELSE 0}
Bytes(a) == {a.value}

(* read_str_pa and read_str_ksym give int() of a text, which raises unless *)
(* the text spells a number.                                               *)
IntOfText(a) == {w \in Digits : a.ok /\ w = a.value}

BufferRead(a)  == Bytes(a)
PaRead(a)   == IF a.type = "READ" THEN Word(a) ELSE IntOfText(a)
VaRead(a)   == IF a.type = "READ" THEN Word(a) ELSE Bytes(a)
KsymRead(a) == IF a.type = "READ" THEN Word(a) ELSE IntOfText(a)

(* What a call that reads gives its app of the reply; {} when it raises.   *)
Given(p) ==
  LET c == call[p]
      a == Part(p)
  IN IF Parts(p) = {} \/ c.type \notin {"READ", "READ_STR", "READ_BUFFER"}
       THEN {}
       ELSE CASE c.type = "READ_BUFFER" -> BufferRead(a)
              [] c.type # "READ_BUFFER" /\ c.place \in Cells -> PaRead(a)
              [] c.type # "READ_BUFFER" /\ c.place \in Vas -> VaRead(a)
              [] OTHER -> KsymRead(a)

SeenBy(p) ==
  IF Given(p) = {} THEN NoResult
  ELSE [place |-> call[p].place, value |-> CHOOSE w \in Given(p) : TRUE]

(* process_list raises when the list could not be read to its end.  Its    *)
(* dictionary is keyed by pid: a task that is listed twice is in it once.  *)
ListOf(a) ==
  IF a.ok THEN [type |-> "PROCESS_LIST", tasks |-> a.value] ELSE NoResult

Translated(p, a) ==
  [type |-> "TRANSLATE", place |-> call[p].place, cell |-> IF a.ok THEN a.value ELSE NoPage]

ViewOf(p) ==
  IF Parts(p) = {} THEN NoResult
  ELSE CASE call[p].type = "PROCESS_LIST" -> ListOf(Part(p))
         [] call[p].type = "TRANSLATE"    -> Translated(p, Part(p))
         [] OTHER -> NoResult

(* send_default_reply, from recv() on: the reply replaces the request in   *)
(* the protobuf, and the method takes its result.                          *)
Return(p) ==
  /\ pc[p] = "answered"
  /\ pc' = [pc EXCEPT ![p] = "idle"]
  /\ call' = [call EXCEPT ![p] = NoCall]
  /\ vmsg' = [vmsg EXCEPT ![p] = <<>>]
  /\ reply' = [reply EXCEPT ![p] = <<>>]
  /\ result' = [result EXCEPT ![p] = SeenBy(p)]
  /\ view' = [view EXCEPT ![p] = ViewOf(p)]
  /\ UNCHANGED <<made, guestVars, holdVars, asked, walk, vmiUp>>

AppDies(p) ==
  /\ pc[p] \in {"idle", "sent", "answered"}
  /\ pc' = [pc EXCEPT ![p] = IF @ = "sent" THEN "orphan" ELSE "dead"]
  /\ call' = [call EXCEPT ![p] = NoCall]
  /\ vmsg' = [vmsg EXCEPT ![p] = <<>>]
  /\ reply' = [reply EXCEPT ![p] = <<>>]
  /\ result' = [result EXCEPT ![p] = NoResult]
  /\ view' = [view EXCEPT ![p] = NoResult]
  /\ UNCHANGED <<made, guestVars, holdVars, asked, walk, vmiUp>>

-----------------------------------------------------------------------------
(* The VMI partition.                                                      *)

(* It is idle and takes the next call of p's message.                      *)
Taking(p, types) ==
  /\ vmiUp
  /\ ~walk.on
  /\ pc[p] \in {"sent", "orphan"}
  /\ asked[p][1].type \in types

(* The call is answered; after a message's last call, or one that is not   *)
(* implemented, its reply goes out.                                        *)
Answered(p, answers, rest) ==
  /\ asked' = [asked EXCEPT ![p] = rest]
  /\ reply' = [reply EXCEPT ![p] = IF pc[p] = "orphan" THEN <<>> ELSE @ \o answers]
  /\ pc' = IF rest # <<>> THEN pc
           ELSE [pc EXCEPT ![p] = IF @ = "orphan" THEN "dead" ELSE "answered"]
  /\ UNCHANGED <<call, vmsg, result, view, made>>

Answers(p, ok, value) ==
  Answered(p, <<Answer(asked[p][1], ok, value)>>, Tail(asked[p]))

(* A field that is missing is a failure, and nothing is touched.           *)
Found(c) == c.fit /\ Held(c.place) # NoPage

ReadWord(p) ==
  /\ Taking(p, {"READ"})
  /\ LET c == asked[p][1]
     IN Answers(p, Found(c), IF Found(c) THEN Held(c.place) ELSE 0)
  /\ UNCHANGED <<guestVars, holdVars, walk, vmiUp>>

(* Bytes read one by one: what a running guest writes meanwhile tears them.*)
BytesAt(x) == {Held(x)} \cup IF pauses = 0 THEN {Scrap} ELSE {}

(* The bytes up to where a read failed are in its result.  The buffer that *)
(* malloc gave is never freed.                                             *)
ReadBuffer(p) ==
  /\ Taking(p, {"READ_BUFFER"})
  /\ LET c == asked[p][1]
     IN \E bytes \in IF Found(c) THEN BytesAt(c.place) ELSE {Empty, Scrap} :
          Answers(p, Found(c), bytes)
  /\ UNCHANGED <<guestVars, holdVars, walk, vmiUp>>

ReadString(p) ==
  /\ Taking(p, {"READ_STR"})
  /\ LET c == asked[p][1]
     IN /\ Found(c) \/ ~c.fit \/ c.place \notin Cells
        /\ \E text \in IF Found(c) THEN BytesAt(c.place) ELSE {Empty} :
             Answers(p, Found(c), text)
  /\ UNCHANGED <<guestVars, holdVars, walk, vmiUp>>

(* process_read_str_pa gives the NULL of a failed read to set_result.      *)
ReadStringAborts(p) ==
  /\ Taking(p, {"READ_STR"})
  /\ LET c == asked[p][1] IN c.fit /\ ~Found(c) /\ c.place \in Cells
  /\ vmiUp' = FALSE
  /\ UNCHANGED <<appVars, guestVars, holdVars, asked, reply, walk>>

(* Mutant: a word of the next width is written, on to the cells beside.    *)
WriteWide(p, type, word) ==
  /\ Taking(p, {type})
  /\ LET c == asked[p][1]
     IN /\ cell' = IF Found(c) THEN [m \in Cells |-> IF m \in Holes THEN NoPage ELSE word] ELSE cell
        /\ Answers(p, Found(c), Empty)
  /\ UNCHANGED <<page, ring, next, gone, holdVars, walk, vmiUp>>

Write(p, type, word) ==
  /\ Taking(p, {type})
  /\ LET c == asked[p][1]
     IN /\ cell' = IF Found(c) THEN [cell EXCEPT ![At(c.place)] = word] ELSE cell
        /\ Answers(p, Found(c), Empty)
  /\ UNCHANGED <<page, ring, next, gone, holdVars, walk, vmiUp>>

WriteWord(p) == Write(p, "WRITE", Narrow(asked[p][1].value))

WriteBuffer(p) == Write(p, "WRITE_BUFFER", asked[p][1].value)

Translate(p) ==
  /\ Taking(p, {"TRANSLATE"})
  /\ LET c == asked[p][1]
     IN Answers(p, c.fit /\ PageOf(c.place) # NoPage, PageOf(c.place))
  /\ UNCHANGED <<guestVars, holdVars, walk, vmiUp>>

(* Symbols, offsets and facts about the guest, which do not change.        *)
Lookup(p) ==
  /\ Taking(p, {"LOOKUP"})
  /\ Answers(p, TRUE, Empty)
  /\ UNCHANGED <<guestVars, holdVars, walk, vmiUp>>

(* batch_error: no reply part, and no later call of the message.           *)
Unimplemented(p) ==
  /\ Taking(p, {"UNIMPLEMENTED"})
  /\ Answered(p, <<>>, <<>>)
  /\ UNCHANGED <<guestVars, holdVars, walk, vmiUp>>

PauseVm(p) ==
  /\ Taking(p, {"PAUSE_VM"})
  /\ pauses' = pauses + 1
  /\ owed' = [owed EXCEPT ![p] = @ + 1]
  /\ Answers(p, TRUE, Empty)
  /\ UNCHANGED <<guestVars, balanced, walk, vmiUp>>

(* Nothing asks whose pause it is that a resume_vm gives back.             *)
Redeem(p) ==
  /\ owed' = [owed EXCEPT ![p] = IF @ = 0 THEN 0 ELSE @ - 1]
  /\ balanced' = (balanced /\ owed[p] > 0)

(* Mutant: resuming undoes every pause.                                    *)
ResumeAll(p) ==
  /\ Taking(p, {"RESUME_VM"})
  /\ pauses' = 0
  /\ Redeem(p)
  /\ Answers(p, TRUE, Empty)
  /\ UNCHANGED <<guestVars, walk, vmiUp>>

ResumeVm(p) ==
  /\ Taking(p, {"RESUME_VM"})
  /\ pauses' = IF pauses = 0 THEN 0 ELSE pauses - 1
  /\ Redeem(p)
  /\ Answers(p, TRUE, Empty)
  /\ UNCHANGED <<guestVars, walk, vmiUp>>

(* process_process_list, up to its loop: the head and its next pointer.    *)
ListBegin(p) ==
  /\ Taking(p, {"PROCESS_LIST"})
  /\ walk' = [on |-> TRUE, by |-> p, cur |-> InitTask, nxt |-> next[InitTask], tasks |-> {}]
  /\ UNCHANGED <<appVars, guestVars, holdVars, asked, reply, vmiUp>>

(* Once round the loop: the entry is added, and cur_list_entry moves on.   *)
(* The entry's name is read before, and a name that could not be read is a *)
(* NULL that set_name aborts on.                                           *)
ListAborts ==
  /\ vmiUp
  /\ walk.on
  /\ walk.cur \in gone
  /\ vmiUp' = FALSE
  /\ UNCHANGED <<appVars, guestVars, holdVars, asked, reply, walk>>

(* Where the loop ends: back at the head, or on an entry that could not be *)
(* read.                                                                   *)
ListEnd == walk.nxt \in gone \cup {InitTask}

ListStep ==
  /\ vmiUp
  /\ walk.on
  /\ walk.cur \notin gone
  /\ LET tasks == walk.tasks \cup {walk.cur}
     IN IF ListEnd
          THEN /\ walk' = NoWalk
               /\ Answers(walk.by, walk.nxt \notin gone, tasks)
          ELSE /\ walk' = [walk EXCEPT !.cur = walk.nxt, !.nxt = next[walk.nxt], !.tasks = tasks]
               /\ UNCHANGED <<appVars, asked, reply>>
  /\ UNCHANGED <<guestVars, holdVars, vmiUp>>

-----------------------------------------------------------------------------
Init ==
  /\ pc = [p \in Apps |-> "idle"]
  /\ call = [p \in Apps |-> NoCall]
  /\ vmsg = [p \in Apps |-> <<>>]
  /\ asked = [p \in Apps |-> <<>>]
  /\ reply = [p \in Apps |-> <<>>]
  /\ result = [p \in Apps |-> NoResult]
  /\ view = [p \in Apps |-> NoResult]
  /\ owed = [p \in Apps |-> 0]
  /\ balanced = TRUE
  /\ cell \in {f \in [Cells -> Stored \cup {NoPage}] : \A m \in Cells : f[m] = NoPage <=> m \in Holes}
  /\ page \in [Vas -> (Cells \ Holes) \cup {NoPage}]
  /\ ring = SetToSeq(Tasks)
  /\ next = [t \in Listed |-> Following(Position(t))]
  /\ gone = {}
  /\ pauses = 0
  /\ walk = NoWalk
  /\ vmiUp = TRUE
  /\ made = [p \in Apps |-> 0]

Serves(p) ==
  \/ ReadWord(p) \/ ReadBuffer(p) \/ ReadString(p) \/ ReadStringAborts(p)
  \/ WriteWord(p) \/ WriteBuffer(p)
  \/ Translate(p) \/ Lookup(p) \/ Unimplemented(p)
  \/ PauseVm(p) \/ ResumeVm(p) \/ ListBegin(p)

Partition == ListStep \/ ListAborts \/ \E p \in Apps : Serves(p)

Next ==
  \/ GuestRuns
  \/ Partition
  \/ \E p \in Apps :
       \/ \E c \in Asks[p] : Begin(p, c)
       \/ Return(p)
       \/ AppDies(p)

Spec == Init /\ [][Next]_vars

-----------------------------------------------------------------------------
(* A word in memory has the width it was stored at, a reply its call's     *)
(* type, and an app that runs has one call in its message.                 *)
TypeOK ==
  /\ cell \in [Cells -> Stored \cup {NoPage}]
  /\ page \in [Vas -> Cells \cup {NoPage}]
  /\ next \in [Listed -> Listed]
  /\ ToSet(ring) \subseteq Tasks
  /\ gone \subseteq Tasks \ ToSet(ring)
  /\ pauses \in Nat
  /\ balanced \in BOOLEAN
  /\ \A p \in Apps :
       /\ pc[p] \in {"idle", "sent", "answered", "orphan", "dead"}
       /\ call[p] \in Calls \cup {NoCall}
       /\ Len(vmsg[p]) <= 1
       /\ pc[p] \in {"sent", "orphan"} <=> asked[p] # <<>>
       /\ owed[p] \in Nat

Seen(p) ==
  CASE pc[p] = "answered" -> SeenBy(p)
    [] pc[p] = "idle"     -> result[p]
    [] OTHER              -> NoResult

(* What a message asks of the memory.                                      *)
Loading == [READ |-> "word", READ_STR |-> "text", READ_BUFFER |-> "bytes"]

Storing(c, word) == [kind |-> "store", place |-> c.place, word |-> word]

Operation(c) ==
  CASE c.type \in DOMAIN Loading -> [kind |-> Loading[c.type], place |-> c.place]
    [] c.type = "WRITE"          -> Storing(c, c.value % Size)
    [] c.type = "WRITE_BUFFER"   -> Storing(c, c.value)
    [] c.type = "PAUSE_VM"       -> [kind |-> "pause"]
    [] c.type = "RESUME_VM"      -> [kind |-> "resume"]
    [] OTHER                     -> [kind |-> "nothing"]

(* Nobody waits for what an orphan reads.                                  *)
Pending(p) ==
  IF asked[p] = <<>> \/ (pc[p] = "orphan" /\ Last(asked[p]).type \in DOMAIN Loading)
    THEN [kind |-> "nothing"]
    ELSE Operation(Last(asked[p]))

Memory ==
  INSTANCE GuestMemory WITH
    Words <- Stored,
    mem   <- cell,
    home  <- [x \in Places |-> At(x)],
    op    <- [p \in Apps |-> Pending(p)],
    seen  <- [p \in Apps |-> Seen(p)]

(* The memory calls give one memory: see GuestMemory.  Every call that was *)
(* sent takes effect once, at one moment: a read gives the word of its own *)
(* place, not that of another app's call or of an earlier one that raised; *)
(* a write changes the one cell behind its place, to the word of its       *)
(* width; and while the guest is paused only writes change the memory      *)
(* (furnace_frontend.py:351-411, 1112-1666).                               *)
ImplementsMemory == Memory!Spec

(* While a pause of its own is in force, what an app was given of the list *)
(* of tasks and of a translation is how the guest stands, as long as no    *)
(* app has resumed the guest without a pause of its own: the partition     *)
(* would give back another's (furnace_frontend.py:1013-1110,               *)
(* furnace.cpp:3193).                                                      *)
PausedView ==
  \A p \in Apps :
    balanced /\ owed[p] > 0 /\ view[p] # NoResult =>
      IF view[p].type = "PROCESS_LIST"
        THEN view[p].tasks = ToSet(ring) \cup {InitTask}
        ELSE PageOf(view[p].place) = view[p].cell
=============================================================================
