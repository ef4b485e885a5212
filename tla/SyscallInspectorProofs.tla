---------------------- MODULE SyscallInspectorProofs ----------------------
(***************************************************************************)
(* Proofs about the inspector, for any policy file, any calls and any      *)
(* number of tracees.                                                      *)
(***************************************************************************)
EXTENDS SyscallInspector, TLAPS

-----------------------------------------------------------------------------
(* What makes the properties inductive.                                    *)

(* The lists hold what lines of the file say.                              *)
ListsRead ==
  /\ \A i \in DOMAIN traced : Names("trace", traced[i].call)
  /\ \A c \in polMap : Names("map", c)

(* Once path is bound it is an entry.                                      *)
PathBound == "path" \in bound => path \in Items

(* A tracee that seccomp has stopped at a call has that call traced, and   *)
(* one let go ahead at level 1 has it in the map.                          *)
StopsTraced ==
  \A p \in Tracees :
    why[p].call \in Calls =>
      /\ st[p] \in {"stopped", "held", "granted"} => Names("trace", why[p].call)
      /\ st[p] \in {"held", "granted"} /\ why[p].level = 1 => why[p].call \in polMap
      /\ st[p] = "stopped" => why[p].level = 0

GrantedIsCall == \A p \in Tracees : st[p] = "granted" => why[p].call \in Calls

(* The tracer ends at the exit that exceeds JMax.  Before it starts no     *)
(* tracee is there, and the one that it will fork is the one to continue.  *)
TracerBounds ==
  /\ pc # "ended" => jmax <= JMax
  /\ pc = "off" => /\ lastPid = First
                   /\ \A p \in Tracees : st[p] = "none" /\ why[p] = Nothing

InspectorInv ==
  /\ TypeOK
  /\ ListsRead
  /\ PathBound
  /\ StopsTraced
  /\ GrantedIsCall
  /\ TracerBounds
  /\ HeldIsNext

-----------------------------------------------------------------------------
(* The policy file.                                                        *)

(* The file is one of Lines, read up to curline.                           *)
LEMMA FileRead ==
  ASSUME WriterTypeOK
  PROVE  file \in Seq(Lines) /\ Len(file) \in Nat /\ curline \in 0 .. Len(file)
<1>1. file \in Files /\ curline \in 0 .. Len(file)
  BY DEF WriterTypeOK
<1>2. file \in Seq(Lines)
  BY <1>1, WriterAssumption
<1> QED BY <1>1, <1>2

(* A line of the file is one of Lines, with the fields its kind has.       *)
LEMMA LineRead ==
  ASSUME WriterTypeOK, NEW op, IsLine(op)
  PROVE  /\ Line \in Lines
         /\ Line.op = op
         /\ curline + 1 \in DOMAIN file
         /\ Line = file[curline + 1]
         /\ curline + 1 \in 0 .. Len(file)
<1>1. file \in Seq(Lines) /\ Len(file) \in Nat /\ curline \in 0 .. Len(file)
  BY FileRead
<1>2. curline < Len(file) /\ file[curline + 1].op = op
  BY DEF IsLine
<1>3. curline + 1 \in 1 .. Len(file)
  BY <1>1, <1>2
<1> QED BY <1>1, <1>2, <1>3 DEF Line

(* The fields that a line has, by its kind.                                *)
LEMMA LineFields ==
  ASSUME NEW l \in Lines
  PROVE  /\ l.op \in {"allow", "map", "trace", "test"} => l.call \in Calls
         /\ l.op = "trace" => l.reg \in {"none", "INT", "PTR"}
         /\ l.op = "test" => l.type \in {"INT", "PTR"}
BY DEF Lines

(* What an open block makes of its lines are items, and path is one.       *)
LEMMA EntriesAreItems ==
  ASSUME WriterTypeOK, PathBound, NEW items, NEW locals \in SUBSET {"out", "open"},
         ~ Raises(items), Takes(items, locals)
  PROVE  /\ Entries(items) \subseteq Items
         /\ path' \in Items \cup {"odd"}
         /\ bound' \subseteq {"out", "path", "open"}
         /\ PathBound'
<1>1. Entries(items) \subseteq Items
  BY DEF Entries, Named, Raises, PathBound
<1>2. CASE Named(items) = {} /\ UNCHANGED path /\ bound' = bound \cup locals
  BY <1>1, <1>2 DEF WriterTypeOK, PathBound
<1>3. ASSUME NEW k \in Named(items), path' = items[k], bound' = bound \cup locals \cup {"path"}
      PROVE  /\ path' \in Items
             /\ bound' \subseteq {"out", "path", "open"}
  BY <1>3 DEF WriterTypeOK, Named
<1> QED BY <1>1, <1>2, <1>3 DEF Takes, PathBound

(* A step of parse_policy or main keeps the types of the lists and what    *)
(* they say about the file.                                                *)
LEMMA WriterStep ==
  ASSUME WriterTypeOK, ListsRead, PathBound, WriterNext
  PROVE  WriterTypeOK' /\ ListsRead' /\ PathBound' /\ polMap \subseteq polMap' /\ file' = file
<1> USE DEF WriterTypeOK, ListsRead, PathBound, Names
<1>1. CASE Dies
  BY <1>1 DEF Dies
<1>2. CASE Skip
  BY <1>2, LineRead DEF Skip, Consumed
<1>3. CASE Short
  BY <1>1, <1>3 DEF Short
<1>4. CASE Allow
  <2>1. Line.call \in Calls
    BY <1>4, LineRead, LineFields DEF Allow
  <2> QED BY <1>4, <2>1, LineRead DEF Allow, Consumed
<1>5. CASE Trace
  <2> DEFINE t == [call |-> Line.call, reg |-> Line.reg]
  <2>1. /\ t \in [call : Calls, reg : {"none", "INT", "PTR"}]
        /\ Names("trace", t.call)
        /\ curline + 1 \in 0 .. Len(file)
    BY <1>5, LineRead, LineFields DEF Trace
  <2>2. traced' = Append(traced, t) /\ UNCHANGED <<file, genPc, allow, tests, open, polMap, path>>
        /\ curline' = curline + 1 /\ bound' = bound \cup {"out"}
    BY <1>5 DEF Trace, Consumed
  <2> HIDE DEF t
  <2>3. \A i \in DOMAIN traced' : traced'[i] = t \/ (i \in DOMAIN traced /\ traced'[i] = traced[i])
    BY <2>1, <2>2
  <2>4. traced' \in Seq([call : Calls, reg : {"none", "INT", "PTR"}])
    BY <2>1, <2>2
  <2>5. ListsRead'
    BY <2>1, <2>2, <2>3
  <2> QED BY <2>1, <2>2, <2>4, <2>5
<1>6. CASE TestArgs /\ ~ Dies
  <2> DEFINE t == [call |-> Line.call, type |-> Line.type, empty |-> Line.items = <<>>]
  <2>1. t \in [call : Calls, type : {"INT", "PTR"}, empty : BOOLEAN]
    <3>1. Line.call \in Calls /\ Line.type \in {"INT", "PTR"}
      BY <1>6, LineRead, LineFields DEF TestArgs
    <3> QED BY <3>1
  <2>2. curline + 1 \in 0 .. Len(file)
    BY <1>6, LineRead DEF TestArgs
  <2>3. /\ tests' = {u \in tests : u.call # Line.call} \cup {t}
        /\ curline' = curline + 1
        /\ UNCHANGED <<file, genPc, allow, traced, open, polMap, bound, path>>
    BY <1>6 DEF TestArgs, Consumed
  <2>4. tests' \subseteq [call : Calls, type : {"INT", "PTR"}, empty : BOOLEAN]
    BY <2>1, <2>3
  <2> HIDE DEF t
  <2> QED BY <2>2, <2>3, <2>4
<1>7. CASE OpenBlock /\ ~ Dies
  <2>1. curline + 1 \in 0 .. Len(file)
    BY <1>7, LineRead DEF OpenBlock
  <2>2. /\ ~ Raises(Line.items) /\ Takes(Line.items, {"open"})
        /\ open' = Entries(Line.items)
        /\ curline' = curline + 1
        /\ UNCHANGED <<file, genPc, allow, traced, tests, polMap>>
    BY <1>7 DEF OpenBlock, Consumed
  <2>3. /\ open' \subseteq Items
        /\ path' \in Items \cup {"odd"}
        /\ bound' \subseteq {"out", "path", "open"}
        /\ PathBound'
    BY <2>2, EntriesAreItems
  <2> QED BY <2>1, <2>2, <2>3
<1>8. CASE MapLine
  <2>1. /\ Line.call \in Calls
        /\ Names("map", Line.call)
        /\ curline + 1 \in 0 .. Len(file)
    BY <1>8, LineRead, LineFields DEF MapLine
  <2> QED BY <1>8, <2>1 DEF MapLine, Consumed
<1>9. CASE MapOpen
  <2>1. curline + 1 \in 0 .. Len(file)
    BY <1>9, LineRead DEF MapOpen
  <2> QED BY <1>9, <2>1 DEF MapOpen
<1>10. CASE BlockLine /\ ~ Dies
  <2> DEFINE locals == IF Brace THEN {"open"} ELSE {}
  <2>1. curline + 1 \in 0 .. Len(file)
    BY <1>10, FileRead DEF BlockLine
  <2>2. /\ ~ Raises(LookAhead) /\ Takes(LookAhead, locals) /\ locals \in SUBSET {"out", "open"}
        /\ open' = open \cup Entries(LookAhead)
        /\ genPc' \in {"parse", "block"}
        /\ curline' = curline + 1
        /\ UNCHANGED <<file, allow, traced, tests, polMap>>
    BY <1>10 DEF BlockLine
  <2> HIDE DEF locals
  <2>3. /\ Entries(LookAhead) \subseteq Items
        /\ path' \in Items \cup {"odd"}
        /\ bound' \subseteq {"out", "path", "open"}
        /\ PathBound'
    BY <2>2, EntriesAreItems
  <2> QED BY <2>1, <2>2, <2>3
<1>11. CASE BlockEndless
  BY <1>1, <1>11 DEF BlockEndless
<1>12. CASE Generate
  BY <1>12 DEF Generate
<1> QED BY <1>1, <1>2, <1>3, <1>4, <1>5, <1>6, <1>7, <1>8, <1>9, <1>10, <1>11, <1>12
        DEF WriterNext, TestArgs, OpenBlock, BlockLine

-----------------------------------------------------------------------------
(* The tracees and the tracer.                                             *)

(* The invariant holds at first.                                           *)
LEMMA InspectorInit0 == Init => InspectorInv
<1> SUFFICES ASSUME Init PROVE InspectorInv
  OBVIOUS
<1>1. WriterTypeOK /\ ListsRead /\ PathBound
  <2>1. file \in Seq(Lines)
    BY WriterAssumption DEF Init, WriterInit
  <2> QED BY <2>1 DEF Init, WriterInit, WriterTypeOK, ListsRead, PathBound
<1>2. Nothing \in Stops /\ Nothing.call \notin Calls
  BY InspectorAssumption DEF Nothing, Stops
<1>3. InspectorTypeOK
  BY <1>2, InspectorAssumption DEF Init, InspectorInit, InspectorTypeOK
<1>4. StopsTraced /\ GrantedIsCall /\ TracerBounds /\ HeldIsNext
  BY <1>2, InspectorAssumption
     DEF Init, InspectorInit, StopsTraced, GrantedIsCall, TracerBounds, HeldIsNext
<1> QED BY <1>1, <1>3, <1>4 DEF InspectorInv, TypeOK

(* parse_policy and main of the policy writer keep it.                     *)
LEMMA WritesStep ==
  ASSUME InspectorInv, Writes
  PROVE  InspectorInv'
<1>1. WriterTypeOK' /\ ListsRead' /\ PathBound' /\ polMap \subseteq polMap' /\ file' = file
  BY WriterStep DEF InspectorInv, TypeOK, Writes
<1>2. UNCHANGED insVars
  BY DEF Writes
<1>3. InspectorTypeOK' /\ GrantedIsCall' /\ TracerBounds' /\ HeldIsNext'
  BY <1>2 DEF InspectorInv, TypeOK, InspectorTypeOK, GrantedIsCall, TracerBounds, HeldIsNext, insVars
<1>4. StopsTraced'
  BY <1>1, <1>2 DEF InspectorInv, StopsTraced, Names, insVars
<1> QED BY <1>1, <1>3, <1>4 DEF InspectorInv, TypeOK

(* A step of one tracee: from a state in which it is alive to one in which *)
(* it is not held, for a reason w that the policy lets it have.            *)
LEMMA TraceeMoves ==
  ASSUME InspectorInv, UNCHANGED genVars, UNCHANGED <<pc, level, lastPid, jmax>>,
         calls' \in 0 .. MaxCalls,
         NEW p \in Tracees, st[p] # "none",
         NEW s \in {"running", "stopped", "exited", "killed"},
         NEW w \in Stops, w.call \in Calls /\ s = "stopped" => Names("trace", w.call) /\ w.level = 0,
         st' = [st EXCEPT ![p] = s], why' = [why EXCEPT ![p] = w]
  PROVE  InspectorInv'
<1>1. TypeOK' /\ ListsRead' /\ PathBound' /\ TracerBounds'
  BY DEF InspectorInv, TypeOK, WriterTypeOK, InspectorTypeOK, ListsRead, PathBound, TracerBounds,
         genVars, Names
<1>2. \A q \in Tracees : /\ st'[q] = IF q = p THEN s ELSE st[q]
                         /\ why'[q] = IF q = p THEN w ELSE why[q]
  BY DEF InspectorInv, TypeOK, InspectorTypeOK
<1>3. \A c : Names("trace", c)' = Names("trace", c)
  BY DEF Names, genVars
<1>4. StopsTraced' /\ GrantedIsCall' /\ HeldIsNext'
  BY <1>2, <1>3 DEF InspectorInv, StopsTraced, GrantedIsCall, HeldIsNext, genVars
<1> QED BY <1>1, <1>4 DEF InspectorInv

(* A tracee, the kernel's side of it, keeps it.                            *)
LEMMA TraceeStep ==
  ASSUME InspectorInv, TraceeNext, UNCHANGED genVars
  PROVE  InspectorInv'
<1>1. PICK p \in Tracees :
        \/ \E call \in Calls : \E arg \in Args(call) : CallStops(p, call, arg) \/ CallKills(p, call, arg)
        \/ Signalled(p)
        \/ Killed(p)
        \/ \E q \in Tracees : Clones(p, q)
        \/ Exits(p)
        \/ Returns(p)
  BY DEF TraceeNext
<1>2. Nothing \in Stops /\ Nothing.call \notin Calls /\ Event \in Stops /\ Event.call \notin Calls
  BY InspectorAssumption DEF Nothing, Event, Stops
<1>3. calls \in 0 .. MaxCalls /\ MaxCalls \in Nat /\ (Counted => calls' \in 0 .. MaxCalls)
  BY InspectorAssumption DEF InspectorInv, TypeOK, InspectorTypeOK, Counted
<1>4. ASSUME NEW call \in Calls, NEW arg \in Args(call),
             CallStops(p, call, arg) \/ CallKills(p, call, arg)
      PROVE  InspectorInv'
  <2> DEFINE w == [call |-> call, arg |-> arg, level |-> 0]
  <2>1. w \in Stops /\ w.call = call /\ w.level = 0
    BY <1>4 DEF Stops, Made, Args
  <2>2. call \in TraceRules => Names("trace", call)
    BY DEF TraceRules, InspectorInv, ListsRead
  <2>3. CASE CallStops(p, call, arg)
    <3>1. /\ calls' \in 0 .. MaxCalls /\ call \in TraceRules /\ st[p] # "none"
          /\ UNCHANGED <<pc, level, lastPid, jmax>>
          /\ st' = [st EXCEPT ![p] = "stopped"] /\ why' = [why EXCEPT ![p] = w]
      BY <1>3, <2>3 DEF CallStops, StopsAt
    <3> HIDE DEF w
    <3> QED BY <2>1, <2>2, <3>1, TraceeMoves
  <2>4. CASE CallKills(p, call, arg)
    <3>1. /\ calls' \in 0 .. MaxCalls /\ st[p] # "none"
          /\ UNCHANGED <<pc, level, lastPid, jmax>>
          /\ st' = [st EXCEPT ![p] = "killed"] /\ why' = [why EXCEPT ![p] = w]
      BY <1>3, <2>4 DEF CallKills
    <3> HIDE DEF w
    <3> QED BY <2>1, <3>1, TraceeMoves
  <2> QED BY <1>4, <2>3, <2>4
<1>5. CASE Signalled(p)
  <2>1. st[p] # "none" /\ calls' \in 0 .. MaxCalls
    BY <1>3, <1>5 DEF Signalled
  <2> QED BY <1>2, <1>5, <2>1, TraceeMoves DEF Signalled, StopsAt
<1>6. CASE Killed(p)
  BY <1>2, <1>3, <1>6, TraceeMoves DEF Killed, Alive
<1>7. ASSUME NEW q \in Tracees, Clones(p, q)
      PROVE  InspectorInv'
  <2>1. /\ st[p] = "granted" /\ st[q] = "none"
        /\ UNCHANGED <<pc, level, lastPid, jmax, calls>>
        /\ st' = [st EXCEPT ![p] = "stopped", ![q] = "stopped"]
        /\ why' = [why EXCEPT ![p] = Event, ![q] = Nothing]
    BY <1>7 DEF Clones, Executed
  <2>2. TypeOK' /\ ListsRead' /\ PathBound' /\ TracerBounds'
    BY <1>2, <2>1 DEF InspectorInv, TypeOK, WriterTypeOK, InspectorTypeOK, ListsRead, PathBound,
                      TracerBounds, genVars, Names
  <2>3. /\ \A r \in Tracees \ {p, q} : st'[r] = st[r] /\ why'[r] = why[r]
        /\ \A r \in {p, q} : st'[r] = "stopped" /\ why'[r].call \notin Calls
    BY <1>2, <2>1 DEF InspectorInv, TypeOK, InspectorTypeOK
  <2>4. \A c : Names("trace", c)' = Names("trace", c)
    BY DEF Names, genVars
  <2>5. GrantedIsCall' /\ HeldIsNext'
    BY <2>1, <2>3 DEF InspectorInv, GrantedIsCall, HeldIsNext
  <2>6. StopsTraced'
    BY <2>3, <2>4 DEF InspectorInv, StopsTraced, genVars
  <2> QED BY <2>2, <2>5, <2>6 DEF InspectorInv
<1>8. CASE Exits(p)
  BY <1>2, <1>3, <1>8, TraceeMoves DEF Exits, Executed
<1>9. CASE Returns(p)
  BY <1>2, <1>3, <1>9, TraceeMoves DEF Returns, Executed
<1> QED BY <1>1, <1>4, <1>5, <1>6, <1>7, <1>8, <1>9

(* The tracer looks at tracee p, which is then s, with its call marked w,  *)
(* and no other tracee is held.                                            *)
LEMMA TracerTakes ==
  ASSUME InspectorInv, UNCHANGED genVars, pc = "wait", NEW p \in Tracees,
         NEW s \in {"held", "dead", "killed"}, LoopsWith(p, s),
         level' \in 0 .. 1, jmax' \in 0 .. JMax, calls' \in 0 .. MaxCalls,
         NEW w \in Stops, why' = [why EXCEPT ![p] = w],
         s = "held" /\ w.call \in Calls =>
           Names("trace", w.call) /\ (w.level = 1 => w.call \in polMap)
  PROVE  InspectorInv'
<1>1. TypeOK' /\ ListsRead' /\ PathBound' /\ TracerBounds'
  BY InspectorAssumption
     DEF InspectorInv, TypeOK, WriterTypeOK, InspectorTypeOK, ListsRead, PathBound, TracerBounds,
         genVars, Names, LoopsWith
<1>2. \A q \in Tracees : /\ st'[q] = IF q = p THEN s ELSE st[q]
                         /\ why'[q] = IF q = p THEN w ELSE why[q]
                         /\ st[q] # "held"
  BY DEF InspectorInv, TypeOK, InspectorTypeOK, LoopsWith, HeldIsNext
<1>3. \A c : Names("trace", c)' = Names("trace", c)
  BY DEF Names, genVars
<1>4. GrantedIsCall' /\ HeldIsNext'
  BY <1>2 DEF InspectorInv, GrantedIsCall, HeldIsNext, LoopsWith
<1>5. StopsTraced'
  BY <1>2, <1>3 DEF InspectorInv, StopsTraced, genVars
<1> QED BY <1>1, <1>4, <1>5 DEF InspectorInv

(* The tracer ends and takes every tracee along.                           *)
LEMMA TracerEnds ==
  ASSUME InspectorInv, UNCHANGED genVars, pc = "wait", Ends,
         lastPid' \in Tracees, UNCHANGED level,
         jmax' \in 0 .. (JMax + 1), calls' \in 0 .. MaxCalls,
         why' \in [Tracees -> Stops]
  PROVE  InspectorInv'
<1>1. TypeOK' /\ ListsRead' /\ PathBound' /\ TracerBounds'
  BY DEF InspectorInv, TypeOK, WriterTypeOK, InspectorTypeOK, ListsRead, PathBound, TracerBounds,
         genVars, Names, Ends
<1>2. \A q \in Tracees : st'[q] \in {"none", "dead"}
  BY DEF Ends
<1>3. StopsTraced' /\ GrantedIsCall' /\ HeldIsNext'
  BY <1>2 DEF StopsTraced, GrantedIsCall, HeldIsNext
<1> QED BY <1>1, <1>3 DEF InspectorInv

(* The tracer keeps it.                                                    *)
LEMMA TracerStep ==
  ASSUME InspectorInv, Tracer, UNCHANGED genVars
  PROVE  InspectorInv'
<1>1. /\ InspectorTypeOK /\ StopsTraced /\ GrantedIsCall /\ TracerBounds /\ HeldIsNext
      /\ JMax \in Nat /\ MaxCalls \in Nat
  BY InspectorAssumption DEF InspectorInv, TypeOK
<1>2. \A c : Names("trace", c)' = Names("trace", c)
  BY DEF Names, genVars
<1>3. ASSUME InspectorTypeOK', TracerBounds', GrantedIsCall', HeldIsNext', StopsTraced'
      PROVE  InspectorInv'
  BY <1>3 DEF InspectorInv, TypeOK, WriterTypeOK, ListsRead, PathBound, genVars, Names
<1>4. CASE Starts
  <2>1. \A q \in Tracees : st'[q] = (IF q = First THEN "held" ELSE st[q]) /\ why'[q] = why[q]
    BY <1>1, <1>4 DEF Starts, InspectorTypeOK
  <2>2. InspectorTypeOK' /\ TracerBounds'
    BY <1>1, <1>4 DEF Starts, InspectorTypeOK, TracerBounds
  <2>3. \A q \in Tracees : why'[q].call \notin Calls /\ st'[q] # "granted"
    BY <1>1, <1>4, <2>1, InspectorAssumption DEF Starts, TracerBounds, Nothing
  <2>4. HeldIsNext'
    BY <1>1, <1>4, <2>1 DEF Starts, TracerBounds, HeldIsNext
  <2>5. StopsTraced' /\ GrantedIsCall'
    BY <2>3 DEF StopsTraced, GrantedIsCall
  <2> QED BY <1>3, <2>2, <2>4, <2>5
<1>5. CASE Continue
  <2> DEFINE s == IF why[lastPid].call \in Calls THEN "granted" ELSE "running"
  <2>1. \A q \in Tracees : /\ st'[q] = IF q = lastPid /\ st[q] = "held" THEN s ELSE st[q]
                           /\ why'[q] = why[q]
    BY <1>1, <1>5 DEF Continue, InspectorTypeOK
  <2>2. InspectorTypeOK' /\ TracerBounds'
    BY <1>1, <1>5 DEF Continue, InspectorTypeOK, TracerBounds
  <2>3. GrantedIsCall' /\ HeldIsNext'
    BY <1>1, <2>1 DEF GrantedIsCall, HeldIsNext
  <2>4. StopsTraced'
    BY <1>1, <1>2, <2>1 DEF StopsTraced, genVars
  <2> QED BY <1>3, <2>2, <2>3, <2>4
<1>6. ASSUME NEW p \in Tracees, WaitStop(p)
      PROVE  InspectorInv'
  <2>1. why[p] \in Stops /\ why' = [why EXCEPT ![p] = why[p]]
    BY <1>1, <1>6 DEF WaitStop, InspectorTypeOK
  <2>2. jmax \in 0 .. JMax
    BY <1>1, <1>6 DEF WaitStop, InspectorTypeOK, TracerBounds
  <2> QED BY <1>1, <1>6, <2>1, <2>2, TracerTakes DEF WaitStop, InspectorTypeOK
<1>7. ASSUME NEW p \in Tracees, WaitDead(p)
      PROVE  InspectorInv'
  <2>1. why[p] \in Stops /\ why' = [why EXCEPT ![p] = why[p]] /\ why' \in [Tracees -> Stops]
    BY <1>1, <1>7 DEF WaitDead, InspectorTypeOK
  <2>2. jmax' \in 0 .. JMax + 1
    BY <1>1, <1>7 DEF WaitDead, InspectorTypeOK, TracerBounds
  <2>3. CASE jmax' > JMax
    BY <1>1, <1>7, <2>1, <2>2, <2>3, TracerEnds DEF WaitDead, InspectorTypeOK
  <2>4. CASE ~ (jmax' > JMax)
    <3>1. jmax' \in 0 .. JMax
      BY <1>1, <2>2, <2>4
    <3> QED BY <1>1, <1>7, <2>1, <2>4, <3>1, TracerTakes DEF WaitDead, InspectorTypeOK
  <2> QED BY <2>3, <2>4
<1>8. CASE WaitNobody
  BY <1>1, <1>8, TracerEnds DEF WaitNobody, InspectorTypeOK
<1>9. ASSUME NEW p \in Tracees, WaitDenied(p)
      PROVE  InspectorInv'
  BY <1>1, <1>9, TracerEnds DEF WaitDenied, InspectorTypeOK
<1>10. ASSUME NEW p \in Tracees, WaitCall(p)
       PROVE  InspectorInv'
  <2> DEFINE w == [why[p] EXCEPT !.level = level]
  <2>1. /\ w \in Stops /\ w.call = why[p].call /\ w.level = level
        /\ why' = [why EXCEPT ![p] = w]
    BY <1>1, <1>10 DEF WaitCall, InspectorTypeOK, Stops, Made
  <2>2. Names("trace", w.call) /\ (w.level = 1 => w.call \in polMap)
    BY <1>1, <1>10, <2>1 DEF WaitCall, StopsTraced, Denied, Listed
  <2>3. jmax \in 0 .. JMax /\ level' \in 0 .. 1
    BY <1>1, <1>10 DEF WaitCall, InspectorTypeOK, TracerBounds
  <2> HIDE DEF w
  <2> QED BY <1>1, <1>10, <2>1, <2>2, <2>3, TracerTakes DEF WaitCall, InspectorTypeOK
<1>11. ASSUME NEW p \in Tracees, WaitVanished(p)
      PROVE  InspectorInv'
  <2>1. Nothing \in Stops /\ why' = [why EXCEPT ![p] = Nothing] /\ why' \in [Tracees -> Stops]
    BY <1>1, <1>11 DEF WaitVanished, InspectorTypeOK, Nothing, Stops
  <2>2. /\ jmax \in 0 .. JMax /\ calls' \in 0 .. MaxCalls
        /\ pc = "wait" /\ UNCHANGED <<level, jmax>> /\ level \in 0 .. 1
    BY <1>1, <1>11 DEF WaitVanished, InspectorTypeOK, TracerBounds, Counted
  <2>3. CASE level = 1
    BY <1>1, <1>11, <2>1, <2>2, <2>3, TracerEnds DEF WaitVanished
  <2>4. CASE level # 1
    BY <1>1, <1>11, <2>1, <2>2, <2>4, TracerTakes DEF WaitVanished
  <2> QED BY <2>3, <2>4
<1>12. ASSUME NEW p \in Tracees, WaitUnreadable(p)
       PROVE  InspectorInv'
  BY <1>1, <1>12, TracerEnds DEF WaitUnreadable, InspectorTypeOK
<1> QED BY <1>4, <1>5, <1>6, <1>7, <1>8, <1>9, <1>10, <1>11, <1>12 DEF Tracer, Waits

-----------------------------------------------------------------------------
(* InspectorInv holds throughout.                                          *)
LEMMA InspectorInvCorrect == Spec => []InspectorInv
<1>1. InspectorInv /\ [Next]_vars => InspectorInv'
  <2> SUFFICES ASSUME InspectorInv, [Next]_vars PROVE InspectorInv'
    OBVIOUS
  <2>1. CASE UNCHANGED vars
    BY <2>1 DEF vars, genVars, insVars, InspectorInv, TypeOK, WriterTypeOK, InspectorTypeOK,
                ListsRead, PathBound, StopsTraced, GrantedIsCall, TracerBounds, HeldIsNext, Names
  <2> QED BY <2>1, WritesStep, TraceeStep, TracerStep DEF Next
<1> QED BY <1>1, InspectorInit0, PTL DEF Spec

(* The lists, the tracer and the tracees have their types (parse_policy;   *)
(* main of master_inspector.c).                                            *)
THEOREM InspectorTypeCorrect == Spec => []TypeOK
<1>1. InspectorInv => TypeOK
  BY DEF InspectorInv
<1> QED BY <1>1, InspectorInvCorrect, PTL

(* What goes ahead has its line in the file, at level 1 too.               *)
THEOREM GrantsCorrect == Spec => []GrantsListed
<1>1. InspectorInv => GrantsListed
  BY DEF InspectorInv, GrantsListed, GrantedIsCall, StopsTraced, ListsRead
<1> QED BY <1>1, InspectorInvCorrect, PTL

(* The stop that the tracer has reaped is the one it continues next.       *)
THEOREM HeldCorrect == Spec => []HeldIsNext
<1>1. InspectorInv => HeldIsNext
  BY DEF InspectorInv
<1> QED BY <1>1, InspectorInvCorrect, PTL
=============================================================================
