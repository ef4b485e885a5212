-------------------------- MODULE SyscallInspector --------------------------
(***************************************************************************)
(* The inspector that a policy file becomes (master_inspector.c): a tracer *)
(* that confines one partition.  Seccomp lets the ALLOW calls of a tracee  *)
(* pass, stops it at a traced call and kills it at any other.  The tracer  *)
(* reaps one stop at a time, looks at the call and lets the tracee go on   *)
(* at the top of its loop, or ends, and PTRACE_O_EXITKILL takes every      *)
(* tracee along.  Opening "ESTABLISHED" turns the policy to level 1.       *)
(***************************************************************************)
EXTENDS PolicyWriter

CONSTANTS Tracees,  \* processes and threads of the partition
          First,    \* the one that the tracer forks
          Paths,    \* what open is called with, "ESTABLISHED" among them
          Matched,  \* the paths that the test written for an item lets pass
          JMax,     \* 10 in the code
          MaxCalls  \* bound: calls, signals and kills of the whole partition

ASSUME InspectorAssumption ==
  /\ First \in Tracees
  /\ "ESTABLISHED" \in Paths
  /\ Matched \in [Items -> SUBSET Paths]
  /\ "signal" \notin Calls /\ "event" \notin Calls
  /\ JMax \in Nat /\ MaxCalls \in Nat

NoArg == "-"
ASSUME NoArgAssumption == NoArg \notin Paths

VARIABLES pc,      \* the tracer: "off", "cont", "wait", "ended"
          level,   \* policy_level
          lastPid, \* last_pid
          jmax,    \* exits seen
          st,      \* each tracee
          why,     \* the call it is stopped at or runs, "signal" or "event", and
           \* the level at which the tracer looked at it
          calls    \* calls so far, for the bound

insVars == <<pc, level, lastPid, jmax, st, why, calls>>

Made == [call : Calls, arg : Paths \cup {NoArg}, level : 0 .. 1]
Stops == Made \cup [call : {"signal", "event"}, arg : {NoArg}, level : 0 .. 1]

(* "exited" and "killed" are dead but not yet reaped.                      *)
InspectorTypeOK ==
  /\ pc \in {"off", "cont", "wait", "ended"}
  /\ level \in 0 .. 1
  /\ lastPid \in Tracees
  /\ jmax \in 0 .. (JMax + 1)
  /\ st \in [Tracees -> {"none", "running", "stopped", "held", "granted", "exited", "killed", "dead"}]
  /\ why \in [Tracees -> Stops]
  /\ calls \in 0 .. MaxCalls

Nothing == [call |-> "signal", arg |-> NoArg, level |-> 0]
Event == [Nothing EXCEPT !.call = "event"]

InspectorInit ==
  /\ pc = "off"
  /\ level = 0
  /\ lastPid = First
  /\ jmax = 0
  /\ st = [p \in Tracees |-> "none"]
  /\ why = [p \in Tracees |-> Nothing]
  /\ calls = 0

(* The fork, the child's filter and its SIGSTOP, which the tracer reaps.   *)
Starts ==
  /\ pc = "off"
  /\ genPc = "built"
  /\ pc' = "cont"
  /\ st' = [st EXCEPT ![First] = "held"]
  /\ UNCHANGED <<level, lastPid, jmax, why, calls>>

-----------------------------------------------------------------------------
(* The tracees, and seccomp.                                               *)

Alive(p) == st[p] \in {"running", "stopped", "held", "granted"}

Counted == calls < MaxCalls /\ calls' = calls + 1

StopsAt(p, what) ==
  /\ st' = [st EXCEPT ![p] = "stopped"]
  /\ why' = [why EXCEPT ![p] = what]

(* A call that the filter has a TRACE rule for.                            *)
CallStops(p, call, arg) ==
  /\ pc # "ended" /\ st[p] = "running" /\ Counted
  /\ call \in TraceRules
  /\ StopsAt(p, [call |-> call, arg |-> arg, level |-> 0])
  /\ UNCHANGED <<pc, level, lastPid, jmax>>

(* A call with no rule at all: SCMP_ACT_KILL.                              *)
CallKills(p, call, arg) ==
  /\ pc # "ended" /\ st[p] = "running" /\ Counted
  /\ call \notin TraceRules \cup allow
  /\ st' = [st EXCEPT ![p] = "killed"]
  /\ why' = [why EXCEPT ![p] = [call |-> call, arg |-> arg, level |-> 0]]
  /\ UNCHANGED <<pc, level, lastPid, jmax>>

Signalled(p) ==
  /\ pc # "ended" /\ st[p] = "running" /\ Counted
  /\ StopsAt(p, Nothing)
  /\ UNCHANGED <<pc, level, lastPid, jmax>>

(* A SIGKILL, or exit_group of another thread.                             *)
Killed(p) ==
  /\ pc # "ended" /\ Alive(p) /\ Counted
  /\ st' = [st EXCEPT ![p] = "killed"]
  /\ why' = [why EXCEPT ![p] = Nothing]
  /\ UNCHANGED <<pc, level, lastPid, jmax>>

Executed(p, call) ==
  /\ pc # "ended" /\ st[p] = "granted" /\ why[p].call = call
  /\ UNCHANGED <<pc, level, lastPid, jmax, calls>>

(* The new tracee is attached, and stopped, from its first instruction.    *)
Clones(p, q) ==
  /\ Executed(p, "clone")
  /\ st[q] = "none"
  /\ st' = [st EXCEPT ![p] = "stopped", ![q] = "stopped"]
  /\ why' = [why EXCEPT ![p] = Event, ![q] = Nothing]

Exits(p) ==
  /\ Executed(p, "exit")
  /\ st' = [st EXCEPT ![p] = "exited"]
  /\ why' = [why EXCEPT ![p] = Nothing]

Returns(p) ==
  /\ Executed(p, why[p].call)
  /\ why[p].call # "exit"
  /\ why[p].call = "clone" => \A q \in Tracees : st[q] # "none"
  /\ st' = [st EXCEPT ![p] = "running"]
  /\ why' = [why EXCEPT ![p] = Nothing]

-----------------------------------------------------------------------------
(* The tracer.                                                             *)

(* Mutant: the tracer continues the child it forked, whoever was reaped.   *)
ContinueFirst ==
  /\ pc = "cont"
  /\ pc' = "wait"
  /\ st' = IF st[First] = "held"
           THEN [st EXCEPT ![First] = IF why[First].call \in Calls THEN "granted" ELSE "running"]
           ELSE st
  /\ UNCHANGED <<level, lastPid, jmax, why, calls>>

(* ptrace(PTRACE_CONT, last_pid): a call it was stopped at goes ahead.     *)
Continue ==
  /\ pc = "cont"
  /\ pc' = "wait"
  /\ st' = IF st[lastPid] = "held"
           THEN [st EXCEPT ![lastPid] = IF why[lastPid].call \in Calls THEN "granted" ELSE "running"]
           ELSE st
  /\ UNCHANGED <<level, lastPid, jmax, why, calls>>

Ends ==
  /\ pc' = "ended"
  /\ st' = [p \in Tracees |-> IF st[p] = "none" THEN "none" ELSE "dead"]

LoopsWith(p, s) ==
  /\ pc' = "cont"
  /\ lastPid' = p
  /\ st' = [st EXCEPT ![p] = s]

(* waitpid(-1) reaps any tracee that has something to report.              *)
WaitStop(p) ==
  /\ pc = "wait" /\ st[p] = "stopped"
  /\ why[p].call \notin Calls
  /\ LoopsWith(p, "held")
  /\ UNCHANGED <<level, jmax, why, calls>>

WaitDead(p) ==
  /\ pc = "wait" /\ st[p] \in {"exited", "killed"}
  /\ jmax' = IF st[p] = "exited" THEN jmax + 1 ELSE jmax
  /\ IF jmax' > JMax THEN Ends /\ lastPid' = p ELSE LoopsWith(p, "dead")
  /\ UNCHANGED <<level, why, calls>>

(* Nobody is left to wait for.                                             *)
WaitNobody ==
  /\ pc = "wait"
  /\ \A p \in Tracees : st[p] \in {"none", "dead"}
  /\ Ends
  /\ UNCHANGED <<level, lastPid, jmax, why, calls>>

(* Mutant: level 1 would look the call up among the traced ones.           *)
ListedTraced(call) == call \in TraceRules

Listed(call) == call \in polMap

(* read_reg_string is called for open and for a traced call with a PTR.    *)
ReadsString(call) ==
  call = "open" \/ \E i \in Cases : traced[i].call = call /\ traced[i].reg = "PTR"

OpenListed(arg) == \E i \in open : arg \in Matched[i]

Denied(call, arg) ==
  /\ level = 1
  /\ ~Listed(call) \/ (call = "open" /\ ~OpenListed(arg))

(* A call that is disallowed ends the tracer.                              *)
WaitDenied(p) ==
  /\ pc = "wait" /\ st[p] = "stopped" /\ why[p].call \in Calls
  /\ Denied(why[p].call, why[p].arg)
  /\ Ends
  /\ lastPid' = p
  /\ UNCHANGED <<level, jmax, why, calls>>

(* So does a pointer that cannot be read, at level 1 of a listed call.     *)
WaitUnreadable(p) ==
  /\ pc = "wait" /\ st[p] = "stopped" /\ why[p].call \in Calls
  /\ ReadsString(why[p].call)
  /\ level = 1 => Listed(why[p].call)
  /\ Ends
  /\ lastPid' = p
  /\ UNCHANGED <<level, jmax, why, calls>>

Establishes(call, arg) == level = 0 /\ call = "open" /\ arg = "ESTABLISHED"

WaitCall(p) ==
  /\ pc = "wait" /\ st[p] = "stopped" /\ why[p].call \in Calls
  /\ ~Denied(why[p].call, why[p].arg)
  /\ LoopsWith(p, "held")
  /\ level' = IF Establishes(why[p].call, why[p].arg) THEN 1 ELSE level
  /\ why' = [why EXCEPT ![p].level = level]
  /\ UNCHANGED <<jmax, calls>>

(* A tracee that is killed after it was reaped: ORIG_RAX reads as -1, a    *)
(* call that is in no map.                                                 *)
WaitVanished(p) ==
  /\ pc = "wait" /\ st[p] = "stopped" /\ why[p].call \in Calls /\ Counted
  /\ IF level = 1 THEN Ends /\ lastPid' = p ELSE LoopsWith(p, "killed")
  /\ why' = [why EXCEPT ![p] = Nothing]
  /\ UNCHANGED <<level, jmax>>

-----------------------------------------------------------------------------
(* The whole: a policy is written, compiled and then confines a partition. *)

vars == <<genVars, insVars>>

Init == WriterInit /\ InspectorInit

Writes == WriterNext /\ UNCHANGED insVars

Args(call) == IF call = "open" THEN Paths ELSE {NoArg}

TraceeNext ==
  \E p \in Tracees :
     \/ \E call \in Calls : \E arg \in Args(call) : CallStops(p, call, arg) \/ CallKills(p, call, arg)
     \/ Signalled(p)
     \/ Killed(p)
     \/ \E q \in Tracees : Clones(p, q)
     \/ Exits(p)
     \/ Returns(p)

Waits(p) == WaitStop(p) \/ WaitDead(p) \/ WaitDenied(p) \/ WaitUnreadable(p) \/ WaitCall(p)
            \/ WaitVanished(p)

Tracer ==
  \/ Starts
  \/ Continue
  \/ \E p \in Tracees : Waits(p)
  \/ WaitNobody

Next == Writes \/ ((TraceeNext \/ Tracer) /\ UNCHANGED genVars)

Spec == Init /\ [][Next]_vars

(* The tracer is one loop that only ever blocks in waitpid.                *)
FairSpec == Spec /\ WF_vars(Tracer /\ UNCHANGED genVars)

-----------------------------------------------------------------------------
(* Properties.                                                             *)

TypeOK == WriterTypeOK /\ InspectorTypeOK

Names(op, call) == \E i \in DOMAIN file : file[i].op = op /\ file[i].call = call

(* "implicit deny": a call that the tracer lets go ahead has an A TRACE    *)
(* line and, from the switch to level 1 on, a 1 TRACE line of its own      *)
(* (parse_policy, main of policy_writer.py, the map of master_inspector.c).*)
GrantsListed ==
  \A p \in Tracees : st[p] = "granted" =>
     /\ Names("trace", why[p].call)
     /\ why[p].level = 1 => Names("map", why[p].call)

(* app.policy: "any match of the items inside {} is pass (OR)".  At level  *)
(* 1 the tracer does not turn down an open of a path that an entry of an   *)
(* open block of the file lets pass.                                       *)
Passes(arg) ==
  \E i \in DOMAIN file :
    /\ file[i].op = "open"
    /\ \E k \in Named(file[i].items) : arg \in Matched[file[i].items[k]]

OpensPass ==
  [][\A p \in Tracees : WaitDenied(p) => ~ (why[p].call = "open" /\ Passes(why[p].arg))]_vars

(* The tracer never leaves behind a tracee that it has reaped: the one     *)
(* stop it has taken from waitpid is the one it continues next.            *)
HeldIsNext == \A p \in Tracees : st[p] = "held" => p = lastPid /\ pc = "cont"

(* Every stop is answered: the tracee goes on, or it is dead.              *)
StopsAnswered == \A p \in Tracees : st[p] \in {"stopped", "held"} ~> st[p] \notin {"stopped", "held"}
=============================================================================
