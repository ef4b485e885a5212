--------------------------- MODULE FrontendEvents ---------------------------
(***************************************************************************)
(* The event side of an app partition: the class FE of                     *)
(* app_partition/furnace_frontend.py, which registers events on behalf of  *)
(* the tenant app and runs its main loop.  One thread: the app's code runs *)
(* in its constructor, in the callbacks the loop makes, and in its         *)
(* shutdown(); what it does there is any sequence of API calls.            *)
(*                                                                         *)
(* A call that the API answers by raising an exception gives control back  *)
(* to the app, which may catch the exception or let it escape; an escaping *)
(* exception and exit() (a SystemExit) unwind the loop in the same way, so *)
(* AppExit stands for both.                                                *)
(***************************************************************************)
EXTENDS EventBus

CONSTANTS Api,       \* the API calls apps make outside timer callbacks
          TimerApi,  \* those they make in timer callbacks
          Syncs,     \* the sync arguments they use: TRUE is SYNC
          MaxTid,    \* bound: timer and BE registrations of one app
          MaxCalls   \* bound: API calls in one run of app code

(* clear, clear_stale and clear_syscall are event_clear() of an eid whose  *)
(* entry is active, already INACTIVE, and of the syscall plugin; stop and  *)
(* stop_stale are stop_syscall() of the plugin's eid and of any other.     *)
(* exit and kill are not calls: an app that may exit or be killed.         *)
ApiCalls == {"register", "clear", "clear_stale", "clear_syscall", "clear_timer",
             "timer", "be", "start_syscall", "stop", "stop_stale",
             "events_start", "events_stop", "pause_vm", "resume_vm", "exit", "kill"}

ASSUME FrontendAssumption ==
  /\ Api \subseteq ApiCalls
  /\ TimerApi \subseteq ApiCalls
  /\ Syncs \subseteq BOOLEAN
  /\ MaxTid \in Nat /\ MaxTid <= MaxId + 1
  /\ MaxCalls \in Nat

VARIABLES eventlist, \* eventlist[a]: FE.eventlist
          timerlist, \* timerlist[a]: FE.timerlist
          nextTid,   \* nextTid[a]: FE.next_tid
          beInfo,    \* beInfo[a]: is FE.be_info set?
          pc,        \* pc[a]: where app a's thread is
          held,      \* held[a]: guest_paused of the event being handled
          raised,    \* raised[a]: the loop is unwinding, or is about to
          cleanup,   \* cleanup[a]: cleanup_eids
          cleanupT,  \* cleanupT[a]: cleanup_tids as the timer scan begins
          budget     \* budget[a]: calls left to the running app code

feVars == <<eventlist, timerlist, nextTid, beInfo, pc, held, raised,
            cleanup, cleanupT, budget>>

Entries == [kind : {"trap", "syscall"}, status : {"ACTIVE", "INACTIVE"}, cb : Callbacks]
NoEntry == [kind |-> "none", status |-> "none"]

AppCode == {"init", "event", "be", "timer", "shutdown"}
Places  == AppCode \cup {"poll", "resume", "fac", "scan", "sweep", "dead"}

FrontendTypeOK ==
  /\ eventlist \in [Apps -> [Ids -> Entries \cup {NoEntry}]]
  /\ timerlist \in [Apps -> [Ids -> {"none", "TIMER", "INACTIVE", "BE"}]]
  /\ nextTid \in [Apps -> 0 .. MaxTid]
  /\ beInfo \in [Apps -> BOOLEAN]
  /\ pc \in [Apps -> Places]
  /\ held \in [Apps -> BOOLEAN]
  /\ raised \in [Apps -> BOOLEAN]
  /\ cleanup \in [Apps -> SUBSET Ids]
  /\ cleanupT \in [Apps -> SUBSET Ids]
  /\ budget \in [Apps -> 0 .. MaxCalls]

FrontendInit ==
  /\ eventlist = [a \in Apps |-> [id \in Ids |-> NoEntry]]
  /\ timerlist = [a \in Apps |-> [id \in Ids |-> "none"]]
  /\ nextTid = [a \in Apps |-> 0]
  /\ beInfo = [a \in Apps |-> FALSE]
  /\ pc = [a \in Apps |-> "init"]
  /\ held = [a \in Apps |-> FALSE]
  /\ raised = [a \in Apps |-> FALSE]
  /\ cleanup = [a \in Apps |-> {}]
  /\ cleanupT = [a \in Apps |-> {}]
  /\ budget = [a \in Apps |-> MaxCalls]

-----------------------------------------------------------------------------
(* API calls.                                                              *)

(* App a's code runs and may make API call c.                              *)
Running(a) == pc[a] \in AppCode /\ stage[a] = "idle"

Calling(a, c) ==
  /\ Running(a)
  /\ budget[a] > 0
  /\ c \in (IF pc[a] = "timer" THEN TimerApi ELSE Api)
  /\ budget' = [budget EXCEPT ![a] = @ - 1]
  /\ UNCHANGED <<pc, held, cleanup, cleanupT>>

Ask(a, call) ==
  /\ SendRequest(a, call)
  /\ UNCHANGED <<eventlist, timerlist, nextTid, beInfo, raised>>

(* event_register of a REG or INT event, and start_syscall.                *)
RegisterEvent(a) ==
  /\ Calling(a, "register")
  /\ \E sync \in Syncs, cb \in Callbacks :
       Ask(a, [op |-> "EVENT_REGISTER", sync |-> sync, cb |-> cb])

AskStartSyscall(a) ==
  /\ Calling(a, "start_syscall")
  /\ \E sync \in Syncs, cb \in Callbacks :
       Ask(a, [op |-> "START_SYSCALL", sync |-> sync, cb |-> cb])

(* event_register of a TIMER or of the BE source: kept in the frontend.  A *)
(* new key in timerlist makes the loop's iteration over it raise when the  *)
(* timer callback returns.                                                 *)
RegisterLocal(a, c, kind) ==
  /\ Calling(a, c)
  /\ nextTid[a] < MaxTid
  /\ timerlist' = [timerlist EXCEPT ![a][nextTid[a]] = kind]
  /\ nextTid' = [nextTid EXCEPT ![a] = @ + 1]
  /\ beInfo' = [beInfo EXCEPT ![a] = @ \/ kind = "BE"]
  /\ raised' = [raised EXCEPT ![a] = @ \/ pc[a] = "timer"]
  /\ UNCHANGED eventlist
  /\ UNCHANGED busVars

RegisterTimer(a) == RegisterLocal(a, "timer", "TIMER")
RegisterBe(a)    == RegisterLocal(a, "be", "BE")

(* Mutant: a number that is not in eventlist is sent all the same.         *)
ClearUnlooked(a, n) == Ask(a, [op |-> "EVENT_CLEAR", id |-> n])

(* event_clear: the number is looked up in eventlist first, then in        *)
(* timerlist.  Clearing the BE source, and an unknown number, raise.       *)
ClearNumber(a, n) ==
  \/ /\ eventlist[a][n] # NoEntry
     /\ Ask(a, [op |-> "EVENT_CLEAR", id |-> n])
  \/ /\ eventlist[a][n] = NoEntry
     /\ timerlist' = [timerlist EXCEPT ![a][n] =
          IF @ = "TIMER" THEN "INACTIVE" ELSE @]
     /\ UNCHANGED <<eventlist, nextTid, beInfo, raised>>
     /\ UNCHANGED busVars

(* What clearing the event id amounts to.                                  *)
ClearCase(a, id) ==
  IF eventlist[a][id].status # "ACTIVE" THEN "clear_stale"
  ELSE IF eventlist[a][id].kind = "syscall" THEN "clear_syscall" ELSE "clear"

(* The app passes an eid it was given.                                     *)
ClearEvent(a, id) ==
  /\ eventlist[a][id] # NoEntry
  /\ Calling(a, ClearCase(a, id))
  /\ ClearNumber(a, id)

(* The app passes a tid it was given.                                      *)
ClearTimer(a, tid) ==
  /\ timerlist[a][tid] # "none"
  /\ Calling(a, "clear_timer")
  /\ ClearNumber(a, tid)

(* stop_syscall: any number in eventlist will do.                          *)
AskStopSyscall(a, id) ==
  /\ eventlist[a][id] # NoEntry
  /\ Calling(a, IF /\ eventlist[a][id].kind = "syscall"
                   /\ eventlist[a][id].status = "ACTIVE"
                THEN "stop" ELSE "stop_stale")
  /\ Ask(a, [op |-> "STOP_SYSCALL", id |-> id])

(* events_start, events_stop, pause_vm and resume_vm.                      *)
AskEventsStart(a) == Calling(a, "events_start") /\ Ask(a, [op |-> "EVENTS_START"])
AskEventsStop(a)  == Calling(a, "events_stop") /\ Ask(a, [op |-> "EVENTS_STOP"])
AskPause(a)       == Calling(a, "pause_vm") /\ Ask(a, [op |-> "PAUSE_VM"])
AskResume(a)      == Calling(a, "resume_vm") /\ Ask(a, [op |-> "RESUME_VM"])

ApiCall(a) ==
  \/ RegisterEvent(a)
  \/ AskStartSyscall(a)
  \/ RegisterTimer(a)
  \/ RegisterBe(a)
  \/ \E id \in Ids : ClearEvent(a, id)
  \/ \E tid \in Ids : ClearTimer(a, tid)
  \/ \E id \in Ids : AskStopSyscall(a, id)
  \/ AskEventsStart(a) \/ AskEventsStop(a)
  \/ AskPause(a) \/ AskResume(a)

-----------------------------------------------------------------------------
(* The rest of a call, once the reply is there.                            *)

(* Mutant: a registration is entered without a look at the status.         *)
RecordedAnyway(a, call, reply) ==
  CASE call.op = "EVENT_REGISTER" ->
         [eventlist[a] EXCEPT ![reply.id] =
            [kind |-> "trap", status |-> "ACTIVE", cb |-> call.cb]]
    [] call.op = "START_SYSCALL" ->
         [eventlist[a] EXCEPT ![reply.id] =
            [kind |-> "syscall", status |-> "ACTIVE", cb |-> call.cb]]
    [] call.op \in {"EVENT_CLEAR", "STOP_SYSCALL"} ->
         [eventlist[a] EXCEPT ![call.id].status = "INACTIVE"]
    [] OTHER -> eventlist[a]

(* eventlist after the reply: a registration enters the candidate under    *)
(* the id VMI chose, a removal marks the entry of the id it was given.     *)
Recorded(a, call, reply) ==
  IF ~ reply.ok THEN eventlist[a]
  ELSE CASE call.op = "EVENT_REGISTER" ->
              [eventlist[a] EXCEPT ![reply.id] =
                 [kind |-> "trap", status |-> "ACTIVE", cb |-> call.cb]]
         [] call.op = "START_SYSCALL" ->
              [eventlist[a] EXCEPT ![reply.id] =
                 [kind |-> "syscall", status |-> "ACTIVE", cb |-> call.cb]]
         [] call.op \in {"EVENT_CLEAR", "STOP_SYSCALL"} ->
              [eventlist[a] EXCEPT ![call.id].status = "INACTIVE"]
         [] OTHER -> eventlist[a]

CallReturns(a) ==
  /\ pc[a] \in AppCode
  /\ TakeReply(a)
  /\ eventlist' = [eventlist EXCEPT ![a] = Recorded(a, req[a], rep[a])]
  /\ UNCHANGED <<timerlist, nextTid, beInfo, pc, held, raised, cleanup, cleanupT, budget>>

-----------------------------------------------------------------------------
(* The main loop.                                                          *)

Goto(a, place) ==
  /\ pc' = [pc EXCEPT ![a] = place]
  /\ budget' = [budget EXCEPT ![a] = IF place \in AppCode THEN MaxCalls ELSE 0]

(* post_app_init, when the constructor has returned: at most one BE source *)
InitReturns(a) ==
  /\ pc[a] = "init" /\ Running(a)
  /\ LET be == {tid \in Ids : timerlist[a][tid] = "BE"}
     IN  Goto(a, IF Cardinality(be) > 1 THEN "shutdown" ELSE "poll")
  /\ UNCHANGED <<eventlist, timerlist, nextTid, beInfo, held, raised, cleanup, cleanupT>>
  /\ UNCHANGED busVars

(* Mutant: an unknown id skips the finally clause.                         *)
PollForgets(a) ==
  /\ pc[a] = "poll"
  /\ \/ /\ dealer[a] = <<>>
        /\ Goto(a, "fac")
        /\ UNCHANGED held
        /\ UNCHANGED busVars
     \/ /\ dealer[a] # <<>>
        /\ LET msg == Head(dealer[a])
               known == eventlist[a][msg.id] # NoEntry
           IN  /\ held' = [held EXCEPT ![a] = msg.paused /\ known]
               /\ Goto(a, IF known THEN "event" ELSE "fac")
        /\ dealer' = [dealer EXCEPT ![a] = Tail(@)]
        /\ UNCHANGED <<connected, req, stage, rep, zmqfd>>
  /\ UNCHANGED <<eventlist, timerlist, nextTid, beInfo, raised, cleanup, cleanupT>>

(* poll() and the dealer_vmi branch: an event whose id is unknown goes     *)
(* straight to the finally clause.                                         *)
Poll(a) ==
  /\ pc[a] = "poll"
  /\ \/ /\ dealer[a] = <<>>
        /\ Goto(a, "fac")
        /\ UNCHANGED held
        /\ UNCHANGED busVars
     \/ /\ dealer[a] # <<>>
        /\ LET msg == Head(dealer[a])
           IN  /\ held' = [held EXCEPT ![a] = msg.paused]
               /\ Goto(a, IF eventlist[a][msg.id] # NoEntry THEN "event"
                          ELSE IF msg.paused THEN "resume" ELSE "fac")
        /\ dealer' = [dealer EXCEPT ![a] = Tail(@)]
        /\ UNCHANGED <<connected, req, stage, rep, zmqfd>>
  /\ UNCHANGED <<eventlist, timerlist, nextTid, beInfo, raised, cleanup, cleanupT>>

(* Mutant: the finally clause resumes the guest after ASYNC events too.    *)
EventAlwaysResumes(a) ==
  /\ pc[a] = "event" /\ Running(a)
  /\ Goto(a, "resume")
  /\ UNCHANGED <<eventlist, timerlist, nextTid, beInfo, held, raised, cleanup, cleanupT>>
  /\ UNCHANGED busVars

(* The event callback returns, and the finally clause follows.             *)
EventReturns(a) ==
  /\ pc[a] = "event" /\ Running(a)
  /\ Goto(a, IF held[a] THEN "resume" ELSE "fac")
  /\ UNCHANGED <<eventlist, timerlist, nextTid, beInfo, held, raised, cleanup, cleanupT>>
  /\ UNCHANGED busVars

(* The finally clause: resume_vm() for an event that paused the guest.     *)
ResumeSends(a) ==
  /\ pc[a] = "resume" /\ stage[a] = "idle"
  /\ SendRequest(a, [op |-> "RESUME_VM"])
  /\ UNCHANGED feVars

ResumeReturns(a) ==
  /\ pc[a] = "resume"
  /\ TakeReply(a)
  /\ held' = [held EXCEPT ![a] = FALSE]
  /\ Goto(a, IF raised[a] THEN "shutdown" ELSE "fac")
  /\ UNCHANGED <<eventlist, timerlist, nextTid, beInfo, raised, cleanup, cleanupT>>

(* The sub_fac and dealer_fac branches: both call the BE callback, if the  *)
(* app has one and messages are there.                                     *)
Fac(a) ==
  /\ pc[a] = "fac"
  /\ \/ beInfo[a] /\ Goto(a, "be")
     \/ Goto(a, "scan")
  /\ UNCHANGED <<eventlist, timerlist, nextTid, beInfo, held, raised, cleanup, cleanupT>>
  /\ UNCHANGED busVars

BeReturns(a) ==
  /\ pc[a] = "be" /\ Running(a)
  /\ Goto(a, "scan")
  /\ UNCHANGED <<eventlist, timerlist, nextTid, beInfo, held, raised, cleanup, cleanupT>>
  /\ UNCHANGED busVars

(* The scan of eventlist, and of timerlist up to the callbacks of the      *)
(* timers that are due.                                                    *)
Scan(a) ==
  /\ pc[a] = "scan"
  /\ cleanup' = [cleanup EXCEPT ![a] = {id \in Ids : eventlist[a][id].status = "INACTIVE"}]
  /\ cleanupT' = [cleanupT EXCEPT ![a] = {tid \in Ids : timerlist[a][tid] = "INACTIVE"}]
  /\ \/ /\ \E tid \in Ids : timerlist[a][tid] = "TIMER"
        /\ Goto(a, "timer")
     \/ Goto(a, "sweep")
  /\ UNCHANGED <<eventlist, timerlist, nextTid, beInfo, held, raised>>
  /\ UNCHANGED busVars

(* The timer callbacks return: "dictionary changed size during iteration"  *)
(* if one of them registered a timer or a BE source.                       *)
TimerReturns(a) ==
  /\ pc[a] = "timer" /\ Running(a)
  /\ Goto(a, IF raised[a] THEN "shutdown" ELSE "sweep")
  /\ UNCHANGED <<eventlist, timerlist, nextTid, beInfo, held, raised, cleanup, cleanupT>>
  /\ UNCHANGED busVars

(* The two deletion loops.  A tid that a timer callback made INACTIVE is   *)
(* deleted now if the scan came to it after that, else on the next turn.   *)
Sweep(a) ==
  /\ pc[a] = "sweep"
  /\ eventlist' = [eventlist EXCEPT ![a] =
       [id \in Ids |-> IF id \in cleanup[a] THEN NoEntry ELSE @[id]]]
  /\ \E late \in SUBSET {tid \in Ids : timerlist[a][tid] = "INACTIVE"} :
       timerlist' = [timerlist EXCEPT ![a] =
         [tid \in Ids |-> IF tid \in cleanupT[a] \cup late THEN "none" ELSE @[tid]]]
  /\ cleanup' = [cleanup EXCEPT ![a] = {}]
  /\ cleanupT' = [cleanupT EXCEPT ![a] = {}]
  /\ Goto(a, "poll")
  /\ UNCHANGED <<nextTid, beInfo, held, raised>>
  /\ UNCHANGED busVars

-----------------------------------------------------------------------------
(* The end of the process.                                                 *)

(* exit() or an exception that escapes from app code: an event callback's  *)
(* finally clause still runs; then atexit runs FE.shutdown, which calls    *)
(* the app's shutdown() unless the app was never constructed.              *)
AppExit(a) ==
  /\ Running(a) /\ pc[a] # "shutdown"
  /\ "exit" \in Api
  /\ raised' = [raised EXCEPT ![a] = TRUE]
  /\ Goto(a, CASE pc[a] = "init" -> "dead"
               [] pc[a] = "event" /\ held[a] -> "resume"
               [] OTHER -> "shutdown")
  /\ IF pc[a] = "init" THEN Disconnect(a) ELSE UNCHANGED busVars
  /\ UNCHANGED <<eventlist, timerlist, nextTid, beInfo, held, cleanup, cleanupT>>

ShutdownReturns(a) ==
  /\ pc[a] = "shutdown" /\ Running(a)
  /\ Goto(a, "dead")
  /\ Disconnect(a)
  /\ UNCHANGED <<eventlist, timerlist, nextTid, beInfo, held, raised, cleanup, cleanupT>>

(* A signal: FurnaceRuntime installs no handler, so there is no finally    *)
(* clause and no atexit.                                                   *)
Killed(a) ==
  /\ "kill" \in Api
  /\ pc[a] # "dead"
  /\ Goto(a, "dead")
  /\ Disconnect(a)
  /\ UNCHANGED <<eventlist, timerlist, nextTid, beInfo, held, raised, cleanup, cleanupT>>

-----------------------------------------------------------------------------
(* What the frontend's thread does by itself, whatever the app calls.      *)
LoopStep(a) ==
  \/ CallReturns(a)
  \/ InitReturns(a)
  \/ Poll(a)
  \/ EventReturns(a)
  \/ ResumeSends(a)
  \/ ResumeReturns(a)
  \/ Fac(a)
  \/ BeReturns(a)
  \/ Scan(a)
  \/ TimerReturns(a)
  \/ Sweep(a)
  \/ ShutdownReturns(a)
=============================================================================
