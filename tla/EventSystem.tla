---------------------------- MODULE EventSystem ----------------------------
(***************************************************************************)
(* App frontends and the VMI partition composed: the guest's traps, the    *)
(* VMI partition's callbacks and handlers, and every frontend's thread     *)
(* interleave; a frontend blocked in a call is the only thing that waits.  *)
(***************************************************************************)
EXTENDS VmiEvents, FrontendEvents

CONSTANT PauseBound  \* bound: no pause_vm call at a pause count this high

ASSUME PauseBoundAssumption == PauseBound \in Nat

vars == <<busVars, vmiVars, feVars>>

Init == BusInit /\ VmiInit /\ FrontendInit

(* One step of the VMI partition's thread for app a.                       *)
Serve(a) == VmiServe(a) /\ UNCHANGED feVars

(* One step of the VMI partition's thread for the guest.                   *)
Callback(v) == (TrapCallback(v) \/ SyscallCallback(v)) /\ UNCHANGED feVars

(* The frontend's thread: the main loop by itself, or the app's code.      *)
Loop(a) == LoopStep(a) /\ UNCHANGED vmiVars

App(a) ==
  /\ ApiCall(a) \/ AppExit(a) \/ Killed(a)
  /\ req'[a] = [op |-> "PAUSE_VM"] => pauses < PauseBound
  /\ UNCHANGED vmiVars

Guest(v) == GuestTrap(v) /\ UNCHANGED feVars

Next ==
  \/ \E a \in Apps : Serve(a) \/ Loop(a) \/ App(a)
  \/ \E v \in Vcpus : Callback(v) \/ Guest(v)

Spec == Init /\ [][Next]_vars

(* The frontends' threads run, their app code returns, and the VMI         *)
(* partition's thread gets to the requests (process_zmq reads the ROUTER   *)
(* until it is empty, which fair-queues its peers) and to the events.      *)
(* Nothing makes an app call, an app die or the guest run into a trap.     *)
Fairness ==
  /\ \A a \in Apps : WF_vars(Loop(a)) /\ WF_vars(Serve(a))
  /\ \A v \in Vcpus : WF_vars(Callback(v))

FairSpec == Spec /\ Fairness

-----------------------------------------------------------------------------
(* The state has the types its components declare.                         *)
TypeOK == BusTypeOK /\ VmiTypeOK /\ FrontendTypeOK

-----------------------------------------------------------------------------
(* Pausing and resuming the guest.                                         *)

(* The resumes that app a still owes: one for each event that paused the   *)
(* guest and waits in its DEALER socket, under its place there, and one,   *)
(* under 0, for the event it handles until the VMI partition has served    *)
(* the finally clause's resume_vm.                                         *)
OwedBy(a) ==
  {i \in DOMAIN dealer[a] : dealer[a][i].paused}
  \cup {i \in {0} : held[a] /\ ~ (pc[a] = "resume" /\ stage[a] = "replied")}

Owed == UNION {{a} \X OwedBy(a) : a \in connected}

(* Where apps leave resume_vm alone, the guest's pause count covers every  *)
(* event that paused it and is not yet handled, so no resume ever lets the *)
(* guest run under a SYNC callback of another event or of another app      *)
(* (loop's finally clause, furnace_*_callback's drakvuf_pause).            *)
PauseCovers == pauses >= Cardinality(Owed)

(* And where they leave pause_vm alone too, the count holds nothing else,  *)
(* unless an app has died or a message was dropped.                        *)
PauseBalance ==
  /\ PauseCovers
  /\ connected = Apps => pauses = Cardinality(Owed)

(* A request waits in the ROUTER and nothing will look at it: a send has   *)
(* consumed the edge of ZMQ_FD.                                            *)
Unwoken == zmqfd = "idle" /\ \E a \in Apps : stage[a] = "sent"

(* An event that paused the guest does get it running again, if the        *)
(* frontends stay alive: loop's finally clause is reached for every event, *)
(* known or not, and its resume_vm is served, unless a request is left     *)
(* unread for ever.                                                        *)
GuestResumes == <>[]Unwoken \/ (pauses > 0 ~> pauses = 0)

-----------------------------------------------------------------------------
(* The event map of the VMI partition and the frontends' eventlists.       *)

(* The entry of id in app a's eventlist is the active record of the VMI    *)
(* partition's event id.                                                   *)
Tracks(a, id) ==
  /\ eventlist[a][id].status = "ACTIVE"
  /\ events[id] # NoEvent
  /\ events[id].owner = a
  /\ events[id].kind = eventlist[a][id].kind
  /\ events[id].cb = eventlist[a][id].cb

Answered(a, ops) == stage[a] = "replied" /\ rep[a].ok /\ req[a].op \in ops

(* The id that app a is about to enter in its eventlist.                   *)
Entering(a, id) ==
  /\ Answered(a, {"EVENT_REGISTER", "START_SYSCALL"})
  /\ rep[a].id = id
  /\ events[id].cb = req[a].cb
  /\ events[id].kind = IF req[a].op = "EVENT_REGISTER" THEN "trap" ELSE "syscall"

(* The id that app a is about to mark INACTIVE.                            *)
Leaving(a, id) ==
  Answered(a, {"EVENT_CLEAR", "STOP_SYSCALL"}) /\ req[a].id = id

(* Every event the VMI partition holds for a live app is in that app's     *)
(* eventlist with its callback, so the app can clear it and hears of it;   *)
(* and every active entry of an eventlist is an event the VMI partition    *)
(* holds for that app.  Only a call whose answer is in flight may be in    *)
(* between (FE.event_register, FE.event_clear and the deletion loops of    *)
(* loop against process_event_register, process_event_clear, add_event).   *)
RegistryAgreement ==
  \A a \in connected, id \in Ids :
    /\ Present(id) /\ events[id].owner = a => Tracks(a, id) \/ Entering(a, id)
    /\ eventlist[a][id].status = "ACTIVE" => Tracks(a, id) \/ Leaving(a, id)

(* While the syscall plugin runs, its event is in the map under its id and *)
(* owner: otherwise the assert of process_stop_syscall aborts the process, *)
(* and no event but the plugin's is ever a syscall event.                  *)
PluginAgreement ==
  /\ plugin # NoPlugin =>
       /\ events[plugin.id] # NoEvent
       /\ events[plugin.id].kind = "syscall"
       /\ events[plugin.id].owner = plugin.owner
  /\ \A id \in Ids : events[id].kind = "syscall" => plugin # NoPlugin /\ plugin.id = id

(* max_events bounds the map, but start_syscall does not look at it: one   *)
(* event more is the most that can be there.                               *)
EventCapacity == Cardinality(PresentIds) <= MaxEvents + 1

(* App a's call to remove event id is the one this step serves.            *)
ServedRemoval(a, id) ==
  /\ stage[a] = "sent" /\ stage'[a] # "sent"
  /\ req[a].op \in {"EVENT_CLEAR", "STOP_SYSCALL"}
  /\ req[a].id = id

(* An event leaves the map only when a call of its owner's is served that  *)
(* names it, if the apps clear and stop only what is active in their       *)
(* eventlists: ids are reused at once, and neither handler looks at the    *)
(* owner; STOP_SYSCALL does not even carry the id.                         *)
OnlyOwnerRemoves ==
  [][\A id \in Ids :
       events[id] # NoEvent /\ events'[id] # events[id]
         => ServedRemoval(events[id].owner, id)]_vars

(* Whatever the apps do, the one call that ends the VMI partition is an    *)
(* event_clear of the running syscall plugin's id: no order of register,   *)
(* clear, start and stop makes the assert of process_stop_syscall fail.    *)
(* start_syscall's documentation offers that id for clearing all the same  *)
(* (furnace_frontend.py:933): its event_item has a NULL trap, which        *)
(* event_clear hands to drakvuf_remove_trap (furnace.cpp:831, 3141).       *)
OnlyClearEndsVmi ==
  [][vmiUp /\ ~ vmiUp'
       => \E a \in Apps :
            /\ stage[a] = "sent"
            /\ req[a].op = "EVENT_CLEAR"
            /\ plugin # NoPlugin
            /\ req[a].id = plugin.id]_vars

-----------------------------------------------------------------------------
(* What the documentation says.                                            *)

(* event_register's return value: "Can be later used to clear this event". *)
(* Whatever the VMI partition holds for an app that is between two calls   *)
(* is in its eventlist.                                                    *)
RegisteredIdUsable ==
  \A a \in connected, id \in Ids :
    Present(id) /\ events[id].owner = a /\ stage[a] = "idle"
      => eventlist[a][id].status = "ACTIVE"

-----------------------------------------------------------------------------
(* What makes the above inductive.                                         *)

(* A call in flight is a call, a removal in flight names an entry of the   *)
(* eventlist, and a frontend with a call in flight is where calls are made.*)
CallsInFlight ==
  \A a \in Apps :
    stage[a] # "idle" =>
      /\ req[a] \in Calls
      /\ a \in connected => pc[a] \in AppCode \cup {"resume"}
      /\ a \in connected /\ req[a].op \in {"EVENT_CLEAR", "STOP_SYSCALL"}
           => eventlist[a][req[a].id] # NoEntry

ConnectedAlive == \A a \in Apps : a \in connected <=> pc[a] # "dead"

(* A pending trap is armed.                                                *)
PendingArmed ==
  \A v \in Vcpus :
    /\ pending[v] \in Ids => events[pending[v]].kind = "trap"
    /\ pending[v] = SyscallTrap => plugin # NoPlugin

TypeInv == TypeOK /\ CallsInFlight /\ ConnectedAlive /\ PendingArmed /\ PluginAgreement

(* The apps clear and stop only what is active in their eventlists, the    *)
(* plugin through stop_syscall only, never pass a tid to event_clear, and  *)
(* register no VMI event in a timer callback.                              *)
Discipline ==
  /\ (Api \cup TimerApi) \cap {"clear_stale", "clear_syscall", "clear_timer", "stop_stale"} = {}
  /\ TimerApi \cap {"register", "start_syscall"} = {}

(* A removal that waits to be served names an event of the app, even if    *)
(* the app has died since it asked.                                        *)
RemovalsOwn ==
  \A a \in Apps : stage[a] = "sent" =>
    /\ req[a].op = "EVENT_CLEAR" =>
         events[req[a].id].kind = "trap" /\ events[req[a].id].owner = a
    /\ req[a].op = "STOP_SYSCALL" =>
         plugin # NoPlugin /\ plugin.id = req[a].id /\ plugin.owner = a

(* A registration answered is in the map, a removal answered is not.       *)
AnswersHold ==
  \A a \in connected :
    /\ Answered(a, {"EVENT_REGISTER", "START_SYSCALL"}) =>
         /\ events[rep[a].id] # NoEvent
         /\ events[rep[a].id].owner = a
         /\ Entering(a, rep[a].id)
    /\ Answered(a, {"EVENT_CLEAR", "STOP_SYSCALL"}) =>
         ~ (Present(req[a].id) /\ events[req[a].id].owner = a)

(* From the scan to the deletion, what is to be deleted stays INACTIVE.    *)
CleanupInactive ==
  \A a \in connected : pc[a] \in {"timer", "sweep"} =>
    /\ \A id \in cleanup[a] : eventlist[a][id].status = "INACTIVE"
    /\ stage[a] # "idle" => req[a].op \notin {"EVENT_REGISTER", "START_SYSCALL"}

(* In the finally clause nothing but its resume_vm is in flight.           *)
ResumeInFlight ==
  \A a \in connected :
    pc[a] = "resume" /\ stage[a] # "idle" => req[a] = [op |-> "RESUME_VM"]

RegistryInv ==
  /\ TypeInv
  /\ RegistryAgreement
  /\ RemovalsOwn
  /\ AnswersHold
  /\ CleanupInactive
  /\ ResumeInFlight

(* The traps alone respect max_events.                                     *)
TrapIds == {id \in Ids : events[id].kind = "trap"}
TrapCapacity == Cardinality(TrapIds) <= MaxEvents

=============================================================================
