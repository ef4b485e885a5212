----------------------------- MODULE VmiEvents -----------------------------
(***************************************************************************)
(* The event side of the VMI partition: vmi_partition_drakvuf/furnace.cpp, *)
(* a DRAKVUF plugin.  One thread runs DRAKVUF's loop, so a request handler *)
(* (VmiServe) and a trap callback (VmiCallback) are atomic with respect to *)
(* each other.  The pause that a handler takes around its work and gives   *)
(* back before it returns is invisible for the same reason.                *)
(*                                                                         *)
(* External to this repository, and modelled from how furnace.cpp uses it: *)
(*   - drakvuf_pause and drakvuf_resume move the hypervisor's pause count  *)
(*     of the guest, which runs only at 0 (resuming a running guest does   *)
(*     nothing);                                                           *)
(*   - a vCPU that hits a trap while the guest runs leaves one pending     *)
(*     event, which DRAKVUF delivers later, even if the guest has been     *)
(*     paused in between; removing the trap cancels it;                    *)
(*   - drakvuf_remove_trap dereferences its trap: a NULL one crashes the   *)
(*     process.                                                            *)
(***************************************************************************)
EXTENDS EventBus

CONSTANTS MaxEvents,        \* furnace::max_events
          Vcpus,            \* the guest's vCPUs
          Hwm,              \* messages a DEALER pipe holds before it drops
          QueueBound        \* bound: no callback fires at a queue this long

ASSUME VmiAssumption ==
  /\ MaxEvents \in Nat \ {0}
  /\ Hwm \in Nat
  /\ QueueBound \in Nat

VARIABLES events,       \* furnace::events: the event_item of every id
          eventsActive, \* furnace::events_active
          plugin,       \* the syscall_plugin_* members
          pauses,       \* the hypervisor's pause count of the guest
          pending,      \* pending[v]: the trap vCPU v waits on
          vmiUp         \* FALSE once the process has crashed or aborted

vmiVars == <<events, eventsActive, plugin, pauses, pending, vmiUp>>

(* An event_item.  For the syscall plugin's item furnace.cpp keeps the     *)
(* owner in syscall_plugin_owner instead.                                  *)
Events   == [kind : {"trap", "syscall"}, owner : Apps, sync : BOOLEAN, cb : Callbacks]
NoEvent  == [kind |-> "none"]
Plugins  == [status : {"on"}, id : Ids, owner : Apps, sync : BOOLEAN, cb : Callbacks]
NoPlugin == [status |-> "off"]

(* What a vCPU can stop on: the trap of an event id, or a syscall trap of  *)
(* the plugin.                                                             *)
SyscallTrap == MaxId + 1
NoTrap      == MaxId + 2

VmiTypeOK ==
  /\ events \in [Ids -> Events \cup {NoEvent}]
  /\ eventsActive \in BOOLEAN
  /\ plugin \in Plugins \cup {NoPlugin}
  /\ pauses \in Nat
  /\ pending \in [Vcpus -> Ids \cup {SyscallTrap, NoTrap}]
  /\ vmiUp \in BOOLEAN

VmiInit ==
  /\ events = [id \in Ids |-> NoEvent]
  /\ eventsActive = FALSE
  /\ plugin = NoPlugin
  /\ pauses = 0
  /\ pending = [v \in Vcpus |-> NoTrap]
  /\ vmiUp = TRUE

-----------------------------------------------------------------------------
(* The event map.                                                          *)

Present(id) == events[id] # NoEvent

PresentIds == {id \in Ids : Present(id)}

(* Mutant: add_event's search ends one id early.                           *)
SlotTooEarly(id) ==
  /\ id \in Ids
  /\ \A lower \in Ids : lower < id => Present(lower)

(* The slot add_event picks: the lowest free one.                          *)
IsFreeSlot(id) ==
  /\ id \in Ids
  /\ ~ Present(id)
  /\ \A lower \in Ids : lower < id => Present(lower)

Cancel(trap) == [v \in Vcpus |-> IF pending[v] = trap THEN NoTrap ELSE pending[v]]

-----------------------------------------------------------------------------
(* Request handlers.                                                       *)

(* Mutant: the limit is compared with > instead of >=.                     *)
RegisterOneMore(a, call) ==
  /\ call.op = "EVENT_REGISTER"
  /\ \/ /\ Cardinality(PresentIds) > MaxEvents
        /\ SendReply(a, FALSE, 0)
        /\ UNCHANGED events
     \/ /\ Cardinality(PresentIds) <= MaxEvents
        /\ \E id \in Ids :
             /\ IsFreeSlot(id)
             /\ events' = [events EXCEPT ![id] =
                  [kind |-> "trap", owner |-> a, sync |-> call.sync, cb |-> call.cb]]
             /\ SendReply(a, TRUE, id)
  /\ UNCHANGED <<eventsActive, plugin, pauses, pending, vmiUp>>

(* process_event_register: at max_events an error reply, otherwise a slot  *)
(* and a trap; a trap that DRAKVUF cannot add gives the slot back.         *)
EventRegister(a, call) ==
  /\ call.op = "EVENT_REGISTER"
  /\ \/ /\ Cardinality(PresentIds) >= MaxEvents
        /\ SendReply(a, FALSE, 0)
        /\ UNCHANGED events
     \/ /\ Cardinality(PresentIds) < MaxEvents
        /\ \E id \in Ids :
             /\ IsFreeSlot(id)
             /\ events' = [events EXCEPT ![id] =
                  [kind |-> "trap", owner |-> a, sync |-> call.sync, cb |-> call.cb]]
             /\ SendReply(a, TRUE, id)
     \/ /\ Cardinality(PresentIds) < MaxEvents
        /\ SendReply(a, FALSE, 0)
        /\ UNCHANGED events
  /\ UNCHANGED <<eventsActive, plugin, pauses, pending, vmiUp>>

(* Mutant: the trap is removed, its event_item stays in the map.           *)
ClearWithoutErase(a, call) ==
  /\ call.op = "EVENT_CLEAR"
  /\ Present(call.id)
  /\ pending' = Cancel(call.id)
  /\ SendReply(a, TRUE, call.id)
  /\ UNCHANGED <<events, eventsActive, plugin, pauses, vmiUp>>

(* Mutant: an item without a trap is only erased, and nothing crashes.     *)
ClearErasesSyscall(a, call) ==
  /\ call.op = "EVENT_CLEAR"
  /\ \/ /\ ~ Present(call.id)
        /\ SendReply(a, FALSE, call.id)
        /\ UNCHANGED vmiVars
     \/ /\ Present(call.id)
        /\ events' = [events EXCEPT ![call.id] = NoEvent]
        /\ pending' = Cancel(call.id)
        /\ SendReply(a, TRUE, call.id)
        /\ UNCHANGED <<eventsActive, plugin, pauses, vmiUp>>

(* process_event_clear: by id alone, whoever asks.  The syscall plugin's   *)
(* item has a NULL trap, which drakvuf_remove_trap dereferences.           *)
EventClear(a, call) ==
  /\ call.op = "EVENT_CLEAR"
  /\ \/ /\ ~ Present(call.id)
        /\ SendReply(a, FALSE, call.id)
        /\ UNCHANGED vmiVars
     \/ /\ Present(call.id)
        /\ events[call.id].kind = "trap"
        /\ events' = [events EXCEPT ![call.id] = NoEvent]
        /\ pending' = Cancel(call.id)
        /\ SendReply(a, TRUE, call.id)
        /\ UNCHANGED <<eventsActive, plugin, pauses, vmiUp>>
     \/ /\ Present(call.id)
        /\ events[call.id].kind = "syscall"
        /\ vmiUp' = FALSE
        /\ UNCHANGED <<events, eventsActive, plugin, pauses, pending>>
        /\ UNCHANGED busVars

(* process_start_syscall: one plugin for all the apps, and no max_events.  *)
StartSyscall(a, call) ==
  /\ call.op = "START_SYSCALL"
  /\ \/ /\ plugin # NoPlugin
        /\ SendReply(a, FALSE, 0)
        /\ UNCHANGED <<events, plugin>>
     \/ /\ plugin = NoPlugin
        /\ \E id \in Ids :
             /\ IsFreeSlot(id)
             /\ events' = [events EXCEPT ![id] =
                  [kind |-> "syscall", owner |-> a, sync |-> call.sync, cb |-> call.cb]]
             /\ plugin' = [status |-> "on", id |-> id, owner |-> a,
                           sync |-> call.sync, cb |-> call.cb]
             /\ SendReply(a, TRUE, id)
  /\ UNCHANGED <<eventsActive, pauses, pending, vmiUp>>

(* Mutant: the plugin's members are not reset.                             *)
StopWithoutReset(a, call) ==
  /\ call.op = "STOP_SYSCALL"
  /\ plugin # NoPlugin
  /\ events' = [events EXCEPT ![plugin.id] = NoEvent]
  /\ pending' = Cancel(SyscallTrap)
  /\ SendReply(a, TRUE, 0)
  /\ UNCHANGED <<eventsActive, plugin, pauses, vmiUp>>

(* process_stop_syscall: whoever asks.  It asserts that the plugin's event *)
(* is in the map: otherwise the process aborts.                            *)
StopSyscall(a, call) ==
  /\ call.op = "STOP_SYSCALL"
  /\ \/ /\ plugin = NoPlugin
        /\ SendReply(a, FALSE, 0)
        /\ UNCHANGED vmiVars
     \/ /\ plugin # NoPlugin
        /\ ~ Present(plugin.id)
        /\ vmiUp' = FALSE
        /\ UNCHANGED <<events, eventsActive, plugin, pauses, pending>>
        /\ UNCHANGED busVars
     \/ /\ plugin # NoPlugin
        /\ Present(plugin.id)
        /\ events' = [events EXCEPT ![plugin.id] = NoEvent]
        /\ plugin' = NoPlugin
        /\ pending' = Cancel(SyscallTrap)
        /\ SendReply(a, TRUE, 0)
        /\ UNCHANGED <<eventsActive, pauses, vmiUp>>

(* process_events_start and process_events_stop: one flag for all apps.    *)
EventsSwitch(a, call) ==
  /\ call.op \in {"EVENTS_START", "EVENTS_STOP"}
  /\ eventsActive' = (call.op = "EVENTS_START")
  /\ SendReply(a, TRUE, 0)
  /\ UNCHANGED <<events, plugin, pauses, pending, vmiUp>>

(* process_pause_vm and process_resume_vm.                                 *)
PauseResume(a, call) ==
  /\ call.op \in {"PAUSE_VM", "RESUME_VM"}
  /\ pauses' = IF call.op = "PAUSE_VM" THEN pauses + 1
               ELSE IF pauses > 0 THEN pauses - 1 ELSE 0
  /\ SendReply(a, TRUE, 0)
  /\ UNCHANGED <<events, eventsActive, plugin, pending, vmiUp>>

(* process_zmq: DRAKVUF's loop calls it when ZMQ_FD is readable, and it    *)
(* serves requests until none is left.                                     *)
VmiServe(a) ==
  /\ vmiUp
  /\ zmqfd # "idle"
  /\ stage[a] = "sent"
  /\ \/ EventRegister(a, req[a])
     \/ EventClear(a, req[a])
     \/ StartSyscall(a, req[a])
     \/ StopSyscall(a, req[a])
     \/ EventsSwitch(a, req[a])
     \/ PauseResume(a, req[a])

-----------------------------------------------------------------------------
(* Trap callbacks.                                                         *)

(* zmq_dsend: the ROUTER silently drops a message whose peer is gone or    *)
(* whose pipe is full.  ZMQ_FD is edge-triggered (zmq_getsockopt): any     *)
(* send on the socket may clear its readiness although a request waits.    *)
PushEvent(owner, msg) ==
  /\ Len(dealer[owner]) < QueueBound
  /\ dealer' = IF owner \in connected /\ Len(dealer[owner]) < Hwm
               THEN [dealer EXCEPT ![owner] = Append(@, msg)]
               ELSE dealer
  /\ zmqfd' \in {zmqfd, "idle"}
  /\ UNCHANGED <<connected, req, stage, rep>>

HitTrap(v) ==
  /\ vmiUp
  /\ zmqfd # "serving"
  /\ pending[v] # NoTrap
  /\ pending' = [pending EXCEPT ![v] = NoTrap]
  /\ UNCHANGED <<events, eventsActive, plugin, vmiUp>>

(* furnace_cr3_callback and furnace_int_callback: masked unless the events *)
(* are active; a SYNC event pauses the guest before the app hears of it.   *)
TrapCallback(v) ==
  /\ HitTrap(v)
  /\ pending[v] \in Ids
  /\ \/ /\ ~ eventsActive
        /\ UNCHANGED pauses
        /\ UNCHANGED busVars
     \/ /\ eventsActive
        /\ LET ei == events[pending[v]]
           IN  /\ pauses' = IF ei.sync THEN pauses + 1 ELSE pauses
               /\ PushEvent(ei.owner, [id |-> pending[v], paused |-> ei.sync, cb |-> ei.cb])

(* furnace_syscall_callback: looks at the plugin's members only.           *)
SyscallCallback(v) ==
  /\ HitTrap(v)
  /\ pending[v] = SyscallTrap
  /\ pauses' = IF plugin.sync THEN pauses + 1 ELSE pauses
  /\ PushEvent(plugin.owner, [id |-> plugin.id, paused |-> plugin.sync, cb |-> plugin.cb])

(* The guest runs into a trap (external).                                  *)
GuestTrap(v) ==
  /\ vmiUp
  /\ pauses = 0
  /\ pending[v] = NoTrap
  /\ \E trap \in Ids \cup {SyscallTrap} :
       /\ IF trap = SyscallTrap THEN plugin # NoPlugin
                                ELSE events[trap].kind = "trap"
       /\ pending' = [pending EXCEPT ![v] = trap]
  /\ UNCHANGED <<events, eventsActive, plugin, pauses, vmiUp>>
  /\ UNCHANGED busVars
=============================================================================
