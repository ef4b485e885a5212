------------------------- MODULE EventSystemProofs -------------------------
(***************************************************************************)
(* Proofs about EventSystem, for any apps, callbacks, vCPUs and bounds.    *)
(***************************************************************************)
EXTENDS EventSystem, TLAPS, FiniteSetTheorems, SequenceTheorems

(* What the reply of a request handler does to the channels.               *)
LEMMA ReplyType ==
  ASSUME BusTypeOK, CallsInFlight, ConnectedAlive,
         NEW a \in Apps, NEW ok \in BOOLEAN, NEW id \in Ids,
         stage[a] = "sent", SendReply(a, ok, id), UNCHANGED feVars
  PROVE  BusTypeOK' /\ CallsInFlight' /\ ConnectedAlive'
<1>1. BusTypeOK'
  BY DEF BusTypeOK, SendReply, Replies
<1>2. ConnectedAlive'
  BY DEF ConnectedAlive, SendReply, feVars
<1>3. CallsInFlight'
  <2> SUFFICES ASSUME NEW b \in Apps, stage'[b] # "idle"
      PROVE  /\ req'[b] \in Calls
             /\ b \in connected' => pc'[b] \in AppCode \cup {"resume"}
             /\ b \in connected' /\ req'[b].op \in {"EVENT_CLEAR", "STOP_SYSCALL"}
                  => eventlist'[b][req'[b].id] # NoEntry
    BY DEF CallsInFlight
  <2>1. stage[b] # "idle" /\ req'[b] = req[b] /\ UNCHANGED <<connected, pc, eventlist>>
    BY DEF BusTypeOK, SendReply, feVars
  <2> QED BY <2>1 DEF CallsInFlight
<1> QED BY <1>1, <1>2, <1>3

(* A call that the VMI partition serves.                                   *)
LEMMA ServeType ==
  ASSUME TypeInv, NEW a \in Apps, Serve(a)
  PROVE  TypeInv'
<1>1. /\ req[a] \in Calls
      /\ stage[a] = "sent"
      /\ BusTypeOK /\ VmiTypeOK /\ CallsInFlight /\ ConnectedAlive
      /\ PendingArmed /\ PluginAgreement
      /\ UNCHANGED feVars
      /\ FrontendTypeOK'
  BY DEF TypeInv, TypeOK, CallsInFlight, Serve, VmiServe, FrontendTypeOK, feVars
<1> USE DEF VmiTypeOK
<1>2. ASSUME NEW ok \in BOOLEAN, NEW id \in Ids, SendReply(a, ok, id),
             VmiTypeOK', PendingArmed', PluginAgreement'
      PROVE  TypeInv'
  BY <1>1, <1>2, ReplyType DEF TypeInv, TypeOK
<1>3. 0 \in Ids
  BY MaxIdAssumption DEF Ids
<1>4. ASSUME NEW id \in Ids, IsFreeSlot(id), NEW e \in Events,
             events' = [events EXCEPT ![id] = e], UNCHANGED pending,
             \/ e.kind = "trap" /\ UNCHANGED plugin
             \/ /\ e.kind = "syscall" /\ plugin = NoPlugin /\ plugin' \in Plugins
                /\ plugin'.id = id /\ plugin'.owner = e.owner
      PROVE  PendingArmed' /\ PluginAgreement'
  <2>1. PendingArmed'
    BY <1>1, <1>4 DEF PendingArmed, IsFreeSlot, Present, NoEvent, Events, Plugins, NoPlugin
  <2>2. PluginAgreement'
    BY <1>1, <1>4 DEF PluginAgreement, IsFreeSlot, Present, NoEvent, Events, Plugins, NoPlugin
  <2> QED BY <2>1, <2>2
<1>5. CASE EventRegister(a, req[a])
  <2>1. req[a] \in RegisterCalls
    BY <1>1, <1>5 DEF EventRegister, Calls, RegisterCalls, RemoveCalls, BareCalls
  <2>2. [kind |-> "trap", owner |-> a, sync |-> req[a].sync, cb |-> req[a].cb] \in Events
    BY <2>1 DEF RegisterCalls, Events
  <2>3. CASE UNCHANGED events
    <3>1. VmiTypeOK' /\ PendingArmed' /\ PluginAgreement'
      BY <1>1, <1>5, <2>3 DEF EventRegister, PendingArmed, PluginAgreement
    <3> QED BY <1>2, <1>3, <1>5, <2>3, <3>1 DEF EventRegister, IsFreeSlot
  <2>4. ASSUME NEW id \in Ids, IsFreeSlot(id), SendReply(a, TRUE, id),
               events' = [events EXCEPT ![id] =
                  [kind |-> "trap", owner |-> a, sync |-> req[a].sync, cb |-> req[a].cb]]
        PROVE  TypeInv'
    <3>1. VmiTypeOK'
      BY <1>1, <1>5, <2>2, <2>4 DEF EventRegister
    <3>2. PendingArmed' /\ PluginAgreement'
      BY <1>4, <1>5, <2>2, <2>4 DEF EventRegister
    <3> QED BY <1>2, <2>4, <3>1, <3>2
  <2> QED BY <1>5, <2>3, <2>4 DEF EventRegister
<1>6. CASE EventClear(a, req[a])
  <2>1. req[a] \in RemoveCalls /\ req[a].id \in Ids
    BY <1>1, <1>6 DEF EventClear, Calls, RegisterCalls, RemoveCalls, BareCalls
  <2>2. CASE ~ Present(req[a].id) /\ SendReply(a, FALSE, req[a].id) /\ UNCHANGED vmiVars
    <3>1. VmiTypeOK' /\ PendingArmed' /\ PluginAgreement'
      BY <1>1, <2>2 DEF vmiVars, PendingArmed, PluginAgreement
    <3> QED BY <1>2, <2>1, <2>2, <3>1
  <2>3. CASE /\ events[req[a].id].kind = "trap"
             /\ events' = [events EXCEPT ![req[a].id] = NoEvent]
             /\ pending' = Cancel(req[a].id)
             /\ SendReply(a, TRUE, req[a].id)
             /\ UNCHANGED <<eventsActive, plugin, pauses, vmiUp>>
    <3>1. VmiTypeOK'
      BY <1>1, <2>1, <2>3 DEF Cancel
    <3>2. PendingArmed'
      BY <1>1, <2>1, <2>3, MaxIdAssumption DEF Cancel, PendingArmed, SyscallTrap, NoTrap, Ids
    <3>3. PluginAgreement'
      BY <1>1, <2>1, <2>3 DEF PluginAgreement, Plugins, NoEvent
    <3> QED BY <1>2, <2>1, <2>3, <3>1, <3>2, <3>3
  <2>4. CASE vmiUp' = FALSE /\ UNCHANGED <<events, eventsActive, plugin, pauses, pending>> /\ UNCHANGED busVars
    <3>1. VmiTypeOK' /\ PendingArmed' /\ PluginAgreement'
      BY <1>1, <2>4 DEF PendingArmed, PluginAgreement
    <3>2. BusTypeOK' /\ CallsInFlight' /\ ConnectedAlive'
      BY <1>1, <2>4 DEF BusTypeOK, CallsInFlight, ConnectedAlive, busVars, feVars
    <3> QED BY <1>1, <3>1, <3>2 DEF TypeInv, TypeOK
  <2> QED BY <1>6, <2>2, <2>3, <2>4 DEF EventClear
<1>7. CASE StartSyscall(a, req[a])
  <2>1. req[a] \in RegisterCalls
    BY <1>1, <1>7 DEF StartSyscall, Calls, RegisterCalls, RemoveCalls, BareCalls
  <2>2. CASE SendReply(a, FALSE, 0) /\ UNCHANGED <<events, plugin>>
    <3>1. VmiTypeOK' /\ PendingArmed' /\ PluginAgreement'
      BY <1>1, <1>7, <2>2 DEF StartSyscall, PendingArmed, PluginAgreement
    <3> QED BY <1>2, <1>3, <2>2, <3>1
  <2>3. ASSUME NEW id \in Ids, IsFreeSlot(id), SendReply(a, TRUE, id), plugin = NoPlugin,
               events' = [events EXCEPT ![id] =
                  [kind |-> "syscall", owner |-> a, sync |-> req[a].sync, cb |-> req[a].cb]],
               plugin' = [status |-> "on", id |-> id, owner |-> a,
                          sync |-> req[a].sync, cb |-> req[a].cb]
        PROVE  TypeInv'
    <3>1. /\ [kind |-> "syscall", owner |-> a, sync |-> req[a].sync, cb |-> req[a].cb] \in Events
          /\ plugin' \in Plugins
      BY <2>1, <2>3 DEF RegisterCalls, Events, Plugins
    <3>2. VmiTypeOK'
      BY <1>1, <1>7, <2>3, <3>1 DEF StartSyscall
    <3>3. PendingArmed' /\ PluginAgreement'
      BY <1>4, <1>7, <2>3, <3>1 DEF StartSyscall
    <3> QED BY <1>2, <2>3, <3>2, <3>3
  <2> QED BY <1>7, <2>2, <2>3 DEF StartSyscall
<1>8. CASE StopSyscall(a, req[a])
  <2>1. CASE SendReply(a, FALSE, 0) /\ UNCHANGED vmiVars
    <3>1. VmiTypeOK' /\ PendingArmed' /\ PluginAgreement'
      BY <1>1, <2>1 DEF vmiVars, PendingArmed, PluginAgreement
    <3> QED BY <1>2, <1>3, <2>1, <3>1
  <2>2. ASSUME plugin # NoPlugin PROVE Present(plugin.id)
    BY <1>1, <2>2 DEF PluginAgreement, Present
  <2>3. CASE /\ plugin # NoPlugin
             /\ events' = [events EXCEPT ![plugin.id] = NoEvent]
             /\ plugin' = NoPlugin
             /\ pending' = Cancel(SyscallTrap)
             /\ SendReply(a, TRUE, 0)
             /\ UNCHANGED <<eventsActive, pauses, vmiUp>>
    <3>1. plugin.id \in Ids
      BY <1>1, <2>3 DEF Plugins
    <3>2. VmiTypeOK'
      BY <1>1, <2>3, <3>1 DEF Cancel
    <3>3. PendingArmed'
      BY <1>1, <2>3, <3>1, MaxIdAssumption DEF Cancel, PendingArmed, PluginAgreement, SyscallTrap, NoTrap, Ids
    <3>4. PluginAgreement'
      BY <1>1, <2>3, <3>1 DEF PluginAgreement, NoEvent
    <3> QED BY <1>2, <1>3, <2>3, <3>2, <3>3, <3>4
  <2> QED BY <1>8, <2>2, <2>1, <2>3 DEF StopSyscall
<1>9. CASE EventsSwitch(a, req[a])
  <2>1. VmiTypeOK' /\ PendingArmed' /\ PluginAgreement'
    BY <1>1, <1>9 DEF EventsSwitch, PendingArmed, PluginAgreement
  <2> QED BY <1>2, <1>3, <1>9, <2>1 DEF EventsSwitch
<1>10. CASE PauseResume(a, req[a])
  <2>1. VmiTypeOK' /\ PendingArmed' /\ PluginAgreement'
    BY <1>1, <1>10 DEF PauseResume, PendingArmed, PluginAgreement
  <2> QED BY <1>2, <1>3, <1>10, <2>1 DEF PauseResume
<1> QED BY <1>5, <1>6, <1>7, <1>8, <1>9, <1>10 DEF Serve, VmiServe

(* A callback of a trap or of the syscall plugin.                          *)
LEMMA CallbackType ==
  ASSUME TypeInv, NEW v \in Vcpus, Callback(v)
  PROVE  TypeInv'
<1>1. /\ BusTypeOK /\ VmiTypeOK /\ CallsInFlight /\ ConnectedAlive
      /\ PendingArmed /\ PluginAgreement
      /\ HitTrap(v)
      /\ UNCHANGED feVars
      /\ FrontendTypeOK'
  BY DEF TypeInv, TypeOK, Callback, TrapCallback, SyscallCallback, FrontendTypeOK, feVars
<1>2. ASSUME pauses' \in Nat
      PROVE  VmiTypeOK' /\ PendingArmed' /\ PluginAgreement'
  BY <1>1, <1>2, MaxIdAssumption
     DEF HitTrap, VmiTypeOK, PendingArmed, PluginAgreement, NoTrap, SyscallTrap, Ids
<1>3. CASE UNCHANGED busVars /\ UNCHANGED pauses
  <2>1. BusTypeOK' /\ CallsInFlight' /\ ConnectedAlive' /\ pauses' \in Nat
    BY <1>1, <1>3 DEF BusTypeOK, CallsInFlight, ConnectedAlive, busVars, feVars, VmiTypeOK
  <2> QED BY <1>1, <1>2, <2>1 DEF TypeInv, TypeOK
<1>4. ASSUME NEW owner \in Apps, NEW msg \in EventMessages, PushEvent(owner, msg),
             pauses' \in Nat
      PROVE  TypeInv'
  <2>1. Append(dealer[owner], msg) \in Seq(EventMessages)
    BY <1>1, <1>4, AppendProperties DEF BusTypeOK
  <2>2. BusTypeOK'
    BY <1>1, <1>4, <2>1 DEF BusTypeOK, PushEvent
  <2>3. CallsInFlight' /\ ConnectedAlive'
    BY <1>1, <1>4 DEF PushEvent, CallsInFlight, ConnectedAlive, feVars
  <2> QED BY <1>1, <1>2, <1>4, <2>2, <2>3 DEF TypeInv, TypeOK
<1>5. CASE TrapCallback(v) /\ eventsActive
  <2> DEFINE ei == events[pending[v]]
  <2>1. pending[v] \in Ids /\ ei \in Events
    BY <1>1, <1>5 DEF TrapCallback, PendingArmed, VmiTypeOK, NoEvent
  <2>2. /\ ei.owner \in Apps
        /\ [id |-> pending[v], paused |-> ei.sync, cb |-> ei.cb] \in EventMessages
    BY <2>1 DEF Events, EventMessages
  <2>3. pauses' \in Nat
    BY <1>1, <1>5 DEF TrapCallback, VmiTypeOK
  <2>4. PushEvent(ei.owner, [id |-> pending[v], paused |-> ei.sync, cb |-> ei.cb])
    BY <1>5 DEF TrapCallback
  <2> QED BY <1>4, <2>2, <2>3, <2>4
<1>6. CASE SyscallCallback(v)
  <2>1. plugin \in Plugins
    BY <1>1, <1>6 DEF SyscallCallback, PendingArmed, VmiTypeOK
  <2>2. /\ plugin.owner \in Apps
        /\ [id |-> plugin.id, paused |-> plugin.sync, cb |-> plugin.cb] \in EventMessages
    BY <2>1 DEF Plugins, EventMessages
  <2>3. pauses' \in Nat
    BY <1>1, <1>6 DEF SyscallCallback, VmiTypeOK
  <2> QED BY <1>4, <1>6, <2>2, <2>3 DEF SyscallCallback
<1> QED BY <1>3, <1>5, <1>6 DEF Callback, TrapCallback

(* A vCPU that runs into a trap.                                           *)
LEMMA GuestType ==
  ASSUME TypeInv, NEW v \in Vcpus, Guest(v)
  PROVE  TypeInv'
<1>1. BusTypeOK' /\ FrontendTypeOK' /\ CallsInFlight' /\ ConnectedAlive' /\ PluginAgreement'
  BY DEF TypeInv, TypeOK, Guest, GuestTrap, BusTypeOK, FrontendTypeOK, CallsInFlight,
         ConnectedAlive, PluginAgreement, busVars, feVars
<1>2. PICK trap \in Ids \cup {SyscallTrap} :
        /\ IF trap = SyscallTrap THEN plugin # NoPlugin ELSE events[trap].kind = "trap"
        /\ pending' = [pending EXCEPT ![v] = trap]
  BY DEF Guest, GuestTrap
<1>3. VmiTypeOK'
  BY <1>2 DEF TypeInv, TypeOK, VmiTypeOK, Guest, GuestTrap
<1>4. PendingArmed'
  BY <1>2, MaxIdAssumption DEF TypeInv, TypeOK, VmiTypeOK, Guest, GuestTrap, PendingArmed, SyscallTrap, Ids
<1> QED BY <1>1, <1>3, <1>4 DEF TypeInv, TypeOK

-----------------------------------------------------------------------------
(* Steps of the frontends leave the VMI partition alone.                   *)
LEMMA FrontendFrame ==
  ASSUME TypeInv, UNCHANGED vmiVars,
         BusTypeOK', FrontendTypeOK', CallsInFlight', ConnectedAlive'
  PROVE  TypeInv'
<1>1. VmiTypeOK' /\ PendingArmed' /\ PluginAgreement'
  BY DEF TypeInv, TypeOK, VmiTypeOK, PendingArmed, PluginAgreement, vmiVars
<1> QED BY <1>1 DEF TypeInv, TypeOK

(* A frontend sends a request.                                             *)
LEMMA SendType ==
  ASSUME BusTypeOK, FrontendTypeOK, CallsInFlight, ConnectedAlive,
         NEW a \in Apps, NEW call \in Calls, SendRequest(a, call),
         pc[a] \in AppCode \cup {"resume"},
         call.op \in {"EVENT_CLEAR", "STOP_SYSCALL"} => eventlist[a][call.id] # NoEntry,
         UNCHANGED <<pc, eventlist>>
  PROVE  BusTypeOK' /\ CallsInFlight' /\ ConnectedAlive'
<1>1. BusTypeOK'
  BY DEF BusTypeOK, SendRequest
<1>2. ConnectedAlive'
  BY DEF ConnectedAlive, SendRequest
<1>3. CallsInFlight'
  BY DEF CallsInFlight, BusTypeOK, SendRequest
<1> QED BY <1>1, <1>2, <1>3

(* A frontend's thread goes on to another place.                           *)
LEMMA MoveType ==
  ASSUME BusTypeOK, FrontendTypeOK, CallsInFlight, ConnectedAlive,
         NEW a \in Apps, stage[a] = "idle", pc[a] # "dead",
         NEW place \in Places \ {"dead"}, pc' = [pc EXCEPT ![a] = place],
         UNCHANGED <<connected, req, stage>>,
         \A b \in Apps \ {a} : eventlist'[b] = eventlist[b]
  PROVE  CallsInFlight' /\ ConnectedAlive'
<1>1. ConnectedAlive'
  BY DEF ConnectedAlive, FrontendTypeOK
<1>2. CallsInFlight'
  BY DEF CallsInFlight, FrontendTypeOK
<1> QED BY <1>1, <1>2

(* Outside app code and the finally clause no call is in flight.           *)
LEMMA IdleElsewhere ==
  ASSUME BusTypeOK, FrontendTypeOK, CallsInFlight, ConnectedAlive, NEW a \in Apps,
         pc[a] \notin AppCode \cup {"resume", "dead"}
  PROVE  stage[a] = "idle"
BY DEF BusTypeOK, CallsInFlight, ConnectedAlive

(* A frontend's process ends.                                              *)
LEMMA DisconnectType ==
  ASSUME BusTypeOK, FrontendTypeOK, CallsInFlight, ConnectedAlive, NEW a \in Apps,
         Disconnect(a), Goto(a, "dead"), UNCHANGED eventlist
  PROVE  BusTypeOK' /\ CallsInFlight' /\ ConnectedAlive'
<1>1. NoReply \in Replies /\ <<>> \in Seq(EventMessages)
  BY MaxIdAssumption, EmptySeq DEF NoReply, Replies, Ids
<1>2. BusTypeOK'
  BY <1>1 DEF Disconnect, BusTypeOK
<1>3. ConnectedAlive'
  BY DEF Disconnect, Goto, ConnectedAlive, BusTypeOK, FrontendTypeOK
<1>4. CallsInFlight'
  BY DEF Disconnect, Goto, CallsInFlight, BusTypeOK, FrontendTypeOK
<1> QED BY <1>2, <1>3, <1>4

(* A step of a frontend's main loop.                                       *)
LEMMA LoopType ==
  ASSUME TypeInv, NEW a \in Apps, Loop(a)
  PROVE  TypeInv'
<1>1. /\ BusTypeOK /\ FrontendTypeOK /\ CallsInFlight /\ ConnectedAlive
      /\ UNCHANGED vmiVars
  BY DEF TypeInv, TypeOK, Loop
<1>2. SUFFICES BusTypeOK' /\ FrontendTypeOK' /\ CallsInFlight' /\ ConnectedAlive'
  BY <1>1, FrontendFrame
<1>3. MaxCalls \in 0 .. MaxCalls /\ 0 \in 0 .. MaxCalls
  BY FrontendAssumption
<1>4. ASSUME NEW place \in Places \ {"dead"}, Goto(a, place), stage[a] = "idle", pc[a] # "dead",
             UNCHANGED <<eventlist, timerlist, nextTid, beInfo, raised>>,
             held' \in [Apps -> BOOLEAN],
             cleanup' \in [Apps -> SUBSET Ids], cleanupT' \in [Apps -> SUBSET Ids],
             UNCHANGED <<connected, req, stage>>
      PROVE  FrontendTypeOK' /\ CallsInFlight' /\ ConnectedAlive'
  <2>1. FrontendTypeOK'
    BY <1>1, <1>3, <1>4 DEF FrontendTypeOK, Goto
  <2>2. CallsInFlight' /\ ConnectedAlive'
    BY <1>1, <1>4, MoveType DEF Goto
  <2> QED BY <2>1, <2>2
<1>5. ASSUME UNCHANGED busVars
      PROVE  BusTypeOK' /\ UNCHANGED <<connected, req, stage>>
  BY <1>1, <1>5 DEF BusTypeOK, busVars
<1>6. ASSUME pc[a] \notin AppCode \cup {"resume", "dead"}
      PROVE  stage[a] = "idle"
  BY <1>1, <1>6, IdleElsewhere
<1>a. CASE CallReturns(a)
  <2>1. BusTypeOK'
    BY <1>1, <1>a, MaxIdAssumption DEF CallReturns, TakeReply, BusTypeOK, Replies, NoReply, Ids
  <2>2. Recorded(a, req[a], rep[a]) \in [Ids -> Entries \cup {NoEntry}]
    <3>1. eventlist[a] \in [Ids -> Entries \cup {NoEntry}] /\ rep[a].id \in Ids /\ req[a] \in Calls
      BY <1>1, <1>a DEF FrontendTypeOK, BusTypeOK, Replies, CallReturns, TakeReply, CallsInFlight
    <3>2. CASE req[a].op \in {"EVENT_REGISTER", "START_SYSCALL"}
      <4>1. req[a].cb \in Callbacks
        BY <3>1, <3>2 DEF Calls, RegisterCalls, RemoveCalls, BareCalls
      <4> QED BY <3>1, <3>2, <4>1 DEF Recorded, Entries
    <3>3. CASE req[a].op \in {"EVENT_CLEAR", "STOP_SYSCALL"}
      <4>1. req[a].id \in Ids
        BY <3>1, <3>3 DEF Calls, RegisterCalls, RemoveCalls, BareCalls
      <4>2. eventlist[a][req[a].id] \in Entries
        BY <1>1, <1>a, <3>1, <3>3, <4>1
           DEF CallReturns, TakeReply, CallsInFlight, ConnectedAlive, AppCode
      <4> QED BY <3>1, <3>3, <4>1, <4>2 DEF Recorded, Entries
    <3> QED BY <3>1, <3>2, <3>3 DEF Recorded
  <2>3. FrontendTypeOK'
    BY <1>1, <1>a, <2>2 DEF CallReturns, FrontendTypeOK
  <2>4. CallsInFlight' /\ ConnectedAlive'
    BY <1>1, <1>a DEF CallReturns, TakeReply, CallsInFlight, ConnectedAlive, BusTypeOK, FrontendTypeOK
  <2> QED BY <2>1, <2>3, <2>4
<1>b. CASE InitReturns(a)
  BY <1>1, <1>4, <1>5, <1>b DEF InitReturns, Running, Places, AppCode, FrontendTypeOK
<1>c. CASE Poll(a)
  <2>1. stage[a] = "idle" /\ pc[a] # "dead"
    BY <1>6, <1>c DEF Poll, AppCode
  <2>2. CASE dealer[a] = <<>>
    BY <1>1, <1>4, <1>5, <1>c, <2>1, <2>2 DEF Poll, Places, FrontendTypeOK
  <2>3. CASE dealer[a] # <<>>
    <3>1. Head(dealer[a]) \in EventMessages /\ Tail(dealer[a]) \in Seq(EventMessages)
      BY <1>1, <2>3, HeadTailProperties DEF BusTypeOK
    <3>2. BusTypeOK' /\ UNCHANGED <<connected, req, stage>>
      <4>1. /\ dealer' = [dealer EXCEPT ![a] = Tail(@)]
            /\ UNCHANGED <<connected, req, stage, rep, zmqfd>>
        BY <1>c, <2>3 DEF Poll
      <4>2. dealer \in [Apps -> Seq(EventMessages)]
        BY <1>1 DEF BusTypeOK
      <4>3. dealer' \in [Apps -> Seq(EventMessages)]
        BY <3>1, <4>1, <4>2
      <4> QED BY <1>1, <4>1, <4>3 DEF BusTypeOK
    <3>3. held' \in [Apps -> BOOLEAN]
      <4>1. Head(dealer[a]).paused \in BOOLEAN
        BY <3>1 DEF EventMessages
      <4> QED BY <1>1, <1>c, <2>3, <4>1 DEF Poll, FrontendTypeOK
    <3>4. PICK place \in Places \ {"dead"} : Goto(a, place)
      BY <1>c, <2>3 DEF Poll, Places, AppCode
    <3> QED BY <1>1, <1>4, <1>c, <2>1, <3>2, <3>3, <3>4 DEF Poll, FrontendTypeOK
  <2> QED BY <2>2, <2>3
<1>d. CASE EventReturns(a)
  BY <1>1, <1>4, <1>5, <1>d DEF EventReturns, Running, Places, AppCode, FrontendTypeOK
<1>e. CASE ResumeSends(a)
  <2>1. [op |-> "RESUME_VM"] \in Calls
    BY DEF Calls, BareCalls
  <2>2. UNCHANGED <<pc, eventlist>> /\ FrontendTypeOK'
    BY <1>1, <1>e DEF ResumeSends, feVars, FrontendTypeOK
  <2> QED BY <1>1, <1>e, <2>1, <2>2, SendType DEF ResumeSends
<1>f. CASE ResumeReturns(a)
  <2>1. BusTypeOK'
    BY <1>1, <1>f, MaxIdAssumption DEF ResumeReturns, TakeReply, BusTypeOK, Replies, NoReply, Ids
  <2>2. FrontendTypeOK'
    BY <1>1, <1>3, <1>f DEF ResumeReturns, Goto, FrontendTypeOK, Places, AppCode
  <2>3. CallsInFlight' /\ ConnectedAlive'
    BY <1>1, <1>f DEF ResumeReturns, Goto, TakeReply, CallsInFlight, ConnectedAlive, BusTypeOK, FrontendTypeOK
  <2> QED BY <2>1, <2>2, <2>3
<1>g. CASE Fac(a)
  BY <1>1, <1>4, <1>5, <1>6, <1>g DEF Fac, Places, AppCode, FrontendTypeOK
<1>h. CASE BeReturns(a)
  BY <1>1, <1>4, <1>5, <1>h DEF BeReturns, Running, Places, AppCode, FrontendTypeOK
<1>i. CASE Scan(a)
  BY <1>1, <1>4, <1>5, <1>6, <1>i DEF Scan, Places, AppCode, FrontendTypeOK
<1>j. CASE TimerReturns(a)
  BY <1>1, <1>4, <1>5, <1>j DEF TimerReturns, Running, Places, AppCode, FrontendTypeOK
<1>k. CASE Sweep(a)
  <2>1. BusTypeOK' /\ UNCHANGED <<connected, req, stage>>
    BY <1>5, <1>k DEF Sweep
  <2>2. FrontendTypeOK'
    BY <1>1, <1>3, <1>k DEF Sweep, Goto, FrontendTypeOK, Places, AppCode
  <2>3. CallsInFlight' /\ ConnectedAlive'
    BY <1>1, <1>6, <1>k, <2>1, MoveType DEF Sweep, Goto, Places, AppCode, FrontendTypeOK
  <2> QED BY <2>1, <2>2, <2>3
<1>l. CASE ShutdownReturns(a)
  <2>1. BusTypeOK' /\ CallsInFlight' /\ ConnectedAlive'
    BY <1>1, <1>l, DisconnectType DEF ShutdownReturns
  <2>2. FrontendTypeOK'
    BY <1>1, <1>3, <1>l DEF ShutdownReturns, Goto, FrontendTypeOK, Places, AppCode
  <2> QED BY <2>1, <2>2
<1> QED BY <1>a, <1>b, <1>c, <1>d, <1>e, <1>f, <1>g, <1>h, <1>i, <1>j, <1>k, <1>l DEF Loop, LoopStep

(* An API call that is sent to the VMI partition.                          *)
LEMMA AskType ==
  ASSUME BusTypeOK, FrontendTypeOK, CallsInFlight, ConnectedAlive,
         NEW a \in Apps, NEW c, Calling(a, c), NEW call \in Calls, Ask(a, call),
         call.op \in {"EVENT_CLEAR", "STOP_SYSCALL"} => eventlist[a][call.id] # NoEntry
  PROVE  BusTypeOK' /\ FrontendTypeOK' /\ CallsInFlight' /\ ConnectedAlive'
<1>1. FrontendTypeOK'
  BY FrontendAssumption DEF FrontendTypeOK, Calling, Ask
<1>2. BusTypeOK' /\ CallsInFlight' /\ ConnectedAlive'
  BY SendType DEF Calling, Running, Ask
<1> QED BY <1>1, <1>2

(* An API call that the frontend serves itself.                            *)
LEMMA LocalType ==
  ASSUME BusTypeOK, FrontendTypeOK, CallsInFlight, ConnectedAlive,
         NEW a \in Apps, UNCHANGED busVars, UNCHANGED <<eventlist, pc>>
  PROVE  BusTypeOK' /\ CallsInFlight' /\ ConnectedAlive'
BY DEF BusTypeOK, CallsInFlight, ConnectedAlive, busVars

(* A timer or BE source, which the frontend registers by itself.           *)
LEMMA RegisterLocalType ==
  ASSUME BusTypeOK, FrontendTypeOK, CallsInFlight, ConnectedAlive, NEW a \in Apps,
         NEW c, NEW kind \in {"TIMER", "BE"}, RegisterLocal(a, c, kind)
  PROVE  BusTypeOK' /\ FrontendTypeOK' /\ CallsInFlight' /\ ConnectedAlive'
<1>1. nextTid[a] \in Ids /\ nextTid[a] + 1 \in 0 .. MaxTid
  BY FrontendAssumption, MaxIdAssumption DEF FrontendTypeOK, RegisterLocal, Ids
<1>2. timerlist' \in [Apps -> [Ids -> {"none", "TIMER", "INACTIVE", "BE"}]]
  BY <1>1 DEF FrontendTypeOK, RegisterLocal
<1>3. nextTid' \in [Apps -> 0 .. MaxTid]
  BY <1>1 DEF FrontendTypeOK, RegisterLocal
<1>4. budget' \in [Apps -> 0 .. MaxCalls]
  BY FrontendAssumption DEF FrontendTypeOK, RegisterLocal, Calling
<1>5. beInfo' \in [Apps -> BOOLEAN]
  BY DEF FrontendTypeOK, RegisterLocal
<1>6. raised' \in [Apps -> BOOLEAN]
  BY DEF FrontendTypeOK, RegisterLocal
<1>7. FrontendTypeOK'
  BY <1>2, <1>3, <1>4, <1>5, <1>6 DEF FrontendTypeOK, RegisterLocal, Calling
<1>8. BusTypeOK' /\ CallsInFlight' /\ ConnectedAlive'
  BY LocalType DEF RegisterLocal, Calling
<1> QED BY <1>7, <1>8

(* An event_clear of any number.                                           *)
LEMMA ClearNumberType ==
  ASSUME BusTypeOK, FrontendTypeOK, CallsInFlight, ConnectedAlive, NEW a \in Apps,
         NEW c, Calling(a, c), NEW n \in Ids, ClearNumber(a, n)
  PROVE  BusTypeOK' /\ FrontendTypeOK' /\ CallsInFlight' /\ ConnectedAlive'
<1>1. CASE eventlist[a][n] # NoEntry /\ Ask(a, [op |-> "EVENT_CLEAR", id |-> n])
  <2>1. [op |-> "EVENT_CLEAR", id |-> n] \in Calls
    BY DEF Calls, RemoveCalls
  <2> QED BY <1>1, <2>1, AskType
<1>2. CASE /\ timerlist' = [timerlist EXCEPT ![a][n] = IF @ = "TIMER" THEN "INACTIVE" ELSE @]
           /\ UNCHANGED <<eventlist, nextTid, beInfo, raised>>
           /\ UNCHANGED busVars
  <2>1. budget' \in [Apps -> 0 .. MaxCalls]
    BY FrontendAssumption DEF FrontendTypeOK, Calling
  <2>2. timerlist' \in [Apps -> [Ids -> {"none", "TIMER", "INACTIVE", "BE"}]]
    BY <1>2 DEF FrontendTypeOK
  <2>3. FrontendTypeOK'
    BY <1>2, <2>1, <2>2 DEF FrontendTypeOK, Calling
  <2> QED BY <1>2, <2>3, LocalType DEF Calling
<1> QED BY <1>1, <1>2 DEF ClearNumber

(* A step of an app's code, and its end.                                   *)
LEMMA AppType ==
  ASSUME TypeInv, NEW a \in Apps, App(a)
  PROVE  TypeInv'
<1>1. /\ BusTypeOK /\ FrontendTypeOK /\ CallsInFlight /\ ConnectedAlive
      /\ UNCHANGED vmiVars
  BY DEF TypeInv, TypeOK, App
<1>2. SUFFICES BusTypeOK' /\ FrontendTypeOK' /\ CallsInFlight' /\ ConnectedAlive'
  BY <1>1, FrontendFrame
<1>a. CASE RegisterEvent(a)
  <2>1. PICK sync \in Syncs, cb \in Callbacks :
          Ask(a, [op |-> "EVENT_REGISTER", sync |-> sync, cb |-> cb])
    BY <1>a DEF RegisterEvent
  <2>2. [op |-> "EVENT_REGISTER", sync |-> sync, cb |-> cb] \in Calls
    BY FrontendAssumption DEF Calls, RegisterCalls
  <2> QED BY <1>1, <1>a, <2>1, <2>2, AskType DEF RegisterEvent
<1>b. CASE AskStartSyscall(a)
  <2>1. PICK sync \in Syncs, cb \in Callbacks :
          Ask(a, [op |-> "START_SYSCALL", sync |-> sync, cb |-> cb])
    BY <1>b DEF AskStartSyscall
  <2>2. [op |-> "START_SYSCALL", sync |-> sync, cb |-> cb] \in Calls
    BY FrontendAssumption DEF Calls, RegisterCalls
  <2> QED BY <1>1, <1>b, <2>1, <2>2, AskType DEF AskStartSyscall
<1>c. CASE RegisterTimer(a)
  BY <1>1, <1>c, RegisterLocalType DEF RegisterTimer
<1>d. CASE RegisterBe(a)
  BY <1>1, <1>d, RegisterLocalType DEF RegisterBe
<1>e. ASSUME NEW id \in Ids, ClearEvent(a, id)
      PROVE  BusTypeOK' /\ FrontendTypeOK' /\ CallsInFlight' /\ ConnectedAlive'
  BY <1>1, <1>e, ClearNumberType DEF ClearEvent
<1>f. ASSUME NEW tid \in Ids, ClearTimer(a, tid)
      PROVE  BusTypeOK' /\ FrontendTypeOK' /\ CallsInFlight' /\ ConnectedAlive'
  BY <1>1, <1>f, ClearNumberType DEF ClearTimer
<1>g. ASSUME NEW id \in Ids, AskStopSyscall(a, id)
      PROVE  BusTypeOK' /\ FrontendTypeOK' /\ CallsInFlight' /\ ConnectedAlive'
  <2>1. [op |-> "STOP_SYSCALL", id |-> id] \in Calls
    BY DEF Calls, RemoveCalls
  <2> QED BY <1>1, <1>g, <2>1, AskType DEF AskStopSyscall
<1>h. ASSUME NEW c, Calling(a, c), NEW call \in BareCalls, Ask(a, call)
      PROVE  BusTypeOK' /\ FrontendTypeOK' /\ CallsInFlight' /\ ConnectedAlive'
  <2>1. call \in Calls /\ call.op \notin {"EVENT_CLEAR", "STOP_SYSCALL"}
    BY <1>h DEF Calls, BareCalls
  <2> QED BY <1>1, <1>h, <2>1, AskType
<1>i. CASE AskEventsStart(a) \/ AskEventsStop(a) \/ AskPause(a) \/ AskResume(a)
  BY <1>h, <1>i DEF AskEventsStart, AskEventsStop, AskPause, AskResume, BareCalls
<1>j. CASE AppExit(a)
  <2>1. FrontendTypeOK'
    BY <1>1, <1>j, FrontendAssumption DEF AppExit, Goto, FrontendTypeOK, Places, AppCode
  <2>2. CASE pc[a] = "init"
    BY <1>1, <1>j, <2>1, <2>2, DisconnectType DEF AppExit
  <2>3. CASE pc[a] # "init"
    <3>1. PICK place \in {"resume", "shutdown"} : Goto(a, place)
      BY <1>j, <2>3 DEF AppExit
    <3>2. BusTypeOK' /\ UNCHANGED <<connected, req, stage, eventlist>>
      BY <1>1, <1>j, <2>3 DEF AppExit, BusTypeOK, busVars
    <3>3. CallsInFlight' /\ ConnectedAlive'
      BY <1>1, <1>j, <3>1, <3>2, MoveType DEF AppExit, Running, Goto, Places, AppCode
    <3> QED BY <2>1, <3>2, <3>3
  <2> QED BY <2>2, <2>3
<1>k. CASE Killed(a)
  <2>1. FrontendTypeOK'
    BY <1>1, <1>k, FrontendAssumption DEF Killed, Goto, FrontendTypeOK, Places, AppCode
  <2> QED BY <1>1, <1>k, <2>1, DisconnectType DEF Killed
<1> QED BY <1>a, <1>b, <1>c, <1>d, <1>e, <1>f, <1>g, <1>i, <1>j, <1>k DEF App, ApiCall

(* The invariant holds at first.                                           *)
LEMMA InitType == Init => TypeInv
<1> SUFFICES ASSUME Init PROVE TypeInv
  OBVIOUS
<1>1. 0 \in Ids /\ MaxCalls \in 0 .. MaxCalls /\ 0 \in 0 .. MaxCalls /\ 0 \in 0 .. MaxTid
  BY MaxIdAssumption, FrontendAssumption DEF Ids
<1>2. BusTypeOK
  BY <1>1, EmptySeq DEF Init, BusInit, BusTypeOK, Replies, NoReply
<1>3. VmiTypeOK
  BY DEF Init, VmiInit, VmiTypeOK
<1>4. FrontendTypeOK
  BY <1>1 DEF Init, FrontendInit, FrontendTypeOK, Places, AppCode
<1>5. CallsInFlight /\ ConnectedAlive
  BY DEF Init, BusInit, FrontendInit, CallsInFlight, ConnectedAlive
<1>6. PendingArmed
  BY MaxIdAssumption DEF Init, VmiInit, PendingArmed, NoTrap, SyscallTrap, Ids
<1>7. PluginAgreement
  BY DEF Init, VmiInit, PluginAgreement, NoEvent
<1> QED BY <1>2, <1>3, <1>4, <1>5, <1>6, <1>7 DEF TypeInv, TypeOK

(* Every step keeps it.                                                    *)
LEMMA TypeStep == TypeInv /\ [Next]_vars => TypeInv'
<1>1. ASSUME TypeInv, UNCHANGED vars PROVE TypeInv'
  BY <1>1 DEF vars, busVars, vmiVars, feVars, TypeInv, TypeOK, BusTypeOK, VmiTypeOK,
       FrontendTypeOK, CallsInFlight, ConnectedAlive, PendingArmed, PluginAgreement
<1> QED BY <1>1, ServeType, LoopType, AppType, CallbackType, GuestType DEF Next

(* Every reachable state is well typed, whatever calls the apps make and   *)
(* in whatever order the threads run.                                      *)
THEOREM TypeCorrect == Spec => []TypeOK
<1>1. TypeInv => TypeOK
  BY DEF TypeInv
<1> QED BY <1>1, InitType, TypeStep, PTL DEF Spec

(* The assert of process_stop_syscall never fails: while the plugin runs,  *)
(* its event is in the map, whatever calls the apps make.                  *)
THEOREM PluginCorrect == Spec => []PluginAgreement
<1>1. TypeInv => PluginAgreement
  BY DEF TypeInv
<1> QED BY <1>1, InitType, TypeStep, PTL DEF Spec
=============================================================================
