------------------------ MODULE EventRegistryProofs ------------------------
(***************************************************************************)
(* Proofs that the VMI partition's event map and the frontends' eventlists *)
(* agree, for apps that keep to EventSystem's Discipline.                  *)
(***************************************************************************)
EXTENDS EventSystemProofs

(* What the invariant of the registry adds to well-typedness.              *)
Registry ==
  /\ RegistryAgreement
  /\ RemovalsOwn
  /\ AnswersHold
  /\ CleanupInactive
  /\ ResumeInFlight

registryVars == <<events, plugin, connected, req, stage, rep, eventlist, pc, cleanup>>

(* Nothing else matters to it.                                             *)
LEMMA RegistryFrame ==
  ASSUME Registry, UNCHANGED registryVars
  PROVE  Registry'
<1> USE DEF registryVars, Answered
<1>1. RegistryAgreement'
  BY DEF Registry, RegistryAgreement, Present, Tracks, Entering, Leaving
<1>2. RemovalsOwn'
  BY DEF Registry, RemovalsOwn
<1>3. AnswersHold'
  BY DEF Registry, AnswersHold, Present, Entering
<1>4. CleanupInactive' /\ ResumeInFlight'
  BY DEF Registry, CleanupInactive, ResumeInFlight
<1> QED BY <1>1, <1>2, <1>3, <1>4 DEF Registry

-----------------------------------------------------------------------------
(* Request handlers.                                                       *)

(* A reply that reports no registration and no removal.                    *)
LEMMA NeutralReply ==
  ASSUME TypeInv, Registry, NEW a \in Apps, stage[a] = "sent",
         NEW ok \in BOOLEAN, NEW n \in Ids, SendReply(a, ok, n),
         ok => req[a].op \notin {"EVENT_REGISTER", "START_SYSCALL",
                                 "EVENT_CLEAR", "STOP_SYSCALL"},
         UNCHANGED <<events, plugin>>, UNCHANGED feVars
  PROVE  Registry'
<1>1. /\ UNCHANGED <<events, plugin, connected, eventlist, pc, cleanup>>
      /\ \A b \in Apps \ {a} : stage'[b] = stage[b] /\ req'[b] = req[b] /\ rep'[b] = rep[b]
      /\ stage'[a] # "sent"
      /\ a \in connected => stage'[a] = "replied" /\ req'[a] = req[a] /\ rep'[a].ok = ok
      /\ connected \subseteq Apps
  BY DEF TypeInv, TypeOK, BusTypeOK, SendReply, feVars
<1> USE <1>1 DEF Answered, Registry
<1>2. RegistryAgreement'
  BY DEF RegistryAgreement, Present, Tracks, Entering, Leaving
<1>3. RemovalsOwn'
  BY DEF RemovalsOwn
<1>4. AnswersHold'
  BY DEF AnswersHold, Present, Entering
<1>5. CleanupInactive' /\ ResumeInFlight'
  BY DEF CleanupInactive, ResumeInFlight
<1> QED BY <1>2, <1>3, <1>4, <1>5

(* An event enters the map in a free slot.                                 *)
LEMMA RegistryGains ==
  ASSUME TypeInv, Registry, NEW a \in Apps, stage[a] = "sent",
         NEW id \in Ids, IsFreeSlot(id), SendReply(a, TRUE, id),
         NEW e \in Events, e.owner = a, e.cb = req[a].cb,
         \/ req[a].op = "EVENT_REGISTER" /\ e.kind = "trap" /\ UNCHANGED plugin
         \/ req[a].op = "START_SYSCALL" /\ e.kind = "syscall" /\ plugin = NoPlugin,
         events' = [events EXCEPT ![id] = e], UNCHANGED feVars
  PROVE  Registry'
<1>1. /\ UNCHANGED <<connected, eventlist, pc, cleanup>>
      /\ \A b \in Apps \ {a} : stage'[b] = stage[b] /\ req'[b] = req[b] /\ rep'[b] = rep[b]
      /\ stage'[a] # "sent"
      /\ a \in connected => /\ stage'[a] = "replied" /\ req'[a] = req[a]
                            /\ rep'[a].ok /\ rep'[a].id = id
      /\ connected \subseteq Apps
      /\ events[id] = NoEvent /\ events'[id] = e /\ e # NoEvent
      /\ \A n \in Ids \ {id} : events'[n] = events[n]
      /\ rep \in [Apps -> Replies]
      /\ \A b \in Apps : rep[b].id \in Ids
  BY DEF TypeInv, TypeOK, BusTypeOK, VmiTypeOK, SendReply, feVars, IsFreeSlot, Present,
         Events, NoEvent, Replies
<1>2. RegistryAgreement'
  BY <1>1 DEF Registry, RegistryAgreement, Present, Tracks, Entering, Leaving, Answered
<1>3. RemovalsOwn'
  <2> SUFFICES ASSUME NEW b \in Apps, stage'[b] = "sent"
      PROVE  /\ req'[b].op = "EVENT_CLEAR" =>
                  events'[req'[b].id].kind = "trap" /\ events'[req'[b].id].owner = b
             /\ req'[b].op = "STOP_SYSCALL" =>
                  plugin' # NoPlugin /\ plugin'.id = req'[b].id /\ plugin'.owner = b
    BY DEF RemovalsOwn
  <2>1. b # a /\ stage[b] = "sent" /\ req'[b] = req[b] /\ req[b] \in Calls
    BY <1>1 DEF TypeInv, CallsInFlight
  <2>2. CASE req[b].op = "EVENT_CLEAR"
    <3>1. req[b].id \in Ids
      BY <2>1, <2>2 DEF Calls, RegisterCalls, RemoveCalls, BareCalls
    <3> QED BY <1>1, <2>1, <2>2, <3>1 DEF Registry, RemovalsOwn, NoEvent
  <2>3. CASE req[b].op = "STOP_SYSCALL"
    BY <2>1, <2>3 DEF Registry, RemovalsOwn
  <2> QED BY <2>1, <2>2, <2>3
<1>4. AnswersHold'
  <2> SUFFICES ASSUME NEW b \in connected
      PROVE  /\ Answered(b, {"EVENT_REGISTER", "START_SYSCALL"})' =>
                  /\ events'[rep'[b].id] # NoEvent
                  /\ events'[rep'[b].id].owner = b
                  /\ Entering(b, rep[b].id)'
             /\ Answered(b, {"EVENT_CLEAR", "STOP_SYSCALL"})' =>
                  ~ (Present(req[b].id)' /\ events'[req'[b].id].owner = b)
    BY <1>1 DEF AnswersHold
  <2>1. CASE b = a
    BY <1>1, <2>1 DEF Answered, Entering
  <2>2. CASE b # a
    <3>1. Answered(b, {"EVENT_CLEAR", "STOP_SYSCALL"}) => req[b].id \in Ids
      BY <1>1 DEF Answered, TypeInv, CallsInFlight, Calls, RegisterCalls, RemoveCalls, BareCalls
    <3> QED BY <1>1, <2>2, <3>1 DEF Registry, AnswersHold, Answered, Entering, Present
  <2> QED BY <2>1, <2>2
<1>5. CleanupInactive' /\ ResumeInFlight'
  BY <1>1 DEF Registry, CleanupInactive, ResumeInFlight
<1> QED BY <1>2, <1>3, <1>4, <1>5 DEF Registry

(* An event leaves the map on its owner's request.                         *)
LEMMA RegistryLoses ==
  ASSUME TypeInv, Registry, NEW a \in Apps, stage[a] = "sent",
         NEW id \in Ids, NEW n \in Ids, SendReply(a, TRUE, n),
         req[a].op \in {"EVENT_CLEAR", "STOP_SYSCALL"}, req[a].id = id,
         events[id].owner = a, events[id] # NoEvent,
         events' = [events EXCEPT ![id] = NoEvent],
         \/ req[a].op = "EVENT_CLEAR" /\ UNCHANGED plugin
         \/ req[a].op = "STOP_SYSCALL" /\ plugin.id = id /\ plugin.owner = a,
         UNCHANGED feVars
  PROVE  Registry'
<1>1. /\ UNCHANGED <<connected, eventlist, pc, cleanup>>
      /\ \A b \in Apps \ {a} : stage'[b] = stage[b] /\ req'[b] = req[b] /\ rep'[b] = rep[b]
      /\ stage'[a] # "sent"
      /\ a \in connected => stage'[a] = "replied" /\ req'[a] = req[a] /\ rep'[a].ok
      /\ connected \subseteq Apps
      /\ events'[id] = NoEvent
      /\ \A m \in Ids \ {id} : events'[m] = events[m]
      /\ \A b \in Apps : rep[b].id \in Ids
  BY DEF TypeInv, TypeOK, BusTypeOK, VmiTypeOK, SendReply, feVars, Replies
<1>2. RegistryAgreement'
  BY <1>1 DEF Registry, RegistryAgreement, Present, Tracks, Entering, Leaving, Answered
<1>3. RemovalsOwn'
  <2> SUFFICES ASSUME NEW b \in Apps, stage'[b] = "sent"
      PROVE  /\ req'[b].op = "EVENT_CLEAR" =>
                  events'[req'[b].id].kind = "trap" /\ events'[req'[b].id].owner = b
             /\ req'[b].op = "STOP_SYSCALL" =>
                  plugin' # NoPlugin /\ plugin'.id = req'[b].id /\ plugin'.owner = b
    BY DEF RemovalsOwn
  <2>1. b # a /\ stage[b] = "sent" /\ req'[b] = req[b] /\ req[b] \in Calls
    BY <1>1 DEF TypeInv, CallsInFlight
  <2>2. CASE req[b].op = "EVENT_CLEAR"
    <3>1. req[b].id \in Ids
      BY <2>1, <2>2 DEF Calls, RegisterCalls, RemoveCalls, BareCalls
    <3> QED BY <1>1, <2>1, <2>2, <3>1 DEF Registry, RemovalsOwn
  <2>3. CASE req[b].op = "STOP_SYSCALL"
    BY <2>1, <2>3 DEF Registry, RemovalsOwn
  <2> QED BY <2>1, <2>2, <2>3
<1>4. AnswersHold'
  <2> SUFFICES ASSUME NEW b \in connected
      PROVE  /\ Answered(b, {"EVENT_REGISTER", "START_SYSCALL"})' =>
                  /\ events'[rep'[b].id] # NoEvent
                  /\ events'[rep'[b].id].owner = b
                  /\ Entering(b, rep[b].id)'
             /\ Answered(b, {"EVENT_CLEAR", "STOP_SYSCALL"})' =>
                  ~ (Present(req[b].id)' /\ events'[req'[b].id].owner = b)
    BY <1>1 DEF AnswersHold
  <2>1. CASE b = a
    BY <1>1, <2>1 DEF Answered, Entering, Present
  <2>2. CASE b # a
    <3>1. Answered(b, {"EVENT_CLEAR", "STOP_SYSCALL"}) => req[b].id \in Ids
      BY <1>1 DEF Answered, TypeInv, CallsInFlight, Calls, RegisterCalls, RemoveCalls, BareCalls
    <3> QED BY <1>1, <2>2, <3>1 DEF Registry, AnswersHold, Answered, Entering, Present
  <2> QED BY <2>1, <2>2
<1>5. CleanupInactive' /\ ResumeInFlight'
  BY <1>1 DEF Registry, CleanupInactive, ResumeInFlight
<1> QED BY <1>2, <1>3, <1>4, <1>5 DEF Registry

(* A call that the VMI partition serves changes the map and answers so     *)
(* that the frontend will agree.                                           *)
LEMMA ServeRegistry ==
  ASSUME TypeInv, Registry, NEW a \in Apps, Serve(a)
  PROVE  Registry'
<1>1. /\ stage[a] = "sent" /\ req[a] \in Calls
      /\ UNCHANGED feVars
  BY DEF Serve, VmiServe, TypeInv, CallsInFlight
<1>2. 0 \in Ids
  BY MaxIdAssumption DEF Ids
<1>3. CASE EventRegister(a, req[a])
  <2>1. req[a] \in RegisterCalls
    BY <1>1, <1>3 DEF EventRegister, Calls, RegisterCalls, RemoveCalls, BareCalls
  <2>2. CASE SendReply(a, FALSE, 0) /\ UNCHANGED events
    BY <1>1, <1>2, <1>3, <2>2, NeutralReply DEF EventRegister
  <2>3. ASSUME NEW id \in Ids, IsFreeSlot(id), SendReply(a, TRUE, id),
               events' = [events EXCEPT ![id] =
                  [kind |-> "trap", owner |-> a, sync |-> req[a].sync, cb |-> req[a].cb]]
        PROVE  Registry'
    <3> DEFINE e == [kind |-> "trap", owner |-> a, sync |-> req[a].sync, cb |-> req[a].cb]
    <3>1. e \in Events /\ e.owner = a /\ e.cb = req[a].cb /\ e.kind = "trap"
      BY <2>1 DEF RegisterCalls, Events
    <3>2. req[a].op = "EVENT_REGISTER" /\ UNCHANGED plugin
      BY <1>3 DEF EventRegister
    <3> HIDE DEF e
    <3> QED BY <1>1, <2>3, <3>1, <3>2, RegistryGains DEF e
  <2> QED BY <1>3, <2>2, <2>3 DEF EventRegister
<1>4. CASE EventClear(a, req[a])
  <2>1. req[a] \in RemoveCalls /\ req[a].id \in Ids /\ req[a].op = "EVENT_CLEAR"
    BY <1>1, <1>4 DEF EventClear, Calls, RegisterCalls, RemoveCalls, BareCalls
  <2>2. events[req[a].id].kind = "trap" /\ events[req[a].id].owner = a
    BY <1>1, <2>1 DEF Registry, RemovalsOwn
  <2>3. Present(req[a].id) /\ events[req[a].id].kind # "syscall"
    BY <2>2 DEF Present, NoEvent
  <2> QED BY <1>1, <1>4, <2>1, <2>2, <2>3, RegistryLoses DEF EventClear, Present
<1>5. CASE StartSyscall(a, req[a])
  <2>1. req[a] \in RegisterCalls
    BY <1>1, <1>5 DEF StartSyscall, Calls, RegisterCalls, RemoveCalls, BareCalls
  <2>2. CASE SendReply(a, FALSE, 0) /\ UNCHANGED <<events, plugin>>
    BY <1>1, <1>2, <2>2, NeutralReply
  <2>3. ASSUME NEW id \in Ids, IsFreeSlot(id), SendReply(a, TRUE, id), plugin = NoPlugin,
               events' = [events EXCEPT ![id] =
                  [kind |-> "syscall", owner |-> a, sync |-> req[a].sync, cb |-> req[a].cb]]
        PROVE  Registry'
    <3> DEFINE e == [kind |-> "syscall", owner |-> a, sync |-> req[a].sync, cb |-> req[a].cb]
    <3>1. e \in Events /\ e.owner = a /\ e.cb = req[a].cb /\ e.kind = "syscall"
      BY <2>1 DEF RegisterCalls, Events
    <3>2. req[a].op = "START_SYSCALL"
      BY <1>5 DEF StartSyscall
    <3> HIDE DEF e
    <3> QED BY <1>1, <2>3, <3>1, <3>2, RegistryGains DEF e
  <2> QED BY <1>5, <2>2, <2>3 DEF StartSyscall
<1>6. CASE StopSyscall(a, req[a])
  <2>1. req[a].id \in Ids /\ req[a].op = "STOP_SYSCALL"
    BY <1>1, <1>6 DEF StopSyscall, Calls, RegisterCalls, RemoveCalls, BareCalls
  <2>2. plugin # NoPlugin /\ plugin.id = req[a].id /\ plugin.owner = a
    BY <1>1, <2>1 DEF Registry, RemovalsOwn
  <2>3. events[plugin.id] # NoEvent /\ events[plugin.id].owner = a /\ Present(plugin.id)
    BY <2>2 DEF TypeInv, PluginAgreement, Present
  <2> QED BY <1>1, <1>2, <1>6, <2>1, <2>2, <2>3, RegistryLoses DEF StopSyscall
<1>7. CASE EventsSwitch(a, req[a])
  BY <1>1, <1>2, <1>7, NeutralReply DEF EventsSwitch
<1>8. CASE PauseResume(a, req[a])
  BY <1>1, <1>2, <1>8, NeutralReply DEF PauseResume
<1> QED BY <1>3, <1>4, <1>5, <1>6, <1>7, <1>8 DEF Serve, VmiServe

-----------------------------------------------------------------------------
(* The frontends.                                                          *)

(* A frontend's thread goes on to another place.  Before it deletes        *)
(* anything it must have found it INACTIVE.                                *)
LEMMA MoveRegistry ==
  ASSUME TypeInv, Registry, NEW a \in Apps, stage[a] = "idle",
         NEW place, pc' = [pc EXCEPT ![a] = place],
         \A b \in Apps \ {a} : cleanup'[b] = cleanup[b],
         place \in {"timer", "sweep"} =>
           \A id \in cleanup'[a] : eventlist[a][id].status = "INACTIVE",
         UNCHANGED <<events, plugin, connected, req, stage, rep, eventlist>>
  PROVE  Registry'
<1>1. RegistryAgreement' /\ RemovalsOwn' /\ AnswersHold'
  <2>1. RegistryAgreement'
    BY DEF Registry, RegistryAgreement, Present, Tracks, Entering, Leaving, Answered
  <2>2. RemovalsOwn'
    BY DEF Registry, RemovalsOwn
  <2>3. AnswersHold'
    BY DEF Registry, AnswersHold, Present, Entering, Answered
  <2> QED BY <2>1, <2>2, <2>3
<1>2. CleanupInactive' /\ ResumeInFlight'
  BY DEF Registry, CleanupInactive, ResumeInFlight, TypeInv, TypeOK, BusTypeOK, FrontendTypeOK
<1> QED BY <1>1, <1>2 DEF Registry

(* A frontend's process ends.                                              *)
LEMMA DisconnectRegistry ==
  ASSUME TypeInv, Registry, NEW a \in Apps, Disconnect(a), Goto(a, "dead"),
         UNCHANGED <<events, plugin, eventlist, cleanup>>
  PROVE  Registry'
<1>1. /\ connected' = connected \ {a} /\ connected \subseteq Apps
      /\ \A b \in Apps \ {a} : /\ stage'[b] = stage[b] /\ req'[b] = req[b]
                               /\ rep'[b] = rep[b] /\ pc'[b] = pc[b]
      /\ stage'[a] = "sent" => stage[a] = "sent" /\ req'[a] = req[a]
  BY DEF TypeInv, TypeOK, BusTypeOK, FrontendTypeOK, Disconnect, Goto
<1>2. RegistryAgreement'
  BY <1>1 DEF Registry, RegistryAgreement, Present, Tracks, Entering, Leaving, Answered
<1>3. RemovalsOwn'
  BY <1>1 DEF Registry, RemovalsOwn
<1>4. AnswersHold'
  BY <1>1 DEF Registry, AnswersHold, Present, Entering, Answered
<1>5. CleanupInactive' /\ ResumeInFlight'
  BY <1>1 DEF Registry, CleanupInactive, ResumeInFlight
<1> QED BY <1>2, <1>3, <1>4, <1>5 DEF Registry

(* A frontend sends a request.                                             *)
LEMMA SendRegistry ==
  ASSUME TypeInv, Registry, NEW a \in Apps, stage[a] = "idle",
         NEW call, SendRequest(a, call),
         call.op = "EVENT_CLEAR" =>
           events[call.id].kind = "trap" /\ events[call.id].owner = a,
         call.op = "STOP_SYSCALL" =>
           plugin # NoPlugin /\ plugin.id = call.id /\ plugin.owner = a,
         pc[a] \in {"timer", "sweep"} => call.op \notin {"EVENT_REGISTER", "START_SYSCALL"},
         pc[a] = "resume" => call = [op |-> "RESUME_VM"],
         UNCHANGED <<events, plugin, eventlist, pc, cleanup>>
  PROVE  Registry'
<1>1. /\ UNCHANGED <<connected, rep>> /\ connected \subseteq Apps
      /\ \A b \in Apps \ {a} : stage'[b] = stage[b] /\ req'[b] = req[b]
      /\ stage'[a] = "sent" /\ req'[a] = call
  BY DEF TypeInv, TypeOK, BusTypeOK, SendRequest
<1>2. RegistryAgreement'
  BY <1>1 DEF Registry, RegistryAgreement, Present, Tracks, Entering, Leaving, Answered
<1>3. RemovalsOwn'
  BY <1>1 DEF Registry, RemovalsOwn
<1>4. AnswersHold'
  BY <1>1 DEF Registry, AnswersHold, Present, Entering, Answered
<1>5. CleanupInactive' /\ ResumeInFlight'
  BY <1>1 DEF Registry, CleanupInactive, ResumeInFlight
<1> QED BY <1>2, <1>3, <1>4, <1>5 DEF Registry

(* The answer of a call is there, and the eventlist takes it in.           *)
LEMMA RecordRegistry ==
  ASSUME TypeInv, Registry, NEW a \in Apps, CallReturns(a), UNCHANGED vmiVars
  PROVE  Registry'
<1>1. /\ UNCHANGED <<events, plugin, connected, pc, cleanup>>
      /\ \A b \in Apps \ {a} : /\ stage'[b] = stage[b] /\ req'[b] = req[b]
                               /\ rep'[b] = rep[b] /\ eventlist'[b] = eventlist[b]
      /\ stage'[a] = "idle" /\ stage[a] = "replied"
      /\ eventlist'[a] = Recorded(a, req[a], rep[a])
      /\ connected \subseteq Apps
      /\ eventlist[a] \in [Ids -> Entries \cup {NoEntry}]
      /\ rep[a].id \in Ids /\ req[a] \in Calls
      /\ a \in connected
  BY DEF TypeInv, TypeOK, BusTypeOK, FrontendTypeOK, CallReturns, TakeReply, vmiVars,
         Replies, CallsInFlight, ConnectedAlive, AppCode
<1>2. \A id \in Ids : req[a].op \notin {"EVENT_REGISTER", "START_SYSCALL"} \/ ~ rep[a].ok
         => ~ Entering(a, id)
  BY DEF Entering, Answered
<1>3. \A id \in Ids :
        /\ Present(id) /\ events[id].owner = a =>
             eventlist'[a][id].status = "ACTIVE" /\ events[id].kind = eventlist'[a][id].kind
             /\ events[id].cb = eventlist'[a][id].cb
        /\ eventlist'[a][id].status = "ACTIVE" =>
             /\ Present(id) /\ events[id].owner = a
             /\ events[id].kind = eventlist'[a][id].kind
             /\ events[id].cb = eventlist'[a][id].cb
  <2> SUFFICES ASSUME NEW id \in Ids
      PROVE  /\ Present(id) /\ events[id].owner = a =>
                  eventlist'[a][id].status = "ACTIVE" /\ events[id].kind = eventlist'[a][id].kind
                  /\ events[id].cb = eventlist'[a][id].cb
             /\ eventlist'[a][id].status = "ACTIVE" =>
                  /\ Present(id) /\ events[id].owner = a
                  /\ events[id].kind = eventlist'[a][id].kind
                  /\ events[id].cb = eventlist'[a][id].cb
    OBVIOUS
  <2>1. /\ Present(id) /\ events[id].owner = a => Tracks(a, id) \/ Entering(a, id)
        /\ eventlist[a][id].status = "ACTIVE" => Tracks(a, id) \/ Leaving(a, id)
    BY <1>1 DEF Registry, RegistryAgreement
  <2>2. CASE rep[a].ok /\ req[a].op = "EVENT_REGISTER"
    <3>1. Entering(a, rep[a].id) /\ events[rep[a].id] # NoEvent /\ events[rep[a].id].owner = a
      BY <1>1, <2>2 DEF Registry, AnswersHold, Answered
    <3>2. eventlist'[a] = [eventlist[a] EXCEPT ![rep[a].id] =
                 [kind |-> "trap", status |-> "ACTIVE", cb |-> req[a].cb]]
      BY <1>1, <2>2 DEF Recorded
    <3>3. ~ Leaving(a, id)
      BY <2>2 DEF Leaving, Answered
    <3> QED BY <1>1, <2>1, <2>2, <3>1, <3>2, <3>3 DEF Entering, Tracks, Present
  <2>3. CASE rep[a].ok /\ req[a].op = "START_SYSCALL"
    <3>1. Entering(a, rep[a].id) /\ events[rep[a].id] # NoEvent /\ events[rep[a].id].owner = a
      BY <1>1, <2>3 DEF Registry, AnswersHold, Answered
    <3>2. eventlist'[a] = [eventlist[a] EXCEPT ![rep[a].id] =
                 [kind |-> "syscall", status |-> "ACTIVE", cb |-> req[a].cb]]
      BY <1>1, <2>3 DEF Recorded
    <3>3. ~ Leaving(a, id)
      BY <2>3 DEF Leaving, Answered
    <3> QED BY <1>1, <2>1, <2>3, <3>1, <3>2, <3>3 DEF Entering, Tracks, Present
  <2>4. CASE rep[a].ok /\ req[a].op \in {"EVENT_CLEAR", "STOP_SYSCALL"}
    <3>1. req[a].id \in Ids
      BY <1>1, <2>4 DEF Calls, RegisterCalls, RemoveCalls, BareCalls
    <3>2. ~ (Present(req[a].id) /\ events[req[a].id].owner = a)
      BY <1>1, <2>4 DEF Registry, AnswersHold, Answered
    <3>3. eventlist'[a] = [eventlist[a] EXCEPT ![req[a].id].status = "INACTIVE"]
      BY <1>1, <2>4 DEF Recorded
    <3>4. eventlist[a][req[a].id] \in Entries
      BY <1>1, <2>4, <3>1 DEF TypeInv, CallsInFlight
    <3>5. eventlist'[a][req[a].id].status = "INACTIVE"
          /\ (id # req[a].id => eventlist'[a][id] = eventlist[a][id])
      BY <1>1, <3>1, <3>3, <3>4 DEF Entries
    <3>6. ~ Entering(a, id)
      BY <1>2, <2>4
    <3> QED BY <1>1, <2>1, <3>2, <3>5, <3>6 DEF Tracks, Leaving, Present
  <2>5. CASE ~ rep[a].ok \/ req[a].op \notin {"EVENT_REGISTER", "START_SYSCALL",
                                               "EVENT_CLEAR", "STOP_SYSCALL"}
    <3>1. eventlist'[a] = eventlist[a]
      BY <1>1, <2>5 DEF Recorded
    <3> QED BY <2>1, <2>5, <3>1 DEF Tracks, Entering, Leaving, Answered, Present
  <2> QED BY <2>2, <2>3, <2>4, <2>5
<1>4. RegistryAgreement'
  <2> SUFFICES ASSUME NEW b \in connected, NEW id \in Ids
      PROVE  /\ Present(id)' /\ events'[id].owner = b => Tracks(b, id)' \/ Entering(b, id)'
             /\ eventlist'[b][id].status = "ACTIVE" => Tracks(b, id)' \/ Leaving(b, id)'
    BY <1>1 DEF RegistryAgreement
  <2>1. CASE b = a
    BY <1>1, <1>3, <2>1 DEF Tracks, Present
  <2>2. CASE b # a
    BY <1>1, <2>2 DEF Registry, RegistryAgreement, Present, Tracks, Entering, Leaving, Answered
  <2> QED BY <2>1, <2>2
<1>5. RemovalsOwn'
  BY <1>1 DEF Registry, RemovalsOwn
<1>6. AnswersHold'
  BY <1>1 DEF Registry, AnswersHold, Present, Entering, Answered
<1>7. CleanupInactive'
  <2> SUFFICES ASSUME NEW b \in connected, pc[b] \in {"timer", "sweep"}
      PROVE  /\ \A id \in cleanup[b] : eventlist'[b][id].status = "INACTIVE"
             /\ stage'[b] # "idle" => req'[b].op \notin {"EVENT_REGISTER", "START_SYSCALL"}
    BY <1>1 DEF CleanupInactive
  <2>1. /\ \A id \in cleanup[b] : eventlist[b][id].status = "INACTIVE"
        /\ stage[b] # "idle" => req[b].op \notin {"EVENT_REGISTER", "START_SYSCALL"}
    BY DEF Registry, CleanupInactive
  <2>2. CASE b # a
    BY <1>1, <2>1, <2>2
  <2>3. CASE b = a
    <3>1. req[a].op \notin {"EVENT_REGISTER", "START_SYSCALL"}
      BY <1>1, <2>1, <2>3
    <3>2. CASE rep[a].ok /\ req[a].op \in {"EVENT_CLEAR", "STOP_SYSCALL"}
      <4>1. req[a].id \in Ids /\ eventlist[a][req[a].id] \in Entries
        <5>1. req[a].id \in Ids
          BY <1>1, <3>2 DEF Calls, RegisterCalls, RemoveCalls, BareCalls
        <5> QED BY <1>1, <3>2, <5>1 DEF TypeInv, CallsInFlight
      <4>2. eventlist'[a] = [eventlist[a] EXCEPT ![req[a].id].status = "INACTIVE"]
        BY <1>1, <3>2 DEF Recorded
      <4>3. cleanup[a] \subseteq Ids
        BY DEF TypeInv, TypeOK, FrontendTypeOK
      <4> QED BY <1>1, <2>1, <2>3, <4>1, <4>2, <4>3 DEF Entries
    <3>3. CASE ~ (rep[a].ok /\ req[a].op \in {"EVENT_CLEAR", "STOP_SYSCALL"})
      BY <1>1, <2>1, <2>3, <3>1, <3>3 DEF Recorded
    <3> QED BY <3>2, <3>3
  <2> QED BY <2>2, <2>3
<1>8. ResumeInFlight'
  BY <1>1 DEF Registry, ResumeInFlight
<1> QED BY <1>4, <1>5, <1>6, <1>7, <1>8 DEF Registry

(* The frontend's loop takes answers and cleans up only what is INACTIVE.  *)
LEMMA LoopRegistry ==
  ASSUME TypeInv, Registry, NEW a \in Apps, Loop(a)
  PROVE  Registry'
<1>1. /\ UNCHANGED <<events, plugin>>
      /\ BusTypeOK /\ FrontendTypeOK /\ CallsInFlight /\ ConnectedAlive
  BY DEF TypeInv, TypeOK, Loop, vmiVars
<1>2. ASSUME pc[a] \notin AppCode \cup {"resume", "dead"}
      PROVE  stage[a] = "idle" /\ a \in connected
  BY <1>1, <1>2, IdleElsewhere DEF ConnectedAlive
<1>3. ASSUME NEW place, Goto(a, place), stage[a] = "idle", place \notin {"timer", "sweep"},
             UNCHANGED <<connected, req, stage, rep, eventlist, cleanup>>
      PROVE  Registry'
  BY <1>1, <1>3, MoveRegistry DEF Goto
<1>a. CASE CallReturns(a)
  BY <1>a, RecordRegistry DEF Loop
<1>b. CASE InitReturns(a)
  BY <1>3, <1>b DEF InitReturns, Running, busVars
<1>c. CASE Poll(a)
  <2>1. stage[a] = "idle"
    BY <1>2, <1>c DEF Poll, AppCode
  <2> QED BY <1>3, <1>c, <2>1 DEF Poll, busVars
<1>d. CASE EventReturns(a)
  BY <1>3, <1>d DEF EventReturns, Running, busVars
<1>e. CASE ResumeSends(a)
  BY <1>1, <1>e, SendRegistry DEF ResumeSends, feVars
<1>f. CASE ResumeReturns(a)
  <2>1. a \in connected /\ stage[a] = "replied" /\ req[a] = [op |-> "RESUME_VM"]
    BY <1>1, <1>f DEF ResumeReturns, TakeReply, ConnectedAlive, Registry, ResumeInFlight
  <2>2. /\ UNCHANGED <<connected, eventlist, cleanup>>
        /\ \A b \in Apps \ {a} : /\ stage'[b] = stage[b] /\ req'[b] = req[b]
                                 /\ rep'[b] = rep[b] /\ pc'[b] = pc[b]
        /\ stage'[a] = "idle" /\ pc'[a] \notin {"timer", "sweep"}
        /\ connected \subseteq Apps
    BY <1>1, <1>f DEF ResumeReturns, TakeReply, Goto, BusTypeOK, FrontendTypeOK
  <2>3. RegistryAgreement'
    BY <1>1, <2>1, <2>2 DEF Registry, RegistryAgreement, Present, Tracks, Entering, Leaving, Answered
  <2>4. RemovalsOwn'
    BY <1>1, <2>2 DEF Registry, RemovalsOwn
  <2>5. AnswersHold'
    BY <1>1, <2>2 DEF Registry, AnswersHold, Present, Entering, Answered
  <2>6. CleanupInactive' /\ ResumeInFlight'
    BY <1>1, <2>2 DEF Registry, CleanupInactive, ResumeInFlight
  <2> QED BY <2>3, <2>4, <2>5, <2>6 DEF Registry
<1>g. CASE Fac(a)
  <2>1. stage[a] = "idle"
    BY <1>2, <1>g DEF Fac, AppCode
  <2> QED BY <1>3, <1>g, <2>1 DEF Fac, busVars
<1>h. CASE BeReturns(a)
  BY <1>3, <1>h DEF BeReturns, Running, busVars
<1>i. CASE Scan(a)
  <2>1. stage[a] = "idle"
    BY <1>2, <1>i DEF Scan, AppCode
  <2>2. /\ cleanup'[a] = {id \in Ids : eventlist[a][id].status = "INACTIVE"}
        /\ \A b \in Apps \ {a} : cleanup'[b] = cleanup[b]
        /\ UNCHANGED <<connected, req, stage, rep, eventlist>>
    BY <1>1, <1>i DEF Scan, FrontendTypeOK, busVars
  <2>3. PICK place : pc' = [pc EXCEPT ![a] = place]
    BY <1>i DEF Scan, Goto
  <2> QED BY <1>1, <2>1, <2>2, <2>3, MoveRegistry
<1>j. CASE TimerReturns(a)
  <2>1. \A id \in cleanup[a] : eventlist[a][id].status = "INACTIVE"
    BY <1>1, <1>j DEF TimerReturns, Registry, CleanupInactive, ConnectedAlive
  <2>2. PICK place : pc' = [pc EXCEPT ![a] = place]
    BY <1>j DEF TimerReturns, Goto
  <2> QED BY <1>1, <1>j, <2>1, <2>2, MoveRegistry DEF TimerReturns, Running, busVars
<1>k. CASE Sweep(a)
  <2>1. stage[a] = "idle" /\ a \in connected
    BY <1>2, <1>k DEF Sweep, AppCode
  <2>2. /\ UNCHANGED <<connected, req, stage, rep>>
        /\ connected \subseteq Apps
        /\ pc'[a] = "poll"
        /\ \A b \in Apps \ {a} : /\ eventlist'[b] = eventlist[b] /\ pc'[b] = pc[b]
                                 /\ cleanup'[b] = cleanup[b]
        /\ eventlist'[a] = [id \in Ids |-> IF id \in cleanup[a] THEN NoEntry
                                           ELSE eventlist[a][id]]
    BY <1>1, <1>k DEF Sweep, Goto, BusTypeOK, FrontendTypeOK, busVars
  <2>3. \A id \in Ids : eventlist[a][id].status = "ACTIVE"
                          => id \notin cleanup[a] /\ eventlist'[a][id] = eventlist[a][id]
    BY <1>k, <2>1, <2>2 DEF Sweep, Registry, CleanupInactive
  <2>4. \A id \in Ids : eventlist'[a][id].status = "ACTIVE"
                          => eventlist'[a][id] = eventlist[a][id]
    BY <2>2 DEF NoEntry
  <2>5. RegistryAgreement'
    BY <1>1, <2>1, <2>2, <2>3, <2>4
       DEF Registry, RegistryAgreement, Present, Tracks, Entering, Leaving, Answered
  <2>6. RemovalsOwn'
    BY <1>1, <2>2 DEF Registry, RemovalsOwn
  <2>7. AnswersHold'
    BY <1>1, <2>2 DEF Registry, AnswersHold, Present, Entering, Answered
  <2>8. CleanupInactive' /\ ResumeInFlight'
    BY <1>1, <2>2 DEF Registry, CleanupInactive, ResumeInFlight
  <2> QED BY <2>5, <2>6, <2>7, <2>8 DEF Registry
<1>l. CASE ShutdownReturns(a)
  BY <1>1, <1>l, DisconnectRegistry DEF ShutdownReturns
<1> QED BY <1>a, <1>b, <1>c, <1>d, <1>e, <1>f, <1>g, <1>h, <1>i, <1>j, <1>k, <1>l DEF Loop, LoopStep

(* What a disciplined app asks for.                                        *)
LEMMA AppRegistry ==
  ASSUME Discipline, TypeInv, Registry, NEW a \in Apps, App(a)
  PROVE  Registry'
<1>1. /\ UNCHANGED <<events, plugin>>
      /\ BusTypeOK /\ FrontendTypeOK /\ CallsInFlight /\ ConnectedAlive
  BY DEF TypeInv, TypeOK, App, vmiVars
<1>2. ASSUME NEW c, Calling(a, c), UNCHANGED busVars, UNCHANGED eventlist
      PROVE  Registry'
  BY <1>1, <1>2, RegistryFrame DEF Calling, busVars, registryVars
<1>3. ASSUME NEW c, Calling(a, c), NEW call, Ask(a, call),
             call.op = "EVENT_CLEAR" =>
               events[call.id].kind = "trap" /\ events[call.id].owner = a,
             call.op = "STOP_SYSCALL" =>
               plugin # NoPlugin /\ plugin.id = call.id /\ plugin.owner = a,
             call.op \in {"EVENT_REGISTER", "START_SYSCALL"} => pc[a] # "timer"
      PROVE  Registry'
  BY <1>1, <1>3, SendRegistry DEF Calling, Running, Ask, AppCode
<1>4. ASSUME NEW id \in Ids, stage[a] = "idle", pc[a] # "dead",
             eventlist[a][id].status = "ACTIVE"
      PROVE  Tracks(a, id)
  BY <1>1, <1>4 DEF ConnectedAlive, Registry, RegistryAgreement, Leaving, Answered
<1>a. CASE RegisterEvent(a)
  <2>1. PICK sync \in Syncs, cb \in Callbacks :
          Ask(a, [op |-> "EVENT_REGISTER", sync |-> sync, cb |-> cb])
    BY <1>a DEF RegisterEvent
  <2>2. pc[a] # "timer"
    BY <1>a DEF RegisterEvent, Calling, Discipline
  <2> QED BY <1>3, <1>a, <2>1, <2>2 DEF RegisterEvent
<1>b. CASE AskStartSyscall(a)
  <2>1. PICK sync \in Syncs, cb \in Callbacks :
          Ask(a, [op |-> "START_SYSCALL", sync |-> sync, cb |-> cb])
    BY <1>b DEF AskStartSyscall
  <2>2. pc[a] # "timer"
    BY <1>b DEF AskStartSyscall, Calling, Discipline
  <2> QED BY <1>3, <1>b, <2>1, <2>2 DEF AskStartSyscall
<1>c. CASE RegisterTimer(a) \/ RegisterBe(a)
  BY <1>2, <1>c DEF RegisterTimer, RegisterBe, RegisterLocal
<1>d. ASSUME NEW id \in Ids, ClearEvent(a, id) PROVE Registry'
  <2>1. /\ eventlist[a][id] # NoEntry
        /\ Calling(a, ClearCase(a, id))
        /\ Ask(a, [op |-> "EVENT_CLEAR", id |-> id])
    BY <1>d DEF ClearEvent, ClearNumber
  <2>2. ClearCase(a, id) = "clear"
    BY <2>1 DEF Calling, ClearCase, Discipline
  <2>3. /\ eventlist[a][id].status = "ACTIVE" /\ eventlist[a][id].kind # "syscall"
        /\ eventlist[a][id] \in Entries
    BY <1>1, <2>1, <2>2 DEF ClearCase, FrontendTypeOK
  <2>4. Tracks(a, id)
    BY <1>4, <2>1, <2>3 DEF Calling, Running, AppCode
  <2>5. events[id].kind = "trap" /\ events[id].owner = a
    BY <2>3, <2>4 DEF Tracks, Entries
  <2> QED BY <1>3, <2>1, <2>5
<1>e. ASSUME NEW tid \in Ids, ClearTimer(a, tid) PROVE Registry'
  BY <1>e DEF ClearTimer, Calling, Discipline
<1>f. ASSUME NEW id \in Ids, AskStopSyscall(a, id) PROVE Registry'
  <2>1. /\ eventlist[a][id].kind = "syscall" /\ eventlist[a][id].status = "ACTIVE"
        /\ Calling(a, "stop")
        /\ Ask(a, [op |-> "STOP_SYSCALL", id |-> id])
    BY <1>f DEF AskStopSyscall, Calling, Discipline
  <2>2. Tracks(a, id)
    BY <1>4, <2>1 DEF Calling, Running, AppCode
  <2>3. plugin # NoPlugin /\ plugin.id = id /\ plugin.owner = a
    BY <2>1, <2>2 DEF Tracks, TypeInv, PluginAgreement
  <2> QED BY <1>3, <2>1, <2>3
<1>g. CASE AskEventsStart(a) \/ AskEventsStop(a) \/ AskPause(a) \/ AskResume(a)
  BY <1>3, <1>g DEF AskEventsStart, AskEventsStop, AskPause, AskResume
<1>h. CASE AppExit(a)
  <2>1. CASE pc[a] = "init"
    BY <1>1, <1>h, <2>1, DisconnectRegistry DEF AppExit
  <2>2. CASE pc[a] # "init"
    <3>1. PICK place \in {"resume", "shutdown"} : pc' = [pc EXCEPT ![a] = place]
      BY <1>h, <2>2 DEF AppExit, Goto
    <3> QED BY <1>1, <1>h, <2>2, <3>1, MoveRegistry DEF AppExit, Running, busVars
  <2> QED BY <2>1, <2>2
<1>i. CASE Killed(a)
  BY <1>1, <1>i, DisconnectRegistry DEF Killed
<1> QED BY <1>a, <1>b, <1>c, <1>d, <1>e, <1>f, <1>g, <1>h, <1>i DEF App, ApiCall

-----------------------------------------------------------------------------
(* At first both sides are empty.                                          *)
LEMMA InitRegistry == Init => Registry
BY DEF Init, BusInit, VmiInit, FrontendInit, Registry, RegistryAgreement, RemovalsOwn,
       AnswersHold, CleanupInactive, ResumeInFlight, Present, Answered, NoEvent, NoEntry

(* Every step of apps that obey the discipline keeps the invariant.        *)
LEMMA RegistryStep ==
  ASSUME Discipline, TypeInv, Registry, [Next]_vars
  PROVE  Registry'
<1>1. CASE UNCHANGED vars
  BY <1>1, RegistryFrame DEF vars, busVars, vmiVars, feVars, registryVars
<1>2. ASSUME NEW a \in Apps, Serve(a) \/ Loop(a) \/ App(a)
      PROVE  Registry'
  BY <1>2, ServeRegistry, LoopRegistry, AppRegistry
<1>3. ASSUME NEW v \in Vcpus, Callback(v) \/ Guest(v)
      PROVE  Registry'
  <2>1. UNCHANGED registryVars
    BY <1>3 DEF Callback, TrapCallback, SyscallCallback, HitTrap, PushEvent, Guest,
                GuestTrap, registryVars, busVars, feVars
  <2> QED BY <2>1, RegistryFrame
<1> QED BY <1>1, <1>2, <1>3 DEF Next

(* The event map of the VMI partition and the eventlists of the live apps  *)
(* agree, up to the call in flight, however the apps' calls, deaths, loops *)
(* and the callbacks interleave, if the apps clear and stop only what is   *)
(* active in their eventlists and register no event in a timer callback.   *)
THEOREM RegistryCorrect ==
  ASSUME Discipline
  PROVE  Spec => []RegistryAgreement
<1>1. Init => TypeInv /\ Registry
  BY InitType, InitRegistry
<1>2. TypeInv /\ Registry /\ [Next]_vars => (TypeInv /\ Registry)'
  BY TypeStep, RegistryStep
<1>3. TypeInv /\ Registry => RegistryAgreement
  BY DEF Registry
<1> QED BY <1>1, <1>2, <1>3, PTL DEF Spec

(* For any apps and calls, the only step that ends the VMI partition's     *)
(* process serves an event_clear of the running plugin's id: the assert of *)
(* process_stop_syscall, the other end, is in the way of no call, since    *)
(* the plugin's event is in the map for as long as the plugin runs.        *)
THEOREM OnlyClearCorrect == Spec => OnlyClearEndsVmi
<1> DEFINE Clears == vmiUp /\ ~ vmiUp'
       => \E a \in Apps :
            /\ stage[a] = "sent"
            /\ req[a].op = "EVENT_CLEAR"
            /\ plugin # NoPlugin
            /\ req[a].id = plugin.id
<1>1. ASSUME TypeInv, [Next]_vars PROVE Clears
  <2>1. ASSUME NEW a \in Apps, Serve(a) PROVE Clears
    <3>1. stage[a] = "sent" /\ req[a] \in Calls
      BY <1>1, <2>1 DEF Serve, VmiServe, TypeInv, CallsInFlight
    <3>2. CASE EventClear(a, req[a])
      <4>1. req[a].op = "EVENT_CLEAR" /\ req[a].id \in Ids
        BY <3>1, <3>2 DEF EventClear, Calls, RegisterCalls, RemoveCalls, BareCalls
      <4>2. events[req[a].id].kind = "syscall" => plugin # NoPlugin /\ plugin.id = req[a].id
        BY <1>1, <4>1 DEF TypeInv, PluginAgreement
      <4> QED BY <3>1, <3>2, <4>1, <4>2 DEF EventClear, vmiVars
    <3>3. CASE StopSyscall(a, req[a])
      <4>1. plugin # NoPlugin => Present(plugin.id)
        BY <1>1 DEF TypeInv, PluginAgreement, Present
      <4> QED BY <3>3, <4>1 DEF StopSyscall, vmiVars
    <3> QED
      BY <2>1, <3>2, <3>3 DEF Serve, VmiServe, EventRegister, StartSyscall,
                              EventsSwitch, PauseResume
  <2>2. CASE ~ \E a \in Apps : Serve(a)
    BY <1>1, <2>2 DEF Next, Loop, App, Callback, TrapCallback, SyscallCallback, HitTrap,
                      Guest, GuestTrap, vars, vmiVars
  <2> QED BY <2>1, <2>2
<1>2. TypeInv /\ [Next]_vars => [Clears]_vars
  BY <1>1
<1> HIDE DEF Clears
<1>3. Spec => [][Clears]_vars
  BY InitType, TypeStep, <1>2, PTL DEF Spec
<1> QED BY <1>3 DEF OnlyClearEndsVmi, Clears

(* An event leaves the map in no step but the service of a call of its     *)
(* owner's that names it, if the apps are disciplined: process_event_clear *)
(* and process_stop_syscall look at no owner, ids are reused at once, and  *)
(* STOP_SYSCALL carries no id.                                             *)
THEOREM OwnerRemovesCorrect ==
  ASSUME Discipline
  PROVE  Spec => OnlyOwnerRemoves
<1> DEFINE Own == \A id \in Ids :
       events[id] # NoEvent /\ events'[id] # events[id]
         => ServedRemoval(events[id].owner, id)
<1>1. Init => TypeInv /\ Registry
  BY InitType, InitRegistry
<1>2. TypeInv /\ Registry /\ [Next]_vars => (TypeInv /\ Registry)'
  BY TypeStep, RegistryStep
<1>3. ASSUME TypeInv, Registry, [Next]_vars PROVE Own
  <2>1. CASE UNCHANGED events
    BY <2>1
  <2>2. ASSUME NEW a \in Apps, Serve(a) PROVE Own
    <3>1. stage[a] = "sent" /\ req[a] \in Calls /\ VmiTypeOK /\ BusTypeOK
      BY <1>3, <2>2 DEF Serve, VmiServe, TypeInv, TypeOK, CallsInFlight
    <3>a. ASSUME NEW ok, NEW id, SendReply(a, ok, id) PROVE stage'[a] # "sent"
      BY <3>1, <3>a DEF SendReply, BusTypeOK
    <3>2. CASE EventRegister(a, req[a]) \/ StartSyscall(a, req[a])
      BY <3>1, <3>2 DEF EventRegister, StartSyscall, IsFreeSlot, Present, VmiTypeOK
    <3>3. CASE EventClear(a, req[a])
      <4>1. req[a].op = "EVENT_CLEAR" /\ req[a].id \in Ids
        BY <3>1, <3>3 DEF EventClear, Calls, RegisterCalls, RemoveCalls, BareCalls
      <4>2. events[req[a].id].owner = a
        BY <1>3, <3>1, <4>1 DEF Registry, RemovalsOwn
      <4> QED BY <3>1, <3>a, <3>3, <4>1, <4>2 DEF EventClear, ServedRemoval, VmiTypeOK, vmiVars
    <3>4. CASE StopSyscall(a, req[a])
      <4>1. req[a].op = "STOP_SYSCALL"
        BY <3>4 DEF StopSyscall
      <4>2. plugin # NoPlugin /\ plugin.id = req[a].id /\ events[plugin.id].owner = a
        BY <1>3, <3>1, <4>1 DEF Registry, RemovalsOwn, TypeInv, PluginAgreement
      <4> QED BY <3>1, <3>a, <3>4, <4>1, <4>2 DEF StopSyscall, ServedRemoval, VmiTypeOK, vmiVars
    <3>5. CASE EventsSwitch(a, req[a]) \/ PauseResume(a, req[a])
      BY <3>5 DEF EventsSwitch, PauseResume
    <3> QED BY <2>2, <3>2, <3>3, <3>4, <3>5 DEF Serve, VmiServe
  <2>3. ASSUME ~ \E a \in Apps : Serve(a) PROVE UNCHANGED events
    BY <1>3, <2>3 DEF Next, Loop, App, Callback, TrapCallback, SyscallCallback, HitTrap,
                      Guest, GuestTrap, vars, vmiVars
  <2> QED BY <2>1, <2>2, <2>3
<1>4. TypeInv /\ Registry /\ [Next]_vars => [Own]_vars
  BY <1>3
<1> HIDE DEF Own
<1>5. Spec => [][Own]_vars
  BY <1>1, <1>2, <1>4, PTL DEF Spec
<1> QED BY <1>5 DEF OnlyOwnerRemoves, Own

-----------------------------------------------------------------------------
(* The capacity of the event map.                                          *)

(* A set of ids is finite and its size a number.                           *)
LEMMA IdsFinite ==
  ASSUME NEW S \in SUBSET Ids
  PROVE  IsFiniteSet(S) /\ Cardinality(S) \in Nat
<1>1. IsFiniteSet(Ids)
  <2>1. 0 \in Int /\ MaxId \in Int
    BY MaxIdAssumption
  <2> QED BY <2>1, FS_Interval DEF Ids
<1>2. IsFiniteSet(S)
  BY <1>1, FS_Subset
<1> QED BY <1>2, FS_CardinalityType

(* No step arms more traps than max_events.                                *)
LEMMA TrapStep ==
  ASSUME TypeInv, TrapCapacity, [Next]_vars
  PROVE  TrapCapacity'
<1>1. /\ TrapIds \in SUBSET Ids /\ TrapIds' \in SUBSET Ids
      /\ IsFiniteSet(TrapIds) /\ Cardinality(TrapIds) \in Nat
      /\ IsFiniteSet(TrapIds') /\ Cardinality(TrapIds') \in Nat
      /\ Cardinality(TrapIds) <= MaxEvents
      /\ MaxEvents \in Nat
      /\ VmiTypeOK
  BY IdsFinite, VmiAssumption DEF TrapIds, TrapCapacity, TypeInv, TypeOK
<1>2. CASE TrapIds' \subseteq TrapIds
  <2>1. Cardinality(TrapIds') <= Cardinality(TrapIds)
    BY <1>1, <1>2, FS_Subset
  <2> QED BY <1>1, <2>1 DEF TrapCapacity
<1>3. ASSUME NEW a \in Apps, EventRegister(a, req[a]) PROVE TrapCapacity'
  <2>1. CASE UNCHANGED events
    BY <1>2, <2>1 DEF TrapIds
  <2>2. ASSUME Cardinality(PresentIds) < MaxEvents, NEW id \in Ids, IsFreeSlot(id),
               events' = [events EXCEPT ![id] =
                  [kind |-> "trap", owner |-> a, sync |-> req[a].sync, cb |-> req[a].cb]]
        PROVE  TrapCapacity'
    <3>1. TrapIds' = TrapIds \cup {id}
      BY <1>1, <2>2 DEF TrapIds, VmiTypeOK
    <3>2. TrapIds \subseteq PresentIds /\ PresentIds \in SUBSET Ids
      BY DEF TrapIds, PresentIds, Present, NoEvent
    <3>3. Cardinality(TrapIds) <= Cardinality(PresentIds) /\ Cardinality(PresentIds) \in Nat
      BY <3>2, IdsFinite, FS_Subset
    <3>4. Cardinality(TrapIds') <= Cardinality(TrapIds) + 1
      BY <1>1, <3>1, FS_AddElement
    <3> QED BY <1>1, <2>2, <3>3, <3>4 DEF TrapCapacity
  <2> QED BY <1>3, <2>1, <2>2 DEF EventRegister
<1>4. ASSUME NEW a \in Apps, Serve(a), ~ EventRegister(a, req[a])
      PROVE  TrapIds' \subseteq TrapIds
  <2>1. PICK id \in Ids, e \in {NoEvent} \cup [kind : {"syscall"}, owner : Apps,
                                               sync : BOOLEAN, cb : Callbacks] :
          UNCHANGED events \/ events' = [events EXCEPT ![id] = e]
    <3>1. 0 \in Ids /\ req[a] \in Calls
      BY <1>4, MaxIdAssumption DEF Ids, Serve, VmiServe, TypeInv, CallsInFlight
    <3>2. CASE StartSyscall(a, req[a])
      <4>1. req[a] \in RegisterCalls
        BY <3>1, <3>2 DEF StartSyscall, Calls, RegisterCalls, RemoveCalls, BareCalls
      <4> QED BY <3>1, <3>2, <4>1 DEF StartSyscall, RegisterCalls
    <3>3. CASE EventClear(a, req[a])
      <4>1. req[a].id \in Ids
        BY <3>1, <3>3 DEF EventClear, Calls, RegisterCalls, RemoveCalls, BareCalls
      <4> QED BY <3>1, <3>3, <4>1 DEF EventClear, vmiVars
    <3>4. CASE StopSyscall(a, req[a])
      <4>1. plugin # NoPlugin => plugin.id \in Ids
        BY <1>1 DEF VmiTypeOK, Plugins
      <4> QED BY <3>1, <3>4, <4>1 DEF StopSyscall, vmiVars
    <3>5. CASE EventsSwitch(a, req[a]) \/ PauseResume(a, req[a])
      BY <3>1, <3>5 DEF EventsSwitch, PauseResume
    <3> QED BY <1>4, <3>2, <3>3, <3>4, <3>5 DEF Serve, VmiServe
  <2> QED BY <1>1, <2>1 DEF TrapIds, VmiTypeOK, NoEvent
<1>5. ASSUME ~ \E a \in Apps : Serve(a) PROVE TrapIds' \subseteq TrapIds
  BY <1>5 DEF Next, Loop, App, Callback, TrapCallback, SyscallCallback, HitTrap,
              Guest, GuestTrap, vars, vmiVars, TrapIds
<1> QED BY <1>2, <1>3, <1>4, <1>5

(* The map never holds more than max_events events and the syscall         *)
(* plugin's, which process_start_syscall adds without looking.             *)
THEOREM CapacityCorrect == Spec => []EventCapacity
<1>1. Init => TypeInv /\ TrapCapacity
  <2>1. Init => TrapIds = {}
    BY DEF Init, VmiInit, TrapIds, NoEvent
  <2> QED BY <2>1, InitType, FS_EmptySet, VmiAssumption DEF TrapCapacity
<1>2. TypeInv /\ TrapCapacity /\ [Next]_vars => (TypeInv /\ TrapCapacity)'
  BY TypeStep, TrapStep
<1>3. ASSUME TypeInv, TrapCapacity PROVE EventCapacity
  <2>1. /\ TrapIds \in SUBSET Ids /\ PresentIds \in SUBSET Ids
        /\ IsFiniteSet(TrapIds) /\ Cardinality(TrapIds) \in Nat
        /\ IsFiniteSet(PresentIds) /\ Cardinality(PresentIds) \in Nat
        /\ MaxEvents \in Nat /\ Cardinality(TrapIds) <= MaxEvents
    BY <1>3, IdsFinite, VmiAssumption DEF TrapIds, PresentIds, TrapCapacity
  <2>2. PICK id : PresentIds \subseteq TrapIds \cup {id}
    BY <1>3 DEF PresentIds, Present, TrapIds, TypeInv, TypeOK, VmiTypeOK, Events, PluginAgreement
  <2>3. IsFiniteSet(TrapIds \cup {id}) /\ Cardinality(TrapIds \cup {id}) \in Nat
        /\ Cardinality(TrapIds \cup {id}) <= MaxEvents + 1
    <3>1. /\ IsFiniteSet(TrapIds \cup {id})
          /\ Cardinality(TrapIds \cup {id}) =
               IF id \in TrapIds THEN Cardinality(TrapIds) ELSE Cardinality(TrapIds) + 1
      BY <2>1, FS_AddElement
    <3> QED BY <2>1, <3>1
  <2>4. Cardinality(PresentIds) <= Cardinality(TrapIds \cup {id})
    BY <2>2, <2>3, FS_Subset
  <2> QED BY <2>1, <2>3, <2>4 DEF EventCapacity
<1> QED BY <1>1, <1>2, <1>3, PTL DEF Spec
=============================================================================
