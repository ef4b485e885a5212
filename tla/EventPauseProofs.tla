-------------------------- MODULE EventPauseProofs --------------------------
(***************************************************************************)
(* Proofs about the guest's pause count: each event that paused the guest  *)
(* is followed by one resume, and no resume comes without.                 *)
(***************************************************************************)
EXTENDS EventSystemProofs, FunctionTheorems

(* What the apps leave alone.                                              *)
NoResumes == "resume_vm" \notin Api \cup TimerApi
NoPauses  == "pause_vm" \notin Api \cup TimerApi

(* No message is dropped because a queue is full.                          *)
NoDrops == QueueBound <= Hwm

(* A resume is still to come for the event that a's thread handles, or     *)
(* from an app that has died since it asked for one.                       *)
Resuming(a) ==
  IF a \in connected THEN held[a] /\ ~ (pc[a] = "resume" /\ stage[a] = "replied")
  ELSE stage[a] = "sent" /\ req[a].op = "RESUME_VM"

Ticket(a, i) ==
  \/ i = 0 /\ Resuming(a)
  \/ i # 0 /\ i \in DOMAIN dealer[a] /\ dealer[a][i].paused

(* The resumes still to come, of dead apps too.                            *)
Due == {d \in Apps \X Nat : Ticket(d[1], d[2])}

Balance ==
  /\ IsFiniteSet(Due)
  /\ pauses >= Cardinality(Due)
  /\ NoPauses /\ NoDrops /\ connected = Apps => pauses = Cardinality(Due)

(* guest_paused is set while the event is handled, and the resume_vm in    *)
(* flight is the finally clause's.                                         *)
HeldPlaces ==
  \A a \in connected :
    /\ held[a] => pc[a] \in {"event", "resume"}
    /\ pc[a] = "resume" => held[a]
    /\ stage[a] # "idle" => (pc[a] = "resume" <=> req[a].op = "RESUME_VM")

NoPauseCalls == NoPauses => \A a \in Apps : stage[a] # "idle" => req[a].op # "PAUSE_VM"

PauseInv == TypeInv /\ HeldPlaces /\ NoPauseCalls /\ Balance

-----------------------------------------------------------------------------
(* What happens to the resumes still to come.                              *)

(* Steps that neither pause nor resume nor touch a queue keep the balance. *)
LEMMA SameDue ==
  ASSUME Balance, UNCHANGED <<connected, pauses, dealer>>,
         \A a \in Apps : Resuming(a)' <=> Resuming(a)
  PROVE  Balance'
<1>1. \A a \in Apps, i \in Nat : Ticket(a, i)' <=> Ticket(a, i)
  BY DEF Ticket
<1>2. Due' = Due
  BY <1>1 DEF Due
<1> QED BY <1>2 DEF Balance

(* Some of them go, with an app that ends.                                 *)
LEMMA FewerDue ==
  ASSUME Balance, pauses \in Nat, pauses' = pauses, Due' \subseteq Due, connected' # Apps
  PROVE  Balance'
<1>1. IsFiniteSet(Due') /\ Cardinality(Due') <= Cardinality(Due)
  BY FS_Subset DEF Balance
<1>2. Cardinality(Due') \in Nat /\ Cardinality(Due) \in Nat
  BY <1>1, FS_CardinalityType DEF Balance
<1> QED BY <1>1, <1>2 DEF Balance

(* One is served.                                                          *)
LEMMA OneServed ==
  ASSUME Balance, pauses \in Nat, connected' = connected, NEW d \in Due, Due' = Due \ {d},
         pauses' = IF pauses > 0 THEN pauses - 1 ELSE 0
  PROVE  Balance'
<1>1. IsFiniteSet(Due') /\ Cardinality(Due') = Cardinality(Due) - 1
  BY FS_RemoveElement DEF Balance
<1>2. Cardinality(Due') \in Nat /\ Cardinality(Due) \in Nat
  BY <1>1, FS_CardinalityType DEF Balance
<1> QED BY <1>1, <1>2 DEF Balance

(* One is added.                                                           *)
LEMMA OneAdded ==
  ASSUME Balance, pauses \in Nat, connected' = connected, NEW d, d \notin Due, Due' = Due \cup {d},
         pauses' = pauses + 1
  PROVE  Balance'
<1>1. IsFiniteSet(Due') /\ Cardinality(Due') = Cardinality(Due) + 1
  BY FS_AddElement DEF Balance
<1>2. Cardinality(Due') \in Nat /\ Cardinality(Due) \in Nat
  BY <1>1, FS_CardinalityType DEF Balance
<1> QED BY <1>1, <1>2 DEF Balance

(* The guest is paused and the app will not hear of it.                    *)
LEMMA PausedMore ==
  ASSUME Balance, pauses \in Nat, connected' = connected, Due' = Due, pauses' = pauses + 1,
         NoPauses /\ NoDrops => connected # Apps
  PROVE  Balance'
<1>1. Cardinality(Due) \in Nat
  BY FS_CardinalityType DEF Balance
<1> QED BY <1>1 DEF Balance

-----------------------------------------------------------------------------
(* The VMI partition.                                                      *)

(* A call that the VMI partition serves: resume_vm counts one down as one  *)
(* resume is no longer due.                                                *)
LEMMA ServePause ==
  ASSUME PauseInv, NEW a \in Apps, Serve(a)
  PROVE  HeldPlaces' /\ NoPauseCalls' /\ Balance'
<1>1. /\ BusTypeOK /\ VmiTypeOK /\ stage[a] = "sent" /\ UNCHANGED feVars /\ pauses \in Nat
      /\ HeldPlaces /\ NoPauseCalls /\ Balance
  BY DEF PauseInv, TypeInv, TypeOK, Serve, VmiServe, VmiTypeOK
<1>2. CASE UNCHANGED busVars /\ UNCHANGED pauses
  <2>1. HeldPlaces' /\ NoPauseCalls' /\ \A b \in Apps : Resuming(b)' <=> Resuming(b)
    BY <1>1, <1>2 DEF HeldPlaces, NoPauseCalls, Resuming, busVars, feVars
  <2> QED BY <1>1, <1>2, <2>1, SameDue DEF busVars
<1>3. ASSUME NEW ok, NEW id, SendReply(a, ok, id)
      PROVE  /\ HeldPlaces' /\ NoPauseCalls' /\ UNCHANGED <<connected, dealer>>
             /\ \A b \in Apps \ {a} : Resuming(b)' <=> Resuming(b)
             /\ req[a].op # "RESUME_VM" => (Resuming(a)' <=> Resuming(a))
             /\ req[a].op = "RESUME_VM" => Resuming(a) /\ ~ Resuming(a)'
  <2>1. /\ stage' = [stage EXCEPT ![a] = IF a \in connected THEN "replied" ELSE "idle"]
        /\ req' = IF a \in connected THEN req ELSE [req EXCEPT ![a] = NoCall]
        /\ UNCHANGED <<connected, dealer, pc, held>>
    BY <1>1, <1>3 DEF SendReply, feVars
  <2>2. HeldPlaces'
    BY <1>1, <2>1 DEF HeldPlaces, BusTypeOK
  <2>3. NoPauseCalls'
    BY <1>1, <2>1 DEF NoPauseCalls, BusTypeOK
  <2>4. \A b \in Apps \ {a} : Resuming(b)' <=> Resuming(b)
    BY <1>1, <2>1 DEF Resuming, BusTypeOK
  <2>5. req[a].op # "RESUME_VM" => (Resuming(a)' <=> Resuming(a))
    BY <1>1, <2>1 DEF Resuming, BusTypeOK, HeldPlaces
  <2>6. req[a].op = "RESUME_VM" => Resuming(a) /\ ~ Resuming(a)'
    BY <1>1, <2>1 DEF Resuming, BusTypeOK, HeldPlaces
  <2> QED BY <2>1, <2>2, <2>3, <2>4, <2>5, <2>6
<1>4. ASSUME NEW ok, NEW id, SendReply(a, ok, id), req[a].op # "RESUME_VM", pauses' = pauses
      PROVE  HeldPlaces' /\ NoPauseCalls' /\ Balance'
  <2>1. /\ HeldPlaces' /\ NoPauseCalls' /\ UNCHANGED <<connected, dealer>>
        /\ \A b \in Apps : Resuming(b)' <=> Resuming(b)
    BY <1>3, <1>4
  <2> QED BY <1>1, <1>4, <2>1, SameDue
<1>5. CASE EventRegister(a, req[a])
  BY <1>4, <1>5 DEF EventRegister
<1>6. CASE EventClear(a, req[a])
  BY <1>2, <1>4, <1>6 DEF EventClear, vmiVars
<1>7. CASE StartSyscall(a, req[a])
  BY <1>4, <1>7 DEF StartSyscall
<1>8. CASE StopSyscall(a, req[a])
  BY <1>2, <1>4, <1>8 DEF StopSyscall, vmiVars
<1>9. CASE EventsSwitch(a, req[a])
  BY <1>4, <1>9 DEF EventsSwitch
<1>10. CASE PauseResume(a, req[a]) /\ req[a].op = "PAUSE_VM"
  <2>1. SendReply(a, TRUE, 0) /\ pauses' = pauses + 1
    BY <1>10 DEF PauseResume
  <2>2. /\ HeldPlaces' /\ NoPauseCalls' /\ UNCHANGED <<connected, dealer>>
        /\ \A b \in Apps : Resuming(b)' <=> Resuming(b)
    BY <1>3, <1>10, <2>1
  <2>3. \A b \in Apps, i \in Nat : Ticket(b, i)' <=> Ticket(b, i)
    BY <2>2 DEF Ticket
  <2>4. Due' = Due
    BY <2>3 DEF Due
  <2>5. ~ NoPauses
    BY <1>1, <1>10 DEF NoPauseCalls
  <2> QED BY <1>1, <2>1, <2>2, <2>4, <2>5, PausedMore
<1>11. CASE PauseResume(a, req[a]) /\ req[a].op = "RESUME_VM"
  <2>1. SendReply(a, TRUE, 0) /\ pauses' = IF pauses > 0 THEN pauses - 1 ELSE 0
    BY <1>11 DEF PauseResume
  <2>2. /\ HeldPlaces' /\ NoPauseCalls' /\ UNCHANGED <<connected, dealer>>
        /\ \A b \in Apps \ {a} : Resuming(b)' <=> Resuming(b)
        /\ Resuming(a) /\ ~ Resuming(a)'
    BY <1>3, <1>11, <2>1
  <2>3. \A b \in Apps, i \in Nat : Ticket(b, i)' <=> Ticket(b, i) /\ ~ (b = a /\ i = 0)
    BY <2>2 DEF Ticket
  <2>4. <<a, 0>> \in Due
    BY <2>2 DEF Due, Ticket
  <2>5. Due' = Due \ {<<a, 0>>}
    <3>1. \A d \in Apps \X Nat : d \in Due' <=> d \in Due /\ d # <<a, 0>>
      BY <2>3 DEF Due
    <3> QED BY <3>1 DEF Due
  <2> QED BY <1>1, <2>1, <2>2, <2>4, <2>5, OneServed
<1> QED BY <1>5, <1>6, <1>7, <1>8, <1>9, <1>10, <1>11 DEF Serve, VmiServe, PauseResume

(* An event is pushed to its owner, and has paused the guest if it says so.*)
LEMMA PushPause ==
  ASSUME PauseInv, NEW owner \in Apps, NEW msg \in EventMessages, PushEvent(owner, msg),
         UNCHANGED feVars, pauses' = IF msg.paused THEN pauses + 1 ELSE pauses
  PROVE  HeldPlaces' /\ NoPauseCalls' /\ Balance'
<1>1. /\ BusTypeOK /\ pauses \in Nat /\ HeldPlaces /\ NoPauseCalls /\ Balance
      /\ UNCHANGED <<connected, req, stage, held, pc>> /\ dealer[owner] \in Seq(EventMessages)
  BY DEF PauseInv, TypeInv, TypeOK, VmiTypeOK, BusTypeOK, PushEvent, feVars
<1>2. HeldPlaces' /\ NoPauseCalls' /\ \A b \in Apps : Resuming(b)' <=> Resuming(b)
  BY <1>1 DEF HeldPlaces, NoPauseCalls, Resuming
<1> DEFINE end == Len(dealer[owner]) + 1
<1>3. CASE dealer' = dealer
  <2>1. \A b \in Apps, i \in Nat : Ticket(b, i)' <=> Ticket(b, i)
    BY <1>2, <1>3 DEF Ticket
  <2>2. Due' = Due
    BY <2>1 DEF Due
  <2>3. CASE ~ msg.paused
    BY <1>1, <1>2, <1>3, <2>3, SameDue
  <2>4. CASE msg.paused
    <3>1. NoDrops => connected # Apps
      <4>1. CASE ~ (owner \in connected /\ Len(dealer[owner]) < Hwm)
        BY <1>1, <4>1, VmiAssumption DEF PushEvent, NoDrops
      <4>2. CASE owner \in connected /\ Len(dealer[owner]) < Hwm
        <5>1. dealer'[owner] = Append(dealer[owner], msg)
          BY <1>1, <4>2 DEF PushEvent, BusTypeOK
        <5>2. Len(Append(dealer[owner], msg)) = Len(dealer[owner]) + 1 /\ Len(dealer[owner]) \in Nat
          BY <1>1
        <5> QED BY <1>3, <5>1, <5>2
      <4> QED BY <4>1, <4>2
    <3> QED BY <1>1, <1>2, <2>2, <2>4, <3>1, PausedMore
  <2> QED BY <2>3, <2>4
<1>4. CASE dealer' = [dealer EXCEPT ![owner] = Append(@, msg)]
  <2>1. /\ dealer'[owner] = Append(dealer[owner], msg)
        /\ \A b \in Apps \ {owner} : dealer'[b] = dealer[b]
    BY <1>1, <1>4 DEF BusTypeOK
  <2>2. /\ DOMAIN dealer[owner] = 1 .. end - 1 /\ DOMAIN dealer'[owner] = 1 .. end
        /\ dealer'[owner][end] = msg /\ \A i \in 1 .. end - 1 : dealer'[owner][i] = dealer[owner][i]
        /\ end \in Nat /\ end # 0
    BY <1>1, <2>1
  <2> HIDE DEF end
  <2>3. \A b \in Apps, i \in Nat :
          Ticket(b, i)' <=> Ticket(b, i) \/ (b = owner /\ i = end /\ msg.paused)
    <3> SUFFICES ASSUME NEW b \in Apps, NEW i \in Nat
                 PROVE  Ticket(b, i)' <=> Ticket(b, i) \/ (b = owner /\ i = end /\ msg.paused)
      OBVIOUS
    <3>1. CASE i = 0
      BY <1>2, <2>2, <3>1 DEF Ticket
    <3>2. CASE i # 0 /\ b # owner
      BY <2>1, <3>2 DEF Ticket
    <3>3. CASE i # 0 /\ b = owner
      <4>1. CASE i = end
        BY <2>2, <3>3, <4>1 DEF Ticket
      <4>2. CASE i # end
        <5>1. i \in DOMAIN dealer'[owner] <=> i \in DOMAIN dealer[owner]
          BY <2>2, <4>2
        <5> QED BY <2>2, <3>3, <4>2, <5>1 DEF Ticket
      <4> QED BY <4>1, <4>2
    <3> QED BY <3>1, <3>2, <3>3
  <2>4. CASE ~ msg.paused
    <3>1. Due' = Due
      BY <2>3, <2>4 DEF Due
    <3> QED BY <1>1, <1>2, <2>4, <3>1 DEF Balance
  <2>5. CASE msg.paused
    <3>1. <<owner, end>> \notin Due
      BY <2>2 DEF Due, Ticket
    <3>2. \A d \in Apps \X Nat : d \in Due' <=> d \in Due \/ d = <<owner, end>>
      BY <2>3, <2>5 DEF Due
    <3>3. Due' = Due \cup {<<owner, end>>}
      BY <2>2, <3>2 DEF Due
    <3> QED BY <1>1, <1>2, <2>5, <3>1, <3>3, OneAdded
  <2> QED BY <2>4, <2>5
<1> QED BY <1>3, <1>4 DEF PushEvent

(* A trap callback of a SYNC event counts one up; one resume becomes due,  *)
(* unless the message is dropped.                                          *)
LEMMA CallbackPause ==
  ASSUME PauseInv, NEW v \in Vcpus, Callback(v)
  PROVE  HeldPlaces' /\ NoPauseCalls' /\ Balance'
<1>1. /\ VmiTypeOK /\ PendingArmed /\ PluginAgreement /\ UNCHANGED feVars
      /\ HeldPlaces /\ NoPauseCalls /\ Balance
  BY DEF PauseInv, TypeInv, TypeOK, Callback
<1>2. CASE TrapCallback(v) /\ UNCHANGED busVars /\ UNCHANGED pauses
  <2>1. HeldPlaces' /\ NoPauseCalls' /\ \A b \in Apps : Resuming(b)' <=> Resuming(b)
    BY <1>1, <1>2 DEF HeldPlaces, NoPauseCalls, Resuming, busVars, feVars
  <2> QED BY <1>1, <1>2, <2>1, SameDue DEF busVars
<1>3. CASE TrapCallback(v) /\ eventsActive
  <2> DEFINE ei == events[pending[v]]
             msg == [id |-> pending[v], paused |-> ei.sync, cb |-> ei.cb]
  <2>1. pending[v] \in Ids /\ PushEvent(ei.owner, msg)
        /\ pauses' = IF ei.sync THEN pauses + 1 ELSE pauses
    BY <1>3 DEF TrapCallback
  <2>2. ei \in Events
    BY <1>1, <2>1 DEF VmiTypeOK, PendingArmed, NoEvent
  <2>3. ei.owner \in Apps /\ msg \in EventMessages /\ msg.paused = ei.sync
    BY <2>1, <2>2 DEF Events, EventMessages
  <2> HIDE DEF msg
  <2> QED BY <1>1, <2>1, <2>3, PushPause
<1>4. CASE SyscallCallback(v)
  <2> DEFINE msg == [id |-> plugin.id, paused |-> plugin.sync, cb |-> plugin.cb]
  <2>1. PushEvent(plugin.owner, msg) /\ pauses' = IF plugin.sync THEN pauses + 1 ELSE pauses
    BY <1>4 DEF SyscallCallback
  <2>2. plugin \in Plugins
    BY <1>1, <1>4 DEF VmiTypeOK, PendingArmed, SyscallCallback, NoPlugin
  <2>3. plugin.owner \in Apps /\ msg \in EventMessages /\ msg.paused = plugin.sync
    BY <2>2 DEF Plugins, EventMessages
  <2> HIDE DEF msg
  <2> QED BY <1>1, <2>1, <2>3, PushPause
<1> QED BY <1>2, <1>3, <1>4 DEF Callback, TrapCallback

-----------------------------------------------------------------------------
(* The frontends.                                                          *)

(* What the steps of one frontend share: the others stay as they are.      *)
LEMMA QuietStep ==
  ASSUME PauseInv, NEW a \in Apps, UNCHANGED <<connected, dealer, pauses>>,
         \A b \in Apps \ {a} : /\ stage'[b] = stage[b] /\ req'[b] = req[b]
                               /\ held'[b] = held[b] /\ pc'[b] = pc[b],
         a \in connected,
         held'[a] => pc'[a] \in {"event", "resume"},
         pc'[a] = "resume" => held'[a],
         stage'[a] # "idle" => /\ pc'[a] = "resume" <=> req'[a].op = "RESUME_VM"
                               /\ NoPauses => req'[a].op # "PAUSE_VM",
         (held'[a] /\ ~ (pc'[a] = "resume" /\ stage'[a] = "replied"))
           <=> (held[a] /\ ~ (pc[a] = "resume" /\ stage[a] = "replied"))
  PROVE  HeldPlaces' /\ NoPauseCalls' /\ Balance'
<1>1. HeldPlaces /\ NoPauseCalls /\ Balance /\ connected \subseteq Apps
  BY DEF PauseInv, TypeInv, TypeOK, BusTypeOK
<1>2. HeldPlaces'
  BY <1>1 DEF HeldPlaces
<1>3. NoPauseCalls'
  BY <1>1 DEF NoPauseCalls
<1>4. \A b \in Apps : Resuming(b)' <=> Resuming(b)
  BY DEF Resuming
<1> QED BY <1>1, <1>2, <1>3, <1>4, SameDue

(* The thread goes on, from where no call of its is in flight.             *)
LEMMA MovePause ==
  ASSUME PauseInv, NEW a \in Apps, NEW place \in Places, Goto(a, place), pc[a] # "dead",
         stage[a] = "idle", UNCHANGED <<connected, dealer, pauses, stage, req, held>>,
         IF held[a] THEN place \in {"event", "resume"} ELSE place # "resume"
  PROVE  HeldPlaces' /\ NoPauseCalls' /\ Balance'
<1>1. BusTypeOK /\ FrontendTypeOK /\ ConnectedAlive
  BY DEF PauseInv, TypeInv, TypeOK
<1>2. a \in connected
  BY <1>1 DEF ConnectedAlive
<1>3. pc'[a] = place /\ \A b \in Apps \ {a} : pc'[b] = pc[b]
  BY <1>1 DEF Goto, FrontendTypeOK
<1> QED BY <1>2, <1>3, QuietStep

(* The process ends.                                                       *)
LEMMA EndPause ==
  ASSUME PauseInv, NEW a \in Apps, Disconnect(a), Goto(a, "dead"), pc[a] # "dead",
         UNCHANGED <<held, pauses>>
  PROVE  HeldPlaces' /\ NoPauseCalls' /\ Balance'
<1>1. /\ BusTypeOK /\ FrontendTypeOK /\ ConnectedAlive /\ pauses \in Nat
      /\ HeldPlaces /\ NoPauseCalls /\ Balance
  BY DEF PauseInv, TypeInv, TypeOK, VmiTypeOK
<1>2. a \in connected /\ connected' = connected \ {a} /\ connected \subseteq Apps
  BY <1>1 DEF ConnectedAlive, Disconnect, BusTypeOK
<1>3. \A b \in Apps \ {a} : /\ stage'[b] = stage[b] /\ req'[b] = req[b] /\ dealer'[b] = dealer[b]
                            /\ held'[b] = held[b] /\ pc'[b] = pc[b]
  BY <1>1 DEF Disconnect, Goto, BusTypeOK, FrontendTypeOK
<1>4. /\ dealer'[a] = <<>>
      /\ stage'[a] # "idle" => stage'[a] = stage[a] /\ stage[a] = "sent" /\ req'[a] = req[a]
  BY <1>1 DEF Disconnect, BusTypeOK
<1>5. HeldPlaces'
  BY <1>1, <1>2, <1>3 DEF HeldPlaces
<1>6. NoPauseCalls'
  BY <1>1, <1>3, <1>4 DEF NoPauseCalls
<1>7. ASSUME NEW b \in Apps, NEW i \in Nat, Ticket(b, i)'
      PROVE  Ticket(b, i)
  <2>1. CASE b # a
    <3>1. Resuming(b)' <=> Resuming(b)
      BY <1>2, <1>3, <2>1 DEF Resuming
    <3> QED BY <1>3, <1>7, <2>1, <3>1 DEF Ticket
  <2>2. CASE b = a
    <3>1. i = 0 /\ Resuming(a)'
      BY <1>4, <1>7, <2>2 DEF Ticket
    <3>2. stage'[a] = "sent" /\ req'[a].op = "RESUME_VM"
      BY <1>2, <3>1 DEF Resuming
    <3>3. stage[a] = "sent" /\ req[a].op = "RESUME_VM"
      BY <1>4, <3>2
    <3>4. Resuming(a)
      BY <1>1, <1>2, <3>3 DEF Resuming, HeldPlaces
    <3> QED BY <2>2, <3>1, <3>4 DEF Ticket
  <2> QED BY <2>1, <2>2
<1>8. Due' \subseteq Due
  BY <1>7 DEF Due
<1>9. connected' # Apps
  BY <1>2
<1> QED BY <1>1, <1>5, <1>6, <1>8, <1>9, FewerDue

(* The next event is taken: its ticket becomes the thread's own.           *)
LEMMA PollPause ==
  ASSUME PauseInv, NEW a \in Apps, Poll(a), dealer[a] # <<>>, UNCHANGED pauses
  PROVE  HeldPlaces' /\ NoPauseCalls' /\ Balance'
<1>1. /\ BusTypeOK /\ FrontendTypeOK /\ ConnectedAlive /\ CallsInFlight
      /\ HeldPlaces /\ NoPauseCalls /\ Balance
  BY DEF PauseInv, TypeInv, TypeOK
<1> DEFINE q == dealer[a]
<1>2. /\ pc[a] = "poll" /\ a \in connected /\ stage[a] = "idle" /\ ~ held[a]
      /\ UNCHANGED <<connected, req, stage>>
  BY <1>1 DEF Poll, ConnectedAlive, CallsInFlight, HeldPlaces, AppCode

<1> DEFINE place == IF eventlist[a][Head(q).id] # NoEntry THEN "event"
                    ELSE IF Head(q).paused THEN "resume" ELSE "fac"
<1>3. /\ held' = [held EXCEPT ![a] = Head(q).paused] /\ Goto(a, place)
      /\ dealer' = [dealer EXCEPT ![a] = Tail(@)]
  BY DEF Poll
<1> HIDE DEF place
<1>4. /\ q \in Seq(EventMessages) /\ q # <<>> /\ Head(q) \in EventMessages /\ Head(q).paused \in BOOLEAN
      /\ place \in {"event", "resume", "fac"}
      /\ Head(q).paused => place \in {"event", "resume"}
      /\ place = "resume" => Head(q).paused
  <2>1. q \in Seq(EventMessages) /\ q # <<>>
    BY <1>1 DEF BusTypeOK
  <2> HIDE DEF q
  <2>2. Head(q) \in EventMessages
    BY <2>1
  <2> QED BY <2>1, <2>2 DEF place, EventMessages
<1>5. /\ held'[a] = Head(q).paused /\ pc'[a] = place /\ dealer'[a] = Tail(q)
      /\ \A b \in Apps \ {a} : held'[b] = held[b] /\ pc'[b] = pc[b] /\ dealer'[b] = dealer[b]
  BY <1>1, <1>3 DEF Goto, BusTypeOK, FrontendTypeOK
<1>6. HeldPlaces'
  <2> SUFFICES ASSUME NEW b \in connected
               PROVE  /\ held'[b] => pc'[b] \in {"event", "resume"}
                      /\ pc'[b] = "resume" => held'[b]
                      /\ stage'[b] # "idle" => (pc'[b] = "resume" <=> req'[b].op = "RESUME_VM")
    BY <1>2 DEF HeldPlaces
  <2>1. CASE b = a
    BY <1>2, <1>4, <1>5, <2>1
  <2>2. CASE b # a
    <3>1. b \in Apps \ {a}
      BY <1>1, <2>2 DEF BusTypeOK
    <3> QED BY <1>1, <1>2, <1>5, <3>1 DEF HeldPlaces
  <2> QED BY <2>1, <2>2
<1>7. NoPauseCalls'
  BY <1>1, <1>2 DEF NoPauseCalls
<1>8. /\ DOMAIN q = 1 .. Len(q) /\ DOMAIN Tail(q) = 1 .. Len(q) - 1 /\ Len(q) \in Nat /\ Len(q) >= 1
      /\ Head(q) = q[1] /\ \A i \in 1 .. Len(q) - 1 : Tail(q)[i] = q[i + 1]
  BY <1>4
<1> HIDE DEF q
<1>9. \A b \in Apps \ {a}, i \in Nat : Ticket(b, i)' <=> Ticket(b, i)
  <2>1. \A b \in Apps \ {a} : Resuming(b)' <=> Resuming(b)
    BY <1>2, <1>5 DEF Resuming
  <2> QED BY <1>5, <2>1 DEF Ticket
<1>10. ~ Ticket(a, 0) /\ \A i \in Nat : Ticket(a, i)' <=> Ticket(a, i + 1)
  <2>1. ~ Resuming(a) /\ (Resuming(a)' <=> q[1].paused)
    BY <1>2, <1>5, <1>8 DEF Resuming
  <2>2. Ticket(a, 0)' <=> Ticket(a, 1)
    BY <1>8, <2>1 DEF Ticket, q
  <2>3. ASSUME NEW i \in Nat, i # 0 PROVE Ticket(a, i)' <=> Ticket(a, i + 1)
    <3>1. i \in DOMAIN Tail(q) <=> i + 1 \in DOMAIN q
      BY <1>8, <2>3
    <3>2. i \in DOMAIN Tail(q) => Tail(q)[i] = q[i + 1]
      BY <1>8
    <3>3. Ticket(a, i)' <=> i \in DOMAIN Tail(q) /\ Tail(q)[i].paused
      BY <1>5, <2>3 DEF Ticket
    <3>4. Ticket(a, i + 1) <=> i + 1 \in DOMAIN q /\ q[i + 1].paused
      BY <2>3 DEF Ticket, q
    <3> QED BY <3>1, <3>2, <3>3, <3>4
  <2>4. ~ Ticket(a, 0)
    BY <2>1 DEF Ticket
  <2> QED BY <2>2, <2>3, <2>4
<1> DEFINE f == [d \in Due |-> IF d[1] = a THEN <<a, d[2] - 1>> ELSE d]
<1>11. \A d \in Due : d \in Apps \X Nat /\ d = <<d[1], d[2]>> /\ Ticket(d[1], d[2])
  BY DEF Due
<1>12. \A d \in Due' : d \in Apps \X Nat /\ d = <<d[1], d[2]>> /\ Ticket(d[1], d[2])'
  BY DEF Due
<1>13. f \in [Due -> Due']
  <2> SUFFICES ASSUME NEW d \in Due PROVE (IF d[1] = a THEN <<a, d[2] - 1>> ELSE d) \in Due'
    OBVIOUS
  <2>1. CASE d[1] = a
    <3>1. d[2] \in Nat /\ d[2] # 0 /\ d[2] - 1 \in Nat /\ (d[2] - 1) + 1 = d[2]
      BY <1>10, <1>11, <2>1
    <3>2. Ticket(a, d[2] - 1)'
      BY <1>10, <1>11, <2>1, <3>1
    <3> QED BY <2>1, <3>1, <3>2 DEF Due
  <2>2. CASE d[1] # a
    BY <1>9, <1>11, <2>2 DEF Due
  <2> QED BY <2>1, <2>2
<1>14. ASSUME NEW c \in Due, NEW d \in Due, f[c] = f[d] PROVE c = d
  <2>1. /\ f[c] = IF c[1] = a THEN <<a, c[2] - 1>> ELSE c
        /\ f[d] = IF d[1] = a THEN <<a, d[2] - 1>> ELSE d
    OBVIOUS
  <2>2. /\ c = <<c[1], c[2]>> /\ c[2] \in Nat /\ d = <<d[1], d[2]>> /\ d[2] \in Nat
    BY <1>11
  <2> HIDE DEF f
  <2>3. CASE c[1] = a /\ d[1] = a
    <3> DEFINE x == c[2] - 1
               y == d[2] - 1
    <3>1. <<a, x>> = <<a, y>>
      BY <1>14, <2>1, <2>3
    <3> HIDE DEF x, y
    <3>a. x = y
      BY <3>1
    <3>2. c[2] - 1 = d[2] - 1
      BY <3>a DEF x, y
    <3>3. c[2] = d[2]
      BY <2>2, <3>2
    <3> QED BY <2>2, <2>3, <3>3
  <2>4. CASE c[1] # a /\ d[1] # a
    BY <1>14, <2>1, <2>4
  <2>5. CASE c[1] # a /\ d[1] = a
    <3>1. c = <<a, d[2] - 1>>
      BY <1>14, <2>1, <2>5
    <3> QED BY <2>5, <3>1
  <2>6. CASE c[1] = a /\ d[1] # a
    <3>1. d = <<a, c[2] - 1>>
      BY <1>14, <2>1, <2>6
    <3> QED BY <2>6, <3>1
  <2> QED BY <2>3, <2>4, <2>5, <2>6
<1>15. ASSUME NEW e \in Due' PROVE \E d \in Due : f[d] = e
  <2>1. CASE e[1] = a
    <3>1. e[2] \in Nat /\ Ticket(a, e[2] + 1)
      BY <1>10, <1>12, <2>1
    <3>2. <<a, e[2] + 1>> \in Due
      BY <3>1 DEF Due
    <3>3. f[<<a, e[2] + 1>>] = <<a, (e[2] + 1) - 1>>
      BY <3>2
    <3>4. (e[2] + 1) - 1 = e[2]
      BY <3>1
    <3> QED BY <1>12, <2>1, <3>2, <3>3, <3>4
  <2>2. CASE e[1] # a
    <3>1. e \in Due
      BY <1>9, <1>12, <2>2 DEF Due
    <3> QED BY <2>2, <3>1
  <2> QED BY <2>1, <2>2
<1> HIDE DEF f
<1>16. f \in Bijection(Due, Due')
  BY <1>13, <1>14, <1>15, Fun_IsBij
<1>17. IsFiniteSet(Due') /\ Cardinality(Due') = Cardinality(Due)
  <2>1. ExistsBijection(Due, Due')
    BY <1>16 DEF ExistsBijection
  <2> QED BY <1>1, <2>1, FS_Bijection DEF Balance
<1> QED BY <1>1, <1>2, <1>6, <1>7, <1>17 DEF Balance

(* The main loop moves an event from the queue to the app's code, and from *)
(* there to the finally clause.                                            *)
LEMMA LoopPause ==
  ASSUME PauseInv, NEW a \in Apps, Loop(a)
  PROVE  HeldPlaces' /\ NoPauseCalls' /\ Balance'
<1>1. /\ BusTypeOK /\ FrontendTypeOK /\ ConnectedAlive /\ CallsInFlight /\ HeldPlaces
      /\ UNCHANGED pauses /\ LoopStep(a)
  BY DEF PauseInv, TypeInv, TypeOK, Loop, vmiVars
<1>2. /\ pc[a] # "dead" => a \in connected
      /\ a \in connected /\ stage[a] # "idle" => pc[a] \in AppCode \cup {"resume"}
      /\ a \in connected /\ held[a] => pc[a] \in {"event", "resume"}
      /\ a \in connected /\ pc[a] = "resume" => held[a]
  BY <1>1 DEF ConnectedAlive, CallsInFlight, HeldPlaces
<1>3. CASE CallReturns(a)
  <2>1. /\ pc[a] \in AppCode /\ TakeReply(a) /\ UNCHANGED <<held, pc>>
    BY <1>3 DEF CallReturns
  <2>2. /\ UNCHANGED <<connected, dealer>> /\ stage'[a] = "idle"
        /\ \A b \in Apps \ {a} : stage'[b] = stage[b] /\ req'[b] = req[b]
    BY <1>1, <2>1 DEF TakeReply, BusTypeOK
  <2> QED BY <1>1, <1>2, <2>1, <2>2, QuietStep DEF AppCode
<1>4. CASE InitReturns(a) \/ EventReturns(a) \/ BeReturns(a) \/ TimerReturns(a) \/ Fac(a) \/ Scan(a)
           \/ Sweep(a) \/ (Poll(a) /\ dealer[a] = <<>>)
  <2>1. PICK place \in Places :
          /\ Goto(a, place)
          /\ IF held[a] THEN place \in {"event", "resume"} ELSE place # "resume"
    <3>1. CASE EventReturns(a)
      BY <1>1, <1>2, <3>1 DEF EventReturns, Places
    <3>2. CASE InitReturns(a)
      BY <1>1, <1>2, <3>2 DEF InitReturns, Places, AppCode
    <3>3. CASE BeReturns(a) \/ TimerReturns(a) \/ Fac(a) \/ Scan(a) \/ Sweep(a)
      BY <1>1, <1>2, <3>3 DEF BeReturns, TimerReturns, Fac, Scan, Sweep, Places, AppCode
    <3>4. CASE Poll(a) /\ dealer[a] = <<>>
      BY <1>1, <1>2, <3>4 DEF Poll, Places, AppCode
    <3> QED BY <1>4, <3>1, <3>2, <3>3, <3>4
  <2>2. /\ stage[a] = "idle" /\ pc[a] # "dead" /\ UNCHANGED <<connected, dealer, stage, req, held>>
    BY <1>1, <1>2, <1>4 DEF InitReturns, EventReturns, BeReturns, TimerReturns, Fac, Scan, Sweep, Poll,
         Running, AppCode, busVars
  <2> QED BY <1>1, <2>1, <2>2, MovePause
<1>5. CASE Poll(a) /\ dealer[a] # <<>>
  BY <1>1, <1>5, PollPause
<1>6. CASE ResumeSends(a)
  <2>1. /\ pc[a] = "resume" /\ stage[a] = "idle" /\ UNCHANGED <<held, pc, connected, dealer>>
        /\ stage'[a] = "sent" /\ req'[a].op = "RESUME_VM"
        /\ \A b \in Apps \ {a} : stage'[b] = stage[b] /\ req'[b] = req[b]
    BY <1>1, <1>6 DEF ResumeSends, SendRequest, feVars, BusTypeOK
  <2> QED BY <1>1, <1>2, <2>1, QuietStep
<1>7. CASE ResumeReturns(a)
  <2> DEFINE place == IF raised[a] THEN "shutdown" ELSE "fac"
  <2>1. /\ pc[a] = "resume" /\ stage[a] = "replied" /\ UNCHANGED <<connected, dealer>>
        /\ stage'[a] = "idle" /\ held'[a] = FALSE
        /\ \A b \in Apps \ {a} : stage'[b] = stage[b] /\ req'[b] = req[b] /\ held'[b] = held[b]
    BY <1>1, <1>7 DEF ResumeReturns, TakeReply, BusTypeOK, FrontendTypeOK
  <2>2. pc'[a] = place /\ place # "resume" /\ \A b \in Apps \ {a} : pc'[b] = pc[b]
    BY <1>1, <1>7 DEF ResumeReturns, Goto, FrontendTypeOK
  <2> QED BY <1>1, <1>2, <2>1, <2>2, QuietStep
<1>8. CASE ShutdownReturns(a)
  BY <1>1, <1>8, EndPause DEF ShutdownReturns
<1> QED BY <1>1, <1>3, <1>4, <1>5, <1>6, <1>7, <1>8 DEF LoopStep

(* A call of the API that is not pause_vm leaves the count alone.          *)
LEMMA AskPauseInv ==
  ASSUME PauseInv, NoResumes, NEW a \in Apps, ApiCall(a), UNCHANGED pauses
  PROVE  HeldPlaces' /\ NoPauseCalls' /\ Balance'
<1>1. /\ BusTypeOK /\ FrontendTypeOK /\ ConnectedAlive /\ HeldPlaces
  BY DEF PauseInv, TypeInv, TypeOK
<1>2. ASSUME NEW c, Calling(a, c)
      PROVE  /\ pc[a] \in AppCode /\ stage[a] = "idle" /\ a \in connected /\ UNCHANGED <<pc, held>>
             /\ c \in Api \cup TimerApi
             /\ held[a] => pc[a] \in {"event", "resume"}
             /\ pc[a] # "resume"
  BY <1>1, <1>2 DEF Calling, Running, ConnectedAlive, AppCode, HeldPlaces
<1>3. ASSUME NEW c, Calling(a, c), UNCHANGED busVars
      PROVE  HeldPlaces' /\ NoPauseCalls' /\ Balance'
  BY <1>2, <1>3, QuietStep DEF busVars
<1>4. ASSUME NEW c, Calling(a, c), NEW call, Ask(a, call), call.op # "RESUME_VM",
             NoPauses => call.op # "PAUSE_VM"
      PROVE  HeldPlaces' /\ NoPauseCalls' /\ Balance'
  <2>1. /\ UNCHANGED <<connected, dealer>> /\ stage'[a] = "sent" /\ req'[a] = call
        /\ \A b \in Apps \ {a} : stage'[b] = stage[b] /\ req'[b] = req[b]
    BY <1>1, <1>4 DEF Ask, SendRequest, BusTypeOK
  <2>2. /\ pc[a] \in AppCode /\ stage[a] = "idle" /\ a \in connected /\ UNCHANGED <<pc, held>>
        /\ held[a] => pc[a] \in {"event", "resume"}
        /\ pc[a] # "resume"
    BY <1>2, <1>4
  <2> QED BY <1>4, <2>1, <2>2, QuietStep
<1>5. CASE RegisterEvent(a)
  BY <1>4, <1>5 DEF RegisterEvent
<1>6. CASE AskStartSyscall(a)
  BY <1>4, <1>6 DEF AskStartSyscall
<1>7. CASE RegisterTimer(a) \/ RegisterBe(a)
  BY <1>3, <1>7 DEF RegisterTimer, RegisterBe, RegisterLocal
<1>8. ASSUME NEW c, Calling(a, c), NEW n, ClearNumber(a, n)
      PROVE  HeldPlaces' /\ NoPauseCalls' /\ Balance'
  BY <1>3, <1>4, <1>8 DEF ClearNumber
<1>9. ASSUME NEW id \in Ids, ClearEvent(a, id) \/ ClearTimer(a, id)
      PROVE  HeldPlaces' /\ NoPauseCalls' /\ Balance'
  BY <1>8, <1>9 DEF ClearEvent, ClearTimer
<1>10. ASSUME NEW id \in Ids, AskStopSyscall(a, id)
       PROVE  HeldPlaces' /\ NoPauseCalls' /\ Balance'
  BY <1>4, <1>10 DEF AskStopSyscall
<1>11. CASE AskEventsStart(a)
  BY <1>4, <1>11 DEF AskEventsStart
<1>12. CASE AskEventsStop(a)
  BY <1>4, <1>12 DEF AskEventsStop
<1>13. CASE AskPause(a)
  BY <1>2, <1>4, <1>13 DEF AskPause, NoPauses
<1>14. CASE AskResume(a)
  BY <1>2, <1>14 DEF AskResume, NoResumes
<1> QED BY <1>5, <1>6, <1>7, <1>9, <1>10, <1>11, <1>12, <1>13, <1>14 DEF ApiCall

(* The app's code, and the end of the app at any place of it.              *)
LEMMA AppPause ==
  ASSUME PauseInv, NoResumes, NEW a \in Apps, App(a)
  PROVE  HeldPlaces' /\ NoPauseCalls' /\ Balance'
<1>1. /\ BusTypeOK /\ FrontendTypeOK /\ ConnectedAlive /\ HeldPlaces /\ UNCHANGED pauses
  BY DEF PauseInv, TypeInv, TypeOK, App, vmiVars
<1>2. CASE ApiCall(a)
  BY <1>1, <1>2, AskPauseInv
<1>3. CASE Killed(a)
  BY <1>1, <1>3, EndPause DEF Killed
<1>4. CASE AppExit(a) /\ pc[a] = "init"
  BY <1>1, <1>4, EndPause DEF AppExit
<1>5. CASE AppExit(a) /\ pc[a] # "init"
  <2> DEFINE place == IF pc[a] = "event" /\ held[a] THEN "resume" ELSE "shutdown"
  <2>1. /\ Goto(a, place) /\ stage[a] = "idle" /\ pc[a] \in AppCode
        /\ UNCHANGED <<connected, dealer, stage, req, held>>
    BY <1>5 DEF AppExit, Running, busVars
  <2>2. held[a] => pc[a] = "event"
    BY <1>1, <2>1 DEF HeldPlaces, ConnectedAlive, AppCode
  <2>3. /\ place \in Places
        /\ IF held[a] THEN place \in {"event", "resume"} ELSE place # "resume"
    BY <2>2 DEF Places, AppCode
  <2> HIDE DEF place
  <2>4. pc[a] # "dead"
    BY <2>1 DEF AppCode
  <2> QED BY <1>1, <2>1, <2>3, <2>4, MovePause
<1> QED BY <1>2, <1>3, <1>4, <1>5 DEF App

-----------------------------------------------------------------------------
(* The theorems.                                                           *)

(* At first nothing is due.                                                *)
LEMMA PauseInit == Init => PauseInv
<1> SUFFICES ASSUME Init PROVE PauseInv
  OBVIOUS
<1>1. HeldPlaces /\ NoPauseCalls
  BY DEF Init, BusInit, FrontendInit, HeldPlaces, NoPauseCalls
<1>2. \A a \in Apps, i \in Nat : ~ Ticket(a, i)
  BY DEF Init, BusInit, FrontendInit, Ticket, Resuming
<1>3. Due = {}
  BY <1>2 DEF Due
<1>4. Balance
  BY <1>3, FS_EmptySet DEF Init, VmiInit, Balance
<1> QED BY <1>1, <1>4, InitType DEF PauseInv

(* Every step keeps the invariant.                                         *)
LEMMA PauseStep ==
  ASSUME NoResumes
  PROVE  PauseInv /\ [Next]_vars => PauseInv'
<1>1. ASSUME PauseInv, UNCHANGED vars PROVE HeldPlaces' /\ NoPauseCalls' /\ Balance'
  <2>1. /\ HeldPlaces' /\ NoPauseCalls' /\ UNCHANGED <<connected, pauses, dealer>>
        /\ \A b \in Apps : Resuming(b)' <=> Resuming(b)
    BY <1>1 DEF vars, busVars, vmiVars, feVars, PauseInv, HeldPlaces, NoPauseCalls, Resuming
  <2> QED BY <1>1, <2>1, SameDue DEF PauseInv
<1>2. ASSUME PauseInv, NEW v \in Vcpus, Guest(v) PROVE HeldPlaces' /\ NoPauseCalls' /\ Balance'
  <2>1. /\ HeldPlaces' /\ NoPauseCalls' /\ UNCHANGED <<connected, pauses, dealer>>
        /\ \A b \in Apps : Resuming(b)' <=> Resuming(b)
    BY <1>2 DEF Guest, GuestTrap, busVars, feVars, PauseInv, HeldPlaces, NoPauseCalls, Resuming
  <2> QED BY <1>2, <2>1, SameDue DEF PauseInv
<1>3. ASSUME PauseInv, [Next]_vars PROVE PauseInv'
  <2>1. TypeInv'
    BY <1>3, TypeStep DEF PauseInv
  <2>2. HeldPlaces' /\ NoPauseCalls' /\ Balance'
    BY <1>1, <1>2, <1>3, ServePause, CallbackPause, LoopPause, AppPause DEF Next
  <2> QED BY <2>1, <2>2 DEF PauseInv
<1> QED BY <1>3

(* What the property counts is among the resumes still to come, and is all *)
(* of them while no app has ended.                                         *)
LEMMA OwedIsDue ==
  ASSUME PauseInv
  PROVE  Owed \subseteq Due /\ (connected = Apps => Owed = Due)
<1>1. \A a \in connected : a \in Apps /\ dealer[a] \in Seq(EventMessages)
  BY DEF PauseInv, TypeInv, TypeOK, BusTypeOK
<1>2. ASSUME NEW a \in connected
      PROVE  \A i : i \in OwedBy(a) <=> i \in Nat /\ Ticket(a, i)
  <2>1. \A i \in DOMAIN dealer[a] : i \in Nat /\ i # 0
    BY <1>1, <1>2
  <2> QED BY <1>2, <2>1 DEF OwedBy, Ticket, Resuming
<1>3. \A d : d \in Owed <=> d \in connected \X Nat /\ Ticket(d[1], d[2])
  BY <1>2 DEF Owed
<1> QED BY <1>1, <1>3 DEF Due

(* Where apps leave resume_vm alone, the pause count covers every event    *)
(* that paused the guest and is not yet handled: whatever apps end at      *)
(* whatever moment and whatever messages are dropped, no resume_vm of a    *)
(* finally clause lets the guest run under another event's callback.       *)
THEOREM PauseCoversCorrect ==
  ASSUME NoResumes
  PROVE  Spec => []PauseCovers
<1>1. ASSUME PauseInv PROVE PauseCovers
  <2>1. Owed \subseteq Due /\ IsFiniteSet(Due) /\ pauses \in Nat /\ pauses >= Cardinality(Due)
    BY <1>1, OwedIsDue DEF PauseInv, Balance, TypeInv, TypeOK, VmiTypeOK
  <2>2. /\ IsFiniteSet(Owed) /\ Cardinality(Owed) <= Cardinality(Due)
        /\ Cardinality(Owed) \in Nat /\ Cardinality(Due) \in Nat
    BY <2>1, FS_Subset, FS_CardinalityType
  <2> QED BY <2>1, <2>2 DEF PauseCovers
<1>2. Init => PauseInv
  BY PauseInit
<1>3. PauseInv /\ [Next]_vars => PauseInv'
  BY PauseStep
<1> QED BY <1>1, <1>2, <1>3, PTL DEF Spec

(* Where they leave pause_vm alone too and no queue overflows, the count   *)
(* is exactly the resumes still to come, until an app ends: the guest does *)
(* not stay paused for good.                                               *)
THEOREM PauseCorrect ==
  ASSUME NoResumes, NoPauses, NoDrops
  PROVE  Spec => []PauseBalance
<1>1. ASSUME PauseInv PROVE connected = Apps => pauses = Cardinality(Owed)
  BY <1>1, OwedIsDue DEF PauseInv, Balance
<1>2. Init => PauseInv
  BY PauseInit
<1>3. PauseInv /\ [Next]_vars => PauseInv'
  BY PauseStep
<1>4. Spec => []PauseCovers
  BY PauseCoversCorrect
<1>5. PauseInv /\ PauseCovers => PauseBalance
  BY <1>1 DEF PauseBalance
<1> QED BY <1>2, <1>3, <1>4, <1>5, PTL DEF Spec
=============================================================================
