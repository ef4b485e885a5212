------------------------------ MODULE EventBus ------------------------------
(***************************************************************************)
(* The ZeroMQ channels between the app partitions and the VMI partition,   *)
(* and the messages of vmi.proto that the event system exchanges on them.  *)
(*                                                                         *)
(* Every app frontend owns two sockets towards the VMI partition's single  *)
(* ROUTER socket:                                                          *)
(*   - req_vmi, a REQ socket: one call at a time, the frontend blocks in   *)
(*     recv() until the reply is there (send_default_reply);               *)
(*   - dealer_vmi, a DEALER socket on which the VMI partition pushes the   *)
(*     events that the app's traps raise.                                  *)
(* The ROUTER is watched by DRAKVUF's main loop through its ZMQ_FD file    *)
(* descriptor, whose readiness is `zmqfd'.                                 *)
(***************************************************************************)
EXTENDS Naturals, Sequences, FiniteSets

CONSTANTS Apps,       \* the app frontends connected to this VMI partition
          Callbacks,  \* the functions an app may pass as a callback
          MaxId       \* bound: event and timer ids are taken from 0..MaxId

ASSUME MaxIdAssumption == MaxId \in Nat

Ids == 0 .. MaxId

-----------------------------------------------------------------------------
(* Calls on the REQ socket.  A call record holds the message and the local *)
(* variables of the blocked caller that it uses when the reply is there:   *)
(* the callback of a registration and the id passed to stop_syscall are    *)
(* not on the wire.                                                        *)

RegisterCalls == [op : {"EVENT_REGISTER", "START_SYSCALL"},
                  sync : BOOLEAN, cb : Callbacks]
RemoveCalls   == [op : {"EVENT_CLEAR", "STOP_SYSCALL"}, id : Ids]
BareCalls     == [op : {"EVENTS_START", "EVENTS_STOP", "PAUSE_VM", "RESUME_VM"}]

Calls  == RegisterCalls \cup RemoveCalls \cup BareCalls
NoCall == [op |-> "none"]

(* The status and the identifier of the *_ret message.  An error reply     *)
(* that lacks the *_ret message counts as ok = FALSE: the frontend raises  *)
(* in both cases.                                                          *)
Replies == [ok : BOOLEAN, id : Ids]
NoReply == [ok |-> FALSE, id |-> 0]

(* What a callback in the VMI partition pushes to an app: the event id and *)
(* guest_paused.  cb is not on the wire: it records which callback the app *)
(* gave for the trap that fired.                                           *)
EventMessages == [id : Ids, paused : BOOLEAN, cb : Callbacks]

-----------------------------------------------------------------------------
VARIABLES connected, \* the apps whose process and sockets are alive
          req,       \* req[a]: the call app a is blocked in
          stage,     \* stage[a]: "idle", "sent" to the ROUTER, or "replied"
          rep,       \* rep[a]: the reply waiting in a's REQ socket
          dealer,    \* dealer[a]: the events waiting in a's DEALER socket
          zmqfd      \* the ROUTER's ZMQ_FD: "idle", "ready" (it polls as
                     \* readable), or "serving" (process_zmq is running)

busVars == <<connected, req, stage, rep, dealer, zmqfd>>

BusTypeOK ==
  /\ connected \subseteq Apps
  /\ req \in [Apps -> Calls \cup {NoCall}]
  /\ stage \in [Apps -> {"idle", "sent", "replied"}]
  /\ rep \in [Apps -> Replies]
  /\ dealer \in [Apps -> Seq(EventMessages)]
  /\ zmqfd \in {"idle", "ready", "serving"}

BusInit ==
  /\ connected = Apps
  /\ req = [a \in Apps |-> NoCall]
  /\ stage = [a \in Apps |-> "idle"]
  /\ rep = [a \in Apps |-> NoReply]
  /\ dealer = [a \in Apps |-> <<>>]
  /\ zmqfd = "idle"

(* send_default_reply, first half: the request reaches the ROUTER, which   *)
(* makes ZMQ_FD readable, and the frontend blocks.                         *)
SendRequest(a, call) ==
  /\ req' = [req EXCEPT ![a] = call]
  /\ stage' = [stage EXCEPT ![a] = "sent"]
  /\ zmqfd' = IF zmqfd = "idle" THEN "ready" ELSE zmqfd
  /\ UNCHANGED <<connected, rep, dealer>>

(* process_zmq sends the reply of one request and reads the next one while *)
(* there is any: the ROUTER drops a reply whose peer is gone.              *)
SendReply(a, ok, id) ==
  /\ stage' = [stage EXCEPT ![a] = IF a \in connected THEN "replied" ELSE "idle"]
  /\ rep' = IF a \in connected THEN [rep EXCEPT ![a] = [ok |-> ok, id |-> id]] ELSE rep
  /\ req' = IF a \in connected THEN req ELSE [req EXCEPT ![a] = NoCall]
  /\ zmqfd' = IF \E b \in Apps \ {a} : stage[b] = "sent" THEN "serving" ELSE "idle"
  /\ UNCHANGED <<connected, dealer>>

(* send_default_reply, second half: recv() returns.                        *)
TakeReply(a) ==
  /\ stage[a] = "replied"
  /\ stage' = [stage EXCEPT ![a] = "idle"]
  /\ req' = [req EXCEPT ![a] = NoCall]
  /\ rep' = [rep EXCEPT ![a] = NoReply]
  /\ UNCHANGED <<connected, dealer, zmqfd>>

(* The frontend process ends.  What it has not read is lost; a request in  *)
(* its outgoing pipe may or may not have left.                             *)
Disconnect(a) ==
  /\ connected' = connected \ {a}
  /\ dealer' = [dealer EXCEPT ![a] = <<>>]
  /\ rep' = [rep EXCEPT ![a] = NoReply]
  /\ \/ /\ stage[a] = "sent"
        /\ UNCHANGED <<req, stage>>
     \/ /\ req' = [req EXCEPT ![a] = NoCall]
        /\ stage' = [stage EXCEPT ![a] = "idle"]
  /\ UNCHANGED zmqfd
=============================================================================
