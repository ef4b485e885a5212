-------------------------- MODULE FacilitiesSystem --------------------------
(***************************************************************************)
(* An app, its Facilities partition and its backend: the Facilities side   *)
(* of furnace_frontend.py and the sockets around facilities.py.  The app's *)
(* thread blocks in request, io_set and io_get, and the partition in the   *)
(* request it passes on to the backend.                                    *)
(*                                                                         *)
(* The partition never gets to answer a sync packet (Facilities!EndPacket),*)
(* so what the frontend does after recv() is not reached.                  *)
(*                                                                         *)
(* Messages to the backend and from it carry numbers, in the order in      *)
(* which they were sent.                                                   *)
(***************************************************************************)
EXTENDS Facilities, FiniteSets

CONSTANTS AppOps,    \* what the app does
          Packets,   \* async packets with other calls than notify's
          MaxPosts,  \* bound: packets on their way from each of its sockets
          MaxUp,     \* bound: notifications sent
          MaxDown,   \* bound: messages from the backend
          MaxRuns,   \* bound: Facilities processes started
          Signals,   \* Ctrl-C and signals may end a Facilities process
          Hwm        \* messages the ROUTER queues for the app, then drops

Ops == {"notify", "post", "request", "io_set", "io_get"}

ASSUME SystemAssumption ==
  /\ AppOps \subseteq Ops
  /\ Messages = 1 .. MaxUp
  /\ Packets \subseteq Seq({c \in Calls : c.type # "BE_MSG"})
  /\ MaxPosts \in Nat
  /\ MaxUp \in Nat
  /\ MaxDown \in Nat
  /\ MaxRuns \in Nat
  /\ Signals \in BOOLEAN
  /\ Hwm \in Nat

VARIABLES fePc,      \* "run", or "recv": blocked in req_fac.recv()
          dealerFac, \* packets from dealer_fac to rtr_fac
          reqFac,    \* requests from req_fac to rtr_fac
          toBackend, \* the last notification dealer_pxy has passed on
          asked,     \* the last request req_pxy has
          beReq,     \* a request is with the backend
          fromBe,    \* packets from the backend to dealer_pxy
          bcast,     \* broadcasts from the backend to sub_pxy
          toFe,      \* messages from rtr_fac to dealer_fac
          pubFe,     \* broadcasts from pub_fac to sub_fac
          got,       \* the last message the app's callback has been given
          sentUp,    \* notifications sent so far
          sentDown,  \* messages the backend has sent so far
          runs       \* Facilities processes started so far

feVars  == <<fePc, dealerFac, reqFac, toFe, pubFe, got, sentUp>>
beVars  == <<toBackend, asked, beReq, fromBe, bcast, sentDown>>
vars    == <<facVars, feVars, beVars, runs>>

Kinds == {"notify", "broadcast"}

TypeOK ==
  /\ FacTypeOK
  /\ fePc \in {"run", "recv"}
  /\ dealerFac \in Seq(Seq(Calls))
  /\ reqFac \in Seq(Calls)
  /\ toBackend \in 0 .. MaxUp
  /\ asked \in 0 .. MaxUp
  /\ beReq \in BOOLEAN
  /\ fromBe \in Seq(Seq(1 .. MaxDown))
  /\ bcast \in Seq(Seq(1 .. MaxDown))
  /\ toFe \in Seq(1 .. MaxDown)
  /\ pubFe \in Seq(1 .. MaxDown)
  /\ got \in [Kinds -> 0 .. MaxDown]
  /\ sentUp \in 0 .. MaxUp
  /\ sentDown \in 0 .. MaxDown
  /\ runs \in 1 .. MaxRuns + 1

Init ==
  /\ FacInit
  /\ fePc = "run"
  /\ dealerFac = <<>>
  /\ reqFac = <<>>
  /\ toBackend = 0
  /\ asked = 0
  /\ beReq = FALSE
  /\ fromBe = <<>>
  /\ bcast = <<>>
  /\ toFe = <<>>
  /\ pubFe = <<>>
  /\ got = [k \in Kinds |-> 0]
  /\ sentUp = 0
  /\ sentDown = 0
  /\ runs = 1

-----------------------------------------------------------------------------
(* The app's calls.                                                        *)

(* notify sends and goes on.                                               *)
Notify ==
  /\ "notify" \in AppOps
  /\ fePc = "run"
  /\ sentUp < MaxUp
  /\ Len(dealerFac) < MaxPosts
  /\ sentUp' = sentUp + 1
  /\ dealerFac' = Append(dealerFac, <<MsgCall(sentUp + 1)>>)
  /\ UNCHANGED <<facVars, fePc, reqFac, toFe, pubFe, got, beVars, runs>>

(* Any other packet on the same socket: the partition tells calls apart by *)
(* their type only, not by how they came.                                  *)
Post ==
  /\ "post" \in AppOps
  /\ fePc = "run"
  /\ Len(dealerFac) < MaxPosts
  /\ \E p \in Packets : dealerFac' = Append(dealerFac, p)
  /\ UNCHANGED <<facVars, fePc, reqFac, toFe, pubFe, got, sentUp, beVars, runs>>

(* request, io_set and io_get send one call on the REQ socket and wait.    *)
AskFac(call) ==
  /\ fePc = "run"
  /\ Len(reqFac) < MaxPosts
  /\ fePc' = "recv"
  /\ reqFac' = Append(reqFac, call)
  /\ UNCHANGED <<facVars, dealerFac, toFe, pubFe, got, beVars, runs>>

Request ==
  /\ "request" \in AppOps
  /\ sentUp < MaxUp
  /\ sentUp' = sentUp + 1
  /\ AskFac(MsgCall(sentUp + 1))

IoSet ==
  /\ "io_set" \in AppOps
  /\ \E k \in Keys, v \in Values : AskFac(SetCall(k, v))
  /\ UNCHANGED sentUp

IoGet ==
  /\ "io_get" \in AppOps
  /\ \E k \in Keys : AskFac(GetCall(k))
  /\ UNCHANGED sentUp

(* The main loop hands a message of the backend to the app's callback.     *)
TakeBroadcast ==
  /\ fePc = "run"
  /\ pubFe # <<>>
  /\ got' = [got EXCEPT !["broadcast"] = Head(pubFe)]
  /\ pubFe' = Tail(pubFe)
  /\ UNCHANGED <<facVars, fePc, dealerFac, reqFac, toFe, sentUp, beVars, runs>>

TakeNotify ==
  /\ fePc = "run"
  /\ toFe # <<>>
  /\ got' = [got EXCEPT !["notify"] = Head(toFe)]
  /\ toFe' = Tail(toFe)
  /\ UNCHANGED <<facVars, fePc, dealerFac, reqFac, pubFe, sentUp, beVars, runs>>

-----------------------------------------------------------------------------
(* The partition's main loop.                                              *)

LoopAsync ==
  /\ dealerFac # <<>>
  /\ TakePacket(Head(dealerFac), FALSE)
  /\ dealerFac' = Tail(dealerFac)
  /\ UNCHANGED <<fePc, reqFac, toFe, pubFe, got, sentUp, beVars, runs>>

LoopSync ==
  /\ reqFac # <<>>
  /\ TakePacket(<<Head(reqFac)>>, TRUE)
  /\ reqFac' = Tail(reqFac)
  /\ UNCHANGED <<fePc, dealerFac, toFe, pubFe, got, sentUp, beVars, runs>>

(* Mutant: fmsg_out is not cleared between two messages, and the app reads  *)
(* the first of each packet.                                               *)
LoopNotifyNoClear ==
  /\ facPc = "poll"
  /\ fromBe # <<>>
  /\ toFe' = toFe \o [i \in DOMAIN Head(fromBe) |-> Head(fromBe)[1]]
  /\ fromBe' = Tail(fromBe)
  /\ UNCHANGED <<facVars, fePc, dealerFac, reqFac, pubFe, got, sentUp,
                 toBackend, asked, beReq, bcast, sentDown, runs>>

(* be2fe_process_protobuf: one packet to the app for each message of the   *)
(* backend's.  A ROUTER whose peer's queue is full drops it.               *)
LoopNotify ==
  /\ facPc = "poll"
  /\ fromBe # <<>>
  /\ LET room == IF Len(toFe) < Hwm THEN Hwm - Len(toFe) ELSE 0
         m == Head(fromBe)
     IN toFe' = toFe \o SubSeq(m, 1, IF Len(m) < room THEN Len(m) ELSE room)
  /\ fromBe' = Tail(fromBe)
  /\ UNCHANGED <<facVars, fePc, dealerFac, reqFac, pubFe, got, sentUp,
                 toBackend, asked, beReq, bcast, sentDown, runs>>

(* Of a broadcast only the first message is passed on.                     *)
LoopBroadcast ==
  /\ facPc = "poll"
  /\ bcast # <<>>
  /\ pubFe' = IF Len(pubFe) < Hwm THEN Append(pubFe, Head(bcast)[1]) ELSE pubFe
  /\ bcast' = Tail(bcast)
  /\ UNCHANGED <<facVars, fePc, dealerFac, reqFac, toFe, got, sentUp,
                 toBackend, asked, beReq, fromBe, sentDown, runs>>

LoopPassOn ==
  /\ PassOn
  /\ toBackend' = Head(calls).value
  /\ UNCHANGED <<feVars, asked, beReq, fromBe, bcast, sentDown, runs>>

LoopAsk ==
  /\ Ask
  /\ beReq' = TRUE
  /\ asked' = Head(calls).value
  /\ UNCHANGED <<feVars, toBackend, fromBe, bcast, sentDown, runs>>

LoopAnswered ==
  /\ BackendAnswers
  /\ ~beReq
  /\ UNCHANGED <<feVars, beVars, runs>>

(* The peers' pipes to a process that ends: what had left the app's is     *)
(* lost, what had not is there for the next process.                       *)
PipesBreak ==
  /\ \E n \in 0 .. Len(dealerFac) : dealerFac' = SubSeq(dealerFac, n + 1, Len(dealerFac))
  /\ reqFac' \in {reqFac, <<>>}
  /\ fromBe' = <<>>
  /\ bcast' = <<>>
  /\ beReq' = FALSE
  /\ UNCHANGED <<fePc, toFe, pubFe, got, sentUp, toBackend, asked, sentDown, runs>>

PipesStay == UNCHANGED <<feVars, beVars, runs>>

LoopCall ==
  /\ ServeCall \/ EndPacket
  /\ IF facPc' = "down" THEN PipesBreak ELSE PipesStay

(* Ctrl-C outside process_set, or a signal, at any moment.                 *)
FacStops ==
  /\ Signals
  /\ facPc # "down"
  /\ GoDown
  /\ PipesBreak

FacRestarts ==
  /\ runs < MaxRuns
  /\ FacStart
  /\ runs' = runs + 1
  /\ UNCHANGED <<feVars, beVars>>

-----------------------------------------------------------------------------
(* The backend, and the end of the app.                                    *)

Reply ==
  /\ beReq
  /\ beReq' = FALSE
  /\ UNCHANGED <<facVars, feVars, toBackend, asked, fromBe, bcast, sentDown, runs>>

(* A packet of the backend's with its next one or two messages.            *)
BackendSends ==
  /\ facPc # "down"
  /\ \E n \in 1 .. 2 :
       /\ sentDown + n <= MaxDown
       /\ sentDown' = sentDown + n
       /\ LET p == [i \in 1 .. n |-> sentDown + i]
          IN \/ fromBe' = Append(fromBe, p) /\ UNCHANGED bcast
             \/ bcast' = Append(bcast, p) /\ UNCHANGED fromBe
  /\ UNCHANGED <<facVars, feVars, toBackend, asked, beReq, runs>>

(* The app's process ends and another one is started.  What was on its way *)
(* to it is lost, and what had not left it.                                *)
FeRestarts ==
  /\ fePc' = "run"
  /\ \E n \in 0 .. Len(dealerFac) : dealerFac' = SubSeq(dealerFac, 1, n)
  /\ reqFac' \in {reqFac, <<>>}
  /\ toFe' = <<>>
  /\ pubFe' = <<>>
  /\ UNCHANGED <<facVars, got, sentUp, beVars, runs>>

Api == Notify \/ Post \/ Request \/ IoSet \/ IoGet
FeLoop == TakeBroadcast \/ TakeNotify
FacLoop == LoopAsync \/ LoopSync \/ LoopNotify \/ LoopBroadcast
            \/ LoopPassOn \/ LoopAsk \/ LoopAnswered \/ LoopCall
Next == Api \/ FeLoop \/ FacLoop \/ FacStops \/ FacRestarts
          \/ Reply \/ BackendSends \/ FeRestarts

Spec == Init /\ [][Next]_vars

(* The partition polls all its sockets and serves each that is ready; the  *)
(* backend answers.                                                        *)
Fairness ==
  /\ WF_vars(LoopAsync)
  /\ WF_vars(LoopSync)
  /\ WF_vars(LoopNotify)
  /\ WF_vars(LoopBroadcast)
  /\ WF_vars(LoopPassOn \/ LoopAsk \/ LoopAnswered \/ LoopCall)
  /\ WF_vars(Reply)

FairSpec == Spec /\ Fairness

-----------------------------------------------------------------------------
(* Properties of the store.                                                *)

Stored(k) == storage[k] # NoId

(* However a write was cut short (process_set): no two keys share a file,  *)
(* the next number is free, and every file that this process wrote is      *)
(* still named by a key, so that a later write or shutdown finds it.       *)
IndexSound ==
  /\ \A k \in Keys : Stored(k) => storage[k] < ioId /\ k \notin BadKeys
  /\ \A k, l \in Keys : Stored(k) /\ storage[k] = storage[l] => k = l
  /\ facPc # "down" =>
       \A id \in FileIds :
         files[id] # NoFile /\ ~files[id].stale => \E k \in Keys : storage[k] = id

Written == {id \in FileIds : files[id] # NoFile /\ ~files[id].stale}

(* Each byte of them.                                                      *)
BytesWritten == UNION {{id} \X (1 .. files[id].bytes) : id \in Written}

(* onDisk, the history variable by which the quota is stated, is what the  *)
(* files of the running process take on the disk.                          *)
DiskCharged == facPc # "down" => onDisk = Cardinality(BytesWritten)

(* The quota of process_set bounds the bytes on disk through any sequence  *)
(* of writes, replacements, refusals and failures, as long as none of what *)
(* exact records has happened.                                             *)
QuotaHonoured == exact => onDisk <= diskUsage /\ onDisk <= MaxDisk

(* The index and the files together are a store of one value per key, for  *)
(* which a failed write, a crash and the files of an earlier process are   *)
(* no more than KeyValueStore allows.                                      *)
ValueOf(k) ==
  IF ~Stored(k) THEN Absent
  ELSE IF Held(k) = NoFile THEN Damaged
  ELSE IF Held(k).stale \/ ~Whole(Held(k)) THEN Damaged
  ELSE Held(k).of

LastAnswer ==
  IF fmsgOut = <<>> THEN NoAnswer
  ELSE LET r == fmsgOut[Len(fmsgOut)] IN IF r = MsgRet THEN NoAnswer ELSE r

Store == INSTANCE KeyValueStore WITH
           kv <- [k \in Keys |-> ValueOf(k)],
           answer <- LastAnswer

ImplementsStore == Store!Spec

-----------------------------------------------------------------------------
(* Properties of the broker.                                               *)

(* Sequences of numbers, in which 0 stands for no message: p is in order,  *)
(* p comes before q, and a sequence of them is in order as a whole.        *)
Sorted(p) == \A x, y \in DOMAIN p : x < y /\ p[x] # 0 /\ p[y] # 0 => p[x] < p[y]

Below(p, q) == \A x \in DOMAIN p, y \in DOMAIN q : p[x] # 0 /\ q[y] # 0 => p[x] < q[y]

Rising(s) ==
  /\ \A i \in DOMAIN s : Sorted(s[i])
  /\ \A i, j \in DOMAIN s : i < j => Below(s[i], s[j])

(* The numbers of a packet's messages.                                     *)
Numbers(p) == [x \in DOMAIN p |-> IF p[x].type = "BE_MSG" THEN p[x].value ELSE 0]

NumbersOf(s) == [i \in DOMAIN s |-> Numbers(s[i])]

Serving(isSync) == IF sync = isSync THEN calls ELSE <<>>

(* A request that has been asked is still the head of calls in recv.       *)
Waiting == IF facPc = "recv" THEN <<>> ELSE Serving(TRUE)

(* Through the app's pipe, the partition and restarts of both, a           *)
(* notification reaches the backend at most once and in the order in which *)
(* notify was called.                                                      *)
NotificationsInOrder ==
  Rising(<<<<toBackend>>, Numbers(Serving(FALSE))>> \o NumbersOf(dealerFac))

(* A request is asked of the backend at most once, although it is never    *)
(* answered and both processes may be started again in its middle.         *)
RequestsOnce ==
  Rising(<<<<asked>>, Numbers(Waiting)>> \o <<Numbers(reqFac)>>)

(* What the backend sends is handed to the app's callback in order and at  *)
(* most once, whatever is dropped on the way.                              *)
DeliveredInOrder ==
  /\ Rising(<<<<got["notify"]>>, toFe>> \o fromBe)
  /\ Rising(<<<<got["broadcast"]>>, pubFe>> \o bcast)

(* The partition never stops reading: a notification is passed on, unless  *)
(* the process ends.                                                       *)
NotificationsLeave ==
  dealerFac # <<>> ~> (dealerFac = <<>> \/ facPc = "down")

(* request "blocks until response is received", and no longer.             *)
RequestReturns == fePc = "recv" ~> fePc = "run"
=============================================================================
