-------------------------- MODULE FacilitiesProofs --------------------------
(***************************************************************************)
(* Proofs about the store of the Facilities partition, for any keys,       *)
(* values, quota and faults, and any number of packets and processes.      *)
(***************************************************************************)
EXTENDS FacilitiesSystem, TLAPS, FiniteSetTheorems, SequenceTheorems

(* What the types need to be inductive: a process that is down has no      *)
(* index, a sync packet has one call, a broadcast has a message.           *)
DownEmpty ==
  facPc = "down" => /\ storage = [k \in Keys |-> NoId]
                    /\ calls = <<>>
                    /\ fmsgOut = <<>>

SyncOne ==
  /\ sync => Len(calls) <= 1
  /\ facPc = "recv" => sync /\ calls # <<>>

BcastFull == \A i \in DOMAIN bcast : bcast[i] # <<>>

TypeInv == TypeOK /\ DownEmpty /\ SyncOne /\ BcastFull

-----------------------------------------------------------------------------
(* The calls of the partition.                                             *)

(* The fields that a call has, by its type.                                *)
LEMMA CallFields ==
  ASSUME NEW c \in Calls
  PROVE  /\ c.type = "SET" => c.key \in Keys /\ c.value \in Values
         /\ c.type = "GET" => c.key \in Keys
         /\ c.type = "BE_MSG" => c.value \in Messages
BY DEF Calls

(* What the handlers build are replies.                                    *)
LEMMA RepliesMade ==
  ASSUME NEW k \in Keys, NEW ok \in BOOLEAN, NEW v \in Values \cup {Garbled}
  PROVE  /\ SetRet(k, ok) \in Replies
         /\ GetRet(k, v) \in Replies
         /\ GetBad(k) \in Replies
         /\ MsgRet \in Replies
BY DEF SetRet, GetRet, GetBad, Replies

(* The head of calls is a call, the rest are calls, and no longer than it. *)
LEMMA CallsHead ==
  ASSUME calls \in Seq(Calls), calls # <<>>
  PROVE  /\ Head(calls) \in Calls
         /\ Tail(calls) \in Seq(Calls)
         /\ Len(Tail(calls)) = Len(calls) - 1
OBVIOUS

(* A file that is there is a file.                                         *)
LEMMA FileThere ==
  ASSUME FacTypeOK, NEW id \in FileIds, files[id] # NoFile
  PROVE  /\ files[id] \in Contents
         /\ files[id].of \in Values /\ files[id].bytes \in Nat /\ files[id].stale \in BOOLEAN
BY DEF FacTypeOK, Contents

(* A write that comes to its n-th statement, by SetFails or SetDone: what  *)
(* the code has looked at before.                                          *)
SetReaches(k, v, n, w) ==
  /\ IsNext("SET")
  /\ Head(calls) \in Calls
  /\ k = Head(calls).key /\ k \in Keys \ BadKeys
  /\ v = Head(calls).value /\ v \in Values
  /\ n \in 0 .. 8 /\ w \in 0 .. Bytes[v]
  /\ ioId \in 0 .. (MaxIo - 1)
  /\ WithinQuota(v)
  /\ storage[k] = NoId => n >= 3
  /\ storage[k] # NoId /\ n >= 1 => storage[k] \in FileIds /\ files[storage[k]] # NoFile
  /\ SetEffect(k, v, n, w)
  /\ n = 8 => w = Bytes[v]
  /\ fmsgOut' = Append(fmsgOut, IF n = 8 THEN SetRet(k, TRUE) ELSE SetRet(k, FALSE))
  /\ calls' = Tail(calls)
  /\ UNCHANGED <<facPc, sync>>

(* Every way through process_set is n statements of it with w bytes        *)
(* written.                                                                *)
LEMMA SetsReach ==
  ASSUME FacTypeOK, SetFails \/ SetDone
  PROVE  \E k \in Keys, v \in Values, n \in 0 .. 8, w \in Nat : SetReaches(k, v, n, w)
<1>1. PICK k \in Keys, v \in Values : k = Head(calls).key /\ v = Head(calls).value
  BY CallsHead, CallFields DEF SetFails, SetDone, IsNext, FacTypeOK
<1>2. /\ IsNext("SET") /\ k \notin BadKeys /\ WithinQuota(v) /\ InBounds
      /\ Head(calls) \in Calls
  BY <1>1, CallsHead DEF SetFails, SetDone, IsNext, FacTypeOK
<1>3. Bytes[v] \in Nat /\ ioId \in 0 .. (MaxIo - 1)
  BY <1>2, FacAssumption DEF InBounds, FacTypeOK, FileIds
<1>4. storage[k] \in FileIds \cup {NoId}
  BY DEF FacTypeOK
<1>5. CASE SetFails
  <2>1. PICK n \in StopsAt(k), w \in 0 .. Bytes[v] : SetEffect(k, v, n, w)
    BY <1>1, <1>5 DEF SetFails
  <2>2. n \in 0 .. 7
    <3>1. CASE n \in Faults
      BY <3>1, FacAssumption
    <3>2. CASE n = 0
      BY <3>2
    <3> QED BY <2>1, <3>1, <3>2 DEF StopsAt
  <2>3. /\ storage[k] = NoId => n >= 3
        /\ storage[k] # NoId /\ n >= 1 => storage[k] \in FileIds /\ files[storage[k]] # NoFile
    <3>1. CASE storage[k] = NoId
      BY <2>1, <2>2, <3>1 DEF StopsAt
    <3>2. CASE storage[k] # NoId /\ Held(k) = NoFile
      BY <2>1, <2>2, <3>2 DEF StopsAt
    <3>3. CASE storage[k] # NoId /\ Held(k) # NoFile
      BY <1>4, <2>2, <3>3 DEF Held
    <3> QED BY <3>1, <3>2, <3>3
  <2>4. Answer(SetRet(k, FALSE))
    BY <1>1, <1>5 DEF SetFails
  <2>5. SetReaches(k, v, n, w)
    <3>1. n \in 0 .. 8 /\ n # 8
      BY <2>2
    <3>2. storage[k] = NoId => n >= 3
      BY <2>3
    <3>3. storage[k] # NoId /\ n >= 1 => storage[k] \in FileIds /\ files[storage[k]] # NoFile
      BY <2>3
    <3> QED BY <1>1, <1>2, <1>3, <2>1, <2>4, <3>1, <3>2, <3>3 DEF SetReaches, Answer
  <2> QED BY <1>3, <2>2, <2>5
<1>6. CASE SetDone
  <2>1. /\ storage[k] # NoId => Held(k) # NoFile
        /\ SetEffect(k, v, 8, Bytes[v])
        /\ Answer(SetRet(k, TRUE))
    BY <1>1, <1>6 DEF SetDone
  <2>2. storage[k] # NoId /\ 8 >= 1 => storage[k] \in FileIds /\ files[storage[k]] # NoFile
    BY <1>4, <2>1 DEF Held
  <2>3. SetReaches(k, v, 8, Bytes[v])
    BY <1>1, <1>2, <1>3, <2>1, <2>2 DEF SetReaches, Answer
  <2> QED BY <1>3, <2>3
<1> QED BY <1>5, <1>6

-----------------------------------------------------------------------------
(* Types.                                                                  *)

(* The empty packet is one of anything.                                    *)
LEMMA EmptyIsSeq == \A S : <<>> \in Seq(S)
OBVIOUS

(* The partition's types hold at first.                                    *)
LEMMA FacTypeInit == FacInit => FacTypeOK
<1> SUFFICES ASSUME FacInit PROVE FacTypeOK
  OBVIOUS
<1>1. calls \in Seq(Calls) /\ fmsgOut \in Seq(Replies)
  BY EmptyIsSeq DEF FacInit
<1>2. ioId \in FileIds
  BY FacAssumption DEF FacInit, FileIds
<1> QED BY <1>1, <1>2 DEF FacInit, FacTypeOK

(* The end of the process keeps them.                                      *)
LEMMA FacTypeDown ==
  ASSUME FacTypeOK, GoDown
  PROVE  FacTypeOK'
<1>1. files' \in [FileIds -> Contents \cup {NoFile}]
  BY DEF GoDown, FacTypeOK
<1>2. calls' \in Seq(Calls) /\ fmsgOut' \in Seq(Replies)
  BY EmptyIsSeq DEF GoDown
<1> QED BY <1>1, <1>2 DEF GoDown, FacTypeOK

(* A new process keeps them.                                               *)
LEMMA FacTypeStart ==
  ASSUME FacTypeOK, FacStart
  PROVE  FacTypeOK'
<1>1. ASSUME NEW id \in FileIds, files[id] # NoFile
      PROVE  [files[id] EXCEPT !.stale = TRUE] \in Contents
  BY <1>1, FileThere DEF Contents
<1>2. files' \in [FileIds -> Contents \cup {NoFile}]
  BY <1>1 DEF FacStart
<1>3. ioId' \in FileIds
  BY FacAssumption DEF FacStart, FileIds
<1> QED BY <1>2, <1>3 DEF FacStart, FacTypeOK

(* So does adding a reply.                                                 *)
LEMMA FacTypeAnswer ==
  ASSUME FacTypeOK, calls # <<>>, NEW reply \in Replies, Answer(reply), UNCHANGED storeVars
  PROVE  FacTypeOK'
BY CallsHead DEF Answer, FacTypeOK, storeVars

(* So does process_set, wherever it stops.                                 *)
LEMMA FacTypeSet ==
  ASSUME FacTypeOK, NEW k \in Keys, NEW v \in Values, NEW n \in 0 .. 8, NEW w \in Nat,
         SetReaches(k, v, n, w)
  PROVE  FacTypeOK'
<1>1. files' \in [FileIds -> Contents \cup {NoFile}]
  <2>1. [of |-> v, bytes |-> w, stale |-> FALSE] \in Contents
    BY DEF Contents
  <2>2. files' = [id \in FileIds |->
                    IF id = ioId /\ n >= 7 THEN [of |-> v, bytes |-> w, stale |-> FALSE]
                    ELSE IF id = storage[k] /\ n >= 2 THEN NoFile ELSE files[id]]
    BY DEF SetReaches, SetEffect
  <2>3. \A id \in FileIds : files[id] \in Contents \cup {NoFile}
    BY DEF FacTypeOK
  <2> QED BY <2>1, <2>2, <2>3
<1>2. ioId \in FileIds /\ ioId + 1 \in FileIds
  BY FacAssumption DEF SetReaches, FileIds
<1>3. ioId' \in FileIds
  BY <1>2 DEF SetReaches, SetEffect
<1>4. storage' \in [Keys -> FileIds \cup {NoId}]
  <2>1. storage' = [storage EXCEPT ![k] = IF n >= 6 THEN ioId
                                          ELSE IF n >= 3 THEN NoId ELSE storage[k]]
    BY DEF SetReaches, SetEffect, FacTypeOK
  <2>2. storage \in [Keys -> FileIds \cup {NoId}]
    BY DEF FacTypeOK
  <2> QED BY <1>2, <2>1, <2>2
<1>5. diskUsage' \in Int /\ onDisk' \in Int
  <2>1. PICK size \in Nat, f \in BOOLEAN :
          /\ diskUsage' = diskUsage - size + (IF n >= 5 THEN Chars[v] ELSE 0)
          /\ onDisk' = onDisk - (IF n >= 2 /\ ~f THEN size ELSE 0) + (IF n >= 7 THEN w ELSE 0)
    <3>1. CASE storage[k] # NoId /\ n >= 1
      BY <3>1, FileThere DEF SetReaches, SetEffect
    <3>2. CASE ~(storage[k] # NoId /\ n >= 1)
      BY <3>2 DEF SetReaches, SetEffect
    <3> QED BY <3>1, <3>2
  <2>2. Chars[v] \in Nat
    BY FacAssumption
  <2> QED BY <2>1, <2>2 DEF FacTypeOK
<1>6. exact' \in BOOLEAN
  BY DEF SetReaches, SetEffect
<1>7. fmsgOut' \in Seq(Replies)
  <2>1. PICK r : r \in Replies /\ fmsgOut' = Append(fmsgOut, r)
    <3>1. CASE n = 8
      <4>1. fmsgOut' = Append(fmsgOut, SetRet(k, TRUE)) /\ SetRet(k, TRUE) \in Replies
        BY <3>1 DEF SetReaches, SetRet, Replies
      <4> QED BY <4>1, Zenon
    <3>2. CASE n # 8
      <4>1. fmsgOut' = Append(fmsgOut, SetRet(k, FALSE)) /\ SetRet(k, FALSE) \in Replies
        BY <3>2 DEF SetReaches, SetRet, Replies
      <4> QED BY <4>1, Zenon
    <3> QED BY <3>1, <3>2
  <2> QED BY <2>1 DEF FacTypeOK
<1>8. calls' \in Seq(Calls)
  BY CallsHead DEF SetReaches, IsNext, FacTypeOK
<1> QED BY <1>1, <1>3, <1>4, <1>5, <1>6, <1>7, <1>8 DEF SetReaches, FacTypeOK

(* A call of a packet is answered without touching the store, ends the     *)
(* process, or is a write; and so is the end of a packet.                  *)
LEMMA CallCases ==
  ASSUME FacTypeOK, ServeCall \/ EndPacket
  PROVE  \/ /\ calls # <<>>
            /\ \E k \in Keys :
                 \/ Head(calls).type = "GET" /\ k = Head(calls).key
                      /\ (GetRejected(k) \/ GetAnswers(k))
                 \/ /\ Head(calls).value \in Values
                    /\ Answer(SetRet(k, FALSE)) /\ UNCHANGED storeVars
         \/ GoDown
         \/ \E k \in Keys, v \in Values, n \in 0 .. 8, w \in Nat : SetReaches(k, v, n, w)
         \/ /\ ~sync /\ calls = <<>> /\ facPc' = "poll" /\ fmsgOut' = <<>>
            /\ UNCHANGED <<calls, sync, storeVars>>
<1>1. CASE Get
  BY <1>1, CallsHead, CallFields DEF Get, GetRaises, IsNext, FacTypeOK
<1>2. CASE SetBadName
  BY <1>2 DEF SetBadName
<1>3. CASE SetRefused
  BY <1>3, CallsHead, CallFields DEF SetRefused, IsNext, FacTypeOK
<1>4. CASE SetFails \/ SetDone
  BY <1>4, SetsReach
<1>5. CASE EndPacket
  BY <1>5 DEF EndPacket
<1> QED BY <1>1, <1>2, <1>3, <1>4, <1>5 DEF ServeCall

(* What a read answers with is a reply.                                    *)
LEMMA ReadReplies ==
  ASSUME FacTypeOK, NEW k \in Keys
  PROVE  /\ GetBad(k) \in Replies
         /\ Held(k) # NoFile =>
              GetRet(k, IF Whole(Held(k)) THEN Held(k).of ELSE Garbled) \in Replies
<1>1. GetBad(k) \in Replies
  BY DEF GetBad, Replies
<1>2. ASSUME Held(k) # NoFile
      PROVE  Held(k).of \in Values
  BY <1>2, FileThere DEF Held, FacTypeOK
<1>3. \A v \in Values \cup {Garbled} : GetRet(k, v) \in Replies
  BY DEF GetRet, Replies
<1> QED BY <1>1, <1>2, <1>3

(* So does any call of a packet, and its end.                              *)
LEMMA FacTypeCall ==
  ASSUME FacTypeOK, ServeCall \/ EndPacket
  PROVE  FacTypeOK'
<1>1. CASE GoDown
  BY <1>1, FacTypeDown
<1>2. ASSUME NEW k \in Keys, NEW v \in Values, NEW n \in 0 .. 8, NEW w \in Nat,
             SetReaches(k, v, n, w)
      PROVE  FacTypeOK'
  BY <1>2, FacTypeSet
<1>3. ASSUME NEW k \in Keys, calls # <<>>, GetRejected(k) \/ GetAnswers(k)
      PROVE  FacTypeOK'
  BY <1>3, FacTypeAnswer, ReadReplies DEF GetRejected, GetAnswers
<1>4. ASSUME NEW k \in Keys, calls # <<>>, Answer(SetRet(k, FALSE)), UNCHANGED storeVars
      PROVE  FacTypeOK'
  <2>1. SetRet(k, FALSE) \in Replies
    BY DEF SetRet, Replies
  <2> QED BY <1>4, <2>1, FacTypeAnswer
<1>5. CASE /\ ~sync /\ calls = <<>> /\ facPc' = "poll" /\ fmsgOut' = <<>>
           /\ UNCHANGED <<calls, sync, storeVars>>
  BY <1>5 DEF FacTypeOK, storeVars
<1> QED BY <1>1, <1>2, <1>3, <1>4, <1>5, CallCases

(* The parts of the system's types that are not the partition's.           *)
FeTypes ==
  /\ fePc \in {"run", "recv"}
  /\ dealerFac \in Seq(Seq(Calls))
  /\ reqFac \in Seq(Calls)
  /\ toFe \in Seq(1 .. MaxDown)
  /\ pubFe \in Seq(1 .. MaxDown)
  /\ got \in [Kinds -> 0 .. MaxDown]
  /\ sentUp \in 0 .. MaxUp

BeTypes ==
  /\ toBackend \in 0 .. MaxUp
  /\ asked \in 0 .. MaxUp
  /\ beReq \in BOOLEAN
  /\ fromBe \in Seq(Seq(1 .. MaxDown))
  /\ bcast \in Seq(Seq(1 .. MaxDown))
  /\ sentDown \in 0 .. MaxDown

(* The types of the whole are those of its three parts.                    *)
LEMMA TypeParts ==
  TypeOK <=> FacTypeOK /\ FeTypes /\ BeTypes /\ runs \in 1 .. MaxRuns + 1
BY DEF TypeOK, FeTypes, BeTypes

(* The invariant is kept if each of its parts is.                          *)
LEMMA TypesNext ==
  ASSUME FacTypeOK', FeTypes', BeTypes', runs' \in 1 .. MaxRuns + 1,
         DownEmpty', SyncOne', BcastFull'
  PROVE  TypeInv'
BY DEF TypeInv, TypeOK, FeTypes, BeTypes

(* Where the partition's own variables, or a peer's, stay as they are.     *)
LEMMA FacSame ==
  ASSUME TypeInv, UNCHANGED facVars
  PROVE  FacTypeOK' /\ DownEmpty' /\ SyncOne'
BY DEF TypeInv, TypeOK, FacTypeOK, DownEmpty, SyncOne, facVars, storeVars

(* What leaves the backend and its pipes alone keeps their types.          *)
LEMMA BackendSame ==
  ASSUME TypeInv, UNCHANGED beVars
  PROVE  BeTypes' /\ BcastFull'
BY DEF TypeInv, TypeOK, BeTypes, BcastFull, beVars

(* What leaves the frontend and its pipes alone keeps theirs.              *)
LEMMA FrontendSame ==
  ASSUME TypeInv, UNCHANGED feVars
  PROVE  FeTypes'
BY DEF TypeInv, TypeOK, FeTypes, feVars

(* What is cut from or joined to a sequence is a sequence of the same.     *)
LEMMA SeqParts ==
  ASSUME NEW S, NEW s \in Seq(S)
  PROVE  /\ \A x \in S : Append(s, x) \in Seq(S)
         /\ s # <<>> => Head(s) \in S /\ Tail(s) \in Seq(S) /\ Len(Tail(s)) = Len(s) - 1
         /\ \A n \in 0 .. Len(s) : /\ SubSeq(s, n + 1, Len(s)) \in Seq(S)
                                   /\ SubSeq(s, 1, n) \in Seq(S)
         /\ \A t \in Seq(S) : s \o t \in Seq(S)
OBVIOUS

(* The first element of a sequence is one of its elements.                 *)
LEMMA FirstOf == ASSUME NEW S, NEW s \in Seq(S), s # <<>> PROVE s[1] \in S
OBVIOUS

(* An element of a longer sequence is the new one or an old one.           *)
LEMMA AppendParts ==
  ASSUME NEW S, NEW s \in Seq(S), NEW e \in S, NEW i \in DOMAIN Append(s, e)
  PROVE  Append(s, e)[i] = e \/ (i \in DOMAIN s /\ Append(s, e)[i] = s[i])
OBVIOUS

(* One element makes a sequence.                                           *)
LEMMA OneSeq == \A S : \A x \in S : <<x>> \in Seq(S)
OBVIOUS

(* What the API sends are calls.                                           *)
LEMMA SentCalls ==
  /\ \A m \in Messages : MsgCall(m) \in Calls
  /\ \A k \in Keys, v \in Values : SetCall(k, v) \in Calls
  /\ \A k \in Keys : GetCall(k) \in Calls
BY DEF MsgCall, SetCall, GetCall, Calls

(* A sequence over a set is one over any greater set.                      *)
LEMMA SeqSubset == ASSUME NEW S, NEW T, S \subseteq T PROVE Seq(S) \subseteq Seq(T)
OBVIOUS

(* The other packets consist of calls too.                                 *)
LEMMA PacketCalls == \A p \in Packets : p \in Seq(Calls)
<1>1. {c \in Calls : c.type # "BE_MSG"} \subseteq Calls
  OBVIOUS
<1> QED BY <1>1, SeqSubset, SystemAssumption

(* The invariant of the types holds at first.                              *)
LEMMA InitTypes == Init => TypeInv
<1> SUFFICES ASSUME Init PROVE TypeInv
  OBVIOUS
<1>1. FacTypeOK
  BY FacTypeInit DEF Init
<1>2. FeTypes /\ BeTypes /\ runs \in 1 .. MaxRuns + 1
  <2>1. /\ dealerFac \in Seq(Seq(Calls)) /\ reqFac \in Seq(Calls)
        /\ toFe \in Seq(1 .. MaxDown) /\ pubFe \in Seq(1 .. MaxDown)
        /\ fromBe \in Seq(Seq(1 .. MaxDown)) /\ bcast \in Seq(Seq(1 .. MaxDown))
    BY EmptyIsSeq DEF Init
  <2>2. /\ sentUp \in 0 .. MaxUp /\ sentDown \in 0 .. MaxDown
        /\ toBackend \in 0 .. MaxUp /\ asked \in 0 .. MaxUp
        /\ runs \in 1 .. MaxRuns + 1
        /\ got \in [Kinds -> 0 .. MaxDown]
    BY SystemAssumption DEF Init
  <2> QED BY <2>1, <2>2 DEF Init, FeTypes, BeTypes
<1> QED BY <1>1, <1>2, TypeParts DEF TypeInv, DownEmpty, SyncOne, BcastFull, Init, FacInit

(* What the app does.                                                      *)
LEMMA TypeApi ==
  ASSUME TypeInv, Api
  PROVE  TypeInv'
<1>1. UNCHANGED facVars /\ UNCHANGED beVars /\ UNCHANGED runs
  BY DEF Api, Notify, Post, Request, IoSet, IoGet, AskFac
<1>2. FeTypes
  BY TypeParts DEF TypeInv
<1>3. FeTypes'
  <2>1. CASE Notify
    <3>1. sentUp + 1 \in 0 .. MaxUp /\ sentUp + 1 \in Messages
      BY <1>2, <2>1, SystemAssumption DEF Notify, FeTypes
    <3>2. <<MsgCall(sentUp + 1)>> \in Seq(Calls)
      BY <3>1, SentCalls, OneSeq
    <3>3. dealerFac' \in Seq(Seq(Calls))
      BY <1>2, <2>1, <3>2, SeqParts DEF Notify, FeTypes
    <3> QED BY <1>2, <2>1, <3>1, <3>3 DEF Notify, FeTypes
  <2>2. CASE Post
    <3>1. dealerFac' \in Seq(Seq(Calls))
      BY <1>2, <2>2, PacketCalls, SeqParts DEF Post, FeTypes
    <3> QED BY <1>2, <2>2, <3>1 DEF Post, FeTypes
  <2>3. ASSUME NEW c \in Calls, AskFac(c), sentUp' \in 0 .. MaxUp
        PROVE  FeTypes'
    <3>1. reqFac' \in Seq(Calls)
      BY <1>2, <2>3, SeqParts DEF AskFac, FeTypes
    <3> QED BY <1>2, <2>3, <3>1 DEF AskFac, FeTypes
  <2>4. CASE Request
    <3>1. sentUp + 1 \in 0 .. MaxUp /\ sentUp + 1 \in Messages
      BY <1>2, <2>4, SystemAssumption DEF Request, FeTypes
    <3> QED BY <2>3, <2>4, <3>1, SentCalls DEF Request
  <2>5. CASE IoSet
    BY <1>2, <2>3, <2>5, SentCalls DEF IoSet, FeTypes
  <2>6. CASE IoGet
    BY <1>2, <2>3, <2>6, SentCalls DEF IoGet, FeTypes
  <2> QED BY <2>1, <2>2, <2>4, <2>5, <2>6 DEF Api
<1>4. runs' \in 1 .. MaxRuns + 1
  BY <1>1 DEF TypeInv, TypeOK
<1> QED BY <1>1, <1>3, <1>4, FacSame, BackendSame, TypesNext

(* The frontend's loop, and an app that starts anew, keep it.              *)
LEMMA TypeFeLoop ==
  ASSUME TypeInv, FeLoop \/ FeRestarts
  PROVE  TypeInv'
<1>1. UNCHANGED facVars /\ UNCHANGED beVars /\ UNCHANGED runs
  BY DEF FeLoop, TakeBroadcast, TakeNotify, FeRestarts
<1>2. FeTypes
  BY TypeParts DEF TypeInv
<1>3. FeTypes'
  <2>1. CASE FeLoop
    <3>1. ASSUME NEW s \in Seq(1 .. MaxDown), s # <<>>
          PROVE  Head(s) \in 0 .. MaxDown /\ Tail(s) \in Seq(1 .. MaxDown)
      <4>1. Head(s) \in 1 .. MaxDown /\ Tail(s) \in Seq(1 .. MaxDown)
        BY <3>1, SeqParts
      <4> QED BY <4>1, SystemAssumption
    <3>2. CASE TakeBroadcast
      BY <1>2, <3>1, <3>2 DEF TakeBroadcast, FeTypes
    <3>3. CASE TakeNotify
      BY <1>2, <3>1, <3>3 DEF TakeNotify, FeTypes
    <3> QED BY <2>1, <3>2, <3>3 DEF FeLoop
  <2>2. CASE FeRestarts
    <3>1. dealerFac' \in Seq(Seq(Calls))
      BY <1>2, <2>2, SeqParts DEF FeRestarts, FeTypes
    <3>2. reqFac' \in Seq(Calls)
      BY <1>2, <2>2, EmptyIsSeq DEF FeRestarts, FeTypes
    <3>3. toFe' \in Seq(1 .. MaxDown) /\ pubFe' \in Seq(1 .. MaxDown)
      BY <2>2, EmptyIsSeq DEF FeRestarts
    <3> QED BY <1>2, <2>2, <3>1, <3>2, <3>3 DEF FeRestarts, FeTypes
  <2> QED BY <2>1, <2>2
<1>4. runs' \in 1 .. MaxRuns + 1
  BY <1>1 DEF TypeInv, TypeOK
<1> QED BY <1>1, <1>3, <1>4, FacSame, BackendSame, TypesNext

(* The partition's loop: a packet is taken.                                *)
LEMMA TypeTake ==
  ASSUME TypeInv, LoopAsync \/ LoopSync
  PROVE  TypeInv'
<1>1. FacTypeOK /\ FeTypes /\ BeTypes /\ runs \in 1 .. MaxRuns + 1
  BY TypeParts DEF TypeInv
<1>2. PICK p \in Seq(Calls), s \in BOOLEAN : TakePacket(p, s) /\ (s => Len(p) = 1)
  <2>1. CASE LoopAsync
    BY <1>1, <2>1, SeqParts DEF LoopAsync, FeTypes
  <2>2. CASE LoopSync
    <3>1. <<Head(reqFac)>> \in Seq(Calls) /\ Len(<<Head(reqFac)>>) = 1
      BY <1>1, <2>2, SeqParts, OneSeq DEF LoopSync, FeTypes
    <3> QED BY <2>2, <3>1 DEF LoopSync
  <2> QED BY <2>1, <2>2
<1>3. FacTypeOK' /\ DownEmpty' /\ SyncOne'
  <2>1. FacTypeOK' /\ DownEmpty'
    BY <1>1, <1>2 DEF TakePacket, FacTypeOK, storeVars, DownEmpty
  <2>2. SyncOne'
    BY <1>2 DEF TakePacket, SyncOne
  <2> QED BY <2>1, <2>2
<1>4. FeTypes'
  <2>1. CASE LoopAsync
    <3>1. dealerFac' \in Seq(Seq(Calls))
      BY <1>1, <2>1, SeqParts DEF LoopAsync, FeTypes
    <3> QED BY <1>1, <2>1, <3>1 DEF LoopAsync, FeTypes
  <2>2. CASE LoopSync
    <3>1. reqFac' \in Seq(Calls)
      BY <1>1, <2>2, SeqParts DEF LoopSync, FeTypes
    <3> QED BY <1>1, <2>2, <3>1 DEF LoopSync, FeTypes
  <2> QED BY <2>1, <2>2
<1>5. UNCHANGED beVars /\ UNCHANGED runs
  BY DEF LoopAsync, LoopSync
<1> QED BY <1>1, <1>3, <1>4, <1>5, BackendSame, TypesNext

(* What passes through the partition from the backend.                     *)
LEMMA TypeDown ==
  ASSUME TypeInv, LoopNotify \/ LoopBroadcast
  PROVE  TypeInv'
<1>1. FacTypeOK /\ FeTypes /\ BeTypes /\ runs \in 1 .. MaxRuns + 1
  BY TypeParts DEF TypeInv
<1>2. UNCHANGED facVars /\ UNCHANGED runs
  BY DEF LoopNotify, LoopBroadcast
<1>3. CASE LoopNotify
  <2>1. Head(fromBe) \in Seq(1 .. MaxDown) /\ fromBe' \in Seq(Seq(1 .. MaxDown))
    BY <1>1, <1>3, SeqParts DEF LoopNotify, BeTypes
  <2>2. PICK n \in 0 .. Len(Head(fromBe)) : toFe' = toFe \o SubSeq(Head(fromBe), 1, n)
    <3> DEFINE room == IF Len(toFe) < Hwm THEN Hwm - Len(toFe) ELSE 0
               n == IF Len(Head(fromBe)) < room THEN Len(Head(fromBe)) ELSE room
    <3>1. n \in 0 .. Len(Head(fromBe))
      BY <1>1, <2>1, SystemAssumption DEF FeTypes
    <3>2. toFe' = toFe \o SubSeq(Head(fromBe), 1, n)
      BY <1>3 DEF LoopNotify
    <3> QED BY <3>1, <3>2
  <2>3. toFe' \in Seq(1 .. MaxDown)
    BY <1>1, <2>1, <2>2, SeqParts DEF FeTypes
  <2>4. FeTypes' /\ BeTypes' /\ BcastFull'
    BY <1>1, <1>3, <2>1, <2>3 DEF LoopNotify, FeTypes, BeTypes, TypeInv, BcastFull
  <2> QED BY <1>1, <1>2, <2>4, FacSame, TypesNext
<1>4. CASE LoopBroadcast
  <2>1. Head(bcast) \in Seq(1 .. MaxDown) /\ Head(bcast) # <<>>
    BY <1>1, <1>4, SeqParts DEF LoopBroadcast, BeTypes, TypeInv, BcastFull
  <2>2. bcast \in Seq(Seq(1 .. MaxDown)) /\ bcast # <<>> /\ bcast' = Tail(bcast)
    BY <1>1, <1>4 DEF LoopBroadcast, BeTypes
  <2>3. bcast' \in Seq(Seq(1 .. MaxDown)) /\ BcastFull'
    BY <2>2 DEF TypeInv, BcastFull
  <2>4. Head(bcast)[1] \in 1 .. MaxDown
    BY <2>1, FirstOf
  <2>5. pubFe' \in Seq(1 .. MaxDown)
    BY <1>1, <1>4, <2>4, SeqParts DEF LoopBroadcast, FeTypes
  <2>6. FeTypes' /\ BeTypes'
    BY <1>1, <1>4, <2>3, <2>5 DEF LoopBroadcast, FeTypes, BeTypes
  <2> QED BY <1>1, <1>2, <2>3, <2>6, FacSame, TypesNext
<1> QED BY <1>3, <1>4

(* What passes through it from the app.                                    *)
LEMMA TypeUp ==
  ASSUME TypeInv, LoopPassOn \/ LoopAsk \/ LoopAnswered
  PROVE  TypeInv'
<1>1. FacTypeOK /\ FeTypes /\ BeTypes /\ runs \in 1 .. MaxRuns + 1
  BY TypeParts DEF TypeInv
<1>2. calls \in Seq(Calls)
  BY <1>1 DEF FacTypeOK
<1>3. UNCHANGED feVars /\ UNCHANGED runs /\ UNCHANGED <<fromBe, bcast, sentDown>>
  BY DEF LoopPassOn, LoopAsk, LoopAnswered, beVars
<1>4. BeTypes'
  <2>1. ASSUME IsNext("BE_MSG")
        PROVE  Head(calls).value \in 0 .. MaxUp
    BY <1>2, <2>1, CallsHead, CallFields, SystemAssumption DEF IsNext
  <2>2. CASE LoopPassOn
    BY <1>1, <2>1, <2>2 DEF LoopPassOn, PassOn, BeTypes
  <2>3. CASE LoopAsk
    BY <1>1, <2>1, <2>3 DEF LoopAsk, Ask, BeTypes
  <2>4. CASE LoopAnswered
    BY <1>1, <2>4 DEF LoopAnswered, beVars, BeTypes
  <2> QED BY <2>2, <2>3, <2>4
<1>5. FacTypeOK' /\ DownEmpty' /\ SyncOne'
  <2>1. CASE LoopPassOn
    BY <1>1, <1>2, <2>1, CallsHead
    DEF LoopPassOn, PassOn, IsNext, FacTypeOK, storeVars, DownEmpty, SyncOne, TypeInv
  <2>2. CASE LoopAsk
    BY <1>1, <2>2 DEF LoopAsk, Ask, IsNext, FacTypeOK, storeVars, DownEmpty, SyncOne, TypeInv
  <2>3. CASE LoopAnswered
    <3>1. calls # <<>> /\ facPc = "recv" /\ Tail(calls) \in Seq(Calls) /\ Len(Tail(calls)) = Len(calls) - 1
      BY <1>2, <2>3, CallsHead DEF LoopAnswered, BackendAnswers, SyncOne, TypeInv
    <3>2. fmsgOut' \in Seq(Replies)
      BY <2>3, OneSeq DEF LoopAnswered, BackendAnswers, Replies
    <3> QED BY <1>1, <1>2, <2>3, <3>1, <3>2
        DEF LoopAnswered, BackendAnswers, FacTypeOK, storeVars, DownEmpty, SyncOne, TypeInv
  <2> QED BY <2>1, <2>2, <2>3
<1> QED BY <1>1, <1>3, <1>4, <1>5, FrontendSame, TypesNext DEF TypeInv, BcastFull

(* A process ends, by an exception or a signal.                            *)
LEMMA TypeBreak ==
  ASSUME TypeInv, GoDown, PipesBreak
  PROVE  TypeInv'
<1>1. FacTypeOK /\ FeTypes /\ BeTypes /\ runs \in 1 .. MaxRuns + 1
  BY TypeParts DEF TypeInv
<1>2. FacTypeOK'
  BY <1>1, FacTypeDown
<1>3. FeTypes'
  <2>1. dealerFac' \in Seq(Seq(Calls))
    BY <1>1, SeqParts DEF PipesBreak, FeTypes
  <2>2. reqFac' \in Seq(Calls)
    BY <1>1, EmptyIsSeq DEF PipesBreak, FeTypes
  <2> QED BY <1>1, <2>1, <2>2 DEF PipesBreak, FeTypes
<1>4. BeTypes'
  <2>1. fromBe' \in Seq(Seq(1 .. MaxDown)) /\ bcast' \in Seq(Seq(1 .. MaxDown))
    BY EmptyIsSeq DEF PipesBreak
  <2> QED BY <1>1, <2>1 DEF PipesBreak, BeTypes
<1>5. DownEmpty' /\ SyncOne' /\ BcastFull'
  BY DEF GoDown, PipesBreak, DownEmpty, SyncOne, BcastFull
<1>6. runs' \in 1 .. MaxRuns + 1
  BY <1>1 DEF PipesBreak
<1> QED BY <1>2, <1>3, <1>4, <1>5, <1>6, TypesNext

(* A call that is served, or the end of a packet, ends the process or      *)
(* leaves it reading, with fewer calls to serve.                           *)
LEMMA CallEnds ==
  ASSUME TypeInv, LoopCall
  PROVE  \/ GoDown /\ PipesBreak
         \/ /\ facPc' \in {"poll", "calls"} /\ PipesStay
            /\ sync' = sync
            /\ calls' = <<>> \/ (calls # <<>> /\ calls' = Tail(calls))
<1>1. FacTypeOK /\ facPc = "calls" /\ calls \in Seq(Calls)
  BY DEF LoopCall, ServeCall, Get, SetBadName, SetRefused, SetFails, SetDone, IsNext, EndPacket,
         TypeInv, TypeOK, FacTypeOK
<1>2. CASE GoDown
  BY <1>2 DEF LoopCall, GoDown
<1>3. ASSUME calls # <<>>, calls' = Tail(calls), UNCHANGED <<facPc, sync>>
      PROVE  /\ facPc' \in {"poll", "calls"} /\ PipesStay
             /\ sync' = sync
             /\ calls' = <<>> \/ (calls # <<>> /\ calls' = Tail(calls))
  BY <1>1, <1>3 DEF LoopCall
<1>4. ASSUME NEW k \in Keys, NEW v \in Values, NEW n \in 0 .. 8, NEW w \in Nat, SetReaches(k, v, n, w)
      PROVE  calls # <<>> /\ calls' = Tail(calls) /\ UNCHANGED <<facPc, sync>>
  BY <1>4 DEF SetReaches, IsNext
<1>5. ASSUME NEW k \in Keys, calls # <<>>,
             GetRejected(k) \/ GetAnswers(k) \/ Answer(SetRet(k, FALSE))
      PROVE  calls' = Tail(calls) /\ UNCHANGED <<facPc, sync>>
  BY <1>5 DEF GetRejected, GetAnswers, Answer
<1>6. CASE /\ ~sync /\ calls = <<>> /\ facPc' = "poll" /\ fmsgOut' = <<>>
           /\ UNCHANGED <<calls, sync, storeVars>>
  BY <1>1, <1>6 DEF LoopCall
<1> QED BY <1>1, <1>2, <1>3, <1>4, <1>5, <1>6, CallCases DEF LoopCall

(* A call of the packet in work keeps it.                                  *)
LEMMA TypeCall ==
  ASSUME TypeInv, LoopCall
  PROVE  TypeInv'
<1>1. CASE GoDown /\ PipesBreak
  BY <1>1, TypeBreak
<1>2. CASE /\ facPc' \in {"poll", "calls"} /\ PipesStay
           /\ sync' = sync
           /\ calls' = <<>> \/ (calls # <<>> /\ calls' = Tail(calls))
  <2>1. FacTypeOK'
    BY FacTypeCall DEF LoopCall, TypeInv, TypeOK
  <2>2. DownEmpty'
    BY <1>2 DEF DownEmpty
  <2>3. SyncOne'
    <3>1. calls # <<>> => Len(Tail(calls)) = Len(calls) - 1
      BY CallsHead DEF TypeInv, TypeOK, FacTypeOK
    <3>2. Len(calls) \in Nat /\ Len(<<>>) = 0
      BY DEF TypeInv, TypeOK, FacTypeOK
    <3> QED BY <1>2, <3>1, <3>2 DEF SyncOne, TypeInv
  <2> QED BY <1>2, <2>1, <2>2, <2>3, FrontendSame, BackendSame, TypesNext
      DEF PipesStay, TypeInv, TypeOK
<1> QED BY <1>1, <1>2, CallEnds

(* A new process over the old files keeps it.                              *)
LEMMA TypeStart ==
  ASSUME TypeInv, FacRestarts
  PROVE  TypeInv'
<1>1. FacTypeOK'
  BY FacTypeStart DEF FacRestarts, TypeInv, TypeOK
<1>2. DownEmpty' /\ SyncOne'
  BY DEF FacRestarts, FacStart, TypeInv, DownEmpty, SyncOne
<1>3. runs' \in 1 .. MaxRuns + 1
  BY SystemAssumption DEF FacRestarts, TypeInv, TypeOK
<1> QED BY <1>1, <1>2, <1>3, FrontendSame, BackendSame, TypesNext DEF FacRestarts

(* What the backend does.                                                  *)
LEMMA TypeBackend ==
  ASSUME TypeInv, Reply \/ BackendSends
  PROVE  TypeInv'
<1>1. BeTypes /\ BcastFull
  BY TypeParts DEF TypeInv
<1>2. UNCHANGED facVars /\ UNCHANGED feVars /\ UNCHANGED runs
  BY DEF Reply, BackendSends
<1>3. BeTypes' /\ BcastFull'
  <2>1. CASE Reply
    BY <1>1, <2>1 DEF Reply, BeTypes, BcastFull
  <2>2. CASE BackendSends
    <3>1. PICK n \in 1 .. 2 :
            /\ sentDown + n <= MaxDown
            /\ sentDown' = sentDown + n
            /\ LET p == [i \in 1 .. n |-> sentDown + i]
               IN \/ fromBe' = Append(fromBe, p) /\ UNCHANGED bcast
                  \/ bcast' = Append(bcast, p) /\ UNCHANGED fromBe
      BY <2>2 DEF BackendSends
    <3>2. PICK p : /\ p = [i \in 1 .. n |-> sentDown + i]
                   /\ \/ fromBe' = Append(fromBe, p) /\ UNCHANGED bcast
                      \/ bcast' = Append(bcast, p) /\ UNCHANGED fromBe
      BY <3>1
    <3>3. sentDown \in Nat /\ sentDown' \in 0 .. MaxDown
      BY <1>1, <3>1, SystemAssumption DEF BeTypes
    <3>4. p \in Seq(1 .. MaxDown) /\ p # <<>>
      <4>1. \A i \in 1 .. n : sentDown + i \in 1 .. MaxDown
        BY <3>1, <3>3, SystemAssumption
      <4>2. p \in [1 .. n -> 1 .. MaxDown]
        BY <3>2, <4>1
      <4>3. n \in Nat /\ 1 \in 1 .. n
        OBVIOUS
      <4>4. p \in Seq(1 .. MaxDown)
        BY <4>2, <4>3, SeqDef
      <4>5. 1 \in DOMAIN p
        BY <4>2, <4>3
      <4> QED BY <4>4, <4>5
    <3>5. UNCHANGED <<toBackend, asked, beReq>>
      BY <2>2 DEF BackendSends
    <3>6. fromBe' \in Seq(Seq(1 .. MaxDown)) /\ bcast' \in Seq(Seq(1 .. MaxDown))
      <4> DEFINE S == Seq(1 .. MaxDown)
      <4>1. fromBe \in Seq(S) /\ bcast \in Seq(S) /\ p \in S
        BY <1>1, <3>4 DEF BeTypes
      <4>2. fromBe' \in Seq(S) /\ bcast' \in Seq(S)
        <5> HIDE DEF S
        <5>1. Append(fromBe, p) \in Seq(S) /\ Append(bcast, p) \in Seq(S)
          BY <4>1, SeqParts
        <5> QED BY <3>2, <4>1, <5>1
      <4> QED BY <4>2
    <3>7. BcastFull'
      <4>1. CASE bcast' = Append(bcast, p)
        <5> SUFFICES ASSUME NEW i \in DOMAIN bcast' PROVE bcast'[i] # <<>>
          BY DEF BcastFull
        <5>1. bcast'[i] = p \/ (i \in DOMAIN bcast /\ bcast'[i] = bcast[i])
          <6> DEFINE S == Seq(1 .. MaxDown)
          <6>1. bcast \in Seq(S) /\ p \in S
            BY <1>1, <3>4 DEF BeTypes
          <6> HIDE DEF S
          <6> QED BY <4>1, <6>1, AppendParts
        <5> QED BY <1>1, <3>4, <5>1 DEF BcastFull
      <4>2. CASE UNCHANGED bcast
        BY <1>1, <4>2 DEF BcastFull
      <4> QED BY <3>2, <4>1, <4>2
    <3> QED BY <1>1, <3>3, <3>5, <3>6, <3>7 DEF BeTypes
  <2> QED BY <2>1, <2>2
<1> QED BY <1>2, <1>3, FacSame, FrontendSame, TypesNext DEF TypeInv, TypeOK

(* Every step keeps it.                                                    *)
LEMMA TypeStep == TypeInv /\ [Next]_vars => TypeInv'
<1> SUFFICES ASSUME TypeInv, [Next]_vars PROVE TypeInv'
  OBVIOUS
<1>1. CASE FacStops
  BY <1>1, TypeBreak DEF FacStops
<1>2. CASE UNCHANGED vars
  BY <1>2, FacSame, FrontendSame, BackendSame, TypesNext DEF vars, TypeInv, TypeOK
<1> QED BY <1>1, <1>2, TypeApi, TypeFeLoop, TypeTake, TypeDown, TypeUp, TypeCall, TypeStart,
           TypeBackend DEF Next, FacLoop

(* Every variable of the app, its partition and its backend stays of its   *)
(* type, whatever the packets and however processes end and start.         *)
THEOREM FacilitiesTypeCorrect == Spec => []TypeOK
<1>1. Spec => []TypeInv
  BY InitTypes, TypeStep, PTL DEF Spec
<1>2. TypeInv => TypeOK
  BY DEF TypeInv
<1> QED BY <1>1, <1>2, PTL

-----------------------------------------------------------------------------
(* The store.                                                              *)

(* What a step does to the store: nothing, the end of a process or the     *)
(* start of one, or the statements of one write.                           *)
LEMMA StoreSteps ==
  ASSUME TypeInv, [Next]_vars
  PROVE  \/ UNCHANGED storeVars /\ (facPc' = "down" <=> facPc = "down")
         \/ GoDown
         \/ FacStart
         \/ \E k \in Keys, v \in Values, n \in 0 .. 8, w \in Nat : SetReaches(k, v, n, w)
<1>1. CASE Api \/ FeLoop \/ LoopNotify \/ LoopBroadcast \/ Reply \/ BackendSends \/ FeRestarts
  BY <1>1 DEF Api, Notify, Post, Request, IoSet, IoGet, AskFac, FeLoop, TakeBroadcast, TakeNotify,
              LoopNotify, LoopBroadcast, Reply, BackendSends, FeRestarts, facVars
<1>2. CASE LoopAsync \/ LoopSync
  BY <1>2 DEF LoopAsync, LoopSync, TakePacket
<1>3. CASE LoopPassOn \/ LoopAsk \/ LoopAnswered
  BY <1>3 DEF LoopPassOn, LoopAsk, LoopAnswered, PassOn, Ask, BackendAnswers, IsNext
<1>4. CASE LoopCall
  <2>1. facPc = "calls" /\ FacTypeOK
    BY <1>4 DEF LoopCall, ServeCall, Get, SetBadName, SetRefused, SetFails, SetDone, IsNext,
                EndPacket, TypeInv, TypeOK
  <2>2. ASSUME NEW k \in Keys, GetRejected(k) \/ GetAnswers(k)
        PROVE  UNCHANGED storeVars /\ UNCHANGED facPc
    BY <2>2 DEF GetRejected, GetAnswers, Answer
  <2>3. ASSUME NEW k \in Keys, Answer(SetRet(k, FALSE)) /\ UNCHANGED storeVars
        PROVE  UNCHANGED storeVars /\ UNCHANGED facPc
    BY <2>3 DEF Answer
  <2> QED BY <1>4, <2>1, <2>2, <2>3, CallCases DEF LoopCall
<1>5. CASE FacStops
  BY <1>5 DEF FacStops
<1>6. CASE FacRestarts
  BY <1>6 DEF FacRestarts
<1>7. CASE UNCHANGED vars
  BY <1>7 DEF vars, facVars
<1> QED BY <1>1, <1>2, <1>3, <1>4, <1>5, <1>6, <1>7 DEF Next, FacLoop

(* The statements of a write, one variable at a time.                      *)
SetState(k, v, n, w) ==
  /\ \A id \in FileIds :
       files'[id] = IF id = ioId /\ n >= 7 THEN [of |-> v, bytes |-> w, stale |-> FALSE]
                    ELSE IF id = storage[k] /\ n >= 2 THEN NoFile ELSE files[id]
  /\ storage'[k] = IF n >= 6 THEN ioId ELSE IF n >= 3 THEN NoId ELSE storage[k]
  /\ \A l \in Keys : l # k => storage'[l] = storage[l]
  /\ ioId' = IF n >= 4 THEN ioId + 1 ELSE ioId
  /\ facPc' = facPc /\ facPc = "calls"

(* What process_set has done to index, counter and files after n           *)
(* statements.                                                             *)
LEMMA SetStatements ==
  ASSUME FacTypeOK, NEW k \in Keys, NEW v \in Values, NEW n \in 0 .. 8, NEW w \in Nat,
         SetReaches(k, v, n, w)
  PROVE  SetState(k, v, n, w)
<1>1. files' = [id \in FileIds |->
                  IF id = ioId /\ n >= 7 THEN [of |-> v, bytes |-> w, stale |-> FALSE]
                  ELSE IF id = storage[k] /\ n >= 2 THEN NoFile ELSE files[id]]
  BY DEF SetReaches, SetEffect
<1>2. storage' = [storage EXCEPT ![k] = IF n >= 6 THEN ioId
                                        ELSE IF n >= 3 THEN NoId ELSE storage[k]]
  BY DEF SetReaches, SetEffect, FacTypeOK
<1>3. storage \in [Keys -> FileIds \cup {NoId}]
  BY DEF FacTypeOK
<1>4. /\ ioId' = IF n >= 4 THEN ioId + 1 ELSE ioId
      /\ facPc' = facPc /\ facPc = "calls"
  BY DEF SetReaches, SetEffect, IsNext
<1> QED BY <1>1, <1>2, <1>3, <1>4 DEF SetState

IndexInv == TypeInv /\ IndexSound

(* Where a number is free: an old one is smaller than the next.            *)
LEMMA IdRange ==
  /\ ioId \in FileIds => ioId \in Nat /\ ioId # NoId
  /\ \A id \in FileIds \cup {NoId} : id \in Int /\ (id # NoId => id \in FileIds)
BY FacAssumption DEF FileIds, NoId

(* process_set keeps the index sound, wherever it stops.                   *)
LEMMA IndexAfterSet ==
  ASSUME IndexInv, NEW k \in Keys, NEW v \in Values, NEW n \in 0 .. 8, NEW w \in Nat,
         SetReaches(k, v, n, w)
  PROVE  IndexSound'
<1>1. FacTypeOK /\ FacTypeOK'
  BY FacTypeSet DEF IndexInv, TypeInv, TypeOK
<1>2. SetState(k, v, n, w)
  BY <1>1, SetStatements
<1>3. /\ \A l \in Keys : storage[l] \in FileIds \cup {NoId}
      /\ \A l \in Keys : storage'[l] \in FileIds \cup {NoId}
      /\ ioId \in Nat /\ ioId # NoId /\ ioId' \in Nat /\ ioId' >= ioId
  <2>1. ioId \in FileIds /\ ioId' \in FileIds
    BY <1>1 DEF FacTypeOK
  <2>2. ioId \in Nat /\ ioId # NoId /\ ioId' \in Nat
    BY <2>1, FacAssumption DEF FileIds, NoId
  <2> QED BY <1>1, <1>2, <2>2, SMTT(30) DEF FacTypeOK, SetState
<1>4. ASSUME NEW l \in Keys, Stored(l)'
      PROVE  storage'[l] < ioId' /\ l \notin BadKeys
  <2>1. CASE l = k /\ n >= 6
    BY <1>3, <1>2, <2>1 DEF SetReaches, SetState
  <2>2. CASE ~(l = k /\ n >= 6)
    <3>1. storage'[l] = storage[l] /\ storage[l] # NoId
      BY <1>1, <1>4, <2>2, <1>2 DEF Stored, SetState
    <3>2. storage[l] < ioId /\ l \notin BadKeys /\ storage[l] \in Int
      BY <1>3, <3>1, IdRange DEF IndexInv, IndexSound, Stored
    <3> QED BY <1>3, <3>1, <3>2
  <2> QED BY <2>1, <2>2
<1>5. ASSUME NEW l \in Keys, NEW m \in Keys, Stored(l)', storage'[l] = storage'[m]
      PROVE  l = m
  <2>1. \A j \in Keys : storage'[j] = NoId \/ storage'[j] = storage[j]
                          \/ (j = k /\ storage'[j] = ioId)
    BY <1>2 DEF SetState
  <2>2. \A j \in Keys : storage[j] # NoId => storage[j] # ioId
    BY <1>3 DEF IndexInv, IndexSound, Stored
  <2>3. \A i, j \in Keys : storage[i] # NoId /\ storage[i] = storage[j] => i = j
    BY DEF IndexInv, IndexSound, Stored
  <2> QED BY <1>3, <1>5, <2>1, <2>2, <2>3 DEF Stored
<1>6. ASSUME NEW id \in FileIds, files'[id] # NoFile, ~files'[id].stale
      PROVE  \E l \in Keys : storage'[l] = id
  <2>1. CASE id = ioId /\ n >= 7
    BY <1>1, <2>1, <1>2 DEF SetState
  <2>2. CASE ~(id = ioId /\ n >= 7)
    <3>1. files'[id] = files[id] /\ ~(id = storage[k] /\ n >= 2)
      BY <1>1, <1>6, <2>2, <1>2 DEF SetState
    <3>2. PICK l \in Keys : storage[l] = id
      BY <1>1, <1>6, <3>1, <1>2 DEF IndexInv, IndexSound, SetState
    <3>3. storage'[l] = id
      BY <1>1, <3>1, <3>2, <1>2 DEF SetState
    <3> QED BY <3>3
  <2> QED BY <2>1, <2>2
<1> QED BY <1>4, <1>5, <1>6 DEF IndexSound, Stored

(* Every step keeps it sound.                                              *)
LEMMA IndexStep == IndexInv /\ [Next]_vars => IndexInv'
<1> SUFFICES ASSUME IndexInv, [Next]_vars PROVE IndexSound'
  BY TypeStep DEF IndexInv
<1>1. TypeInv /\ IndexSound
  BY DEF IndexInv
<1>2. CASE UNCHANGED storeVars /\ (facPc' = "down" <=> facPc = "down")
  BY <1>1, <1>2 DEF IndexSound, Stored, storeVars
<1>3. CASE GoDown
  BY <1>3 DEF GoDown, IndexSound, Stored
<1>4. CASE FacStart
  <2>1. storage' = storage /\ storage = [k \in Keys |-> NoId]
    BY <1>1, <1>4 DEF FacStart, TypeInv, DownEmpty
  <2>2. ASSUME NEW id \in FileIds, files'[id] # NoFile
        PROVE  files'[id].stale
    <3>1. files[id] # NoFile /\ files'[id] = [files[id] EXCEPT !.stale = TRUE]
      BY <1>4, <2>2 DEF FacStart
    <3>2. files[id] \in Contents
      BY <1>1, <3>1 DEF TypeInv, TypeOK, FacTypeOK
    <3> QED BY <3>1, <3>2 DEF Contents
  <2> QED BY <2>1, <2>2 DEF IndexSound, Stored
<1>5. ASSUME NEW k \in Keys, NEW v \in Values, NEW n \in 0 .. 8, NEW w \in Nat, SetReaches(k, v, n, w)
      PROVE  IndexSound'
  BY <1>5, IndexAfterSet
<1> QED BY <1>1, <1>2, <1>3, <1>4, <1>5, StoreSteps

(* process_set's index of files: whatever the write and wherever it        *)
(* stopped, no two keys share a file, the next number is free and each     *)
(* file of this process is named.                                          *)
THEOREM FacilitiesIndexSound == Spec => []IndexSound
<1>1. Init => IndexInv
  <2> SUFFICES ASSUME Init PROVE IndexSound
    BY InitTypes DEF IndexInv
  <2> QED BY DEF Init, FacInit, IndexSound, Stored
<1>2. Spec => []IndexInv
  BY <1>1, IndexStep, PTL DEF Spec
<1>3. IndexInv => IndexSound
  BY DEF IndexInv
<1> QED BY <1>2, <1>3, PTL

(* The counters after a write: size is what replacing a file gives back,   *)
(* foreign says that the file was an earlier process's.                    *)
SetCounts(k, v, n, w, size, foreign) ==
  /\ storage[k] # NoId /\ n >= 1 => size = files[storage[k]].bytes
                                     /\ foreign = files[storage[k]].stale
  /\ ~(storage[k] # NoId /\ n >= 1) => size = 0 /\ foreign = FALSE
  /\ diskUsage' = diskUsage - size + (IF n >= 5 THEN Chars[v] ELSE 0)
  /\ onDisk' = onDisk - (IF n >= 2 /\ ~foreign THEN size ELSE 0) + (IF n >= 7 THEN w ELSE 0)
  /\ exact' => exact /\ ~foreign /\ (n >= 7 => Chars[v] = Bytes[v])
                     /\ ~(storage[k] # NoId /\ n = 1)

(* What process_set has done to disk_usage after n statements.             *)
LEMMA SetCounters ==
  ASSUME FacTypeOK, NEW k \in Keys, NEW v \in Values, NEW n \in 0 .. 8, NEW w \in Nat,
         SetReaches(k, v, n, w)
  PROVE  \E size \in Nat, foreign \in BOOLEAN : SetCounts(k, v, n, w, size, foreign)
<1>1. CASE storage[k] # NoId /\ n >= 1
  <2>1. /\ files[storage[k]].bytes \in Nat /\ files[storage[k]].stale \in BOOLEAN
    BY <1>1, FileThere DEF SetReaches
  <2>2. SetCounts(k, v, n, w, files[storage[k]].bytes, files[storage[k]].stale)
    BY <1>1 DEF SetReaches, SetEffect, SetCounts
  <2> QED BY <2>1, <2>2
<1>2. CASE ~(storage[k] # NoId /\ n >= 1)
  <2>1. /\ diskUsage' = diskUsage - 0 + (IF n >= 5 THEN Chars[v] ELSE 0)
        /\ onDisk' = onDisk - (IF n >= 2 /\ ~FALSE THEN 0 ELSE 0) + (IF n >= 7 THEN w ELSE 0)
    BY <1>2 DEF SetReaches, SetEffect
  <2>2. exact' => exact /\ (n >= 7 => Chars[v] = Bytes[v])
    BY <1>2 DEF SetReaches, SetEffect
  <2>3. ~(storage[k] # NoId /\ n = 1)
    BY <1>2
  <2>4. SetCounts(k, v, n, w, 0, FALSE)
    BY <1>2, <2>1, <2>2, <2>3 DEF SetCounts
  <2> QED BY <2>4
<1> QED BY <1>1, <1>2

QuotaInv == TypeInv /\ QuotaHonoured

(* Every step keeps the quota.                                             *)
LEMMA QuotaStep == QuotaInv /\ [Next]_vars => QuotaInv'
<1> SUFFICES ASSUME QuotaInv, [Next]_vars PROVE QuotaHonoured'
  BY TypeStep DEF QuotaInv
<1>1. TypeInv /\ FacTypeOK /\ QuotaHonoured
  BY DEF QuotaInv, TypeInv, TypeOK
<1>2. CASE UNCHANGED storeVars
  BY <1>1, <1>2 DEF QuotaHonoured, storeVars
<1>3. CASE GoDown
  BY <1>1, <1>3 DEF GoDown, QuotaHonoured
<1>4. CASE FacStart
  BY <1>4, FacAssumption DEF FacStart, QuotaHonoured
<1>5. ASSUME NEW k \in Keys, NEW v \in Values, NEW n \in 0 .. 8, NEW w \in Nat,
             SetReaches(k, v, n, w), exact'
      PROVE  onDisk' <= diskUsage' /\ onDisk' <= MaxDisk
  <2>1. PICK size \in Nat, foreign \in BOOLEAN : SetCounts(k, v, n, w, size, foreign)
    BY <1>1, <1>5, SetCounters
  <2>2. /\ Chars[v] \in Nat /\ Bytes[v] \in Nat /\ MaxDisk \in Nat
        /\ diskUsage \in Int /\ onDisk \in Int
        /\ w <= Bytes[v] /\ diskUsage + Bytes[v] <= MaxDisk
        /\ onDisk <= diskUsage /\ onDisk <= MaxDisk
    <3>1. Chars[v] \in Nat /\ Bytes[v] \in Nat /\ MaxDisk \in Nat
      BY FacAssumption
    <3>2. w <= Bytes[v] /\ diskUsage + Bytes[v] <= MaxDisk
      <4>1. w \in 0 .. Bytes[v] /\ WithinQuota(v)
        BY <1>5 DEF SetReaches
      <4> QED BY <3>1, <4>1 DEF WithinQuota
    <3>3. exact
      BY <1>5, <2>1 DEF SetCounts
    <3>4. diskUsage \in Int /\ onDisk \in Int
      BY <1>1 DEF FacTypeOK
    <3>5. onDisk <= diskUsage /\ onDisk <= MaxDisk
      BY <1>1, <3>3 DEF QuotaHonoured
    <3> QED BY <3>1, <3>2, <3>4, <3>5
  <2>3. /\ diskUsage' = diskUsage - size + (IF n >= 5 THEN Chars[v] ELSE 0)
        /\ onDisk' = onDisk - (IF n >= 2 THEN size ELSE 0) + (IF n >= 7 THEN w ELSE 0)
        /\ n >= 7 => Chars[v] = Bytes[v]
    BY <1>5, <2>1 DEF SetCounts
  <2>4. n < 2 => size = 0
    BY <1>5, <2>1 DEF SetCounts
  <2> QED BY <2>2, <2>3, <2>4
<1> QED BY <1>1, <1>2, <1>3, <1>4, <1>5, StoreSteps DEF QuotaHonoured

(* process_set's quota: through any sequence of writes, replacements,      *)
(* refusals and failures the files of the running process take no more     *)
(* than MAX_DISK_USAGE, unless something happened that disk_usage misses.  *)
THEOREM FacilitiesQuota == Spec => []QuotaHonoured
<1>1. Init => QuotaInv
  <2> SUFFICES ASSUME Init PROVE QuotaHonoured
    BY InitTypes DEF QuotaInv
  <2> QED BY FacAssumption DEF Init, FacInit, QuotaHonoured
<1>2. Spec => []QuotaInv
  BY <1>1, QuotaStep, PTL DEF Spec
<1>3. QuotaInv => QuotaHonoured
  BY DEF QuotaInv
<1> QED BY <1>2, <1>3, PTL

(* Sizes of a set that loses a part of it, or is joined by others.         *)
LEMMA SubsetTaken ==
  ASSUME NEW S, IsFiniteSet(S), NEW T, T \subseteq S
  PROVE  /\ IsFiniteSet(S \ T)
         /\ Cardinality(S \ T) = Cardinality(S) - Cardinality(T)
<1>1. S \cap T = T
  OBVIOUS
<1> QED BY <1>1, FS_Difference

(* The size of two disjoint sets is the sum of theirs.                     *)
LEMMA DisjointAdded ==
  ASSUME NEW S, IsFiniteSet(S), NEW T, IsFiniteSet(T), T \cap S = {}
  PROVE  /\ IsFiniteSet(S \cup T)
         /\ Cardinality(S \cup T) = Cardinality(S) + Cardinality(T)
<1>1. S \cap T = {}
  OBVIOUS
<1>2. /\ IsFiniteSet(S \cup T)
      /\ Cardinality(S \cup T) = Cardinality(S) + Cardinality(T) - Cardinality(S \cap T)
  BY FS_Union
<1>3. Cardinality(S) \in Nat /\ Cardinality(T) \in Nat
  BY FS_CardinalityType
<1>4. Cardinality(S \cap T) = 0
  BY <1>1, FS_EmptySet
<1> QED BY <1>2, <1>3, <1>4

(* The bytes of one file, as BytesWritten counts them.                     *)
Block(id, size) == {id} \X (1 .. size)

(* A file has as many bytes as its size says.                              *)
LEMMA BlockSize ==
  ASSUME NEW id, NEW size \in Nat
  PROVE  IsFiniteSet(Block(id, size)) /\ Cardinality(Block(id, size)) = size
<1>1. IsFiniteSet({id}) /\ Cardinality({id}) = 1
  BY FS_Singleton
<1>2. IsFiniteSet(1 .. size) /\ Cardinality(1 .. size) = size
  BY FS_Interval
<1>3. /\ IsFiniteSet({id} \X (1 .. size))
      /\ Cardinality({id} \X (1 .. size)) = Cardinality({id}) * Cardinality(1 .. size)
  BY <1>1, <1>2, FS_Product
<1> QED BY <1>1, <1>2, <1>3 DEF Block

(* No byte is in two files.                                                *)
LEMMA BlocksApart ==
  ASSUME NEW id, NEW jd, NEW b, NEW c, NEW p, p \in Block(id, b), p \in Block(jd, c)
  PROVE  id = jd
BY DEF Block

(* The bytes written are those of the files of this process.               *)
LEMMA BytesOf ==
  /\ \A p : p \in BytesWritten <=> \E id \in Written : p \in Block(id, files[id].bytes)
  /\ \A p : p \in BytesWritten' <=> \E id \in Written' : p \in Block(id, files'[id].bytes)
BY DEF BytesWritten, Block

ChargeInv == IndexInv /\ (facPc # "down" => IsFiniteSet(BytesWritten) /\ DiskCharged)

(* process_set adds to the disk what it adds to the account, wherever it   *)
(* stops.                                                                  *)
LEMMA ChargeAfterSet ==
  ASSUME ChargeInv, NEW k \in Keys, NEW v \in Values, NEW n \in 0 .. 8, NEW w \in Nat,
         SetReaches(k, v, n, w)
  PROVE  IsFiniteSet(BytesWritten') /\ onDisk' = Cardinality(BytesWritten')
<1>1. IndexInv /\ FacTypeOK
  BY DEF ChargeInv, IndexInv, TypeInv, TypeOK
<1>2. SetState(k, v, n, w)
  BY <1>1, SetStatements
<1>3. PICK size \in Nat, foreign \in BOOLEAN : SetCounts(k, v, n, w, size, foreign)
  BY <1>1, SetCounters
<1>4. IsFiniteSet(BytesWritten) /\ onDisk = Cardinality(BytesWritten)
  BY <1>2 DEF ChargeInv, DiskCharged, SetState
<1>5. ioId \in FileIds /\ ioId \notin Written
  <2>1. \A l \in Keys : storage[l] # ioId
    <3>1. ioId \in Nat /\ ioId # NoId
      BY <1>1, FacAssumption DEF FacTypeOK, FileIds, NoId
    <3> QED BY <1>1, <3>1 DEF IndexInv, IndexSound, Stored
  <2> QED BY <1>1, <1>2, <2>1 DEF IndexInv, IndexSound, Written, SetState, FacTypeOK
<1> DEFINE Gone == IF n >= 2 /\ storage[k] \in Written THEN Block(storage[k], size) ELSE {}
           New  == IF n >= 7 THEN Block(ioId, w) ELSE {}
<1>6. /\ \A id \in Written' : \/ id = ioId /\ n >= 7 /\ files'[id].bytes = w
                              \/ /\ id \in Written /\ ~(id = storage[k] /\ n >= 2)
                                 /\ files'[id] = files[id]
      /\ \A id \in Written : ~(id = storage[k] /\ n >= 2) => /\ id \in Written'
                                                            /\ files'[id] = files[id]
      /\ n >= 7 => ioId \in Written' /\ files'[ioId].bytes = w
  <2>1. [of |-> v, bytes |-> w, stale |-> FALSE] # NoFile
    <3>1. [of |-> v, bytes |-> w, stale |-> FALSE] \in Contents
      BY DEF Contents
    <3> QED BY <3>1, FacAssumption
  <2> QED BY <1>1, <1>2, <1>5, <2>1 DEF SetState, Written, FacTypeOK
<1>7. n >= 2 /\ storage[k] \in Written => size = files[storage[k]].bytes
  <2>1. storage[k] \in Written => storage[k] # NoId
    BY FacAssumption DEF Written, FileIds, NoId
  <2> QED BY <1>3, <2>1 DEF SetCounts
<1>8. BytesWritten' = (BytesWritten \ Gone) \cup New
  <2>1. ASSUME NEW p, p \in BytesWritten'
        PROVE  p \in (BytesWritten \ Gone) \cup New
    <3>1. PICK id \in Written' : p \in Block(id, files'[id].bytes)
      BY <2>1, BytesOf
    <3>2. CASE id = ioId /\ n >= 7 /\ files'[id].bytes = w
      BY <3>1, <3>2
    <3>3. CASE id \in Written /\ ~(id = storage[k] /\ n >= 2) /\ files'[id] = files[id]
      <4>1. p \in BytesWritten
        BY <3>1, <3>3, BytesOf
      <4>2. p \notin Gone
        BY <3>1, <3>3, BlocksApart
      <4> QED BY <4>1, <4>2
    <3> QED BY <1>6, <3>2, <3>3
  <2>2. ASSUME NEW p, p \in BytesWritten, p \notin Gone
        PROVE  p \in BytesWritten'
    <3>1. PICK id \in Written : p \in Block(id, files[id].bytes)
      BY <2>2, BytesOf
    <3>2. ~(id = storage[k] /\ n >= 2)
      BY <1>7, <2>2, <3>1
    <3> QED BY <1>6, <3>1, <3>2, BytesOf
  <2>3. ASSUME NEW p, p \in New
        PROVE  p \in BytesWritten'
    BY <1>6, <2>3, BytesOf
  <2> HIDE DEF Gone, New
  <2> QED BY <2>1, <2>2, <2>3
<1>9. Gone \subseteq BytesWritten /\ New \cap BytesWritten = {}
  <2>1. Gone \subseteq BytesWritten
    BY <1>7, BytesOf
  <2>2. ASSUME NEW p, p \in New, p \in BytesWritten
        PROVE  FALSE
    <3>1. PICK id \in Written : p \in Block(id, files[id].bytes)
      BY <2>2, BytesOf
    <3>2. p \in Block(ioId, w)
      BY <2>2
    <3> QED BY <1>5, <3>1, <3>2, BlocksApart
  <2> QED BY <2>1, <2>2
<1>10. /\ IsFiniteSet(Gone) /\ IsFiniteSet(New)
       /\ Cardinality(Gone) = IF n >= 2 /\ storage[k] \in Written THEN size ELSE 0
       /\ Cardinality(New) = IF n >= 7 THEN w ELSE 0
  BY BlockSize, FS_EmptySet
<1>11. onDisk' = onDisk - Cardinality(Gone) + Cardinality(New)
  <2>1. CASE storage[k] # NoId /\ n >= 2
    <3>1. storage[k] \in FileIds /\ files[storage[k]] # NoFile
      BY <2>1 DEF SetReaches
    <3>2. foreign = files[storage[k]].stale
      BY <1>3, <2>1 DEF SetCounts
    <3>3. storage[k] \in Written <=> ~foreign
      BY <3>1, <3>2 DEF Written
    <3> QED BY <1>3, <1>10, <2>1, <3>3 DEF SetCounts
  <2>2. CASE storage[k] = NoId
    <3>1. storage[k] \notin Written
      BY <2>2, FacAssumption DEF Written, FileIds, NoId
    <3> QED BY <1>3, <1>10, <2>2, <3>1 DEF SetCounts
  <2>3. CASE ~(n >= 2)
    BY <1>3, <1>10, <2>3 DEF SetCounts
  <2> QED BY <2>1, <2>2, <2>3
<1> HIDE DEF Gone, New
<1>12. /\ IsFiniteSet(BytesWritten \ Gone)
       /\ Cardinality(BytesWritten \ Gone) = Cardinality(BytesWritten) - Cardinality(Gone)
  BY <1>4, <1>9, <1>10, SubsetTaken
<1>13. New \cap (BytesWritten \ Gone) = {}
  BY <1>9
<1>14. /\ IsFiniteSet(BytesWritten')
       /\ Cardinality(BytesWritten') = Cardinality(BytesWritten \ Gone) + Cardinality(New)
  BY <1>8, <1>10, <1>12, <1>13, DisjointAdded
<1> QED BY <1>4, <1>11, <1>12, <1>14

(* Every step keeps the account.                                           *)
LEMMA ChargeStep == ChargeInv /\ [Next]_vars => ChargeInv'
<1> SUFFICES ASSUME ChargeInv, [Next]_vars
             PROVE  facPc' # "down" =>
                      IsFiniteSet(BytesWritten') /\ onDisk' = Cardinality(BytesWritten')
  BY IndexStep DEF ChargeInv, DiskCharged
<1>1. TypeInv
  BY DEF ChargeInv, IndexInv
<1>2. CASE UNCHANGED storeVars /\ (facPc' = "down" <=> facPc = "down")
  <2>1. BytesWritten' = BytesWritten /\ onDisk' = onDisk
    BY <1>2 DEF BytesWritten, Written, storeVars
  <2> QED BY <1>2, <2>1 DEF ChargeInv, DiskCharged
<1>3. CASE GoDown
  BY <1>3 DEF GoDown
<1>4. CASE FacStart
  <2>1. ASSUME NEW id \in FileIds, files'[id] # NoFile
        PROVE  files'[id].stale
    <3>1. files[id] # NoFile /\ files'[id] = [files[id] EXCEPT !.stale = TRUE]
      BY <1>4, <2>1 DEF FacStart
    <3>2. files[id] \in Contents
      BY <1>1, <3>1 DEF TypeInv, TypeOK, FacTypeOK
    <3> QED BY <3>1, <3>2 DEF Contents
  <2>2. BytesWritten' = {}
    BY <2>1 DEF BytesWritten, Written
  <2> QED BY <1>4, <2>2, FS_EmptySet DEF FacStart
<1>5. ASSUME NEW k \in Keys, NEW v \in Values, NEW n \in 0 .. 8, NEW w \in Nat, SetReaches(k, v, n, w)
      PROVE  IsFiniteSet(BytesWritten') /\ onDisk' = Cardinality(BytesWritten')
  BY <1>5, ChargeAfterSet
<1> QED BY <1>1, <1>2, <1>3, <1>4, <1>5, StoreSteps

(* The accounting of process_set: what the quota bounds is what the files  *)
(* of the running process take on the disk.                                *)
THEOREM FacilitiesDiskCharged == Spec => []DiskCharged
<1>1. Init => ChargeInv
  <2> SUFFICES ASSUME Init
               PROVE  IndexInv /\ IsFiniteSet(BytesWritten) /\ onDisk = Cardinality(BytesWritten)
    BY DEF ChargeInv, DiskCharged
  <2>1. IndexInv
    BY InitTypes DEF Init, FacInit, IndexInv, IndexSound, Stored
  <2>2. BytesWritten = {}
    BY DEF Init, FacInit, BytesWritten, Written
  <2> QED BY <2>1, <2>2, FS_EmptySet DEF Init, FacInit
<1>2. Spec => []ChargeInv
  BY <1>1, ChargeStep, PTL DEF Spec
<1>3. ChargeInv => DiskCharged
  BY DEF ChargeInv, DiskCharged
<1> QED BY <1>2, <1>3, PTL

-----------------------------------------------------------------------------
(* The store as a key-value store.                                         *)

(* What kv and answer of KeyValueStore stand for here.                     *)
KeyValues == [k \in Keys |-> ValueOf(k)]

(* A key whose number and file are left alone keeps its value.             *)
LEMMA SameValue ==
  ASSUME NEW k \in Keys, storage'[k] = storage[k],
         storage[k] # NoId => files'[storage[k]] = files[storage[k]]
  PROVE  ValueOf(k)' = ValueOf(k)
BY DEF ValueOf, Stored, Held, Whole

(* The last answer is the reply that was appended.                         *)
LEMMA LastReply ==
  ASSUME FacTypeOK, NEW r \in Replies, r.type # "BE_MSG_RET", fmsgOut' = Append(fmsgOut, r)
  PROVE  LastAnswer' = r
<1>1. /\ Append(fmsgOut, r) # <<>>
      /\ Append(fmsgOut, r)[Len(Append(fmsgOut, r))] = r
  BY DEF FacTypeOK
<1>2. r # MsgRet
  BY DEF MsgRet
<1> QED BY <1>1, <1>2 DEF LastAnswer

(* What leaves index, files and replies alone is a stutter of the store.   *)
LEMMA StoreQuiet ==
  ASSUME UNCHANGED <<storage, files, fmsgOut>>
  PROVE  KeyValues' = KeyValues /\ LastAnswer' = LastAnswer
BY DEF KeyValues, ValueOf, Stored, Held, Whole, LastAnswer

(* The end of the process is the abstract Lose.                            *)
LEMMA StoreLost ==
  ASSUME GoDown
  PROVE  KeyValues' = [k \in Keys |-> Absent] /\ LastAnswer' = NoAnswer
BY DEF GoDown, KeyValues, ValueOf, Stored, LastAnswer

(* A new process has an empty index, as the store has been since the end   *)
(* of the last.                                                            *)
LEMMA StoreRestarted ==
  ASSUME TypeInv, FacStart
  PROVE  KeyValues' = KeyValues /\ LastAnswer' = LastAnswer
BY DEF TypeInv, DownEmpty, FacStart, KeyValues, ValueOf, Stored, LastAnswer

(* process_get is the abstract Read.                                       *)
LEMMA StoreRead ==
  ASSUME FacTypeOK, NEW k \in Keys, GetRejected(k) \/ GetAnswers(k)
  PROVE  Store!Read(k)
<1>1. KeyValues' = KeyValues
  BY DEF GetRejected, GetAnswers, KeyValues, ValueOf, Stored, Held, Whole, storeVars
<1>2. CASE GetRejected(k)
  <2>1. LastAnswer' = GetBad(k)
    <3>1. GetBad(k) \in Replies /\ GetBad(k).type # "BE_MSG_RET"
      BY ReadReplies DEF GetBad
    <3> QED BY <1>2, <3>1, LastReply DEF GetRejected, Answer
  <2> QED BY <1>1, <2>1 DEF Store!Read, Store!GetRefused, GetBad, KeyValues
<1>3. CASE GetAnswers(k)
  <2> DEFINE x == IF Whole(Held(k)) THEN Held(k).of ELSE Garbled
  <2>1. Held(k) # NoFile /\ storage[k] # NoId
    BY <1>3 DEF GetAnswers, Held
  <2>2. Held(k).of \in Values
    BY <2>1, FileThere DEF Held, FacTypeOK
  <2>3. LastAnswer' = GetRet(k, x)
    <3>1. GetRet(k, x) \in Replies /\ GetRet(k, x).type # "BE_MSG_RET"
      BY <2>1, ReadReplies DEF GetRet
    <3>2. fmsgOut' = Append(fmsgOut, GetRet(k, x))
      BY <1>3 DEF GetAnswers, Answer
    <3> QED BY <3>1, <3>2, LastReply
  <2>4. KeyValues[k] = IF Held(k).stale \/ ~Whole(Held(k)) THEN Damaged ELSE Held(k).of
    BY <2>1 DEF KeyValues, ValueOf, Stored
  <2>5. Store!GetAnswer(k, x) = GetRet(k, x)
    BY DEF Store!GetAnswer, GetRet
  <2>6. x \in Values \cup {Garbled}
    BY <2>2
  <2>7. KeyValues[k] = Damaged \/ (KeyValues[k] \in Values /\ KeyValues[k] = x)
    BY <2>2, <2>4
  <2> HIDE DEF x
  <2> QED BY <1>1, <2>3, <2>5, <2>6, <2>7 DEF Store!Read, KeyValues
<1> QED BY <1>2, <1>3

(* A write that is refused before it touches anything is a Fail.           *)
LEMMA StoreRefused ==
  ASSUME FacTypeOK, NEW k \in Keys, Answer(SetRet(k, FALSE)), UNCHANGED storeVars
  PROVE  \A v \in Values : Store!Fail(k, v)
<1>1. KeyValues' = KeyValues
  BY DEF KeyValues, ValueOf, Stored, Held, Whole, storeVars
<1>2. LastAnswer' = SetRet(k, FALSE)
  <2>1. SetRet(k, FALSE) \in Replies /\ SetRet(k, FALSE).type # "BE_MSG_RET"
    BY DEF SetRet, Replies
  <2>2. fmsgOut' = Append(fmsgOut, SetRet(k, FALSE))
    BY DEF Answer
  <2> QED BY <2>1, <2>2, LastReply
<1>3. SetRet(k, FALSE) = Store!SetAnswer(k, FALSE)
  BY DEF SetRet, Store!SetAnswer
<1>4. KeyValues' = [KeyValues EXCEPT ![k] = KeyValues[k]]
  BY <1>1 DEF KeyValues
<1> QED BY <1>2, <1>3, <1>4 DEF Store!Fail, KeyValues

(* The value of the key after a write, by how far the write came.          *)
LEMMA ValueAfterSet ==
  ASSUME IndexInv, NEW k \in Keys, NEW v \in Values, NEW n \in 0 .. 8, NEW w \in Nat,
         SetReaches(k, v, n, w)
  PROVE  /\ ValueOf(k)' \in {ValueOf(k), v, Absent, Damaged}
         /\ n = 8 => ValueOf(k)' = v
         /\ \A l \in Keys : l # k => ValueOf(l)' = ValueOf(l)
<1>1. FacTypeOK /\ FacTypeOK'
  BY FacTypeSet DEF IndexInv, TypeInv, TypeOK
<1>2. SetState(k, v, n, w)
  BY <1>1, SetStatements
<1>3. /\ ioId \in FileIds /\ ioId # NoId
      /\ \A l \in Keys : storage[l] # NoId => storage[l] \in FileIds /\ storage[l] # ioId
  <2>1. ioId \in FileIds /\ ioId \in Nat /\ ioId # NoId
    BY <1>1, FacAssumption DEF FacTypeOK, FileIds, NoId
  <2>2. ASSUME NEW l \in Keys, storage[l] # NoId
        PROVE  storage[l] \in FileIds /\ storage[l] # ioId
    BY <1>1, <2>1, <2>2 DEF IndexInv, IndexSound, Stored, FacTypeOK
  <2> QED BY <2>1, <2>2
<1>4. ASSUME NEW l \in Keys, l # k
      PROVE  ValueOf(l)' = ValueOf(l)
  <2>1. storage'[l] = storage[l]
    BY <1>2, <1>4 DEF SetState
  <2>2. ASSUME storage[l] # NoId
        PROVE  files'[storage[l]] = files[storage[l]]
    <3>1. storage[l] # storage[k]
      BY <1>4, <2>2 DEF IndexInv, IndexSound, Stored
    <3> QED BY <1>2, <1>3, <2>2, <3>1 DEF SetState
  <2> QED BY <2>1, <2>2, SameValue
<1>5. CASE n <= 1
  <2>1. storage'[k] = storage[k]
    BY <1>2, <1>5 DEF SetState
  <2>2. storage[k] # NoId => files'[storage[k]] = files[storage[k]]
    BY <1>2, <1>3, <1>5 DEF SetState
  <2>3. ValueOf(k)' = ValueOf(k)
    BY <2>1, <2>2, SameValue
  <2> QED BY <1>4, <1>5, <2>3
<1>6. CASE n = 2
  <2>1. storage'[k] = storage[k] /\ storage[k] # NoId
    BY <1>2, <1>6 DEF SetState, SetReaches
  <2>2. files'[storage[k]] = NoFile
    BY <1>2, <1>3, <1>6, <2>1 DEF SetState
  <2>3. ValueOf(k)' = Damaged
    BY <2>1, <2>2 DEF ValueOf, Stored, Held
  <2> QED BY <1>4, <1>6, <2>3
<1>7. CASE n \in 3 .. 5
  <2>1. storage'[k] = NoId
    BY <1>2, <1>7 DEF SetState
  <2>2. ValueOf(k)' = Absent
    BY <2>1 DEF ValueOf, Stored
  <2> QED BY <1>4, <1>7, <2>2
<1>8. CASE n = 6
  <2>1. storage'[k] = ioId /\ files'[ioId] = files[ioId]
    BY <1>2, <1>3, <1>8 DEF SetState, SetReaches
  <2>2. files[ioId] = NoFile \/ files[ioId].stale
    BY <1>2, <1>3 DEF IndexInv, IndexSound, SetState
  <2>3. ValueOf(k)' = Damaged
    BY <1>3, <2>1, <2>2 DEF ValueOf, Stored, Held
  <2> QED BY <1>4, <1>8, <2>3
<1>9. CASE n >= 7
  <2>1. storage'[k] = ioId /\ files'[ioId] = [of |-> v, bytes |-> w, stale |-> FALSE]
    <3>1. storage'[k] = ioId
      BY <1>2, <1>9 DEF SetState
    <3>2. files'[ioId] = [of |-> v, bytes |-> w, stale |-> FALSE]
      BY <1>2, <1>3, <1>9 DEF SetState
    <3> QED BY <3>1, <3>2
  <2>2. [of |-> v, bytes |-> w, stale |-> FALSE] # NoFile
    <3>1. [of |-> v, bytes |-> w, stale |-> FALSE] \in Contents
      BY DEF Contents
    <3> QED BY <3>1, FacAssumption
  <2>3. ValueOf(k)' = IF w = Bytes[v] THEN v ELSE Damaged
    BY <1>3, <2>1, <2>2 DEF ValueOf, Stored, Held, Whole
  <2> QED BY <1>4, <1>9, <2>3 DEF SetReaches
<1> QED BY <1>5, <1>6, <1>7, <1>8, <1>9

(* A write that succeeds is a Write; one that stops half way is a Fail.    *)
LEMMA StoreWritten ==
  ASSUME IndexInv, NEW k \in Keys, NEW v \in Values, NEW n \in 0 .. 8, NEW w \in Nat,
         SetReaches(k, v, n, w)
  PROVE  Store!Write(k, v) \/ Store!Fail(k, v)
<1>1. FacTypeOK
  BY DEF IndexInv, TypeInv, TypeOK
<1>2. KeyValues' = [KeyValues EXCEPT ![k] = ValueOf(k)']
  BY ValueAfterSet DEF KeyValues
<1>3. CASE n = 8
  <2>1. LastAnswer' = SetRet(k, TRUE)
    <3>1. SetRet(k, TRUE) \in Replies /\ SetRet(k, TRUE).type # "BE_MSG_RET"
      BY DEF SetRet, Replies
    <3>2. fmsgOut' = Append(fmsgOut, SetRet(k, TRUE))
      BY <1>3 DEF SetReaches
    <3> QED BY <1>1, <3>1, <3>2, LastReply
  <2>2. SetRet(k, TRUE) = Store!SetAnswer(k, TRUE)
    BY DEF SetRet, Store!SetAnswer
  <2>3. KeyValues' = [KeyValues EXCEPT ![k] = v]
    BY <1>2, <1>3, ValueAfterSet
  <2> QED BY <2>1, <2>2, <2>3 DEF Store!Write, KeyValues
<1>4. CASE n # 8
  <2>1. LastAnswer' = SetRet(k, FALSE)
    <3>1. SetRet(k, FALSE) \in Replies /\ SetRet(k, FALSE).type # "BE_MSG_RET"
      BY DEF SetRet, Replies
    <3>2. fmsgOut' = Append(fmsgOut, SetRet(k, FALSE))
      BY <1>4 DEF SetReaches
    <3> QED BY <1>1, <3>1, <3>2, LastReply
  <2>2. SetRet(k, FALSE) = Store!SetAnswer(k, FALSE)
    BY DEF SetRet, Store!SetAnswer
  <2>3. ValueOf(k)' \in {KeyValues[k], v, Absent, Damaged}
    <3>1. ValueOf(k)' \in {ValueOf(k), v, Absent, Damaged}
      BY ValueAfterSet
    <3> QED BY <3>1 DEF KeyValues
  <2>4. \E left \in {KeyValues[k], v, Absent, Damaged} : KeyValues' = [KeyValues EXCEPT ![k] = left]
    BY <1>2, <2>3
  <2> QED BY <2>1, <2>2, <2>4 DEF Store!Fail, KeyValues
<1> QED BY <1>3, <1>4

(* A step of the system is one of the store's, or none.                    *)
LEMMA StoreStep ==
  ASSUME IndexInv, [Next]_vars
  PROVE  Store!Next \/ UNCHANGED Store!kvVars
<1>1. TypeInv /\ FacTypeOK
  BY DEF IndexInv, TypeInv, TypeOK
<1>2. ASSUME UNCHANGED <<storage, files, fmsgOut>>
      PROVE  UNCHANGED Store!kvVars
  BY <1>2, StoreQuiet DEF Store!kvVars, KeyValues
<1>3. ASSUME UNCHANGED <<storage, files>>, fmsgOut' = <<>> \/ fmsgOut' = <<MsgRet>>
      PROVE  Store!Forget
  <2>1. KeyValues' = KeyValues
    BY <1>3 DEF KeyValues, ValueOf, Stored, Held, Whole
  <2>2. LastAnswer' = NoAnswer
    BY <1>3 DEF LastAnswer
  <2> QED BY <2>1, <2>2 DEF Store!Forget, KeyValues
<1>4. ASSUME GoDown PROVE Store!Lose
  BY <1>4, StoreLost DEF Store!Lose, KeyValues
<1>5. CASE Api \/ FeLoop \/ LoopNotify \/ LoopBroadcast \/ Reply \/ BackendSends \/ FeRestarts
  BY <1>2, <1>5 DEF Api, Notify, Post, Request, IoSet, IoGet, AskFac, FeLoop, TakeBroadcast,
      TakeNotify, LoopNotify, LoopBroadcast, Reply, BackendSends, FeRestarts, facVars, storeVars
<1>6. CASE LoopAsync \/ LoopSync \/ LoopPassOn \/ LoopAsk
  BY <1>2, <1>6 DEF LoopAsync, LoopSync, TakePacket, LoopPassOn, LoopAsk, PassOn, Ask, storeVars
<1>7. CASE LoopAnswered
  BY <1>3, <1>7 DEF LoopAnswered, BackendAnswers, storeVars, Store!Next
<1>8. CASE LoopCall
  <2>1. ASSUME NEW k \in Keys, Head(calls).type = "GET" /\ k = Head(calls).key
                                 /\ (GetRejected(k) \/ GetAnswers(k))
        PROVE  Store!Next
    BY <1>1, <2>1, StoreRead DEF Store!Next
  <2>2. ASSUME NEW k \in Keys, Head(calls).value \in Values,
               Answer(SetRet(k, FALSE)) /\ UNCHANGED storeVars
        PROVE  Store!Next
    BY <1>1, <2>2, StoreRefused DEF Store!Next
  <2>3. ASSUME NEW k \in Keys, NEW v \in Values, NEW n \in 0 .. 8, NEW w \in Nat, SetReaches(k, v, n, w)
        PROVE  Store!Next
    BY <2>3, StoreWritten DEF Store!Next
  <2>4. CASE /\ ~sync /\ calls = <<>> /\ facPc' = "poll" /\ fmsgOut' = <<>>
             /\ UNCHANGED <<calls, sync, storeVars>>
    BY <1>3, <2>4 DEF storeVars, Store!Next
  <2>5. ServeCall \/ EndPacket
    BY <1>8 DEF LoopCall
  <2> QED BY <1>1, <1>4, <2>1, <2>2, <2>3, <2>4, <2>5, CallCases DEF Store!Next
<1>9. CASE FacStops
  BY <1>4, <1>9 DEF FacStops, Store!Next
<1>10. CASE FacRestarts
  BY <1>1, <1>10, StoreRestarted DEF FacRestarts, Store!kvVars, KeyValues
<1>11. CASE UNCHANGED vars
  BY <1>2, <1>11 DEF vars, facVars, storeVars
<1> QED BY <1>5, <1>6, <1>7, <1>8, <1>9, <1>10, <1>11 DEF Next, FacLoop

(* process_set, process_get and the files are one store of a value per     *)
(* key: a write that succeeds is what the key holds from then on, one that *)
(* fails costs no other key its value, a read answers with what the key    *)
(* holds, and the end of the process loses all.                            *)
THEOREM FacilitiesImplementsStore == Spec => ImplementsStore
<1>1. Init => Store!Init
  BY DEF Init, FacInit, Store!Init, ValueOf, Stored, LastAnswer
<1>2. Init => IndexInv
  <2> SUFFICES ASSUME Init PROVE IndexSound
    BY InitTypes DEF IndexInv
  <2> QED BY DEF Init, FacInit, IndexSound, Stored
<1>3. IndexInv /\ [Next]_vars => [Store!Next]_(Store!kvVars)
  BY StoreStep
<1> QED BY <1>1, <1>2, <1>3, IndexStep, PTL DEF Spec, ImplementsStore, Store!Spec
=============================================================================
