---------------------------- MODULE BatchProofs ----------------------------
(***************************************************************************)
(* The safety properties of BatchSystem, for any set of call types, any    *)
(* names, any messages and any bound.                                      *)
(*                                                                         *)
(* PipelineInv says of the VMI partition that every number it remembers    *)
(* or has used came from a reply it still holds; BatchInv says of the app  *)
(* that everything it has sent and received agrees, as far as it goes,     *)
(* with the batch object as it has been filled since.  RoundsInv says of a *)
(* batch in rounds that what the search remembers suits every link that is *)
(* still to be followed: a call's index among those of its type is its     *)
(* round, so the one reply the second loop can stop at is the one named.   *)
(***************************************************************************)
EXTENDS BatchSystem, FiniteSetTheorems, SequenceTheorems, NaturalsInduction, WellFoundedInduction, TLAPS

USE DEF Kinds, Operators

(* `source' is a number in a reply of this message, and that reply and the *)
(* one at `ix', which the link named, are of one type.                     *)
Given(source, ix) ==
  /\ source.turn = turn
  /\ source.ix + 1 \in DOMAIN out
  /\ ix + 1 \in DOMAIN out
  /\ out[source.ix + 1] = out[ix + 1]
  /\ GoodField(RetFields[out[ix + 1]], source.item)

(* How far the message has got.                                            *)
Progress ==
  /\ ErrorEndsMessage
  /\ error => msgno > 0
  /\ msgno <= Len(msgIn)
  /\ Len(fed) = Len(out)

CacheGiven == \A ix \in DOMAIN cache : cache[ix] # Zero => Given(cache[ix], ix)

PipelineInv == PipelineTypeOK /\ Progress /\ CacheGiven /\ FedFromEarlier

(* What process_single makes of one call.                                  *)
Answers ==
  /\ Current.type \in Answered
  /\ \E source \in Sources \cup {Zero, Unlinked} :
       /\ source \notin {Zero, Unlinked} => Given(source, Current.link.prev)
       /\ AddReply(source)

Remembers ==
  /\ DOMAIN cache' \subseteq Nat
  /\ nthType' \in Nat
  /\ nthFieldIx' \in Nat
  /\ \A ix \in DOMAIN cache' :
       /\ cache'[ix] \in Sources \cup {Zero}
       /\ cache'[ix] # Zero => Given(cache'[ix], ix)

(* What is in a sequence is in the other, at the same place.               *)
Begins(s, t) == \A k \in DOMAIN s : k \in DOMAIN t /\ s[k] = t[k]

(* Replies answer the calls of the request in their order, and carry the   *)
(* labels the app gave them.                                               *)
AnswersRequest(r) ==
  /\ \A k \in DOMAIN r.types : /\ k \in DOMAIN request /\ r.types[k] = request[k].type
                              /\ k \in DOMAIN r.labels
  /\ Begins(r.labels, labels)

BatchInv ==
  /\ BatchTypeOK
  /\ Len(labels) = Len(request)
  /\ ~ torn => namestack = labels
  /\ Len(rawOut.calls) = Len(rawOut.labels)
  /\ Begins(rawOut.calls, request)
  /\ Begins(rawOut.labels, labels)
  /\ waiting = "batch_send" => msgIn = rawOut.calls
  /\ AnswersRequest(rawIn)
  /\ AnswersRequest(reply)
  /\ state = "RESULTS_PARSED" => reply = rawIn /\ (~ torn => Len(reply.types) = Len(request))

(* What the app has just been handed.                                      *)
GivenInv == ResultsNamed /\ ResultsWhole

Inv == PipelineInv /\ BatchInv /\ GivenInv

-----------------------------------------------------------------------------
(* The call being performed is one of the message's.                       *)
LEMMA CurrentIsCall ==
  ASSUME PipelineTypeOK, Performing
  PROVE  msgno + 1 \in 1 .. Len(msgIn) /\ Current \in Calls
BY DEF PipelineTypeOK, Performing, Current

(* Combine answers with the source it is given, or ends the message.       *)
LEMMA CombineOutcome ==
  ASSUME PipelineTypeOK, FollowingLink, NEW source, Combine(source),
         source \in Sources \cup {Zero},
         source # Zero => Given(source, Current.link.prev)
  PROVE  Answers \/ BatchError \/ Abort
<1>1. Current.type \in Answered
  BY PipelineAssumption DEF FollowingLink
<1>2. AddReply(source) \/ BatchError \/ Abort
  BY DEF Combine, BadField
<1> QED
  BY <1>1, <1>2 DEF Answers

(* The search and the cache give a link what Given says, or nothing.       *)
LEMMA SingleOutcome ==
  ASSUME PipelineTypeOK, CacheGiven, ProcessSingle
  PROVE  Performing /\ Remembers /\ (Answers \/ BatchError \/ Abort)
<1>1. search' = search => Remembers
  BY DEF search, Remembers, PipelineTypeOK, CacheGiven
<1>2. FollowingLink => Performing
  BY DEF FollowingLink
<1>3. CASE PerformCall
  BY <1>1, <1>3 DEF PerformCall, Answers
<1>4. CASE LinkRefused
  BY <1>1, <1>2, <1>4 DEF LinkRefused
<1>5. CASE LinkCached
  <2>1. FollowingLink /\ Combine(cache[Current.link.prev]) /\ Current.link.prev \in DOMAIN cache
    BY <1>5 DEF LinkCached
  <2>2. cache[Current.link.prev] \in Sources \cup {Zero}
    BY <2>1 DEF PipelineTypeOK
  <2>3. cache[Current.link.prev] # Zero => Given(cache[Current.link.prev], Current.link.prev)
    BY <2>1 DEF CacheGiven
  <2>4. Answers \/ BatchError \/ Abort
    BY <2>1, <2>2, <2>3, CombineOutcome
  <2> QED
    BY <1>1, <1>2, <1>5, <2>4 DEF LinkCached
<1>6. CASE SearchFails
  <2>1. Performing
    BY <1>2, <1>6 DEF SearchFails, Searching
  <2>2. BatchError \/ Abort
    BY <1>6 DEF SearchFails, BadField
  <2>3. Remembers
    BY <1>1, <1>6 DEF SearchFails
  <2> QED
    BY <2>1, <2>2, <2>3
<1>7. CASE SearchFinds
  <2> DEFINE prev == Current.link.prev
  <2>1. FollowingLink /\ Performing
    BY <1>2, <1>7 DEF SearchFinds, Searching
  <2>2. PICK k \in Target(prev) :
          LET source == [turn |-> turn, ix |-> k - 1, item |-> Current.link.item]
          IN  /\ GoodField(RetFields[out[k]], Current.link.item)
              /\ nthType' = prev
              /\ nthFieldIx' = Ordinal(out, k)
              /\ cache' = Cached(prev, source)
              /\ Combine(source)
    BY <1>7 DEF SearchFinds
  <2> DEFINE source == [turn |-> turn, ix |-> k - 1, item |-> Current.link.item]
  <2>3. Current.link \in Links
    BY <2>1, CurrentIsCall DEF FollowingLink, Calls
  <2>4. k \in DOMAIN out /\ prev + 1 \in DOMAIN out /\ out[k] = out[prev + 1]
    BY <2>2, <2>3 DEF Target, TypeFound, Links, PipelineTypeOK
  <2>5. source \in Sources
    BY <2>3, <2>4 DEF Sources, Links, PipelineTypeOK
  <2>6. Given(source, prev)
    BY <2>2, <2>4 DEF Given, PipelineTypeOK
  <2>7. Answers \/ BatchError \/ Abort
    <3>1. Combine(source)
      BY <2>2
    <3> QED
      BY <3>1, <2>1, <2>5, <2>6, CombineOutcome
  <2>8. Remembers
    <3>1. prev \in Nat
      BY <2>3 DEF Links
    <3>2. cache' = Cached(prev, source)
      BY <2>2
    <3>3. nthFieldIx' \in Nat
      <4>1. IsFiniteSet({i \in 1 .. k - 1 : out[i] = out[k]})
        <5>1. k - 1 \in Int
          BY <2>4 DEF PipelineTypeOK
        <5>2. IsFiniteSet(1 .. k - 1) /\ {i \in 1 .. k - 1 : out[i] = out[k]} \subseteq 1 .. k - 1
          BY <5>1, FS_Interval
        <5> QED
          BY <5>2, FS_Subset
      <4> QED
        BY <4>1, <2>2, FS_CardinalityType DEF Ordinal
    <3> QED
      BY <2>2, <2>5, <2>6, <3>1, <3>2, <3>3 DEF Remembers, Cached, PipelineTypeOK, CacheGiven
  <2> QED
    BY <2>1, <2>7, <2>8
<1>8. CASE SearchFindsNothing
  <2> DEFINE prev == Current.link.prev
  <2>1. FollowingLink /\ Performing
    BY <1>2, <1>8 DEF SearchFindsNothing, Searching
  <2>2. Answers \/ BatchError \/ Abort
    BY <1>8, <2>1, CombineOutcome DEF SearchFindsNothing
  <2>3. prev \in Nat
    BY <2>1, CurrentIsCall DEF FollowingLink, Calls, Links
  <2>4. cache' = Cached(prev, Zero) /\ nthType' \in {prev, nthType} /\ nthFieldIx' = nthFieldIx
    BY <1>8 DEF SearchFindsNothing
  <2>5. Remembers
    BY <2>3, <2>4 DEF Remembers, Cached, PipelineTypeOK, CacheGiven
  <2> QED
    BY <2>1, <2>2, <2>5
<1> QED
  BY <1>3, <1>4, <1>5, <1>6, <1>7, <1>8 DEF ProcessSingle

-----------------------------------------------------------------------------
(* One call keeps the invariant of the pipeline.                           *)
LEMMA SinglePreserves ==
  ASSUME PipelineInv, ProcessSingle
  PROVE  PipelineInv'
<1>1. Performing /\ Remembers /\ (Answers \/ BatchError \/ Abort)
  BY SingleOutcome DEF PipelineInv
<1>2. /\ msgno + 1 \in 1 .. Len(msgIn)
      /\ Current \in Calls
  BY <1>1, CurrentIsCall DEF PipelineInv
<1>3. /\ msgIn \in Seq(Calls) /\ out \in Seq(Answered) /\ msgno \in Nat
      /\ fed \in Seq(Sources \cup {Zero, Unlinked}) /\ Len(fed) = Len(out)
      /\ Len(out) = msgno /\ ~ error
      /\ \A k \in DOMAIN out : out[k] = msgIn[k].type
  BY <1>1 DEF PipelineInv, PipelineTypeOK, Progress, ErrorEndsMessage, Performing
<1>4. /\ msgIn' = msgIn /\ turn' = turn
      /\ out' = out \/ \E t \in Answered : out' = Append(out, t)
  BY <1>1 DEF Answers, AddReply, BatchError, Abort
<1>5. CacheGiven'
  <2>1. \A ix \in DOMAIN cache' : cache'[ix] # Zero => Given(cache'[ix], ix)
    BY <1>1 DEF Remembers
  <2>2. \A i \in DOMAIN out : i \in DOMAIN out' /\ out'[i] = out[i]
    BY <1>3, <1>4
  <2>3. ASSUME NEW source, NEW ix, Given(source, ix)
        PROVE  /\ source.turn = turn'
               /\ source.ix + 1 \in DOMAIN out' /\ ix + 1 \in DOMAIN out'
               /\ out'[source.ix + 1] = out'[ix + 1]
               /\ GoodField(RetFields[out'[ix + 1]], source.item)
    BY <1>4, <2>2, <2>3 DEF Given
  <2> QED
    BY <2>1, <2>3 DEF CacheGiven, Given, GoodField
<1>6. CASE Answers
  <2>1. PICK source \in Sources \cup {Zero, Unlinked} :
          /\ source \notin {Zero, Unlinked} => Given(source, Current.link.prev)
          /\ AddReply(source)
    BY <1>6 DEF Answers
  <2>2. /\ out' = Append(out, Current.type) /\ Current.type \in Answered
        /\ fed' = Append(fed, source)
        /\ msgno' = msgno + 1 /\ error' = error /\ busy' = busy /\ up' = up
    BY <1>6, <2>1 DEF AddReply, Answers
  <2>3. out' \in Seq(Answered) /\ fed' \in Seq(Sources \cup {Zero, Unlinked})
    BY <1>3, <2>2
  <2>4. PipelineTypeOK'
    BY <1>1, <1>4, <2>2, <2>3 DEF PipelineInv, PipelineTypeOK, Remembers
  <2>5. Progress'
    <3>1. \A k \in DOMAIN out' : out'[k] = msgIn'[k].type
      BY <1>3, <1>4, <2>2 DEF Current
    <3> QED
      BY <1>2, <1>3, <1>4, <2>2, <3>1 DEF Progress, ErrorEndsMessage
  <2>6. FedFromEarlier'
    <3> DEFINE Earlier(s, k) ==
                 LET prev == msgIn[k].link.prev
                 IN  /\ s.turn = turn
                     /\ s.ix + 1 \in 1 .. k - 1
                     /\ prev + 1 \in 1 .. k - 1
                     /\ msgIn[s.ix + 1].type = msgIn[prev + 1].type
                     /\ GoodField(RetFields[msgIn[prev + 1].type], s.item)
    <3>1. \A k \in DOMAIN fed : fed[k] \notin {Zero, Unlinked} => Earlier(fed[k], k)
      BY DEF PipelineInv, FedFromEarlier
    <3>2. source \notin {Zero, Unlinked} => Earlier(source, msgno + 1)
      BY <1>3, <2>1, SMTT(30) DEF Given, Current
    <3>3. \A k \in DOMAIN fed' : \/ k \in DOMAIN fed /\ fed'[k] = fed[k]
                                 \/ k = msgno + 1 /\ fed'[k] = source
      BY <1>3, <2>2
    <3>4. \A k \in DOMAIN fed' : fed'[k] \notin {Zero, Unlinked} => Earlier(fed'[k], k)
      BY <3>1, <3>2, <3>3
    <3> QED
      BY <1>4, <3>4 DEF FedFromEarlier, GoodField
  <2> QED
    BY <1>5, <2>4, <2>5, <2>6 DEF PipelineInv
<1>7. CASE BatchError
  <2>1. PipelineTypeOK'
    BY <1>1, <1>7 DEF PipelineInv, PipelineTypeOK, Remembers, BatchError
  <2>2. Progress'
    BY <1>2, <1>3, <1>7 DEF PipelineInv, Progress, ErrorEndsMessage, BatchError
  <2>3. FedFromEarlier'
    BY <1>7 DEF PipelineInv, FedFromEarlier, BatchError, GoodField
  <2> QED
    BY <1>5, <2>1, <2>2, <2>3 DEF PipelineInv
<1>8. CASE Abort
  <2>1. PipelineTypeOK'
    BY <1>1, <1>8 DEF PipelineInv, PipelineTypeOK, Remembers, Abort
  <2>2. Progress'
    BY <1>8 DEF PipelineInv, Progress, ErrorEndsMessage, Abort
  <2>3. FedFromEarlier'
    BY <1>8 DEF PipelineInv, FedFromEarlier, Abort, GoodField
  <2> QED
    BY <1>5, <2>1, <2>2, <2>3 DEF PipelineInv
<1> QED
  BY <1>1, <1>6, <1>7, <1>8

(* A new message starts with nothing remembered.                           *)
LEMMA ReceivePreserves ==
  ASSUME PipelineInv, NEW m \in Seq(Calls), Receive(m)
  PROVE  PipelineInv'
<1>1. PipelineTypeOK'
  <2>1. /\ DOMAIN cache' = {}
        /\ msgIn' \in Seq(Calls) /\ out' \in Seq(Answered)
        /\ fed' \in Seq(Sources \cup {Zero, Unlinked})
        /\ msgno' \in Nat /\ nthType' \in Nat /\ nthFieldIx' \in Nat
    BY DEF Receive, Nothing
  <2>2. error' \in BOOLEAN /\ busy' \in BOOLEAN /\ up' \in BOOLEAN /\ turn' \in BOOLEAN
    BY Zenon DEF PipelineInv, PipelineTypeOK, Receive
  <2> QED
    BY <2>1, <2>2 DEF PipelineTypeOK
<1>2. Progress'
  BY DEF Progress, ErrorEndsMessage, Receive
<1>3. CacheGiven' /\ FedFromEarlier'
  BY DEF CacheGiven, FedFromEarlier, Receive, Nothing
<1> QED
  BY <1>1, <1>2, <1>3 DEF PipelineInv

(* Neither sending the replies nor what the app does elsewhere disturbs it.*)
LEMMA QuietPreserves ==
  ASSUME PipelineInv, Reply \/ UNCHANGED pipeVars
  PROVE  PipelineInv'
<1>1. /\ UNCHANGED <<msgIn, out, error, msgno, cache, nthType, nthFieldIx, up, turn, fed>>
      /\ busy' \in BOOLEAN
  BY DEF PipelineInv, PipelineTypeOK, Reply, pipeVars
<1> QED
  BY <1>1 DEF PipelineInv, PipelineTypeOK, Progress, ErrorEndsMessage, CacheGiven,
              FedFromEarlier, Given, GoodField

-----------------------------------------------------------------------------
(* What begins a sequence still begins it when it has grown.               *)
LEMMA BeginsGrows ==
  ASSUME NEW S, NEW t \in Seq(S), NEW e, NEW s, Begins(s, t)
  PROVE  Begins(s, Append(t, e))
BY DEF Begins

(* A link that add() writes is one the message format has.                 *)
LEMMA AddedLink ==
  ASSUME BatchTypeOK, NEW t \in Linkable, NEW linkname \in DOMAIN namemap, NEW op \in BatchOps,
         NEW item \in 0 .. Len(RetFields[namemap[linkname]]) - 1,
         NEW cur \in 0 .. Len(ArgFields[t]) - 1
  PROVE  LinkOf(t, linkname, item, cur, op) \in Links
<1>1. op \in Operators
  BY BatchAssumption
<1>2. NameIndex(linkname) \in Nat
  <2> DEFINE before == {i \in DOMAIN namestack : \A j \in 1 .. i : namestack[j] # linkname}
  <2>1. Len(namestack) \in Nat /\ DOMAIN namestack = 1 .. Len(namestack)
    BY DEF BatchTypeOK
  <2>2. IsFiniteSet(DOMAIN namestack)
    BY <2>1, FS_Interval
  <2>3. IsFiniteSet(before)
    BY <2>2, FS_Subset
  <2> QED
    BY <2>3, FS_CardinalityType DEF NameIndex
<1>3. item \in Nat /\ cur \in Nat
  <2>1. namemap[linkname] \in Types /\ t \in Types
    BY PipelineAssumption DEF BatchTypeOK
  <2>2. Len(RetFields[namemap[linkname]]) \in Nat /\ Len(ArgFields[t]) \in Nat
    BY <2>1, PipelineAssumption
  <2> QED
    BY <2>2
<1> QED
  BY <1>1, <1>2, <1>3 DEF LinkOf, Links

(* Growing the request and the labels by one call.                         *)
LEMMA AppendedKeeps ==
  ASSUME BatchInv, NEW name \in Names, NEW t \in Types, NEW link \in Links \cup {NoLink},
         Appended(name, t, link), UNCHANGED <<rawOut, rawIn, reply>>
  PROVE  /\ request' \in Seq(Calls) /\ labels' \in Seq(Names)
         /\ Len(labels') = Len(request')
         /\ labels' = Append(labels, name)
         /\ Begins(rawOut.calls, request)' /\ Begins(rawOut.labels, labels)'
         /\ AnswersRequest(rawIn)' /\ AnswersRequest(reply)'
<1> DEFINE call == [type |-> t, link |-> link]
<1>1. request' = Append(request, call) /\ labels' = Append(labels, name)
  BY DEF Appended
<1>2. request \in Seq(Calls) /\ labels \in Seq(Names) /\ call \in Calls /\ Len(labels) = Len(request)
  BY DEF BatchInv, BatchTypeOK, Calls
<1>3. \A k \in DOMAIN request : k \in DOMAIN request' /\ request'[k] = request[k]
  BY <1>1, <1>2
<1>4. \A k \in DOMAIN labels : k \in DOMAIN labels' /\ labels'[k] = labels[k]
  BY <1>1, <1>2
<1>5. request' \in Seq(Calls) /\ labels' \in Seq(Names) /\ Len(labels') = Len(request')
  BY <1>1, <1>2
<1>6. Begins(rawOut.calls, request)' /\ Begins(rawOut.labels, labels)'
  BY <1>3, <1>4 DEF BatchInv, Begins
<1>7. AnswersRequest(rawIn)'
  BY <1>3, <1>4 DEF BatchInv, AnswersRequest, Begins
<1>8. AnswersRequest(reply)'
  BY <1>3, <1>4 DEF BatchInv, AnswersRequest, Begins
<1> QED
  BY <1>1, <1>5, <1>6, <1>7, <1>8

(* A call is added, with a link or without.                                *)
LEMMA AddPreserves ==
  ASSUME BatchInv, NEW name \in Names, NEW t \in Types, Add(name, t), UNCHANGED pipeVars
  PROVE  BatchInv'
<1>1. PICK link \in Links \cup {NoLink} : Appended(name, t, link)
  BY AddedLink DEF Add, BatchInv
<1>2. UNCHANGED <<rawOut, rawIn, reply, torn, waiting, msgIn>> /\ given' = NotGiven
  BY DEF Add, pipeVars
<1>3. /\ request' \in Seq(Calls) /\ labels' \in Seq(Names)
      /\ Len(labels') = Len(request')
      /\ labels' = Append(labels, name)
      /\ Begins(rawOut.calls, request)' /\ Begins(rawOut.labels, labels)'
      /\ AnswersRequest(rawIn)' /\ AnswersRequest(reply)'
  BY <1>1, <1>2, AppendedKeeps
<1>4. namestack' = Append(namestack, name) /\ state' = "FILLING"
  BY DEF Add
<1>5. namestack' \in Seq(Names)
  BY <1>4 DEF BatchInv, BatchTypeOK
<1>6. /\ DOMAIN namemap' \subseteq Names
      /\ \A n \in DOMAIN namemap' : namemap'[n] \in Types
  BY DEF Add, BatchInv, BatchTypeOK
<1>7. BatchTypeOK'
  BY <1>2, <1>3, <1>4, <1>5, <1>6 DEF BatchInv, BatchTypeOK, BatchStates
<1> QED
  BY <1>2, <1>3, <1>4, <1>7 DEF BatchInv

(* A call is added in part.                                                *)
LEMMA AddRaisesPreserves ==
  ASSUME BatchInv, NEW name \in Names, NEW t \in Types, AddRaises(name, t), UNCHANGED pipeVars
  PROVE  BatchInv'
<1>1. Appended(name, t, NoLink) /\ torn' = TRUE /\ given' = NotGiven
      /\ UNCHANGED <<namestack, namemap, state, rawOut, rawIn, reply, waiting, msgIn>>
  BY DEF AddRaises, pipeVars
<1>2. /\ request' \in Seq(Calls) /\ labels' \in Seq(Names)
      /\ Len(labels') = Len(request')
      /\ Begins(rawOut.calls, request)' /\ Begins(rawOut.labels, labels)'
      /\ AnswersRequest(rawIn)' /\ AnswersRequest(reply)'
  BY <1>1, AppendedKeeps
<1>3. BatchTypeOK'
  BY <1>1, <1>2 DEF BatchInv, BatchTypeOK
<1> QED
  BY <1>1, <1>2, <1>3 DEF BatchInv

(* The batch object is emptied.                                            *)
LEMMA ResetPreserves ==
  ASSUME Reset, UNCHANGED pipeVars, BatchInv
  PROVE  BatchInv'
<1>1. BatchTypeOK'
  <2>1. NoMessage \in [calls : Seq(Calls), labels : Seq(Names)] /\ DOMAIN NoNames = {}
    BY DEF NoMessage, NoNames
  <2>2. NoReplies \in [types : Seq(Answered), error : BOOLEAN, labels : Seq(Names)]
    BY DEF NoReplies
  <2>3. /\ request' \in Seq(Calls) /\ namestack' \in Seq(Names) /\ labels' \in Seq(Names)
        /\ rawOut' = NoMessage /\ rawIn' = NoReplies /\ reply' = NoReplies /\ namemap' = NoNames
    BY DEF Reset
  <2>4. state' \in BatchStates /\ torn' \in BOOLEAN /\ given' = NotGiven /\ waiting' = "no"
    BY DEF Reset, BatchStates
  <2> QED
    BY <2>1, <2>2, <2>3, <2>4 DEF BatchTypeOK
<1> QED
  BY <1>1 DEF BatchInv, Reset, NoMessage, NoReplies, AnswersRequest, Begins

(* Serializing makes rawOut the request as it is.                          *)
LEMMA SerializedKeeps ==
  ASSUME BatchInv, rawOut' \in {rawOut, Serialized},
         UNCHANGED <<request, namestack, namemap, rawIn, reply, labels, torn>>,
         given' = NotGiven, state' = "SERIALIZED", waiting' \in {"no", "batch_send"},
         waiting' = "batch_send" => msgIn' = rawOut'.calls
  PROVE  BatchInv'
<1>1. BatchTypeOK'
  BY DEF BatchInv, BatchTypeOK, Serialized, BatchStates
<1>2. /\ Len(rawOut'.calls) = Len(rawOut'.labels)
      /\ Begins(rawOut.calls, request)' /\ Begins(rawOut.labels, labels)'
  BY DEF BatchInv, Serialized, Begins
<1>3. AnswersRequest(rawIn)' /\ AnswersRequest(reply)'
  BY DEF BatchInv, AnswersRequest, Begins
<1> QED
  BY <1>1, <1>2, <1>3 DEF BatchInv

(* parse() takes the reply as it was received.                             *)
LEMMA ParsedKeeps ==
  ASSUME BatchInv, reply' = rawIn, state' = IF Parsable THEN "RESULTS_PARSED" ELSE state,
         given' \in Handed \cup {NotGiven},
         UNCHANGED <<request, namestack, namemap, rawOut, rawIn, labels, torn, waiting, msgIn>>
  PROVE  BatchInv'
<1>1. state' \in {"RESULTS_PARSED", state}
  OBVIOUS
<1>2. BatchTypeOK'
  BY <1>1 DEF BatchInv, BatchTypeOK, BatchStates
<1>3. AnswersRequest(rawIn)' /\ AnswersRequest(reply)'
  BY DEF BatchInv, AnswersRequest, Begins
<1>4. (state = "RESULTS_PARSED" => reply = rawIn /\ (~ torn => Len(reply.types) = Len(request)))'
  <2>1. CASE Len(request) = Len(rawIn.types)
    BY <2>1
  <2>2. CASE state = "RESULTS_PARSED" /\ Len(request) # Len(rawIn.types)
    BY <2>2 DEF BatchInv
  <2>3. CASE state # "RESULTS_PARSED" /\ Len(request) # Len(rawIn.types)
    BY <2>3 DEF Parsable
  <2> QED
    BY <2>1, <2>2, <2>3
<1> QED
  BY <1>2, <1>3, <1>4 DEF BatchInv, Begins

(* Where nothing is handed out, nothing wrong is.                          *)
LEMMA NothingGiven ==
  ASSUME given' = NotGiven
  PROVE  GivenInv' /\ given' \in Handed \cup {NotGiven}
BY DEF GivenInv, ResultsNamed, NamesMatch, ResultsWhole, NotGiven

(* What has been handed out stays right while the object is left alone.    *)
LEMMA SameGiven ==
  ASSUME GivenInv, UNCHANGED <<given, request, torn>>
  PROVE  GivenInv'
BY DEF GivenInv, ResultsNamed, NamesMatch, ResultsWhole

(* What results() makes of a reply to the calls of the request: the names  *)
(* are those of the calls, and where it comes to its end so does the reply.*)
LEMMA HandedOut ==
  ASSUME BatchInv, NEW r \in [types : Seq(Answered), error : BOOLEAN, labels : Seq(Names)],
         AnswersRequest(r), HandOut(r)
  PROVE  /\ given' \in Handed
         /\ given'.by = "results"
         /\ given'.fresh = (state \in {"RESULTS_RAW", "RESULTS_PARSED"})
         /\ ~ torn => given'.names = given'.labels
         /\ ~ given'.raised => given'.types = r.types
<1>1. PICK k \in 0 .. Len(r.types) :
        /\ k <= Len(namestack)
        /\ given' = [by |-> "results", raised |-> k < Len(r.types),
                     fresh |-> state \in {"RESULTS_RAW", "RESULTS_PARSED"},
                     types |-> SubSeq(r.types, 1, k), names |-> SubSeq(namestack, 1, k),
                     labels |-> SubSeq(r.labels, 1, k)]
  BY DEF HandOut
<1>2. /\ r.types \in Seq(Answered) /\ r.labels \in Seq(Names) /\ namestack \in Seq(Names)
      /\ labels \in Seq(Names)
  BY DEF BatchInv, BatchTypeOK
<1>3. k \in Nat /\ k <= Len(r.types) /\ k <= Len(r.labels) /\ k <= Len(namestack)
  <2>1. /\ Len(r.types) \in Nat /\ DOMAIN r.types = 1 .. Len(r.types)
        /\ Len(r.labels) \in Nat /\ DOMAIN r.labels = 1 .. Len(r.labels)
    BY <1>2, LenProperties
  <2>2. k \in Nat /\ k <= Len(r.types)
    BY <1>1, <2>1
  <2>3. k # 0 => k \in DOMAIN r.types
    BY <2>1, <2>2
  <2>4. k # 0 => k \in DOMAIN r.labels
    BY <2>3 DEF AnswersRequest
  <2> QED
    BY <1>1, <2>1, <2>2, <2>4
<1>4. /\ SubSeq(r.types, 1, k) \in Seq(Answered)
      /\ SubSeq(namestack, 1, k) \in Seq(Names)
      /\ SubSeq(r.labels, 1, k) \in Seq(Names)
  BY <1>2, <1>3
<1>5. given' \in Handed
  BY <1>1, <1>4 DEF Handed
<1>6. ASSUME ~ torn PROVE SubSeq(namestack, 1, k) = SubSeq(r.labels, 1, k)
  <2>1. namestack = labels /\ Begins(r.labels, labels)
    BY <1>6 DEF BatchInv, AnswersRequest
  <2>2. \A i \in 1 .. k : namestack[i] = r.labels[i]
    BY <1>2, <1>3, <2>1 DEF Begins
  <2> QED
    BY <1>2, <1>3, <2>2
<1>7. ASSUME ~ (k < Len(r.types)) PROVE SubSeq(r.types, 1, k) = r.types
  BY <1>2, <1>3, <1>7
<1> QED
  BY <1>1, <1>5, <1>6, <1>7

(* results() hands out the replies to the calls of the request, all of     *)
(* them where nothing was added or serialized since they were received.    *)
LEMMA ResultsPreserves ==
  ASSUME BatchInv, Results, UNCHANGED pipeVars
  PROVE  BatchInv' /\ GivenInv'
<1>1. UNCHANGED <<request, namestack, namemap, rawOut, rawIn, labels, torn, waiting, msgIn>>
  BY DEF Results, pipeVars
<1>2. /\ request \in Seq(Calls)
      /\ rawIn \in [types : Seq(Answered), error : BOOLEAN, labels : Seq(Names)]
      /\ reply \in [types : Seq(Answered), error : BOOLEAN, labels : Seq(Names)]
      /\ AnswersRequest(rawIn) /\ AnswersRequest(reply)
  BY DEF BatchInv, BatchTypeOK
<1>3. ASSUME NEW r \in [types : Seq(Answered), error : BOOLEAN, labels : Seq(Names)],
             AnswersRequest(r), HandOut(r),
             state \in {"RESULTS_RAW", "RESULTS_PARSED"} /\ ~ torn => Len(r.types) = Len(request)
      PROVE  GivenInv' /\ given' \in Handed
  <2>1. /\ given' \in Handed /\ given'.by = "results"
        /\ given'.fresh = (state \in {"RESULTS_RAW", "RESULTS_PARSED"})
        /\ ~ torn => given'.names = given'.labels
        /\ ~ given'.raised => given'.types = r.types
    BY <1>3, HandedOut
  <2>2. ResultsNamed'
    BY <1>1, <2>1 DEF ResultsNamed, NamesMatch
  <2>3. ASSUME given'.fresh, ~ given'.raised, ~ torn'
        PROVE  given'.types = [k \in DOMAIN request |-> request[k].type]
    <3>1. r.types \in Seq(Answered) /\ Len(r.types) = Len(request)
      BY <1>1, <1>3, <2>1, <2>3
    <3>2. \A k \in DOMAIN r.types : r.types[k] = request[k].type
      BY <1>3 DEF AnswersRequest
    <3>3. r.types = [k \in DOMAIN request |-> request[k].type]
      BY <1>2, <3>1, <3>2
    <3> QED
      BY <2>1, <2>3, <3>3
  <2>4. ResultsWhole'
    BY <1>1, <2>1, <2>3 DEF ResultsWhole
  <2> QED
    BY <2>1, <2>2, <2>4 DEF GivenInv
<1>4. CASE state = "RESULTS_RAW" /\ Parsable
  <2>1. HandOut(rawIn) /\ reply' = rawIn /\ state' = "RESULTS_PARSED"
    BY <1>4 DEF Results
  <2>2. GivenInv' /\ given' \in Handed
    BY <1>2, <1>3, <1>4, <2>1 DEF Parsable
  <2> QED
    BY <1>1, <1>4, <2>1, <2>2, ParsedKeeps
<1>5. CASE state = "RESULTS_RAW" /\ ~ Parsable
  <2>1. reply' = rawIn /\ state' = state /\ given' = NotGiven
    BY <1>5 DEF Results
  <2> QED
    BY <1>1, <1>5, <2>1, NothingGiven, ParsedKeeps
<1>6. CASE state # "RESULTS_RAW"
  <2>1. HandOut(reply) /\ UNCHANGED <<reply, state>>
    BY <1>6 DEF Results
  <2>2. state = "RESULTS_PARSED" /\ ~ torn => Len(reply.types) = Len(request)
    BY DEF BatchInv
  <2>3. GivenInv' /\ given' \in Handed
    BY <1>2, <1>3, <1>6, <2>1, <2>2
  <2> QED
    BY <1>1, <2>1, <2>3 DEF BatchInv, BatchTypeOK, AnswersRequest, Begins
<1> QED
  BY <1>4, <1>5, <1>6

(* The replies batch_send receives answer the calls it sent.               *)
LEMMA BatchReturnsPreserves ==
  ASSUME PipelineInv, BatchInv, BatchReturns
  PROVE  BatchInv'
<1>1. /\ UNCHANGED <<request, namestack, namemap, rawOut, reply, labels, torn, given, msgIn>>
      /\ rawIn' = [types |-> out, error |-> error, labels |-> rawOut.labels]
      /\ state' = "RESULTS_RAW" /\ waiting' = "no" /\ msgIn = rawOut.calls
  BY DEF BatchReturns, Reply, BatchInv
<1>2. BatchTypeOK'
  BY <1>1 DEF PipelineInv, PipelineTypeOK, BatchInv, BatchTypeOK, BatchStates
<1>3. \A k \in DOMAIN out : k \in DOMAIN msgIn /\ out[k] = msgIn[k].type
  BY DEF PipelineInv, PipelineTypeOK, Progress, ErrorEndsMessage
<1>4. AnswersRequest(rawIn)'
  <2>1. rawOut.calls \in Seq(Calls) /\ rawOut.labels \in Seq(Names)
    BY DEF BatchInv, BatchTypeOK
  <2> QED
    BY <1>1, <1>3, <2>1 DEF BatchInv, AnswersRequest, Begins
<1>5. AnswersRequest(reply)'
  BY <1>1 DEF BatchInv, AnswersRequest, Begins
<1> QED
  BY <1>1, <1>2, <1>4, <1>5 DEF BatchInv, Begins

(* While it is not batch_send that waits, the message may be any.          *)
LEMMA OtherPreserves ==
  ASSUME BatchInv, UNCHANGED <<request, namestack, namemap, state, rawOut, rawIn, reply, labels, torn>>,
         given' \in Handed \cup {NotGiven},
         waiting' \in {"no", "batch"} \/ UNCHANGED <<waiting, msgIn>>
  PROVE  BatchInv'
BY DEF BatchInv, BatchTypeOK, AnswersRequest, Begins

-----------------------------------------------------------------------------
(* Inv holds in every state.                                               *)
THEOREM BatchInvariant == Spec => []Inv
<1>1. Init => Inv
  <2> SUFFICES ASSUME Init PROVE Inv
    OBVIOUS
  <2> USE DEF Init, PipelineInit, BatchInit
  <2>1. PipelineTypeOK
    <3>1. DOMAIN Nothing = {}
      BY DEF Nothing
    <3>2. msgIn \in Seq(Calls) /\ out \in Seq(Answered) /\ fed \in Seq(Sources \cup {Zero, Unlinked})
      OBVIOUS
    <3>3. error \in BOOLEAN /\ busy \in BOOLEAN /\ up \in BOOLEAN /\ turn \in BOOLEAN
      OBVIOUS
    <3>4. msgno \in Nat /\ nthType \in Nat /\ nthFieldIx \in Nat /\ cache = Nothing
      OBVIOUS
    <3> QED
      BY <3>1, <3>2, <3>3, <3>4 DEF PipelineTypeOK
  <2>2. Progress /\ CacheGiven /\ FedFromEarlier
    BY DEF Progress, ErrorEndsMessage, CacheGiven, FedFromEarlier, Nothing
  <2>3. BatchTypeOK
    <3>1. NoMessage \in [calls : Seq(Calls), labels : Seq(Names)] /\ DOMAIN NoNames = {}
      BY DEF NoMessage, NoNames
    <3>2. NoReplies \in [types : Seq(Answered), error : BOOLEAN, labels : Seq(Names)]
      BY DEF NoReplies
    <3>3. request \in Seq(Calls) /\ namestack \in Seq(Names) /\ labels \in Seq(Names)
      OBVIOUS
    <3>4. state \in BatchStates /\ torn \in BOOLEAN /\ given = NotGiven /\ waiting = "no"
      BY DEF BatchStates
    <3> QED
      BY <3>1, <3>2, <3>3, <3>4 DEF BatchTypeOK
  <2>4. BatchInv
    BY <2>3 DEF BatchInv, AnswersRequest, Begins, NoMessage, NoReplies
  <2>5. GivenInv
    BY DEF GivenInv, ResultsNamed, NamesMatch, ResultsWhole, NotGiven
  <2> QED
    BY <2>1, <2>2, <2>4, <2>5 DEF Inv, PipelineInv
<1>2. Inv /\ [Next]_vars => Inv'
  <2> SUFFICES ASSUME Inv, [Next]_vars PROVE Inv'
    OBVIOUS
  <2>1. PipelineInv /\ BatchInv /\ GivenInv
    BY DEF Inv
  <2>2. ASSUME UNCHANGED pipeVars PROVE PipelineInv'
    BY <2>1, <2>2, QuietPreserves
  <2>3. ASSUME NEW name \in Names, NEW t \in BatchTypes, Add(name, t) \/ AddRaises(name, t),
               UNCHANGED pipeVars
        PROVE  Inv'
    <3>1. given' = NotGiven
      BY <2>3 DEF Add, AddRaises
    <3> QED
      BY <2>1, <2>2, <2>3, <3>1, NothingGiven, AppAssumption, AddPreserves, AddRaisesPreserves
         DEF Inv
  <2>4. CASE Reset /\ UNCHANGED pipeVars
    <3>1. given' = NotGiven
      BY <2>4 DEF Reset
    <3> QED
      BY <2>1, <2>2, <2>4, <3>1, NothingGiven, ResetPreserves DEF Inv
  <2>5. CASE Serialize /\ UNCHANGED pipeVars
    <3>1. BatchInv'
      BY <2>1, <2>5, SerializedKeeps DEF Serialize, BatchInv
    <3>2. GivenInv'
      BY <2>5, NothingGiven DEF Serialize
    <3> QED
      BY <2>2, <2>5, <3>1, <3>2 DEF Inv
  <2>6. CASE Parse /\ UNCHANGED pipeVars
    <3>1. given' = NotGiven
      BY <2>6 DEF Parse
    <3>2. BatchInv'
      BY <2>1, <2>6, <3>1, NothingGiven, ParsedKeeps DEF Parse, pipeVars
    <3> QED
      BY <2>2, <2>6, <3>1, <3>2, NothingGiven DEF Inv
  <2>7. CASE Results /\ UNCHANGED pipeVars
    BY <2>1, <2>2, <2>7, ResultsPreserves DEF Inv
  <2>8. CASE BatchSend
    <3>1. rawOut' \in {rawOut, Serialized} /\ Receive(rawOut'.calls) /\ given' = NotGiven
      BY <2>8 DEF BatchSend
    <3>2. rawOut'.calls \in Seq(Calls)
      BY <2>1, <3>1 DEF BatchInv, BatchTypeOK, Serialized
    <3>3. msgIn' = rawOut'.calls
      BY <3>1 DEF Receive
    <3>4. BatchInv'
      BY <2>1, <2>8, <3>1, <3>3, SerializedKeeps DEF BatchSend
    <3>5. PipelineInv'
      <4> DEFINE m == rawOut'.calls
      <4>1. m \in Seq(Calls) /\ Receive(m)
        BY <3>1, <3>2
      <4> HIDE DEF m
      <4> QED
        BY <2>1, <4>1, ReceivePreserves
    <3> QED
      BY <3>1, <3>4, <3>5, NothingGiven DEF Inv
  <2>9. ASSUME NEW m \in Arrays, BatchArray(m) PROVE Inv'
    <3>1. GivenInv' /\ given' \in Handed \cup {NotGiven}
      BY <2>9, NothingGiven DEF BatchArray
    <3>2. PipelineInv'
      BY <2>1, <2>9, AppAssumption, ReceivePreserves DEF BatchArray
    <3>3. BatchInv'
      BY <2>1, <2>9, <3>1, OtherPreserves DEF BatchArray
    <3> QED
      BY <3>1, <3>2, <3>3 DEF Inv
  <2>10. CASE BatchReturns
    <3>1. GivenInv'
      BY <2>1, <2>10, SameGiven DEF BatchReturns
    <3> QED
      BY <2>1, <2>10, <3>1, QuietPreserves, BatchReturnsPreserves DEF Inv, BatchReturns
  <2>11. CASE ArrayReturns
    <3>1. given' \in Handed /\ given'.by = "batch"
      BY <2>1, <2>11 DEF ArrayReturns, Handed, PipelineInv, PipelineTypeOK
    <3>2. GivenInv'
      BY <3>1 DEF GivenInv, ResultsNamed, NamesMatch, ResultsWhole
    <3>3. PipelineInv'
      BY <2>1, <2>11, QuietPreserves DEF ArrayReturns
    <3>4. BatchInv'
      BY <2>1, <2>11, <3>1, OtherPreserves DEF ArrayReturns
    <3> QED
      BY <3>2, <3>3, <3>4 DEF Inv
  <2>12. CASE Vmi
    <3>1. PipelineInv'
      BY <2>1, <2>12, SinglePreserves DEF Vmi
    <3>2. msgIn' = msgIn
      BY <2>1, <2>12, SingleOutcome
         DEF Vmi, PipelineInv, Answers, AddReply, BatchError, Abort
    <3>3. GivenInv' /\ given' \in Handed \cup {NotGiven}
      BY <2>1, <2>12, SameGiven DEF Vmi, batchVars, BatchInv, BatchTypeOK
    <3> QED
      BY <2>1, <2>12, <3>1, <3>2, <3>3, OtherPreserves DEF Inv, Vmi, batchVars
  <2>13. CASE UNCHANGED vars
    <3>1. GivenInv' /\ given' \in Handed \cup {NotGiven}
      BY <2>1, <2>13, SameGiven DEF vars, batchVars, BatchInv, BatchTypeOK
    <3> QED
      BY <2>1, <2>2, <2>13, <3>1, OtherPreserves DEF Inv, vars, pipeVars, batchVars
  <2> QED
    BY <2>3, <2>4, <2>5, <2>6, <2>8, <2>9, <2>10, <2>11, <2>12, <2>13, <2>7
       DEF Next, App, Return
<1> QED
  BY <1>1, <1>2, PTL DEF Spec

(* Every variable has its type.                                            *)
THEOREM BatchTypeCorrect == Spec => []TypeOK
<1>1. Inv => TypeOK
  BY DEF Inv, PipelineInv, BatchInv, TypeOK
<1> QED
  BY <1>1, BatchInvariant, PTL

(* Whatever links a message carries, a call is fed with nothing but a      *)
(* number from a reply to an earlier call of the same message.             *)
THEOREM FedCorrect == Spec => []FedFromEarlier
<1>1. Inv => FedFromEarlier
  BY DEF Inv, PipelineInv
<1> QED
  BY <1>1, BatchInvariant, PTL

(* After an error nothing more of the message is performed.                *)
THEOREM ErrorEndsCorrect == Spec => []ErrorEndsMessage
<1>1. Inv => ErrorEndsMessage
  BY DEF Inv, PipelineInv, Progress
<1> QED
  BY <1>1, BatchInvariant, PTL

(* A result comes under the name of the call it answers, however often the *)
(* object is filled, sent, read and reset, unless an add() has raised.     *)
THEOREM NamesCorrect == Spec => []ResultsNamed
<1>1. Inv => ResultsNamed
  BY DEF Inv, GivenInv
<1> QED
  BY <1>1, BatchInvariant, PTL

(* What results() yields of a batch that has been sent, and not added to   *)
(* or serialized since, is one result for each of its calls in order, or   *)
(* it raises: an error in the reply, or an empty reply to a message that   *)
(* was too long, is not taken for results.                                 *)
THEOREM ResultsCorrect == Spec => []ResultsWhole
<1>1. Inv => ResultsWhole
  BY DEF Inv, GivenInv
<1> QED
  BY <1>1, BatchInvariant, PTL

-----------------------------------------------------------------------------
(* What makes RoundsFedAsLinked inductive: the cache holds, under every    *)
(* place it knows, what a link to that place names; and no linked call     *)
(* that is still to be performed asks for what the search has gone past.   *)
LinkedCalls == {k \in DOMAIN msgIn : msgIn[k].link # NoLink}

CacheExact ==
  \A ix \in DOMAIN cache, k \in LinkedCalls :
    cache[ix] = [turn |-> turn, ix |-> ix, item |-> msgIn[k].link.item]

Ahead ==
  \A k \in LinkedCalls :
    msgno < k =>
      /\ nthType <= msgIn[k].link.prev
      /\ nthFieldIx = 0 \/ nthFieldIx < Index(k)

RoundsInv == InRounds(msgIn) => FedAsLinked /\ CacheExact /\ Ahead

-----------------------------------------------------------------------------
(* Every number from 1 on is a place q in one of a sequence of rounds of n.*)
LEMMA PlaceInRound ==
  ASSUME NEW n \in Nat, n > 0, NEW i \in Nat, i > 0
  PROVE  /\ (i - 1) \div n \in Nat
         /\ \E q \in 1 .. n : i = n * ((i - 1) \div n) + q
<1> DEFINE a == i - 1
           r == a \div n
           t == a % n
<1>1. a \in Nat
  OBVIOUS
<1>2. r \in Nat /\ t \in 0 .. n - 1 /\ a = n * r + t
  <2> HIDE DEF a
  <2> QED
    BY <1>1
<1>3. n * r \in Nat
  <2> HIDE DEF r
  <2> QED
    BY <1>2
<1>4. t + 1 \in 1 .. n /\ i = n * r + (t + 1)
  <2>1. i = a + 1
    OBVIOUS
  <2> DEFINE b == n * r
  <2> HIDE DEF a, t, b
  <2>2. b \in Nat /\ a = b + t /\ t \in 0 .. n - 1
    BY <1>2, <1>3 DEF b
  <2>3. t + 1 \in 1 .. n /\ i = b + (t + 1)
    BY <2>1, <2>2
  <2> QED
    BY <2>3 DEF b
<1>5. \E q \in 1 .. n : i = n * r + q
  <2> DEFINE q == t + 1
  <2> HIDE DEF r, t, a
  <2> QED
    BY <1>4
<1> QED
  BY <1>2, <1>5

(* A round and a place in it are told from their number.                   *)
LEMMA SamePlace ==
  ASSUME NEW n \in Nat, NEW r \in Nat, NEW s \in Nat, NEW q \in 1 .. n, NEW t \in 1 .. n,
         n * r + q = n * s + t
  PROVE  r = s /\ q = t
OBVIOUS

(* Every place of a later round comes later.                               *)
LEMMA LaterRound ==
  ASSUME NEW n \in Nat, NEW r \in Nat, NEW s \in Nat, NEW q \in 1 .. n, NEW t \in 1 .. n,
         r < s
  PROVE  n * r + q < n * s + t
OBVIOUS

(* Of two calls of one type the later has the greater index.               *)
LEMMA IndexGrows ==
  ASSUME NEW i \in Nat, NEW j \in Nat, i < j, msgIn[i].type = msgIn[j].type, 0 < i
  PROVE  Index(i) < Index(j)
<1> DEFINE A == {k \in 1 .. i - 1 : msgIn[k].type = msgIn[i].type}
           B == {k \in 1 .. j - 1 : msgIn[k].type = msgIn[j].type}
<1>1. IsFiniteSet(A) /\ IsFiniteSet(B)
  <2>1. IsFiniteSet(1 .. i - 1) /\ IsFiniteSet(1 .. j - 1)
    <3>1. i - 1 \in Int /\ j - 1 \in Int /\ 1 \in Int
      OBVIOUS
    <3> QED
      BY <3>1, FS_Interval
  <2>2. A \in SUBSET (1 .. i - 1) /\ B \in SUBSET (1 .. j - 1)
    OBVIOUS
  <2> QED
    BY <2>1, <2>2, FS_Subset
<1>2. A \cup {i} \in SUBSET B /\ i \notin A
  OBVIOUS
<1>3. Cardinality(A \cup {i}) = Cardinality(A) + 1
  <2> HIDE DEF A
  <2> QED
    BY <1>1, <1>2, FS_AddElement
<1>4. Cardinality(A \cup {i}) <= Cardinality(B) /\ Cardinality(A) \in Nat /\ Cardinality(B) \in Nat
  <2> HIDE DEF A, B
  <2> QED
    BY <1>1, <1>2, FS_Subset, FS_CardinalityType
<1>5. Index(i) = Cardinality(A) /\ Index(j) = Cardinality(B)
  BY DEF Index
<1> QED
  <2> HIDE DEF A, B
  <2> QED
    BY <1>3, <1>4, <1>5

(* The index of a call is a number.                                        *)
LEMMA IndexType ==
  ASSUME NEW i \in Nat
  PROVE  Index(i) \in Nat
<1> DEFINE A == {k \in 1 .. i - 1 : msgIn[k].type = msgIn[i].type}
<1>1. IsFiniteSet(1 .. i - 1)
  <2>1. i - 1 \in Int /\ 1 \in Int
    OBVIOUS
  <2> QED
    BY <2>1, FS_Interval
<1>2. IsFiniteSet(A)
  <2>1. A \in SUBSET (1 .. i - 1)
    OBVIOUS
  <2> QED
    BY <1>1, <2>1, FS_Subset
<1> QED
  BY <1>2, FS_CardinalityType DEF Index

-----------------------------------------------------------------------------
(* A message in rounds.                                                    *)
Rounds(first, last, n, p) ==
  /\ first \in 0 .. 1
  /\ last \in 1 .. Len(msgIn)
  /\ n \in 1 .. last - first
  /\ p \in 1 .. n
  /\ RoundsAt(msgIn, first, last, n, p)

(* A call has the type of the call at its place in the first round.        *)
LEMMA RoundTypes ==
  ASSUME msgIn \in Seq(Calls), NEW first, NEW last, NEW n, NEW p, Rounds(first, last, n, p),
         NEW r \in Nat, NEW q \in 1 .. n, n * r + q <= last - first
  PROVE  msgIn[first + (n * r + q)].type = msgIn[first + q].type
<1> DEFINE type(i) == msgIn[first + i].type
           Bad == {s \in Nat : n * s + q <= last - first /\ type(n * s + q) # type(q)}
<1>1. /\ first \in Nat /\ last \in Nat /\ n \in Nat /\ n > 0
      /\ \A i \in n + 1 .. last - first : type(i) = type(i - n)
  BY DEF Rounds, RoundsAt
<1>2. Bad = {}
  <2> SUFFICES ASSUME Bad # {} PROVE FALSE
    OBVIOUS
  <2> DEFINE R == {ss \in Nat \X Nat : ss[1] < ss[2]}
  <2>1. IsWellFoundedOn(R, Nat)
    BY NatLessThanWellFounded, Zenon DEF OpToRel
  <2>2. Bad \subseteq Nat
    OBVIOUS
  <2>3. PICK s \in Bad : \A y \in Bad : <<y, s>> \notin R
    <3> HIDE DEF R, Bad
    <3> QED BY <2>1, <2>2, WFMin
  <2>4. s \in Nat /\ n * s + q <= last - first /\ type(n * s + q) # type(q)
    OBVIOUS
  <2>5. s # 0
    <3> SUFFICES ASSUME s = 0 PROVE FALSE
      OBVIOUS
    <3>1. n * s + q = q
      BY <1>1
    <3> QED
      BY <2>4, <3>1
  <2>6. s - 1 \in Nat /\ n * s = n * (s - 1) + n /\ n * (s - 1) \in Nat
    BY <1>1, <2>4, <2>5
  <2>7. s - 1 \notin Bad
    <3>1. <<s - 1, s>> \in R
      BY <2>4, <2>6
    <3> HIDE DEF Bad
    <3> QED
      BY <2>3, <3>1
  <2>8. /\ n * s + q \in n + 1 .. last - first
        /\ n * s + q - n = n * (s - 1) + q
        /\ n * (s - 1) + q <= last - first
    <3> DEFINE b == n * (s - 1)
               c == n * s
    <3>1. b \in Nat /\ c = b + n /\ q \in 1 .. n /\ c + q <= last - first
      BY <2>4, <2>6
    <3> HIDE DEF b, c
    <3>2. c + q \in n + 1 .. last - first /\ c + q - n = b + q /\ b + q <= last - first
      BY <1>1, <3>1
    <3> QED
      BY <3>2 DEF b, c
  <2>9. type(n * s + q) = type(n * (s - 1) + q)
    <3> HIDE DEF type
    <3> QED
      BY <1>1, <2>8
  <2>10. type(n * (s - 1) + q) = type(q)
    BY <2>6, <2>7, <2>8
  <2> QED
    BY <2>4, <2>9, <2>10
<1> QED
  BY <1>2

(* Every call of the rounds is at a place in one of them.                  *)
LEMMA RoundPlace ==
  ASSUME msgIn \in Seq(Calls), NEW first, NEW last, NEW n, NEW p, Rounds(first, last, n, p),
         NEW k \in first + 1 .. last
  PROVE  /\ first \in Nat /\ last \in Nat /\ n \in Nat /\ n > 0 /\ k \in Nat
         /\ (k - first - 1) \div n \in Nat
         /\ \E q \in 1 .. n : /\ k = first + (n * ((k - first - 1) \div n) + q)
                              /\ n * ((k - first - 1) \div n) + q <= last - first
                              /\ msgIn[k].type = msgIn[first + q].type
<1>1. first \in Nat /\ last \in Nat /\ n \in Nat /\ n > 0 /\ k \in Nat
  BY DEF Rounds
<1> DEFINE i == k - first
           r == (i - 1) \div n
<1>2. i \in Nat /\ i > 0 /\ i <= last - first /\ k = first + i
  BY <1>1
<1>3. r \in Nat /\ \E q \in 1 .. n : i = n * r + q
  <2> HIDE DEF i
  <2> QED
    BY <1>1, <1>2, PlaceInRound
<1>4. PICK q \in 1 .. n : i = n * r + q
  BY <1>3
<1>5. msgIn[first + (n * r + q)].type = msgIn[first + q].type
  <2>1. n * r + q <= last - first
    BY <1>2, <1>4
  <2> HIDE DEF r
  <2> QED
    BY <1>3, <2>1, RoundTypes
<1> QED
  <2> HIDE DEF r
  <2>1. k = first + (n * r + q) /\ n * r + q <= last - first /\ msgIn[k].type = msgIn[first + q].type
    BY <1>2, <1>4, <1>5
  <2> QED
    BY <1>1, <1>3, <2>1 DEF r

(* The index of a call among those of its type is its round.               *)
LEMMA RoundIndex ==
  ASSUME msgIn \in Seq(Calls), NEW first, NEW last, NEW n, NEW p, Rounds(first, last, n, p),
         NEW k \in first + 1 .. last
  PROVE  Index(k) = (k - first - 1) \div n
<1> DEFINE r == (k - first - 1) \div n
           A == {j \in 1 .. k - 1 : msgIn[j].type = msgIn[k].type}
<1>1. first \in Nat /\ last \in Nat /\ n \in Nat /\ n > 0 /\ k \in Nat /\ r \in Nat
  BY RoundPlace
<1>2. PICK q \in 1 .. n : /\ k = first + (n * r + q)
                          /\ n * r + q <= last - first
                          /\ msgIn[k].type = msgIn[first + q].type
  BY RoundPlace
<1> DEFINE f == [s \in 0 .. r - 1 |-> first + (n * s + q)]
<1> HIDE DEF r
<1>3. ASSUME NEW s \in 0 .. r - 1
      PROVE  first + (n * s + q) \in A
  <2>1. s \in Nat /\ s < r
    BY <1>1
  <2>2. n * s + q < n * r + q
    BY <1>1, <2>1, LaterRound
  <2>3. n * s + q \in Nat /\ n * r + q \in Nat /\ n * s + q > 0
    <3>1. n * s \in Nat /\ n * r \in Nat
      BY <1>1, <2>1
    <3> QED
      BY <3>1, <1>1
  <2>4. n * s + q <= last - first
    BY <1>1, <1>2, <2>2, <2>3
  <2>5. msgIn[first + (n * s + q)].type = msgIn[first + q].type
    BY <2>1, <2>4, RoundTypes
  <2>6. first + (n * s + q) \in 1 .. k - 1
    BY <1>1, <1>2, <2>2, <2>3
  <2> QED
    BY <1>2, <2>5, <2>6
<1>4. ASSUME NEW j \in A
      PROVE  \E s \in 0 .. r - 1 : j = first + (n * s + q)
  <2>1. j \in 1 .. k - 1 /\ msgIn[j].type = msgIn[k].type
    OBVIOUS
  <2>2. j \in first + 1 .. last
    <3>1. \A a \in 1 .. first, b \in 1 .. n : msgIn[a].type # msgIn[first + b].type
      BY DEF Rounds, RoundsAt
    <3>2. j \notin 1 .. first
      BY <1>2, <2>1, <3>1
    <3> QED
      BY <1>1, <2>1, <3>2
  <2> DEFINE s == (j - first - 1) \div n
  <2>3. s \in Nat
    BY <2>2, RoundPlace
  <2>4. PICK t \in 1 .. n : /\ j = first + (n * s + t)
                            /\ msgIn[j].type = msgIn[first + t].type
    BY <2>2, RoundPlace
  <2> HIDE DEF s
  <2>5. t = q
    <3>1. \A a, b \in 1 .. n : a # b => msgIn[first + a].type # msgIn[first + b].type
      BY DEF Rounds, RoundsAt
    <3> QED
      BY <1>2, <2>1, <2>4, <3>1
  <2>6. s < r
    <3> SUFFICES ASSUME ~ (s < r) PROVE FALSE
      OBVIOUS
    <3>1. r < s \/ r = s
      BY <1>1, <2>3
    <3>2. n * r + q <= n * s + q
      <4>1. CASE r = s
        BY <4>1, <1>1
      <4>2. CASE r < s
        <5>1. n * r + q < n * s + q
          BY <1>1, <2>3, <4>2, LaterRound
        <5>2. n * r \in Nat /\ n * s \in Nat
          BY <1>1, <2>3
        <5> QED
          BY <1>1, <5>1, <5>2
      <4> QED
        BY <3>1, <4>1, <4>2
    <3>3. n * r \in Nat /\ n * s \in Nat
      BY <1>1, <2>3
    <3>4. k <= j
      BY <1>1, <1>2, <2>4, <2>5, <3>2, <3>3
    <3> QED
      BY <1>1, <2>1, <3>4
  <2>7. s \in 0 .. r - 1
    BY <1>1, <2>3, <2>6
  <2> QED
    BY <2>4, <2>5, <2>7
<1>5. ASSUME NEW s \in 0 .. r - 1, NEW t \in 0 .. r - 1, f[s] = f[t]
      PROVE  s = t
  <2>1. s \in Nat /\ t \in Nat
    BY <1>1
  <2>2. first + (n * s + q) = first + (n * t + q)
    BY <1>5
  <2>3. n * s \in Nat /\ n * t \in Nat
    BY <1>1, <2>1
  <2>4. n * s + q = n * t + q
    BY <1>1, <2>2, <2>3
  <2> QED
    BY <1>1, <2>1, <2>4, SamePlace
<1>6. f \in Bijection(0 .. r - 1, A)
  <2>1. f \in [0 .. r - 1 -> A]
    BY <1>3
  <2>2. \A j \in A : \E s \in 0 .. r - 1 : f[s] = j
    BY <1>4
  <2>3. f \in Surjection(0 .. r - 1, A)
    <3> HIDE DEF A, f
    <3> QED
      BY <2>1, <2>2 DEF Surjection
  <2>4. f \in Injection(0 .. r - 1, A)
    <3>1. \A s, t \in 0 .. r - 1 : f[s] = f[t] => s = t
      BY <1>5
    <3> HIDE DEF A, f
    <3> QED
      BY <2>1, <3>1 DEF Injection, IsInjective
  <2> QED
    BY <2>3, <2>4 DEF Bijection
<1>7. IsFiniteSet(0 .. r - 1) /\ Cardinality(0 .. r - 1) = r
  <2>1. 0 \in Int /\ r - 1 \in Int
    BY <1>1
  <2>2. IsFiniteSet(0 .. r - 1) /\ Cardinality(0 .. r - 1) = IF 0 > r - 1 THEN 0 ELSE r - 1 - 0 + 1
    BY <2>1, FS_Interval
  <2> QED
    BY <1>1, <2>2
<1>8. Cardinality(A) = r
  <2> HIDE DEF A, f
  <2>1. ExistsBijection(0 .. r - 1, A)
    BY <1>6 DEF ExistsBijection
  <2> QED
    BY <1>7, <2>1, FS_Bijection
<1> QED
  BY <1>8 DEF Index, r

(* A call is in the round its index says, at some place.                   *)
LEMMA RoundOf ==
  ASSUME msgIn \in Seq(Calls), NEW first, NEW last, NEW n, NEW p, Rounds(first, last, n, p),
         NEW k \in first + 1 .. last
  PROVE  /\ Index(k) \in Nat
         /\ \E q \in 1 .. n : /\ k = first + (n * Index(k) + q)
                              /\ msgIn[k].type = msgIn[first + q].type
<1>1. Index(k) = (k - first - 1) \div n
  BY RoundIndex
<1> QED
  BY <1>1, RoundPlace

(* The link of a call of the r-th round names the call at p in the round   *)
(* before.                                                                 *)
LEMMA RoundLink ==
  ASSUME msgIn \in Seq(Calls), NEW first, NEW last, NEW n, NEW p, Rounds(first, last, n, p),
         NEW k \in LinkedCalls
  PROVE  /\ k \in first + 1 .. last /\ k \in Nat
         /\ first \in Nat /\ last \in Nat /\ n \in Nat /\ p \in 1 .. n
         /\ Index(k) \in Nat /\ Index(k) > 0
         /\ \E q \in 1 .. n : k = first + (n * Index(k) + q)
         /\ msgIn[k].link.prev + 1 = first + (n * (Index(k) - 1) + p)
         /\ msgIn[k].link.item = msgIn[last].link.item
         /\ msgIn[k].link.prev \in Nat
<1>1. first \in Nat /\ last \in Nat /\ n \in Nat /\ n > 0 /\ p \in 1 .. n
  BY DEF Rounds
<1>2. k \in 1 .. Len(msgIn) /\ msgIn[k].link # NoLink /\ msgIn[k] \in Calls
  BY DEF LinkedCalls
<1>3. k \in first + 1 .. last
  <2>1. k \notin 1 .. first /\ k \notin last + 1 .. Len(msgIn)
    BY <1>2 DEF Rounds, RoundsAt
  <2> QED
    BY <1>1, <1>2, <2>1
<1>4. Index(k) = (k - first - 1) \div n
  BY <1>3, RoundIndex
<1>5. /\ Index(k) \in Nat
      /\ \E q \in 1 .. n : k = first + (n * Index(k) + q)
  BY <1>3, <1>4, RoundPlace
<1>6. /\ k - first > n
      /\ msgIn[k].link.prev + 1 = first + p + n * ((k - first - 1) \div n - 1)
      /\ msgIn[k].link.item = msgIn[last].link.item
  <2> DEFINE i == k - first
  <2>1. i \in 1 .. last - first /\ first + i = k
    BY <1>1, <1>3
  <2>2. \/ msgIn[first + i].link = NoLink
        \/ /\ i > n
           /\ msgIn[first + i].link.prev + 1 = first + p + n * ((i - 1) \div n - 1)
           /\ msgIn[first + i].link.item = msgIn[last].link.item
    <3> HIDE DEF i
    <3> QED
      BY <2>1 DEF Rounds, RoundsAt
  <2> QED
    BY <1>2, <2>1, <2>2
<1>7. Index(k) > 0
  <2> SUFFICES ASSUME Index(k) = 0 PROVE FALSE
    BY <1>5
  <2>1. PICK q \in 1 .. n : k = first + (n * Index(k) + q)
    BY <1>5
  <2> DEFINE b == n * Index(k)
  <2>2. b = 0 /\ k = first + (b + q)
    BY <1>1, <2>1
  <2> HIDE DEF b
  <2> QED
    BY <1>1, <1>6, <2>1, <2>2
<1>8. msgIn[k].link.prev + 1 = first + (n * (Index(k) - 1) + p)
  <2> DEFINE b == n * (Index(k) - 1)
  <2>1. b \in Nat
    <3> DEFINE d == Index(k) - 1
    <3>1. n \in Nat /\ d \in Nat
      BY <1>1, <1>5, <1>7
    <3>2. b = n * d
      OBVIOUS
    <3> HIDE DEF b, d
    <3> QED BY <3>1, <3>2
  <2>2. msgIn[k].link.prev + 1 = first + p + b
    BY <1>4, <1>6
  <2> HIDE DEF b
  <2>3. first + p + b = first + (b + p)
    BY <1>1, <2>1
  <2> QED
    BY <2>2, <2>3 DEF b
<1>9. msgIn[k].link.prev \in Nat
  BY <1>2 DEF Calls, Links
<1> QED
  BY <1>1, <1>2, <1>3, <1>5, <1>6, <1>7, <1>8, <1>9

(* The call a link names is an earlier one, of the type of the p-th, and   *)
(* its index is one less.                                                  *)
LEMMA RoundNamed ==
  ASSUME msgIn \in Seq(Calls), NEW first, NEW last, NEW n, NEW p, Rounds(first, last, n, p),
         NEW k \in LinkedCalls
  PROVE  LET prev == msgIn[k].link.prev
         IN  /\ prev + 1 \in 1 .. k - 1
             /\ Index(prev + 1) = Index(k) - 1
             /\ msgIn[prev + 1].type = msgIn[first + p].type
             /\ first + n <= k - 1
<1> DEFINE prev == msgIn[k].link.prev
           r == Index(k)
<1>1. /\ k \in first + 1 .. last /\ k \in Nat
      /\ first \in Nat /\ last \in Nat /\ n \in Nat /\ p \in 1 .. n
      /\ r \in Nat /\ r > 0 /\ prev \in Nat
      /\ prev + 1 = first + (n * (r - 1) + p)
  BY RoundLink
<1>2. PICK q \in 1 .. n : k = first + (n * r + q)
  BY RoundLink
<1> HIDE DEF r
<1>3. n * (r - 1) \in Nat /\ n * r \in Nat /\ n * r = n * (r - 1) + n
  BY <1>1
<1>4. prev + 1 \in first + 1 .. k - 1
  <2> DEFINE b == n * (r - 1)
             c == n * r
  <2>1. b \in Nat /\ c = b + n /\ prev + 1 = first + (b + p) /\ k = first + (c + q)
    BY <1>1, <1>2, <1>3
  <2> HIDE DEF b, c, prev
  <2> QED
    BY <1>1, <2>1
<1>5. first + n <= k - 1
  <2> DEFINE b == n * (r - 1)
             c == n * r
  <2>1. b \in Nat /\ c = b + n /\ k = first + (c + q)
    BY <1>1, <1>2, <1>3
  <2> HIDE DEF b, c
  <2> QED
    BY <1>1, <2>1
<1>6. prev + 1 \in first + 1 .. last
  BY <1>1, <1>4, SMTT(30)
<1>7. Index(prev + 1) = r - 1 /\ msgIn[prev + 1].type = msgIn[first + p].type
  <2> DEFINE c == prev + 1
             s == Index(c)
  <2>c. c \in first + 1 .. last
    BY <1>6
  <2>1. c = prev + 1
    OBVIOUS
  <2> HIDE DEF c
  <2>2. s \in Nat
    BY <2>c, RoundOf
  <2>3. PICK t \in 1 .. n : /\ c = first + (n * s + t)
                            /\ msgIn[c].type = msgIn[first + t].type
    BY <2>c, RoundOf
  <2> HIDE DEF s
  <2>4. n * s + t = n * (r - 1) + p
    <3>1. n * s \in Nat
      BY <1>1, <2>2
    <3> DEFINE a == n * s
               b == n * (r - 1)
    <3>2. a \in Nat /\ b \in Nat /\ first + (a + t) = first + (b + p)
      BY <1>1, <1>3, <2>1, <2>3, <3>1
    <3> HIDE DEF a, b
    <3>3. a + t = b + p
      BY <1>1, <3>2
    <3> QED
      BY <3>3 DEF a, b
  <2>5. s = r - 1 /\ t = p
    <3>1. r - 1 \in Nat
      BY <1>1
    <3> DEFINE z == r - 1
    <3>2. n * s + t = n * z + p /\ z \in Nat
      BY <2>4, <3>1
    <3> HIDE DEF z
    <3>3. n \in Nat /\ s \in Nat /\ t \in 1 .. n /\ p \in 1 .. n
      BY <1>1, <2>2
    <3>4. s = z /\ t = p
      BY <3>2, <3>3, SamePlace
    <3> QED
      BY <3>4 DEF z
  <2> QED
    BY <2>1, <2>3, <2>5 DEF s
<1> QED
  BY <1>1, <1>4, <1>5, <1>7, SMTT(30) DEF r

(* Links of later calls name later calls, and the calls are as far on.     *)
LEMMA RoundLinksRise ==
  ASSUME msgIn \in Seq(Calls), NEW first, NEW last, NEW n, NEW p, Rounds(first, last, n, p),
         NEW j \in LinkedCalls, NEW k \in LinkedCalls, j <= k
  PROVE  msgIn[j].link.prev <= msgIn[k].link.prev /\ Index(j) <= Index(k)
<1> DEFINE r == Index(j)
           s == Index(k)
<1>1. /\ first \in Nat /\ n \in Nat /\ p \in 1 .. n /\ j \in Nat /\ k \in Nat
      /\ r \in Nat /\ r > 0 /\ s \in Nat /\ s > 0
      /\ msgIn[j].link.prev \in Nat /\ msgIn[k].link.prev \in Nat
      /\ msgIn[j].link.prev + 1 = first + (n * (r - 1) + p)
      /\ msgIn[k].link.prev + 1 = first + (n * (s - 1) + p)
  BY RoundLink
<1>2. PICK q \in 1 .. n : j = first + (n * r + q)
  BY RoundLink
<1>3. PICK t \in 1 .. n : k = first + (n * s + t)
  BY RoundLink
<1> HIDE DEF r, s
<1>r. r \in Nat /\ r > 0 /\ s \in Nat /\ s > 0 /\ first \in Nat /\ n \in Nat /\ p \in 1 .. n
  BY <1>1
<1>l. msgIn[j].link.prev \in Nat /\ msgIn[k].link.prev \in Nat
  BY <1>1
<1>4. r <= s
  <2> SUFFICES ASSUME s < r PROVE FALSE
    BY <1>1
  <2>1. n * s + t < n * r + q
    BY <1>1, LaterRound
  <2>2. n * s \in Nat /\ n * r \in Nat
    BY <1>1
  <2> DEFINE a == n * s
             b == n * r
  <2>3. a \in Nat /\ b \in Nat /\ a + t < b + q /\ j = first + (b + q) /\ k = first + (a + t)
    BY <1>2, <1>3, <2>1, <2>2
  <2> HIDE DEF a, b
  <2> QED
    BY <1>1, <2>3
<1>5. msgIn[j].link.prev <= msgIn[k].link.prev
  <2>1. CASE r = s
    <3> DEFINE c == first + (n * (s - 1) + p)
    <3>1. msgIn[j].link.prev + 1 = c /\ msgIn[k].link.prev + 1 = c
      BY <1>1, <2>1
    <3> HIDE DEF c
    <3> QED
      BY <1>l, <3>1, SMTT(30)
  <2>2. CASE r < s
    <3> DEFINE x == r - 1
               y == s - 1
    <3>1. x \in Nat /\ y \in Nat /\ x < y
      BY <1>r, <2>2
    <3> DEFINE a == n * x
               b == n * y
    <3>2. msgIn[j].link.prev + 1 = first + (a + p) /\ msgIn[k].link.prev + 1 = first + (b + p)
      BY <1>1
    <3> HIDE DEF x, y
    <3>3. a + p < b + p
      BY <1>r, <3>1, LaterRound
    <3>4. a \in Nat /\ b \in Nat
      BY <1>r, <3>1
    <3> HIDE DEF a, b
    <3>5. first + (a + p) < first + (b + p)
      BY <1>r, <3>3, <3>4
    <3> DEFINE u == first + (a + p)
               v == first + (b + p)
    <3>6. u \in Nat /\ v \in Nat /\ u < v
      BY <1>r, <3>4, <3>5
    <3> HIDE DEF u, v
    <3>7. msgIn[j].link.prev + 1 = u /\ msgIn[k].link.prev + 1 = v
      BY <3>2 DEF u, v
    <3> QED
      BY <1>l, <3>6, <3>7, SMTT(30)
  <2> QED
    BY <1>r, <1>4, <2>1, <2>2
<1> QED
  BY <1>4, <1>5 DEF r, s

(* The types above t of the calls before the k-th.                         *)
TypesBefore(k, t) == {msgIn[j].type : j \in 1 .. k - 1} \cap {u \in Types : u > t}

(* Just one type of the calls before a linked one is above that of the     *)
(* call its link names.                                                    *)
LEMMA RoundDepth ==
  ASSUME msgIn \in Seq(Calls), NEW first, NEW last, NEW n, NEW p, Rounds(first, last, n, p),
         NEW k \in LinkedCalls
  PROVE  Cardinality(TypesBefore(k, msgIn[msgIn[k].link.prev + 1].type)) = 1
<1> DEFINE type(i) == msgIn[first + i].type
           High == {i \in 1 .. n : type(i) > type(p)}
           Above == TypesBefore(k, type(p))
<1>1. /\ k \in first + 1 .. last /\ first \in Nat /\ last \in Nat /\ n \in Nat /\ p \in 1 .. n
  BY RoundLink
<1>2. /\ msgIn[msgIn[k].link.prev + 1].type = type(p)
      /\ first + n <= k - 1
  BY RoundNamed
<1>3. k - 1 < Len(msgIn) /\ last <= Len(msgIn)
  BY <1>1 DEF Rounds
<1>4. ASSUME NEW j \in 1 .. Len(msgIn)
      PROVE  msgIn[j].type \in Types /\ msgIn[j].type \in Nat
  <2>1. msgIn[j] \in Calls
    OBVIOUS
  <2> QED
    BY <2>1, PipelineAssumption DEF Calls
<1>5. PICK h : High = {h}
  <2>1. IsFiniteSet(High)
    <3>1. IsFiniteSet(1 .. n)
      BY <1>1, FS_Interval
    <3>2. High \in SUBSET (1 .. n)
      OBVIOUS
    <3> QED
      BY <3>1, <3>2, FS_Subset
  <2>2. Cardinality(High) = 1
    BY DEF Rounds, RoundsAt
  <2> HIDE DEF High
  <2> QED
    BY <2>1, <2>2, FS_Singleton
<1>6. h \in 1 .. n /\ type(h) > type(p)
  <2>1. h \in High
    BY <1>5
  <2> QED
    BY <2>1
<1>7. type(h) \in Above
  <2>1. first + h \in 1 .. k - 1
    BY <1>1, <1>2, <1>6
  <2>2. type(h) \in Types
    BY <1>1, <1>3, <1>4, <2>1
  <2> QED
    BY <1>6, <2>1, <2>2 DEF TypesBefore
<1>8. ASSUME NEW u \in Above
      PROVE  u = type(h)
  <2>1. PICK j \in 1 .. k - 1 : u = msgIn[j].type /\ u > type(p)
    BY DEF TypesBefore
  <2>2. j \notin 1 .. first
    <3>1. \A i \in 1 .. first : msgIn[i].type < type(p)
      BY DEF Rounds, RoundsAt
    <3>2. msgIn[j].type \in Nat /\ type(p) \in Nat
      <4>1. j \in 1 .. Len(msgIn) /\ first + p \in 1 .. Len(msgIn)
        BY <1>1, <1>2, <1>3
      <4> QED
        BY <1>4, <4>1
    <3> QED
      BY <2>1, <3>1, <3>2
  <2>3. j \in first + 1 .. last
    BY <1>1, <2>2
  <2>4. PICK t \in 1 .. n : msgIn[j].type = msgIn[first + t].type
    BY <2>3, RoundPlace
  <2>5. t \in High
    BY <2>1, <2>4
  <2>6. t = h
    BY <1>5, <2>5
  <2> QED
    BY <2>1, <2>4, <2>6
<1>9. Above = {type(h)}
  <2> HIDE DEF Above
  <2> QED
    BY <1>7, <1>8
<1>10. Cardinality(Above) = 1
  <2> HIDE DEF Above
  <2> QED
    BY <1>9, FS_Singleton
<1> QED
  BY <1>2, <1>10

(* What a message in rounds is for the calls that are linked.              *)
LEMMA RoundFacts ==
  ASSUME msgIn \in Seq(Calls), InRounds(msgIn), NEW k \in LinkedCalls
  PROVE  LET prev == msgIn[k].link.prev
         IN  /\ prev \in Nat /\ k \in Nat /\ prev + 1 \in 1 .. k - 1
             /\ Index(prev + 1) = Index(k) - 1 /\ Index(k) \in Nat
             /\ Cardinality(TypesBefore(k, msgIn[prev + 1].type)) = 1
             /\ \A j \in LinkedCalls :
                  /\ msgIn[j].link.item = msgIn[k].link.item
                  /\ k <= j => prev <= msgIn[j].link.prev /\ Index(k) <= Index(j)
<1>1. PICK first \in 0 .. 1 : \E last \in 1 .. Len(msgIn) :
         \E n \in 1 .. last - first : \E p \in 1 .. n : RoundsAt(msgIn, first, last, n, p)
  BY DEF InRounds
<1>2. PICK last \in 1 .. Len(msgIn) :
         \E n \in 1 .. last - first : \E p \in 1 .. n : RoundsAt(msgIn, first, last, n, p)
  BY <1>1
<1>3. PICK n \in 1 .. last - first : \E p \in 1 .. n : RoundsAt(msgIn, first, last, n, p)
  BY <1>2
<1>4. PICK p \in 1 .. n : RoundsAt(msgIn, first, last, n, p)
  BY <1>3
<1>5. Rounds(first, last, n, p)
  BY <1>4 DEF Rounds
<1> DEFINE prev == msgIn[k].link.prev
<1>6. prev \in Nat /\ k \in Nat /\ Index(k) \in Nat
  BY <1>5, RoundLink
<1>7. prev + 1 \in 1 .. k - 1 /\ Index(prev + 1) = Index(k) - 1
  BY <1>5, RoundNamed
<1>8. Cardinality(TypesBefore(k, msgIn[prev + 1].type)) = 1
  BY <1>5, RoundDepth
<1>9. ASSUME NEW j \in LinkedCalls
      PROVE  /\ msgIn[j].link.item = msgIn[k].link.item
             /\ k <= j => prev <= msgIn[j].link.prev /\ Index(k) <= Index(j)
  <2>1. msgIn[j].link.item = msgIn[last].link.item /\ msgIn[k].link.item = msgIn[last].link.item
    BY <1>5, RoundLink
  <2>2. k <= j => prev <= msgIn[j].link.prev /\ Index(k) <= Index(j)
    BY <1>5, RoundLinksRise
  <2> QED
    BY <2>1, <2>2
<1> QED
  BY <1>6, <1>7, <1>8, <1>9

-----------------------------------------------------------------------------
(* What a linked call of the rounds finds in the search is the reply its   *)
(* link names, and nothing else.                                           *)
LEMMA TargetInRounds ==
  ASSUME PipelineInv, InRounds(msgIn), Ahead, Performing, Current.link # NoLink
  PROVE  Target(Current.link.prev) = {Current.link.prev + 1}
<1> DEFINE k == msgno + 1
           prev == msgIn[k].link.prev
           t == out[prev + 1]
<1>1. /\ msgIn \in Seq(Calls) /\ msgno \in Nat /\ nthType \in Nat /\ nthFieldIx \in Nat
      /\ out \in Seq(Answered) /\ Len(out) = msgno
      /\ \A i \in DOMAIN out : out[i] = msgIn[i].type
  BY DEF PipelineInv, PipelineTypeOK, Progress, ErrorEndsMessage, Performing
<1>2. Current = msgIn[k] /\ k \in LinkedCalls /\ DOMAIN out = 1 .. k - 1 /\ Len(out) = k - 1
  BY <1>1 DEF Performing, Current, LinkedCalls
<1>3. /\ prev \in Nat /\ k \in Nat /\ prev + 1 \in 1 .. k - 1
      /\ Index(prev + 1) = Index(k) - 1 /\ Index(k) \in Nat
      /\ Cardinality(TypesBefore(k, msgIn[prev + 1].type)) = 1
  BY <1>1, <1>2, RoundFacts
<1>4. nthType <= prev /\ (nthFieldIx = 0 \/ nthFieldIx < Index(k))
  BY <1>1, <1>2 DEF Ahead
<1>5. t = msgIn[prev + 1].type
  BY <1>1, <1>2, <1>3
<1> HIDE DEF k, prev
<1>6. Cardinality(FieldsAbove(t)) = 1
  <2>1. {out[i] : i \in DOMAIN out} = {msgIn[i].type : i \in 1 .. k - 1}
    BY <1>1, <1>2
  <2>2. FieldsAbove(t) = TypesBefore(k, t)
    BY <2>1 DEF FieldsAbove, TypesBefore
  <2> QED
    BY <1>3, <1>5, <2>2
<1>7. ASSUME NEW i \in DOMAIN out
      PROVE  Ordinal(out, i) = Index(i)
  <2>1. {j \in 1 .. i - 1 : out[j] = out[i]} = {j \in 1 .. i - 1 : msgIn[j].type = msgIn[i].type}
    BY <1>1, <1>2, <1>3, <1>7, SMTT(30)
  <2> QED
    BY <2>1 DEF Ordinal, Index
<1>8. ASSUME NEW i \in DOMAIN out
      PROVE  i \in Nat /\ 0 < i /\ Index(i) \in Nat
  <2>1. i \in Nat /\ 0 < i
    BY <1>2, <1>3
  <2> QED
    BY <2>1, IndexType
<1>9. prev + 1 \in DOMAIN out
  BY <1>2, <1>3
<1>10. prev + 1 \in Target(prev)
  <2>1. TypeFound(prev)
    BY <1>2, <1>3, <1>4 DEF TypeFound
  <2>2. Ordinal(out, prev + 1) = Index(k) - 1
    BY <1>3, <1>7, <1>9
  <2>3. Ordinal(out, prev + 1) >= nthFieldIx
    <3>1. Index(prev + 1) \in Nat
      BY <1>8, <1>9
    <3> QED
      BY <1>1, <1>3, <1>4, <2>2, <3>1
  <2>4. Ordinal(out, prev + 1) + Cardinality(FieldsAbove(out[prev + 1])) = Index(k)
    BY <1>3, <1>6, <2>2
  <2> QED
    BY <1>9, <2>1, <2>3, <2>4 DEF Target, k
<1>11. ASSUME NEW i \in Target(prev)
       PROVE  i = prev + 1
  <2>1. /\ i \in DOMAIN out /\ out[i] = t
        /\ Ordinal(out, i) + Cardinality(FieldsAbove(out[i])) = Index(k)
    BY DEF Target, k
  <2>2. Ordinal(out, i) = Index(i)
    BY <1>7, <2>1
  <2>3. Index(i) + 1 = Index(k)
    BY <1>6, <2>1, <2>2
  <2>4. i \in Nat /\ 0 < i /\ Index(i) \in Nat
    BY <1>8, <2>1
  <2>5. Index(i) = Index(prev + 1)
    BY <1>3, <2>3, <2>4
  <2>6. msgIn[i].type = msgIn[prev + 1].type
    BY <1>1, <1>5, <2>1
  <2>7. prev + 1 \in Nat /\ 0 < prev + 1
    BY <1>3
  <2>8. ~ (i < prev + 1)
    <3>1. i < prev + 1 => Index(i) < Index(prev + 1)
      BY <2>4, <2>6, <2>7, IndexGrows
    <3> QED
      BY <2>4, <2>5, <3>1
  <2>9. ~ (prev + 1 < i)
    <3>1. prev + 1 < i => Index(prev + 1) < Index(i)
      BY <2>4, <2>6, <2>7, IndexGrows
    <3> QED
      BY <2>4, <2>5, <3>1
  <2> QED
    BY <2>4, <2>7, <2>8, <2>9
<1>12. Target(prev) = {prev + 1}
  BY <1>10, <1>11
<1> QED
  BY <1>2, <1>12 DEF prev

(* The number a link names.                                                *)
Named(k) == [turn |-> turn, ix |-> msgIn[k].link.prev, item |-> msgIn[k].link.item]

(* What process_single does with a call of the rounds: it feeds a linked   *)
(* call what its link names, and remembers it, or leaves the search alone. *)
LEMMA RoundsOutcome ==
  ASSUME PipelineInv, InRounds(msgIn), CacheExact, Ahead, ProcessSingle
  PROVE  LET k == msgno + 1
         IN  /\ Performing
             /\ \/ BatchError \/ Abort \/ AddReply(Unlinked)
                \/ AddReply(Named(k))
             /\ \/ search' = search
                \/ /\ k \in LinkedCalls
                   /\ nthType' = msgIn[k].link.prev
                   /\ nthFieldIx' = Index(k) - 1
                   /\ cache' = Cached(msgIn[k].link.prev, Named(k))
<1> DEFINE k == msgno + 1
           prev == msgIn[k].link.prev
<1>1. /\ msgIn \in Seq(Calls) /\ msgno \in Nat /\ Current = msgIn[k]
  BY DEF PipelineInv, PipelineTypeOK, Current
<1>2. FollowingLink => Performing /\ Current.link # NoLink /\ k \in LinkedCalls
  BY <1>1 DEF FollowingLink, Performing, LinkedCalls
<1>3. ASSUME NEW source, Combine(source)
      PROVE  AddReply(source) \/ BatchError \/ Abort
  BY <1>3 DEF Combine, BadField
<1>4. CASE PerformCall
  BY <1>4 DEF PerformCall
<1>5. CASE LinkRefused
  BY <1>2, <1>5 DEF LinkRefused
<1>6. CASE LinkCached
  <2>1. FollowingLink /\ prev \in DOMAIN cache /\ Combine(cache[prev]) /\ search' = search
    BY <1>1, <1>6 DEF LinkCached
  <2>2. cache[prev] = Named(k)
    BY <1>2, <2>1 DEF CacheExact, Named
  <2>3. AddReply(Named(k)) \/ BatchError \/ Abort
    BY <1>3, <2>1, <2>2
  <2> QED
    BY <1>2, <2>1, <2>3
<1>7. CASE SearchFails
  <2>1. Performing
    BY <1>2, <1>7 DEF SearchFails, Searching
  <2>2. BatchError \/ Abort
    BY <1>7 DEF SearchFails, BadField
  <2> QED
    BY <1>7, <2>1, <2>2 DEF SearchFails
<1>8. CASE SearchFinds
  <2>1. FollowingLink
    BY <1>8 DEF SearchFinds, Searching
  <2>2. Target(prev) = {prev + 1}
    BY <1>1, <1>2, <2>1, TargetInRounds
  <2>3. PICK i \in Target(prev) :
          LET source == [turn |-> turn, ix |-> i - 1, item |-> Current.link.item]
          IN  /\ nthType' = prev
              /\ nthFieldIx' = Ordinal(out, i)
              /\ cache' = Cached(prev, source)
              /\ Combine(source)
    BY <1>1, <1>8 DEF SearchFinds
  <2>4. i = prev + 1
    BY <2>2
  <2>5. prev \in Nat /\ prev + 1 \in 1 .. k - 1 /\ Index(prev + 1) = Index(k) - 1
    BY <1>1, <1>2, <2>1, RoundFacts
  <2>6. [turn |-> turn, ix |-> i - 1, item |-> Current.link.item] = Named(k)
    <3>1. i - 1 = prev
      BY <2>4, <2>5
    <3> QED
      BY <1>1, <3>1 DEF Named
  <2>7. Ordinal(out, i) = Index(k) - 1
    <3>1. /\ Len(out) = msgno
          /\ \A j \in 1 .. msgno : out[j] = msgIn[j].type
      BY <1>1, <1>2, <2>1 DEF PipelineInv, PipelineTypeOK, Progress, ErrorEndsMessage, Performing
    <3>2. i \in 1 .. msgno
      BY <1>1, <2>4, <2>5
    <3>3. {j \in 1 .. i - 1 : out[j] = out[i]} = {j \in 1 .. i - 1 : msgIn[j].type = msgIn[i].type}
      BY <1>1, <3>1, <3>2
    <3>4. Ordinal(out, i) = Index(i)
      BY <3>3 DEF Ordinal, Index
    <3> QED
      BY <2>4, <2>5, <3>4
  <2>8. AddReply(Named(k)) \/ BatchError \/ Abort
    BY <1>3, <2>3, <2>6
  <2>9. nthType' = prev /\ nthFieldIx' = Index(k) - 1 /\ cache' = Cached(prev, Named(k))
    BY <2>3, <2>6, <2>7
  <2> QED
    BY <1>2, <2>1, <2>8, <2>9
<1>9. CASE SearchFindsNothing
  <2>1. FollowingLink /\ Target(prev) = {}
    BY <1>1, <1>9 DEF SearchFindsNothing, Searching
  <2>2. Target(prev) = {prev + 1}
    BY <1>1, <1>2, <2>1, TargetInRounds
  <2> QED
    BY <2>1, <2>2
<1> QED
  BY <1>4, <1>5, <1>6, <1>7, <1>8, <1>9 DEF ProcessSingle

(* One call keeps the invariant of the rounds.                             *)
LEMMA SingleKeepsRounds ==
  ASSUME PipelineInv, RoundsInv, ProcessSingle
  PROVE  RoundsInv'
<1>1. msgIn' = msgIn /\ turn' = turn /\ msgno' \in {msgno, msgno + 1} /\ Performing
  BY SingleOutcome DEF PipelineInv, Answers, AddReply, BatchError, Abort
<1>2. InRounds(msgIn)' = InRounds(msgIn) /\ LinkedCalls' = LinkedCalls
  BY <1>1 DEF LinkedCalls
<1> SUFFICES ASSUME InRounds(msgIn) PROVE FedAsLinked' /\ CacheExact' /\ Ahead'
  BY <1>2 DEF RoundsInv
<1> DEFINE k == msgno + 1
           prev == msgIn[k].link.prev
<1>3. FedAsLinked /\ CacheExact /\ Ahead
  BY DEF RoundsInv
<1>4. /\ \/ BatchError \/ Abort \/ AddReply(Unlinked)
         \/ AddReply(Named(k))
      /\ \/ search' = search
         \/ /\ k \in LinkedCalls
            /\ nthType' = prev
            /\ nthFieldIx' = Index(k) - 1
            /\ cache' = Cached(prev, Named(k))
  BY <1>3, RoundsOutcome
<1>5. msgIn \in Seq(Calls) /\ msgno \in Nat /\ fed \in Seq(Sources \cup {Zero, Unlinked}) /\ Len(fed) = msgno
  BY <1>1 DEF PipelineInv, PipelineTypeOK, Progress, ErrorEndsMessage, Performing
<1>6. FedAsLinked'
  <2>1. fed' = fed \/ fed' = Append(fed, Unlinked) \/ fed' = Append(fed, Named(k))
    BY <1>4 DEF BatchError, Abort, AddReply
  <2>2. \A i \in DOMAIN fed' : \/ i \in DOMAIN fed /\ fed'[i] = fed[i]
                               \/ i = k /\ fed'[i] \in {Unlinked, Named(k)}
    BY <1>5, <2>1
  <2>3. \A i \in DOMAIN fed : fed[i] # Unlinked => fed[i] = Named(i)
    BY <1>3 DEF FedAsLinked, Named
  <2>4. \A i \in DOMAIN fed' : fed'[i] # Unlinked => fed'[i] = Named(i)
    BY <2>2, <2>3
  <2> QED
    BY <1>1, <2>4 DEF FedAsLinked, Named, Unlinked
<1>7. CASE search' = search
  <2>1. CacheExact'
    BY <1>1, <1>2, <1>3, <1>7 DEF CacheExact, search
  <2>2. Ahead'
    <3> SUFFICES ASSUME NEW j \in LinkedCalls, msgno' < j
                 PROVE  /\ nthType <= msgIn[j].link.prev
                        /\ nthFieldIx = 0 \/ nthFieldIx < Index(j)
      BY <1>1, <1>2, <1>7 DEF Ahead, search, Index
    <3>1. j \in Nat
      BY <1>5 DEF LinkedCalls
    <3>2. msgno < j
      BY <1>1, <1>5, <3>1
    <3> QED
      BY <1>3, <3>2 DEF Ahead
  <2> QED
    BY <1>6, <2>1, <2>2
<1>8. CASE /\ k \in LinkedCalls
           /\ nthType' = prev
           /\ nthFieldIx' = Index(k) - 1
           /\ cache' = Cached(prev, Named(k))
  <2>1. \A j \in LinkedCalls :
          /\ msgIn[j].link.item = msgIn[k].link.item
          /\ k <= j => prev <= msgIn[j].link.prev /\ Index(k) <= Index(j)
    BY <1>5, <1>8, RoundFacts
  <2>2. CacheExact'
    <3> SUFFICES ASSUME NEW ix \in DOMAIN cache', NEW j \in LinkedCalls
                 PROVE  cache'[ix] = [turn |-> turn, ix |-> ix, item |-> msgIn[j].link.item]
      BY <1>1, <1>2 DEF CacheExact
    <3>1. CASE ix = prev
      <4>1. cache'[ix] = Named(k)
        BY <1>8, <3>1 DEF Cached
      <4> QED
        BY <2>1, <3>1, <4>1 DEF Named
    <3>2. CASE ix # prev
      <4>1. ix \in DOMAIN cache /\ cache'[ix] = cache[ix]
        BY <1>8, <3>2 DEF Cached
      <4> QED
        BY <1>3, <4>1 DEF CacheExact
    <3> QED
      BY <3>1, <3>2
  <2>3. Ahead'
    <3> SUFFICES ASSUME NEW j \in LinkedCalls, msgno' < j
                 PROVE  /\ nthType' <= msgIn[j].link.prev
                        /\ nthFieldIx' = 0 \/ nthFieldIx' < Index(j)
      BY <1>1, <1>2 DEF Ahead, Index
    <3>1. j \in Nat /\ k \in Nat
      BY <1>5 DEF LinkedCalls
    <3>2. j \in Nat /\ Index(j) \in Nat /\ Index(k) \in Nat
      <4> HIDE DEF k
      <4> QED
        BY <3>1, IndexType
    <3>3. k <= j
      BY <1>1, <1>5, <3>2
    <3>4. prev <= msgIn[j].link.prev /\ Index(k) <= Index(j)
      BY <2>1, <3>3
    <3> QED
      BY <1>8, <3>2, <3>4
  <2> QED
    BY <1>6, <2>2, <2>3
<1> QED
  BY <1>4, <1>7, <1>8

(* A new message has been fed nothing, and nothing is remembered.          *)
LEMMA ReceiveKeepsRounds ==
  ASSUME NEW m \in Seq(Calls), Receive(m)
  PROVE  RoundsInv'
<1>1. /\ msgIn' = m /\ fed' = <<>> /\ cache' = Nothing
      /\ nthType' = 0 /\ nthFieldIx' = 0
  BY DEF Receive
<1>2. FedAsLinked' /\ CacheExact'
  BY <1>1 DEF FedAsLinked, CacheExact, Nothing
<1>3. Ahead'
  <2> SUFFICES ASSUME NEW k \in DOMAIN m, m[k].link # NoLink PROVE 0 <= m[k].link.prev
    BY <1>1 DEF Ahead, LinkedCalls
  <2>1. m[k] \in Calls
    OBVIOUS
  <2>2. m[k].link \in Links
    BY <2>1 DEF Calls
  <2> QED
    BY <2>2 DEF Links
<1> QED
  BY <1>2, <1>3 DEF RoundsInv

(* Nor does sending the replies, or what the app does elsewhere, touch it. *)
LEMMA QuietKeepsRounds ==
  ASSUME RoundsInv, Reply \/ UNCHANGED pipeVars
  PROVE  RoundsInv'
<1>1. UNCHANGED <<msgIn, msgno, cache, nthType, nthFieldIx, turn, fed>>
  BY DEF Reply, pipeVars
<1> QED
  BY <1>1 DEF RoundsInv, FedAsLinked, CacheExact, Ahead, LinkedCalls, Index

(* However many rounds a batch has, every call of it is fed from the field *)
(* its link names.                                                         *)
THEOREM RoundsCorrect == Spec => []RoundsFedAsLinked
<1>1. Init => RoundsInv
  <2> SUFFICES ASSUME Init PROVE RoundsInv
    OBVIOUS
  <2>1. msgIn = <<>> /\ fed = <<>>
    BY DEF Init, PipelineInit
  <2> QED
    BY <2>1 DEF RoundsInv, FedAsLinked, CacheExact, Ahead, LinkedCalls
<1>2. Inv /\ RoundsInv /\ [Next]_vars => RoundsInv'
  <2> SUFFICES ASSUME Inv, RoundsInv, [Next]_vars PROVE RoundsInv'
    OBVIOUS
  <2>1. PipelineInv /\ BatchInv
    BY DEF Inv
  <2>2. CASE UNCHANGED pipeVars
    BY <2>2, QuietKeepsRounds
  <2>3. CASE BatchSend
    <3>1. rawOut' \in {rawOut, Serialized} /\ Receive(rawOut'.calls)
      BY <2>3 DEF BatchSend
    <3>2. rawOut'.calls \in Seq(Calls)
      BY <2>1, <3>1 DEF BatchInv, BatchTypeOK, Serialized
    <3> DEFINE m == rawOut'.calls
    <3>3. m \in Seq(Calls) /\ Receive(m)
      BY <3>1, <3>2
    <3> HIDE DEF m
    <3> QED
      BY <3>3, ReceiveKeepsRounds
  <2>4. ASSUME NEW m \in Arrays, BatchArray(m) PROVE RoundsInv'
    BY <2>4, AppAssumption, ReceiveKeepsRounds DEF BatchArray
  <2>5. CASE Return
    BY <2>5, QuietKeepsRounds DEF Return, BatchReturns, ArrayReturns
  <2>6. CASE Vmi
    BY <2>1, <2>6, SingleKeepsRounds DEF Vmi
  <2> QED
    BY <2>2, <2>3, <2>4, <2>5, <2>6 DEF Next, App, vars
<1>3. RoundsInv => RoundsFedAsLinked
  BY DEF RoundsInv, RoundsFedAsLinked
<1> QED
  BY <1>1, <1>2, <1>3, BatchInvariant, PTL DEF Spec
=============================================================================
