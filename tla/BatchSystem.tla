---------------------------- MODULE BatchSystem ----------------------------
(***************************************************************************)
(* An app with a batch object, and the VMI partition that serves it.  The  *)
(* frontend is blocked while its message is processed, and a message is    *)
(* processed without interruption, so nothing interleaves: what can go     *)
(* wrong lies in long sequences of legal calls.                            *)
(***************************************************************************)
EXTENDS BatchObj

CONSTANTS Arrays,    \* the messages the app makes with batch()
          BatchTypes \* bound: the types of the calls it gives to add()

ASSUME AppAssumption ==
  /\ \A m \in Arrays : m \in Seq(Calls)
  /\ BatchTypes \subseteq Types

vars == <<pipeVars, batchVars>>

Init == PipelineInit /\ BatchInit

(* The app.  Bound: it calls batch() with a fresh batch object only, with  *)
(* which batch() shares nothing in the frontend.                           *)
App ==
  \/ \E name \in Names, t \in BatchTypes :
       (Add(name, t) \/ AddRaises(name, t)) /\ UNCHANGED pipeVars
  \/ (Reset \/ Serialize \/ Parse \/ Results) /\ UNCHANGED pipeVars
  \/ BatchSend
  \/ \E m \in Arrays : request = <<>> /\ BatchArray(m)

Return == BatchReturns \/ ArrayReturns

Vmi == ProcessSingle /\ UNCHANGED batchVars

Next == App \/ Return \/ Vmi

Spec == Init /\ [][Next]_vars

-----------------------------------------------------------------------------
TypeOK == PipelineTypeOK /\ BatchTypeOK

(* Whatever the link, a call is fed with nothing but a number from a reply *)
(* to an earlier call of the same message, of the type the link names: not *)
(* from a message before (the cache and the search indices outlive the     *)
(* call), not from a later call, not from a field that is no number.       *)
FedFromEarlier ==
  \A k \in DOMAIN fed : fed[k] \notin {Zero, Unlinked} =>
    LET prev == msgIn[k].link.prev
    IN  /\ fed[k].turn = turn
        /\ fed[k].ix + 1 \in 1 .. k - 1
        /\ prev + 1 \in 1 .. k - 1
        /\ msgIn[fed[k].ix + 1].type = msgIn[prev + 1].type
        /\ GoodField(RetFields[msgIn[prev + 1].type], fed[k].item)

(* The calls first+1 .. last of message m come in rounds of n different    *)
(* types; what links there are name one and the same field of the p-th     *)
(* call of the round before; one type of a round, and none before it, is   *)
(* above that call's.                                                      *)
RoundsAt(m, first, last, n, p) ==
  LET type(i) == m[first + i].type
  IN  /\ m[last].link # NoLink
      /\ \A i, j \in 1 .. n : i # j => type(i) # type(j)
      /\ \A i \in n + 1 .. last - first : type(i) = type(i - n)
      /\ \A i \in 1 .. last - first :
           \/ m[first + i].link = NoLink
           \/ /\ i > n
              /\ m[first + i].link.prev + 1 = first + p + n * ((i - 1) \div n - 1)
              /\ m[first + i].link.item = m[last].link.item
      /\ Cardinality({i \in 1 .. n : type(i) > type(p)}) = 1
      /\ \A i \in 1 .. first : m[i].link = NoLink /\ m[i].type < type(p)
      /\ \A i \in 1 .. first, j \in 1 .. n : m[i].type # type(j)
      /\ \A i \in last + 1 .. Len(m) : m[i].link = NoLink

(* The shape of the batch in batch_obj's documentation.                    *)
InRounds(m) ==
  \E first \in 0 .. 1, last \in 1 .. Len(m) :
    \E n \in 1 .. last - first : \E p \in 1 .. n : RoundsAt(m, first, last, n, p)

FedAsLinked ==
  \A k \in DOMAIN fed : fed[k] # Unlinked =>
    fed[k] = [turn |-> turn, ix |-> msgIn[k].link.prev, item |-> msgIn[k].link.item]

(* A batch of the documented shape feeds every call from the very field    *)
(* its link names, however many rounds it has.                             *)
RoundsFedAsLinked == InRounds(msgIn) => FedAsLinked

(* Each result carries the name of the call it answers.                    *)
NamesMatch == given.by = "results" => given.names = given.labels

(* A batch none of whose add() calls has raised hands each result to the   *)
(* app under the name of the call it answers, however often the object was *)
(* filled, sent, read and reset.                                           *)
ResultsNamed == ~ torn => NamesMatch

(* results() after a batch_send, with no add(), serialize() or exception   *)
(* of add() in between, raises or yields one result for each call, in      *)
(* order: a message that was cut short by an error, or answered by nothing *)
(* because it was too long, is never taken for results.                    *)
ResultsWhole ==
  given.by = "results" =>
    \/ ~ given.fresh \/ given.raised \/ torn
    \/ given.types = [k \in DOMAIN request |-> request[k].type]

(* After an error nothing more of the message is performed: the replies    *)
(* are those to the calls before the one that failed.                      *)
ErrorEndsMessage ==
  /\ Len(out) = IF error THEN msgno - 1 ELSE msgno
  /\ \A k \in DOMAIN out : out[k] = msgIn[k].type

(* add()'s documentation: "link this call to the results of an earlier     *)
(* call", where "fe.ADD, actual_arg = current_arg + referenced".  A call   *)
(* that is linked to a number in the reply to an earlier call of its       *)
(* message, and is performed, is fed that very number.                     *)
LinkHonoured ==
  \A k \in DOMAIN fed :
    LET call == msgIn[k]
    IN  /\ call.link # NoLink
        /\ call.link.prev + 1 < k
        /\ GoodField(RetFields[msgIn[call.link.prev + 1].type], call.link.item)
        => fed[k] = [turn |-> turn, ix |-> call.link.prev, item |-> call.link.item]
=============================================================================
