------------------------------ MODULE BatchObj ------------------------------
(***************************************************************************)
(* A batch in the app partition: class batch_obj of batch_obj.py and the   *)
(* frontend's batch_send and batch (furnace_frontend.py).  The app names   *)
(* its calls, links a call to the reply of an earlier one by that one's    *)
(* name, sends the whole as one message, and reads the replies by name.    *)
(*                                                                         *)
(* add() fills the request step by step and raises where a step fails: the *)
(* call's type is in the request by then, and nothing takes it out again.  *)
(***************************************************************************)
EXTENDS LinkPipeline

CONSTANTS Names,       \* the labels the app gives to its calls
          MaxBatch,    \* bound: calls in one batch object
          BatchOps     \* the operators its links use

ASSUME BatchAssumption ==
  /\ MaxBatch \in Nat
  /\ BatchOps \subseteq Operators

VARIABLES request,   \* batch_obj.request, its calls in order
          namestack, \* batch_obj.namestack
          namemap,   \* batch_obj.namemap: label -> the type of its message
          state,     \* batch_obj.state
          rawOut,    \* batch_obj.raw_out
          rawIn,     \* batch_obj.raw_in
          reply,     \* batch_obj.reply
          labels,    \* history: the label passed with each call of request
          torn,      \* history: an add() has raised since the last reset()
          given,     \* what results() or batch() has just handed to the app
          waiting    \* the frontend is blocked in batch_send or batch

batchVars == <<request, namestack, namemap, state, rawOut, rawIn, reply, labels,
               torn, given, waiting>>

(* A message and, as history, the labels of its calls.                     *)
NoMessage == [calls |-> <<>>, labels |-> <<>>]
NoReplies == [types |-> <<>>, error |-> FALSE, labels |-> <<>>]
NoNames   == [n \in {} |-> 0]

(* What an app is handed: the results' types and names, in order, and      *)
(* whether an exception ended them.  History: the labels of the calls they *)
(* answer, and whether the object has been added to or serialized since    *)
(* its batch_send.                                                         *)
Handed == [by : {"results", "batch"}, raised : BOOLEAN, fresh : BOOLEAN,
           types : Seq(Answered), names : Seq(Names), labels : Seq(Names)]
NotGiven == [by |-> "none"]

BatchStates == {"EMPTY", "FILLING", "SERIALIZED", "RESULTS_RAW", "RESULTS_PARSED"}

BatchTypeOK ==
  /\ request \in Seq(Calls)
  /\ namestack \in Seq(Names)
  /\ DOMAIN namemap \subseteq Names
  /\ \A n \in DOMAIN namemap : namemap[n] \in Types
  /\ state \in BatchStates
  /\ rawOut \in [calls : Seq(Calls), labels : Seq(Names)]
  /\ rawIn \in [types : Seq(Answered), error : BOOLEAN, labels : Seq(Names)]
  /\ reply \in [types : Seq(Answered), error : BOOLEAN, labels : Seq(Names)]
  /\ labels \in Seq(Names)
  /\ torn \in BOOLEAN
  /\ given \in Handed \cup {NotGiven}
  /\ waiting \in {"no", "batch_send", "batch"}

BatchInit ==
  /\ request = <<>>
  /\ namestack = <<>>
  /\ namemap = NoNames
  /\ state = "EMPTY"
  /\ rawOut = NoMessage
  /\ rawIn = NoReplies
  /\ reply = NoReplies
  /\ labels = <<>>
  /\ torn = FALSE
  /\ given = NotGiven
  /\ waiting = "no"

-----------------------------------------------------------------------------
(* Mutant: the stack of names is not emptied.                              *)
ResetKeepsNames ==
  /\ waiting = "no"
  /\ request' = <<>>
  /\ namemap' = NoNames
  /\ state' = "EMPTY"
  /\ rawOut' = NoMessage
  /\ rawIn' = NoReplies
  /\ reply' = NoReplies
  /\ labels' = <<>>
  /\ torn' = FALSE
  /\ given' = NotGiven
  /\ UNCHANGED <<namestack, waiting>>

Reset ==
  /\ waiting = "no"
  /\ request' = <<>>
  /\ namestack' = <<>>
  /\ namemap' = NoNames
  /\ state' = "EMPTY"
  /\ rawOut' = NoMessage
  /\ rawIn' = NoReplies
  /\ reply' = NoReplies
  /\ labels' = <<>>
  /\ torn' = FALSE
  /\ given' = NotGiven
  /\ UNCHANGED waiting

(* namestack.index(): how many calls come before the first of that name.   *)
NameIndex(n) ==
  Cardinality({i \in DOMAIN namestack : \A j \in 1 .. i : namestack[j] # n})

(* What add() makes of linkname, linkfield, linktgt and linkopr: the place *)
(* in the request is that of the name in namestack, the field's index that *)
(* of the reply to the message the name stands for in namemap.             *)
LinkOf(t, linkname, item, cur, op) ==
  [prev |-> NameIndex(linkname), item |-> item, cur |-> cur, op |-> op]

Appended(name, t, link) ==
  /\ request' = Append(request, [type |-> t, link |-> link])
  /\ labels' = Append(labels, name)

(* add() as far as it goes without an exception.                           *)
Add(name, t) ==
  /\ waiting = "no" /\ Len(request) < MaxBatch
  /\ t \in Repeated
  /\ \/ Appended(name, t, NoLink)
     \/ /\ t \in Linkable
        /\ \E linkname \in DOMAIN namemap, op \in BatchOps :
             \E item \in 0 .. Len(RetFields[namemap[linkname]]) - 1,
                cur \in 0 .. Len(ArgFields[t]) - 1 :
               Appended(name, t, LinkOf(t, linkname, item, cur, op))
  /\ namemap' = [n \in DOMAIN namemap \cup {name} |-> IF n = name THEN t ELSE namemap[n]]
  /\ namestack' = Append(namestack, name)
  /\ state' = "FILLING"
  /\ given' = NotGiven
  /\ UNCHANGED <<rawOut, rawIn, reply, torn, waiting>>

(* add() that raises: the field is not repeated, or an argument, linkname, *)
(* linkfield or linktgt does not exist.  Left out: an operator that is not *)
(* one, which leaves a link behind without it.                             *)
AddRaises(name, t) ==
  /\ waiting = "no" /\ Len(request) < MaxBatch
  /\ Appended(name, t, NoLink)
  /\ torn' = TRUE
  /\ given' = NotGiven
  /\ UNCHANGED <<namestack, namemap, state, rawOut, rawIn, reply, waiting>>

Serialized == [calls |-> request, labels |-> labels]

Serialize ==
  /\ waiting = "no"
  /\ state' = "SERIALIZED"
  /\ rawOut' = Serialized
  /\ given' = NotGiven
  /\ UNCHANGED <<request, namestack, namemap, rawIn, reply, labels, torn, waiting>>

(* batch_send up to recv(): what was serialized is sent as it was.         *)
BatchSend ==
  /\ waiting = "no"
  /\ state \in {"SERIALIZED", "FILLING"}
  /\ rawOut' = IF state = "SERIALIZED" THEN rawOut ELSE Serialized
  /\ state' = "SERIALIZED"
  /\ waiting' = "batch_send"
  /\ Receive(rawOut'.calls)
  /\ given' = NotGiven
  /\ UNCHANGED <<request, namestack, namemap, rawIn, reply, labels, torn>>

(* recv() returns in batch_send.                                           *)
BatchReturns ==
  /\ waiting = "batch_send"
  /\ Reply
  /\ rawIn' = [types |-> out, error |-> error, labels |-> rawOut.labels]
  /\ state' = "RESULTS_RAW"
  /\ waiting' = "no"
  /\ UNCHANGED <<request, namestack, namemap, rawOut, reply, labels, torn, given>>

(* Mutant: neither the numbers nor the error are looked at.                *)
ParsableAnyway == TRUE

(* parse() raises where the numbers of calls and replies differ, and on an *)
(* error; by then reply holds what has come back.                          *)
Parsable == Len(request) = Len(rawIn.types) /\ ~ rawIn.error

Received == rawIn # NoReplies \/ state = "RESULTS_RAW"

(* parse(), and results_size() in state RESULTS_RAW.                       *)
Parse ==
  /\ waiting = "no" /\ Received
  /\ reply' = rawIn
  /\ state' = IF Parsable THEN "RESULTS_PARSED" ELSE state
  /\ given' = NotGiven
  /\ UNCHANGED <<request, namestack, namemap, rawOut, rawIn, labels, torn, waiting>>

(* The generator of results() goes through reply r up to a reply that is   *)
(* not a repeated field or a call that has no name.  Bound: the app takes  *)
(* all of it before it uses the object again.                              *)
HandOut(r) ==
  \E k \in 0 .. Len(r.types) :
    /\ k <= Len(namestack)
    /\ \A i \in 1 .. k : r.types[i] \in Repeated
    /\ k < Len(r.types) => k = Len(namestack) \/ r.types[k + 1] \notin Repeated
    /\ given' = [by |-> "results", raised |-> k < Len(r.types),
                 fresh |-> state \in {"RESULTS_RAW", "RESULTS_PARSED"},
                 types |-> SubSeq(r.types, 1, k), names |-> SubSeq(namestack, 1, k),
                 labels |-> SubSeq(r.labels, 1, k)]

(* results(): it parses in state RESULTS_RAW and in no other, and hands    *)
(* out whatever reply holds.                                               *)
Results ==
  /\ waiting = "no"
  /\ IF state = "RESULTS_RAW"
     THEN /\ reply' = rawIn
          /\ \/ /\ Parsable
                /\ state' = "RESULTS_PARSED"
                /\ HandOut(rawIn)
             \/ /\ ~ Parsable
                /\ given' = NotGiven
                /\ UNCHANGED state
     ELSE HandOut(reply) /\ UNCHANGED <<reply, state>>
  /\ UNCHANGED <<request, namestack, namemap, rawOut, rawIn, labels, torn, waiting>>

(* prep_batch raises, and nothing is sent, for a call whose field is not   *)
(* repeated and for a link where the call has none.                        *)
Prepared(m) ==
  \A i \in DOMAIN m :
    m[i].type \in Repeated /\ (m[i].link # NoLink => m[i].type \in Linkable)

(* FE.batch, which builds a message of its own from the app's array.       *)
BatchArray(m) ==
  /\ waiting = "no"
  /\ Prepared(m)
  /\ Receive(m)
  /\ waiting' = "batch"
  /\ given' = NotGiven
  /\ UNCHANGED <<request, namestack, namemap, state, rawOut, rawIn, reply, labels, torn>>

(* process_batch_results: it raises on an error, compares the number of    *)
(* replies with itself, and makes an entry of each.                        *)
ArrayReturns ==
  /\ waiting = "batch"
  /\ Reply
  /\ given' = [by |-> "batch", raised |-> error, fresh |-> TRUE,
               types |-> IF error THEN <<>> ELSE out, names |-> <<>>, labels |-> <<>>]
  /\ waiting' = "no"
  /\ UNCHANGED <<request, namestack, namemap, state, rawOut, rawIn, reply, labels, torn>>
=============================================================================
