---------------------------- MODULE LinkPipeline ----------------------------
(***************************************************************************)
(* A message of several calls in the VMI partition: process_protobuf,      *)
(* process_single and process_link of vmi_partition_drakvuf/furnace.cpp.   *)
(* The calls are performed in order.  A call may carry a link: an argument *)
(* is then combined with a field of the reply to an earlier call of the    *)
(* same message.                                                           *)
(*                                                                         *)
(* A call type is its protobuf field number; the type and the field of its *)
(* reply, which is one more, is written as the type itself, which keeps    *)
(* the order.  Values are abstracted to where they come from: Source says  *)
(* which field of which reply prior_result was read from.                  *)
(***************************************************************************)
EXTENDS Naturals, Sequences, FiniteSets

CONSTANTS Types,     \* the call types of vmi.proto
          Repeated,  \* those whose request and reply are repeated fields
          Linkable,  \* those whose request has a link field
          Linked,    \* those whose handler calls process_link
          Answered,  \* those with a handler that adds a reply
          RetFields, \* RetFields[t]: the kinds of the fields of t's reply
          ArgFields, \* ArgFields[t]: the kinds of the fields of t's request
          MaxTypes   \* the number of calls process_protobuf accepts

Operators == {"ADD", "SUB", "OVERWRITE"}
Links     == [prev : Nat, item : Nat, cur : Nat, op : Operators]
NoLink    == [op |-> "none"]
Calls     == [type : Types, link : Links \cup {NoLink}]

(* Fields of kind "int" are those process_link can read and write.         *)
Kinds == {"int", "other"}

ASSUME PipelineAssumption ==
  /\ Types \subseteq Nat
  /\ Repeated \subseteq Types
  /\ Linkable \subseteq Repeated
  /\ Linked \subseteq Linkable \cap Answered
  /\ Answered \subseteq Types
  /\ RetFields \in [Types -> Seq(Kinds)]
  /\ ArgFields \in [Types -> Seq(Kinds)]
  /\ MaxTypes \in Nat

VARIABLES msgIn,      \* furnace::msg_in, its calls in order
          out,        \* furnace::msg_out, the types of its replies in order
          error,      \* msg_out.error
          msgno,      \* furnace::msgno
          cache,      \* furnace::cache: prev_msg_ix -> prior_result
          nthType,    \* furnace::nth_type
          nthFieldIx, \* furnace::nth_field_ix
          busy,       \* process_protobuf is running
          up,         \* FALSE once the process has aborted
          turn,       \* history: tells the message from the one before
          fed         \* history: the Source each answered call was fed from

pipeVars == <<msgIn, out, error, msgno, cache, nthType, nthFieldIx, busy, up, turn, fed>>

search == <<cache, nthType, nthFieldIx>>

(* Where a prior_result came from; Zero is its initial value.              *)
Sources  == [turn : BOOLEAN, ix : Nat, item : Nat]
Zero     == [ix |-> "zero"]
Unlinked == [ix |-> "unlinked"]

PipelineTypeOK ==
  /\ msgIn \in Seq(Calls)
  /\ out \in Seq(Answered)
  /\ error \in BOOLEAN
  /\ msgno \in Nat
  /\ DOMAIN cache \subseteq Nat
  /\ \A ix \in DOMAIN cache : cache[ix] \in Sources \cup {Zero}
  /\ nthType \in Nat
  /\ nthFieldIx \in Nat
  /\ busy \in BOOLEAN
  /\ up \in BOOLEAN
  /\ turn \in BOOLEAN
  /\ fed \in Seq(Sources \cup {Zero, Unlinked})

Nothing == [ix \in {} |-> Zero]

PipelineInit ==
  /\ msgIn = <<>>
  /\ out = <<>>
  /\ error = FALSE
  /\ msgno = 0
  /\ cache = Nothing
  /\ nthType = 0
  /\ nthFieldIx = 0
  /\ busy = FALSE
  /\ up = TRUE
  /\ turn = FALSE
  /\ fed = <<>>

-----------------------------------------------------------------------------
Cached(ix, source) ==
  [i \in DOMAIN cache \cup {ix} |-> IF i = ix THEN source ELSE cache[i]]

(* How many elements before the i-th are equal to it.                      *)
Ordinal(s, i) == Cardinality({k \in 1 .. i - 1 : s[k] = s[i]})

(* typecount: which of the calls of its type the i-th call is.             *)
Index(i) == Cardinality({k \in 1 .. i - 1 : msgIn[k].type = msgIn[i].type})

Current == msgIn[msgno + 1]

(* The reverse iteration over msg_out's fields: `d' at the field of type t *)
(* is the number of fields in use above it.                                *)
FieldsAbove(t) == {out[k] : k \in DOMAIN out} \cap {u \in Types : u > t}

(* FieldSize aborts the process on a field that is not repeated.  The      *)
(* second loop asks it of every field, from the highest down.              *)
SingularInUse == \E k \in DOMAIN out : out[k] \notin Repeated

SingularAbove(t) == FieldsAbove(t) \ Repeated # {}

(* The first loop: the reply at prev_msg_ix, if it is not before nth_type. *)
TypeFound(prev) == nthType <= prev /\ prev < Len(out)

(* Mutant: the depth of the reply's field is not added.                    *)
TargetWithoutDepth(prev) ==
  {k \in DOMAIN out :
     /\ TypeFound(prev) /\ out[k] = out[prev + 1]
     /\ Ordinal(out, k) >= nthFieldIx
     /\ Ordinal(out, k) = Index(msgno + 1)}

(* The second loop: in the field of that type, from nth_field_ix on, the   *)
(* reply whose place and depth add up to the current call's own index      *)
(* among the calls of its type.  There is one at most.                     *)
Target(prev) ==
  {k \in DOMAIN out :
     /\ TypeFound(prev) /\ out[k] = out[prev + 1]
     /\ Ordinal(out, k) >= nthFieldIx
     /\ Ordinal(out, k) + Cardinality(FieldsAbove(out[k])) = Index(msgno + 1)}

-----------------------------------------------------------------------------
(* Mutant: the cache of the message before is kept.                        *)
ReceiveKeepsCache(m) ==
  /\ up /\ ~ busy
  /\ msgIn' = m
  /\ out' = <<>>
  /\ error' = FALSE
  /\ msgno' = 0
  /\ nthType' = 0
  /\ nthFieldIx' = 0
  /\ busy' = TRUE
  /\ turn' = ~ turn
  /\ fed' = <<>>
  /\ UNCHANGED <<up, cache>>

(* process_protobuf begins.                                                *)
Receive(m) ==
  /\ up /\ ~ busy
  /\ msgIn' = m
  /\ out' = <<>>
  /\ error' = FALSE
  /\ msgno' = 0
  /\ cache' = Nothing
  /\ nthType' = 0
  /\ nthFieldIx' = 0
  /\ busy' = TRUE
  /\ turn' = ~ turn
  /\ fed' = <<>>
  /\ UNCHANGED up

Performing == up /\ busy /\ Len(msgIn) <= MaxTypes /\ ~ error /\ msgno < Len(msgIn)

(* A handler that has performed its call adds one reply and its type,      *)
(* whether the call succeeded or not.                                      *)
AddReply(source) ==
  /\ out' = Append(out, Current.type)
  /\ fed' = Append(fed, source)
  /\ msgno' = msgno + 1
  /\ UNCHANGED <<msgIn, error, busy, up, turn>>

(* Mutant: the handler goes on after the error and adds its reply.         *)
BatchErrorReplies ==
  /\ error' = TRUE
  /\ out' = Append(out, Current.type)
  /\ fed' = Append(fed, Zero)
  /\ msgno' = msgno + 1
  /\ UNCHANGED <<msgIn, busy, up, turn>>

(* set_batch_error and batch_error: no reply, and the message ends here.   *)
BatchError ==
  /\ error' = TRUE
  /\ msgno' = msgno + 1
  /\ UNCHANGED <<msgIn, out, busy, up, turn, fed>>

Abort ==
  /\ up' = FALSE
  /\ UNCHANGED <<msgIn, out, error, msgno, busy, turn, fed>>

GoodField(fields, i) == i < Len(fields) /\ fields[i + 1] = "int"

(* A field index is checked against the number of fields, but an index one *)
(* past the last field passes: what is read there has no usable type, or   *)
(* the reflection refuses it and aborts.                                   *)
BadField(fields, i) ==
  /\ ~ GoodField(fields, i)
  /\ BatchError \/ (i = Len(fields) /\ Abort)

(* The link's operator is applied to the argument and the call performed.  *)
(* Whether a subtraction would go below zero depends on the values.        *)
Combine(source) ==
  LET link == Current.link
      args == ArgFields[Current.type]
  IN  \/ BadField(args, link.cur)
      \/ /\ GoodField(args, link.cur)
         /\ \/ AddReply(source)
            \/ link.op = "SUB" /\ source # Zero /\ BatchError

(* Mutant: a type that has no handler is answered all the same.            *)
PerformAny ==
  /\ Performing
  /\ Current.link = NoLink \/ Current.type \notin Linked
  /\ AddReply(Unlinked)
  /\ UNCHANGED search

(* A handler that sees no link, or does not look; or no handler at all:    *)
(* the default branch of process_single, and the getters that only fail.   *)
PerformCall ==
  /\ Performing
  /\ Current.link = NoLink \/ Current.type \notin Linked
  /\ IF Current.type \in Answered THEN AddReply(Unlinked) ELSE BatchError
  /\ UNCHANGED search

FollowingLink == Performing /\ Current.link # NoLink /\ Current.type \in Linked

(* The first two checks of process_link.                                   *)
LinkAllowed == msgno > nthType /\ Current.link.prev <= Len(msgIn)

LinkRefused ==
  /\ FollowingLink /\ ~ LinkAllowed
  /\ BatchError
  /\ UNCHANGED search

LinkCached ==
  /\ FollowingLink /\ LinkAllowed
  /\ Current.link.prev \in DOMAIN cache
  /\ Combine(cache[Current.link.prev])
  /\ UNCHANGED search

Searching ==
  /\ FollowingLink /\ LinkAllowed
  /\ Current.link.prev \notin DOMAIN cache

(* The loops give up: on a field they cannot read, or in FieldSize.  What  *)
(* they leave in the search state is not looked at again.                  *)
SearchFails ==
  LET link == Current.link
      Readable(k) == GoodField(RetFields[out[k]], link.item)
  IN  /\ Searching
      /\ \/ \E k \in Target(link.prev) :
              ~ SingularAbove(out[k]) /\ BadField(RetFields[out[k]], link.item)
         \/ /\ SingularInUse
            /\ \A k \in Target(link.prev) : SingularAbove(out[k]) \/ Readable(k)
            /\ Abort
      /\ UNCHANGED search

SearchFinds ==
  LET link == Current.link
  IN  /\ Searching /\ ~ SingularInUse
      /\ \E k \in Target(link.prev) :
           LET source == [turn |-> turn, ix |-> k - 1, item |-> link.item]
           IN  /\ GoodField(RetFields[out[k]], link.item)
               /\ nthType' = link.prev
               /\ nthFieldIx' = Ordinal(out, k)
               /\ cache' = Cached(link.prev, source)
               /\ Combine(source)

(* Where the loops find nothing, prior_result keeps its 0: no error is set.*)
SearchFindsNothing ==
  LET link == Current.link
  IN  /\ Searching /\ ~ SingularInUse
      /\ Target(link.prev) = {}
      /\ nthType' = IF TypeFound(link.prev) THEN link.prev ELSE nthType
      /\ cache' = Cached(link.prev, Zero)
      /\ UNCHANGED nthFieldIx
      /\ Combine(Zero)

ProcessSingle ==
  \/ PerformCall
  \/ LinkRefused \/ LinkCached
  \/ SearchFails \/ SearchFinds \/ SearchFindsNothing

(* process_protobuf returns the serialized msg_out.                        *)
Reply ==
  /\ up /\ busy /\ ~ Performing
  /\ busy' = FALSE
  /\ UNCHANGED <<msgIn, out, error, msgno, cache, nthType, nthFieldIx, up, turn, fed>>
=============================================================================
