--------------------------- MODULE KeyValueStore ---------------------------
(***************************************************************************)
(* What the Facilities partition's storage promises whoever asks it (the   *)
(* IO calls of facilities.py): one value per key.  A write that is         *)
(* answered with success is what the key holds from then on; one that is   *)
(* refused or fails touches no other key, but may cost its own key the     *)
(* value it had.  A read answers with what the key holds, and of a key     *)
(* that lost its value it promises nothing.                                *)
(***************************************************************************)
CONSTANTS Keys,    \* names under which an app stores data
          Values,  \* what it stores
          Absent,  \* a key without a value
          Damaged, \* a key whose last write failed half way
          Garbled, \* what reading such a key may give
          NoAnswer \* nothing has been answered (yet, or to a storage call)

VARIABLES kv,    \* the value of each key
          answer \* the last answer given

kvVars == <<kv, answer>>

Answers ==
  [type : {"SET_RET"}, key : Keys, ok : BOOLEAN]
    \cup [type : {"GET_RET"}, key : Keys, ok : {TRUE}, value : Values \cup {Garbled}]
    \cup [type : {"GET_RET"}, key : Keys, ok : {FALSE}]

SetAnswer(k, ok) == [type |-> "SET_RET", key |-> k, ok |-> ok]
GetAnswer(k, v)  == [type |-> "GET_RET", key |-> k, ok |-> TRUE, value |-> v]
GetRefused(k)    == [type |-> "GET_RET", key |-> k, ok |-> FALSE]

Init ==
  /\ kv = [k \in Keys |-> Absent]
  /\ answer = NoAnswer

(* A write that succeeds.                                                  *)
Write(k, v) ==
  /\ kv' = [kv EXCEPT ![k] = v]
  /\ answer' = SetAnswer(k, TRUE)

(* A write that fails: the key keeps its value, loses it, or has the new   *)
(* one all the same.                                                       *)
Fail(k, v) ==
  /\ \E left \in {kv[k], v, Absent, Damaged} : kv' = [kv EXCEPT ![k] = left]
  /\ answer' = SetAnswer(k, FALSE)

Read(k) ==
  /\ \/ /\ kv[k] \in Values
        /\ answer' = GetAnswer(k, kv[k])
     \/ /\ kv[k] = Damaged
        /\ \E v \in Values \cup {Garbled} : answer' = GetAnswer(k, v)
     \/ answer' = GetRefused(k)
  /\ UNCHANGED kv

(* Something else was answered, or another request begun.                  *)
Forget ==
  /\ answer' = NoAnswer
  /\ UNCHANGED kv

(* The partition ends: what was stored is gone with its index.             *)
Lose ==
  /\ kv' = [k \in Keys |-> Absent]
  /\ answer' = NoAnswer

Next ==
  \/ \E k \in Keys :
       \/ \E v \in Values : Write(k, v) \/ Fail(k, v)
       \/ Read(k)
  \/ Forget
  \/ Lose

Spec == Init /\ [][Next]_kvVars
=============================================================================
