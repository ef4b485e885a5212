--------------------------- MODULE MCBatchSystem ---------------------------
(***************************************************************************)
(* A small instance of BatchSystem.  Seven call types, by the number of    *)
(* their protobuf field; the reply to STR carries a string.                *)
(***************************************************************************)
EXTENDS BatchSystem, TLC

CONSTANTS n1, n2

MEMSIZE == 12  \* is not repeated
VCPUREG == 22  \* has no handler
PAUSE   == 34  \* has no link
R32     == 46
ADDR    == 64
STR     == 74
KV2P    == 83  \* its handler does not look at its link

AllTypes    == {MEMSIZE, VCPUREG, PAUSE, R32, ADDR, STR, KV2P}
AddedTypes  == {MEMSIZE, VCPUREG, ADDR}
HasRepeated == AllTypes \ {MEMSIZE}
FollowsLink == {R32, ADDR, STR}
HasLink     == FollowsLink \cup {KV2P}
HasHandler  == AllTypes \ {VCPUREG}

Replies == [t \in AllTypes |->
  IF t = STR THEN <<"other", "int">> ELSE IF t = PAUSE THEN <<"int">> ELSE <<"int", "int">>]
Requests == [t \in AllTypes |->
  IF t \in FollowsLink THEN <<"int", "int", "other">>
  ELSE IF t = KV2P THEN <<"int", "other">> ELSE <<"int">>]

Plain(t) == [type |-> t, link |-> NoLink]
From(t, prev, item, cur, op) ==
  [type |-> t, link |-> [prev |-> prev, item |-> item, cur |-> cur, op |-> op]]

(* Links to every place, the call's own, later ones and none included; to  *)
(* every field and one or two past the last; and no link.                  *)
Linking(t) ==
  {From(t, prev, 0, 0, "ADD") : prev \in 0 .. 4}
    \cup {From(t, 0, item, 1, "SUB") : item \in 0 .. 3}
    \cup {From(t, 0, 0, cur, "OVERWRITE") : cur \in 1 .. 4}
    \cup {Plain(t)}

Tails == {Plain(PAUSE), Plain(VCPUREG), From(KV2P, 0, 0, 0, "ADD")}
           \cup {From(R32, prev, 0, 0, "ADD") : prev \in 0 .. 2}
           \cup {From(ADDR, prev, 0, 0, "ADD") : prev \in 0 .. 2}

(* Three rounds of what batch_obj.py's own example does, with and without  *)
(* a call before them: every call follows the last round's READ_ADDR_VA.   *)
Round(prev) == <<From(STR, prev, 0, 0, "ADD"), From(R32, prev, 0, 0, "ADD"),
                 From(ADDR, prev, 0, 0, "ADD")>>
FirstRound  == <<Plain(STR), Plain(R32), Plain(ADDR)>>
Rounds      == {FirstRound \o Round(2) \o Round(5),
                <<Plain(PAUSE)>> \o FirstRound \o Round(3) \o Round(6),
                <<Plain(R32), Plain(ADDR), From(R32, 0, 0, 0, "ADD"), From(ADDR, 0, 0, 0, "ADD"),
                  From(R32, 2, 0, 0, "ADD"), From(ADDR, 2, 0, 0, "ADD")>>}

TooLong == [i \in 1 .. 11 |-> Plain(PAUSE)]

MCArrays ==
  {<<Plain(t), d>> : t \in {R32, STR, PAUSE}, d \in Linking(ADDR) \cup Linking(R32)}
    \cup {<<Plain(ADDR), c, d>> : c \in Linking(ADDR) \cup Tails, d \in Tails}
    \cup {<<Plain(R32), Plain(ADDR), c, d>> : c \in Linking(R32), d \in Tails}
    \cup Rounds \cup {TooLong, <<Plain(VCPUREG)>>}
=============================================================================
