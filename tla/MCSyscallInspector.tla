------------------------- MODULE MCSyscallInspector -------------------------
(***************************************************************************)
(* Small instances of SyscallInspector for TLC: the policies are the       *)
(* subsequences of one in the shape of app.policy, and some odd ones.      *)
(***************************************************************************)
EXTENDS SyscallInspector

CONSTANTS t1, t2 \* tracees

ATrace(c, r) == [op |-> "trace", call |-> c, reg |-> r]
OneTrace(c) == [op |-> "map", call |-> c]
ATest(c, t, items) == [op |-> "test", call |-> c, type |-> t, items |-> items]
OpenBlockOf(items) == [op |-> "open", items |-> items]

Skipped(entry) == [op |-> "skip", entry |-> entry]
Unknown(entry) == [op |-> "short", entry |-> entry]

MCBlocks == {<<>>, <<"lib">>, <<"odd">>, <<"bad">>, <<"lib", "odd">>}

Policy ==
  << ATrace("clone", "none"), ATrace("exit", "none"), ATrace("stat", "PTR"), ATrace("open", "none"),
     ATrace("socket", "INT"), OpenBlockOf(<<"lib", "odd">>),
     OneTrace("clone"), OneTrace("stat"), OneTrace("open"), ATest("socket", "INT", <<"bad">>) >>

Without(dropped) ==
  LET kept == SelectSeq([i \in DOMAIN Policy |-> i], LAMBDA i : i \notin dropped)
  IN [i \in DOMAIN kept |-> Policy[kept[i]]]

OddPolicies ==
  { <<Unknown("odd")>>,
    <<OpenBlockOf(<<"lib">>)>>,
    <<ATrace("stat", "PTR"), OpenBlockOf(<<"odd">>)>>,
    <<ATrace("stat", "PTR"), ATrace("stat", "INT"), OpenBlockOf(<<"lib">>)>>,
    <<ATrace("stat", "PTR"), Skipped("bad"), [op |-> "allow", call |-> "socket"],
      OpenBlockOf(<<"lib">>), OpenBlockOf(<<"odd">>)>>,
    <<ATrace("stat", "PTR"), OpenBlockOf(<<"lib">>), ATest("socket", "PTR", <<"lib">>)>>,
    <<ATrace("stat", "PTR"), OpenBlockOf(<<"lib">>), ATest("socket", "INT", <<>>)>>,
    <<ATest("socket", "INT", <<"bad">>)>>,
    <<ATrace("open", "none"), ATest("socket", "INT", <<"odd">>)>>,
    <<ATrace("open", "none"), OpenBlockOf(<<"lib">>), OneTrace("open"), OneTrace("stat"), Unknown("}")>>,
    <<ATrace("open", "none"), OneTrace("open"), Skipped("lib"), OpenBlockOf(<<>>)>>,
    <<ATrace("open", "none"), OneTrace("open"), OneTrace("stat"), OpenBlockOf(<<"lib">>)>> }

(* The odd ones, and the policy without any of the lines for open, socket, *)
(* and level 1.                                                            *)
MCFiles == OddPolicies \cup {Without(d) : d \in SUBSET {4, 5, 7, 8, 9, 10}}

(* dirname cuts the path to its directory, which is what the item names.   *)
MCMatched == [i \in {"lib"} |-> {"lib/f"}]
=============================================================================
