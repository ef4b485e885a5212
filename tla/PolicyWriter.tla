---------------------------- MODULE PolicyWriter ----------------------------
(***************************************************************************)
(* How a policy file becomes a syscall inspector (policy_writer.py and the *)
(* Makefile): parse_policy reads the file line by line into lists, main    *)
(* writes them as C into master_inspector.c, and the compiler has the last *)
(* word.  One step is one iteration of parse_policy's loop, which takes a  *)
(* block up to its closing brace at once; "1 TRACE open" is taken for a    *)
(* block too, and goes on step by step to the next brace there is.         *)
(*                                                                         *)
(* A line is abstracted to what the tokens make of it.  "skip" is what the *)
(* loop ignores: a blank line, a comment, and every line of three or more  *)
(* tokens it does not know, "0 TRACE open RDI_PTR" among them.  "short" is *)
(* an unknown line of fewer tokens, on which tokens[2] raises, a brace of  *)
(* its own among them.  An entry of a block is what the open branch makes  *)
(* of its line: an item, "odd" if there is no colon, "bad" if not one bar  *)
(* follows the colon or what precedes the bar is unknown.                  *)
(***************************************************************************)
EXTENDS Naturals, Sequences, FiniteSets

CONSTANTS Calls,  \* system calls, "open" among them
          Items,  \* what an entry of an open block may name
          Blocks, \* the blocks: sequences of entries
          Files   \* the policy files

Entry == Items \cup {"odd", "bad"}

Lines ==
  [op : {"skip"}, entry : Entry] \cup [op : {"short"}, entry : Entry \cup {"}"}]
    \cup [op : {"allow", "map"}, call : Calls]
    \cup [op : {"trace"}, call : Calls, reg : {"none", "INT", "PTR"}]
    \cup [op : {"test"}, call : Calls, type : {"INT", "PTR"}, items : Blocks]
    \cup [op : {"open"}, items : Blocks]

ASSUME WriterAssumption ==
  /\ "open" \in Calls
  /\ Items \cap {"odd", "bad", "}"} = {}
  /\ Blocks \subseteq Seq(Entry)
  /\ Files \subseteq Seq(Lines)

VARIABLES file,    \* the policy file
          genPc,   \* "parse", "block" (after "1 TRACE open"), "failed" (an exception, or
           \* g++ refuses), "built"
          curline, \* lines read so far
          allow,   \* allow_list
          traced,  \* traced_list: calls with the register to print
          tests,   \* test_dict: the calls it has, with the type of the last argument
          open,    \* open_dict: its entries; argdict in a block
          polMap,  \* policy_map_list
          bound,   \* which of parse_policy's locals out, path, open_dict are bound
          path     \* the last entry that path and trans were set to

genVars == <<file, genPc, curline, allow, traced, tests, open, polMap, bound, path>>

WriterTypeOK ==
  /\ file \in Files
  /\ genPc \in {"parse", "block", "failed", "built"}
  /\ curline \in 0 .. Len(file)
  /\ allow \subseteq Calls
  /\ traced \in Seq([call : Calls, reg : {"none", "INT", "PTR"}])
  /\ tests \subseteq [call : Calls, type : {"INT", "PTR"}, empty : BOOLEAN]
  /\ open \subseteq Items
  /\ polMap \subseteq Calls
  /\ bound \subseteq {"out", "path", "open"}
  /\ path \in Items \cup {"odd"}

WriterInit ==
  /\ file \in Files
  /\ genPc = "parse"
  /\ curline = 0
  /\ allow = {}
  /\ traced = <<>>
  /\ tests = {}
  /\ open = {}
  /\ polMap = {}
  /\ bound = {}
  /\ path = "odd"

-----------------------------------------------------------------------------
(* parse_policy.                                                           *)

IsLine(op) ==
  /\ genPc = "parse"
  /\ curline < Len(file)
  /\ file[curline + 1].op = op

Line == file[curline + 1]

Consumed == curline' = curline + 1 /\ UNCHANGED <<file, genPc>>

Dies ==
  /\ genPc' = "failed"
  /\ UNCHANGED <<file, curline, allow, traced, tests, open, polMap, bound, path>>

Skip == IsLine("skip") /\ Consumed /\ UNCHANGED <<allow, traced, tests, open, polMap, bound, path>>

Short == IsLine("short") /\ Dies

Allow ==
  /\ IsLine("allow")
  /\ allow' = allow \cup {Line.call}
  /\ Consumed
  /\ UNCHANGED <<traced, tests, open, polMap, bound, path>>

Trace ==
  /\ IsLine("trace")
  /\ traced' = Append(traced, [call |-> Line.call, reg |-> Line.reg])
  /\ bound' = bound \cup {"out"}
  /\ Consumed
  /\ UNCHANGED <<allow, tests, open, polMap, path>>

(* A TEST_ARGS: printing the block needs out, which only A TRACE sets, and *)
(* a line without a colon cannot be split.                                 *)
TestArgs ==
  /\ IsLine("test")
  /\ IF "out" \in bound /\ \A k \in DOMAIN Line.items : Line.items[k] # "odd"
     THEN /\ tests' = {t \in tests : t.call # Line.call}
                        \cup {[call |-> Line.call, type |-> Line.type, empty |-> Line.items = <<>>]}
          /\ Consumed
          /\ UNCHANGED <<allow, traced, open, polMap, bound, path>>
     ELSE Dies

(* Mutant: an odd line is entered as it stands.                            *)
EntriesOdd(items) == {items[k] : k \in DOMAIN items}

(* The entries of an open block: an odd line adds the one before it again, *)
(* and raises if there has been none in the whole file.                    *)
Named(items) == {k \in DOMAIN items : items[k] \in Items}
OddFirst(items) == items # <<>> /\ items[1] = "odd"
Entries(items) == {items[k] : k \in Named(items)} \cup (IF OddFirst(items) THEN {path} ELSE {})

Raises(items) ==
  \/ OddFirst(items) /\ "path" \notin bound
  \/ \E k \in DOMAIN items : items[k] = "bad"

(* The entries are taken in turn; locals are what gets bound besides path. *)
Takes(items, locals) ==
  \/ /\ Named(items) = {}
     /\ bound' = bound \cup locals
     /\ UNCHANGED path
  \/ \E k \in Named(items) :
       /\ \A j \in Named(items) : j <= k
       /\ bound' = bound \cup locals \cup {"path"}
       /\ path' = items[k]

OpenBlock ==
  /\ IsLine("open")
  /\ IF Raises(Line.items) \/ "out" \notin bound
     THEN Dies
     ELSE /\ open' = Entries(Line.items)
          /\ Takes(Line.items, {"open"})
          /\ Consumed
          /\ UNCHANGED <<allow, traced, tests, polMap>>

(* "1 TRACE open" never reaches the branch for the map: whatever           *)
(* "1 ... open" is, the branch before takes it for an open block.          *)
MapLine ==
  /\ IsLine("map")
  /\ Line.call # "open"
  /\ polMap' = polMap \cup {Line.call}
  /\ Consumed
  /\ UNCHANGED <<allow, traced, tests, open, bound, path>>

MapOpen ==
  /\ IsLine("map")
  /\ Line.call = "open"
  /\ genPc' = "block"
  /\ open' = {}
  /\ curline' = curline + 1
  /\ UNCHANGED <<file, allow, traced, tests, polMap, bound, path>>

(* What that block finds in a line of the file: the head of a block is an  *)
(* odd line, and its brace ends both.                                      *)
Brace == Line.op \in {"open", "test"} \/ (Line.op = "short" /\ Line.entry = "}")

LookAhead ==
  CASE Line.op \in {"open", "test"} -> <<"odd">> \o Line.items
    [] Line.op \in {"skip", "short"} -> IF Brace THEN <<>> ELSE <<Line.entry>>
    [] OTHER -> <<"odd">>

BlockLine ==
  /\ genPc = "block"
  /\ curline < Len(file)
  /\ IF Raises(LookAhead) \/ (Brace /\ "out" \notin bound)
     THEN Dies
     ELSE /\ open' = open \cup Entries(LookAhead)
          /\ Takes(LookAhead, IF Brace THEN {"open"} ELSE {})
          /\ genPc' = IF Brace THEN "parse" ELSE "block"
          /\ curline' = curline + 1
          /\ UNCHANGED <<file, allow, traced, tests, polMap>>

(* The file ends before a brace.                                           *)
BlockEndless == genPc = "block" /\ curline = Len(file) /\ Dies

-----------------------------------------------------------------------------
(* main, and the compiler.                                                 *)

Tested == {t.call : t \in tests}

(* A traced call that is also in test_dict gets no rule.                   *)
TraceRules == {traced[i].call : i \in DOMAIN traced} \ Tested

(* The case labels that the two lists add to the switch of the master,     *)
(* which has one for open already.                                         *)
Cases == {i \in DOMAIN traced : traced[i].call \notin Tested /\ traced[i].reg # "none"}
Duplicated ==
  \/ "open" \in Tested
  \/ \E i \in Cases : traced[i].call = "open"
  \/ \E i, j \in Cases : i # j /\ traced[i].call = traced[j].call

(* open_dict is unbound in a file with no open block; an empty TEST_ARGS   *)
(* block has nothing to pop; one of strings has no switch_body, or becomes *)
(* a switch over a string.                                                 *)
Generate ==
  /\ genPc = "parse"
  /\ curline = Len(file)
  /\ genPc' = IF \/ "open" \notin bound
                \/ \E t \in tests : t.empty \/ t.type = "PTR"
                \/ Duplicated
             THEN "failed"
             ELSE "built"
  /\ UNCHANGED <<file, curline, allow, traced, tests, open, polMap, bound, path>>

WriterNext ==
  \/ Skip \/ Short \/ Allow \/ Trace \/ TestArgs \/ OpenBlock \/ MapLine \/ MapOpen
  \/ BlockLine \/ BlockEndless
  \/ Generate
=============================================================================
