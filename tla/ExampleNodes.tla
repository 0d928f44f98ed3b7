---------------------------- MODULE ExampleNodes ----------------------------
(***************************************************************************)
(* The node types of dataflow/node_examples.h and of the observer test,    *)
(* and the two programs that are checked: a record per class, see          *)
(* NodeGraph's NodeType.                                                   *)
(***************************************************************************)
EXTENDS Integers, Sequences

NumberGen == "Topic_NumberGen"
Sum       == "Topic_Sum"
Dif       == "Topic_Dif"
MultSums  == "Topic_MultSums"
MultSumDif == "Topic_MultSumDif"
FinalRes  == "Topic_FinalRes"

In(topic, consumeCount) == [topic |-> topic, consumeCount |-> consumeCount]

LegacyNode(inputs, consumes, output) ==
  [inputs |-> inputs, consumes |-> consumes, output |-> output,
   drains |-> FALSE, stages |-> FALSE]

NumberGenNode   == LegacyNode(<<>>, <<>>, NumberGen)
AddNode         == LegacyNode(<<In(NumberGen, 2)>>, <<1, 1>>, Sum)
SubNode         == LegacyNode(<<In(NumberGen, 2)>>, <<1, 1>>, Dif)
MultSumsNode    == LegacyNode(<<In(Sum, 2)>>, <<1, 1>>, MultSums)
MultSumDiffNode == LegacyNode(<<In(Sum, 1), In(Dif, 1)>>, <<1, 2>>, MultSumDif)
ResultNode      == [LegacyNode(<<In(MultSums, 1)>>, <<1>>, FinalRes)
                      EXCEPT !.drains = TRUE]

(* Node<...> with a process that stages.                                   *)
ProcessNode(inputs, consumes, output) ==
  [LegacyNode(inputs, consumes, output) EXCEPT !.stages = TRUE]

DiffProcess == ProcessNode(<<In(Sum, 2)>>, <<1, 1>>, Dif)
MultSumDiff == ProcessNode(<<In(Sum, 1), In(Dif, 1)>>, <<1, 2>>, MultSumDif)
Result      == ProcessNode(<<In(MultSumDif, 1)>>, <<1>>, FinalRes)

ClassOf ==
  [numGen |-> NumberGenNode, add |-> AddNode, sub |-> SubNode,
   multSums |-> MultSumsNode, legacyDiff |-> MultSumDiffNode,
   legacyResult |-> ResultNode, diff |-> DiffProcess,
   multSumDiff |-> MultSumDiff, result |-> Result]

(* testNodes of the observer test.                                         *)
TestProgram == <<"numGen", "add", "diff", "multSumDiff", "result">>

(* The chain of the nodes that publish without staging.                    *)
LegacyProgram == <<"numGen", "add", "multSums", "legacyResult">>

(* A part of it, as it is and with the consumers constructed first.        *)
ShortProgram    == <<"numGen", "add", "diff">>
ReversedProgram == <<"diff", "add", "numGen">>

(* What fire makes of the userData of its operands.                        *)
Combined(operation, x) ==
  CASE operation = "+" -> x[1] + x[2]
    [] operation = "-" -> x[1] - x[2]
    [] operation = "*" -> x[1] * x[2]
    [] operation = "=" -> x[1]

Operation ==
  [add |-> "+", sub |-> "-", diff |-> "-", multSums |-> "*",
   legacyDiff |-> "*", multSumDiff |-> "*", legacyResult |-> "=", result |-> "="]
=============================================================================
