---------------------------- MODULE MCNodeGraph ----------------------------
(* Two programs: the observer test, with a join of two inputs; and a chain *)
(* of the legacy nodes whose last one drains its input.  Two more, of a    *)
(* node per kind, end: with producers first, as in the test, and last.     *)
EXTENDS NodeGraph, ExampleNodes

MCCompute(n, x) == Combined(Operation[n], x)

AllTopics == {NumberGen, Sum, Dif, MultSums, MultSumDif, FinalRes}

MCEnding == {ShortProgram, ReversedProgram}

MCPrograms == MCEnding \cup {TestProgram, LegacyProgram}

(* The test from its construction to its destruction.                      *)
TestAlone == {TestProgram}
=============================================================================
