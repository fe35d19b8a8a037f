------------------------------ MODULE MCBenchmark ------------------------------
(***************************************************************************)
(* What the generators return in the run of Benchmark: more than one phase *)
(* draws, so that a phase that does not start over reads other blocks.     *)
(***************************************************************************)
EXTENDS Benchmark

TwoDraws == { <<0, 0, 1, 1>>, <<1, 0, 0, 1>> }
=============================================================================
