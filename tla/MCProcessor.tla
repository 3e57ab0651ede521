---------------------------- MODULE MCProcessor ----------------------------
(* Processor for TLC: workers, aggregates and deployments of the runs.     *)
EXTENDS Processor

CONSTANTS w0, w1, a, b

(* Workers are named for their partition key.                              *)
Keys == [w \in Workers |-> IF w = w1 THEN 1 ELSE 0]

(* The hash of b is owned by worker 1 of two, by worker 0 of three.        *)
HashOf == [g \in Aggregates |-> IF g = b THEN 9 ELSE 0]

One          == <<1>>
OneThenTwo   == <<1, 2>>
TwoThenThree == <<2, 3>>

=============================================================================
