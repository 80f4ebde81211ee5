------------------------------- MODULE MCRunner -------------------------------
(* A tick is about ten seconds; the scanner loops until it is signalled, or *)
(* leaves after one pass or after some seconds.                             *)
EXTENDS Runner

MCArguments == {[passes |-> p, seconds |-> 0] : p \in 0..1} \cup {[passes |-> 0, seconds |-> 2]}
=============================================================================
