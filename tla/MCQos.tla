-------------------------------- MODULE MCQos --------------------------------
(* Qos for TLC: values of Ttl, by interceptor.                             *)
EXTENDS Qos, TLC

CONSTANTS r1, r2, r3

ShortThenLong == <<1, 2>>
Long == <<9, 9>>

RequestSymmetry == Permutations(Requests)
=============================================================================
