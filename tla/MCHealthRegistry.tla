-------------------------- MODULE MCHealthRegistry --------------------------
(* HealthRegistry for TLC: the base registry lists i1 before i2.           *)
EXTENDS HealthRegistry

CONSTANTS i1, i2

OneThenTwo == <<i1, i2>>
=============================================================================
