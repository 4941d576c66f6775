----------------------------- MODULE MCProvision -----------------------------
(* Values for the constants of Provision: the volume there is has the first name. *)
EXTENDS Provision

CONSTANTS k1, k2, o1

FirstTaken == [v \in {o1} |-> 1]
=============================================================================
