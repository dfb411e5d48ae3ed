---------------------------- MODULE MCResilience ----------------------------
(* Three requests to one provider and one to another, two failures open a circuit. *)
EXTENDS Resilience, TLC

CONSTANTS a1, a2, a3, b1, A, B

MCProviderOf == (a1 :> A) @@ (a2 :> A) @@ (a3 :> A) @@ (b1 :> B)
MCLimit == (A :> 2) @@ (B :> 1)
=============================================================================
