----------------------------- MODULE MCTypeInit -----------------------------
(* Instances of TypeInit for TLC. *)
EXTENDS TypeInit, TLC

CONSTANTS A, B, C

\* A's initialiser uses B, then itself, then C; B's uses C.
AcyclicBody == (A :> <<B, A, C>>) @@ (B :> <<C>>) @@ (C :> <<>>)

\* A and B refer to one another, as two mutually dependent classes do.
CyclicBody == (A :> <<A, B>>) @@ (B :> <<C, A>>) @@ (C :> <<>>)

=============================================================================
