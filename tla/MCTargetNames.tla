--------------------------- MODULE MCTargetNames ---------------------------
(* Instances of TargetNames. *)
EXTENDS TargetNames

CONSTANTS a, b, d1, d2

\* One database at first, under the name a.
OneNamed == [n \in Names |-> IF n = a THEN d1 ELSE NoDb]
=============================================================================
