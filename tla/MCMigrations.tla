--------------------------- MODULE MCMigrations ---------------------------
(* Model-checking instances of Migrations. *)
EXTENDS Migrations, TLC

CONSTANTS p1, p2, p3

\* Two servers migrate by themselves, one only checks.
TwoMigrate == p1 :> TRUE @@ p2 :> TRUE @@ p3 :> FALSE
=============================================================================
