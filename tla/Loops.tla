------------------------------- MODULE Loops -------------------------------
(* Loops of the program as functions, so that their steps can be reasoned about. *)
EXTENDS Integers, Sequences

\* Where a loop over a sequence leads.
Through(Step(_, _), start, seq) ==
  LET after[n \in 0 .. Len(seq)] == IF n = 0 THEN start ELSE Step(after[n - 1], seq[n])
  IN  after[Len(seq)]
=============================================================================
