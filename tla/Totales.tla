------------------------------ MODULE Totales ------------------------------
(* Adding up what a function gives for each member of a finite set.         *)
EXTENDS Integers, FiniteSetsExt

Suma(g, S) == MapThenSumSet(LAMBDA x : g[x], S)
=============================================================================
