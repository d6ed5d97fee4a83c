----------------------------- MODULE MCCobranza -----------------------------
(* Small instances of CobranzaSnapshot: one building.                      *)
EXTENDS CobranzaSnapshot

CONSTANTS e1, e2, t1, t2, l1, l2

MCSimetria == Permutations(Escritores) \cup Permutations(Tareas) \cup Permutations(Lectores)
=============================================================================
