---------------------------- MODULE MCArchivos ----------------------------
(* Small instances of Archivos.                                            *)
EXTENDS Archivos, TLC

CONSTANTS r1, r2, f1, f2, f3, nada

MCSimetria == Permutations(Peticiones) \cup Permutations(Ficheros)
=============================================================================
