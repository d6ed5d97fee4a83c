------------------------------ MODULE MCPagos ------------------------------
(* Small instances of Pagos: one apartment, at most two receipts.           *)
EXTENDS PagosContables

CONSTANTS r1, r2, p1, p2, s1, s2

\* every payment declares the months of both receipts
MCCoincide == [p \in Pagos |-> Recibos]

\* the form names no receipt, or the first one
MCSeleccion == {{}, {r1}}

MCSimetria == Permutations(Sesiones)
=============================================================================
