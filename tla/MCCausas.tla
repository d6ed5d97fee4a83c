------------------------------ MODULE MCCausas ------------------------------
(* The instances of MCPagos, with the history of what may upset the accounts. *)
EXTENDS MCPagos, PagosCausas

\* no payment names a receipt: nothing tells receipts, or payments, apart
MCSimetriaCausas == MCSimetria \cup Permutations(Recibos) \cup Permutations(Pagos)
=============================================================================
