----------------------------- MODULE MCPrintQueue -----------------------------
(***************************************************************************)
(* A till with two receipts and flushes that take one, a printer that may  *)
(* refuse, two calls of flush at once, and presses without end.            *)
(***************************************************************************)
EXTENDS PrintQueue
=============================================================================
