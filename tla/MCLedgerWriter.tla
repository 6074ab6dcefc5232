--------------------------- MODULE MCLedgerWriter ----------------------------
(***************************************************************************)
(* Small instances of LedgerWriter for TLC.                                *)
(***************************************************************************)
EXTENDS LedgerWriter

\* Every statement of a write may fail.
AnyStatement == Steps
=============================================================================
