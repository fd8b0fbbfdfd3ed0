------------------------------ MODULE MCDryRun ------------------------------
(***************************************************************************)
(* The instance of DryRun for TLC.                                         *)
(***************************************************************************)
EXTENDS DryRun

DryEvents == {"read_error", "save_error", "crash", "stop", "kill"}
Exact == {0}

\* Bound: exploration ends at the first order that is due after a trade was
\* forgotten.
Explored == dirty => pc \notin {"act", "deposit_buy"}
=============================================================================
