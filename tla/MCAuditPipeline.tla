--------------------------- MODULE MCAuditPipeline ---------------------------
(***************************************************************************)
(* Model values for TLC.                                                   *)
(***************************************************************************)
EXTENDS AuditPipeline

CONSTANTS e1, e2, e3
=============================================================================
