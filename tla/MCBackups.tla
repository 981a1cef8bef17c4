----------------------------- MODULE MCBackups -----------------------------
(* One service whose newest archive alone is kept. *)
EXTENDS Backups
=============================================================================
