----------------------------- MODULE MCUpgrade -----------------------------
(* Three builds, so that one can be staged, overtaken and published again. *)
EXTENDS Upgrade
=============================================================================
