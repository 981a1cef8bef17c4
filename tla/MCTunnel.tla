------------------------------ MODULE MCTunnel ------------------------------
(* Two nodes with an agent each, and one request at a time. *)
EXTENDS Tunnel
=============================================================================
