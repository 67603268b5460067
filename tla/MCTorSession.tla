----------------------------- MODULE MCTorSession -----------------------------
(* Small instances of TorSession for TLC. *)
EXTENDS TorSession
=============================================================================
