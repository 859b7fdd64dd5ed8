---------------------------- MODULE MCDiscovery -----------------------------
(***************************************************************************)
(* Instance of Discovery for TLC: two processes of the default socket and  *)
(* one of another, and activities that may have that one in their          *)
(* environment.                                                            *)
(***************************************************************************)
EXTENDS Discovery

MCBase == [p \in Procs |-> "home"]
MCPath == [p \in Procs |-> IF p = "elsewhere" THEN "other.sock" ELSE "daemon.sock"]
=============================================================================
