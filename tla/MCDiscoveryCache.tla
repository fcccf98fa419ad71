-------------------------- MODULE MCDiscoveryCache --------------------------
(* A small instance of the discovery cache. *)
EXTENDS DiscoveryCache
=============================================================================
