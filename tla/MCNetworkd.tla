----------------------------- MODULE MCNetworkd -----------------------------
(***************************************************************************)
(* Networkd for TLC: clients, networks and leases are interchangeable.     *)
(***************************************************************************)
EXTENDS Networkd, TLC

Symmetry ==
    Permutations(Clients) \cup Permutations(Networks) \cup Permutations(Leases)
=============================================================================
