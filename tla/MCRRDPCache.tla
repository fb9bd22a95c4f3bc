---------------------------- MODULE MCRRDPCache ----------------------------
(* A small instance of RRDPCache for TLC: two processes, two objects.      *)
EXTENDS RRDPCache, TLC

CONSTANTS p1, p2, u1, u2, k1, k2, k3

CacheSymmetry == Permutations(Packs) \cup Permutations(Procs) \cup Permutations(URIs)
=============================================================================
