------------------------- MODULE MCExchangeJournal -------------------------
(* A small instance of ExchangeJournal for TLC. *)
EXTENDS ExchangeJournal, TLC

CONSTANTS p1, p2

Symmetry == Permutations(Procs)
=============================================================================
