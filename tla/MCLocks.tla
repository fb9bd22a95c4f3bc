------------------------------- MODULE MCLocks -------------------------------
(***************************************************************************)
(* Small instances for TLC of what works under a lock: the manifest        *)
(* histories of a directory, under lock directories, and the associations  *)
(* of an organization, under its lock in memory.  They share nothing; a    *)
(* behaviour is one of one of them.                                        *)
(***************************************************************************)
EXTENDS ManifestHistory, OrgLock, TLC

VARIABLE part

AllMutations == [kind : {"add", "remove"}, assoc : Assocs]

LocksInit == part \in {"histories", "organization"} /\ Init /\ LockInit
LocksNext ==
  /\ UNCHANGED part
  /\ \/ part = "histories" /\ Next /\ UNCHANGED lockVars
     \/ part = "organization" /\ LockNext /\ UNCHANGED vars
LocksSpec == LocksInit /\ [][LocksNext]_<<part, vars, lockVars>>

\* Bound: the server has at most one request left that nobody waits for.
OneAbandonedRequest == Cardinality({r \in requests : r.call = Nil}) <= 1

\* No definition chooses between two processes, calls, hashes, locks or
\* associations.  The parts share values, so that the group stays small.
Symmetry == Permutations(Procs) \cup Permutations(Hashes) \cup Permutations(Assocs)
=============================================================================
