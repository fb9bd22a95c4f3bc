------------------------ MODULE MCCertificatePaths ------------------------
(* A small instance of CertificatePaths for TLC.                           *)
EXTENDS CertificatePaths, TLC
LOCAL INSTANCE SequencesExt

\* The canonical sequence of every set of numbers, by its runs.
Runs(S) ==
  {r \in Ranges!NumberRange : /\ r.min .. r.max # {} /\ r.min .. r.max \subseteq S
                                    /\ r.min - 1 \notin S /\ r.max + 1 \notin S}
AllCanonicals ==
  {SetToSortSeq(Runs(S), LAMBDA p, q : p.min < q.min) : S \in SUBSET Ranges!Number}

\* No definition chooses between callers, families or processes.
Symmetry == Permutations(Callers)
\* Bound: in the second tick one caller runs at a time, and if both issuers
\* publish anew they have done so by the first.
Bound ==
  decider = "verification" /\ clock = 2 =>
    /\ \E c \in Callers : call[c] = None
    /\ \/ \E k \in Paths!Issuers : Len(log[k]) = 1
       \/ \A k \in Paths!Issuers : log[k][2].time <= 1
=============================================================================
