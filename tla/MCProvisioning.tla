--------------------------- MODULE MCProvisioning ---------------------------
(* A small instance of Provisioning for TLC.                               *)
EXTENDS Provisioning, TLC

CONSTANTS k1, all, part

\* Bound: the fourth second is for histories in which nobody has asked for a
\* part of the resources.
InPart(r) == r # None /\ r.body # None /\ r.body.want = part
Bound ==
  (\E j \in {original, probe} : j.sent = 4) =>
    /\ \A c \in listed.certs \cup UNION {pubs[i].certs : i \in DOMAIN pubs} : c.want = all
    /\ \A r \in net \cup {original.pending, scheduled} : ~InPart(r)
=============================================================================
