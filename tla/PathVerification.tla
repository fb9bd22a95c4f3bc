-------------------------- MODULE PathVerification --------------------------
(***************************************************************************)
(* From a certificate to its trust anchor: discovering the issuers above   *)
(* it, retrieving what each of them publishes, verifying the path and      *)
(* remembering its manifests.                                              *)
(*                                                                         *)
(* Level 0 is the certificate of this provider's CA, level Depth the       *)
(* anchor.  The issuer of a level publishes a manifest, a CRL and the      *)
(* certificate of the level below, in a repository of its own.  Each       *)
(* repository is read at its own moment and may change between two reads.  *)
(* It is read through a cache (RRDPCache) that may keep what it has, and   *)
(* may go back to an older publication when the repository changes its     *)
(* session, so nothing is assumed of which publication a read shows.       *)
(* Callers run at the same time and share the history (ManifestHistory,    *)
(* which shows that its lock makes a verification one step).               *)
(*                                                                         *)
(* Abstracted: encodings, profiles, sizes and signatures, which an issuer  *)
(* of the path always gets right; the expiry of certificates; what the     *)
(* path's resources are (ResourcePath).                                    *)
(***************************************************************************)
EXTENDS Integers, FiniteSets, Sequences

CONSTANTS
  Callers,      \* calls into the provider that verify paths
  Depth,        \* issuers of a path, the anchor included
  Validity,     \* ticks from a manifest's or CRL's thisUpdate to its nextUpdate
  None,         \* nil
  MaxPubs,      \* bound: publications of an issuer
  MaxClock      \* bound: the clock

Assumption ==
  /\ Depth \in Nat \ {0} /\ MaxPubs \in Nat \ {0}
  /\ Validity \in Nat \ {0} /\ MaxClock \in Nat
  /\ None \notin 1 .. MaxPubs

Issuers == 1 .. Depth
Below == 0 .. Depth - 1               \* the levels with an issuer
Serial == 1 .. MaxPubs
Publication == [time : 0 .. MaxClock, child : Serial \cup {None}, crl : SUBSET Serial]
Path == [Below -> Serial \cup {None}]
Workflows == {"discover", "issue", "retire"}
Call == [op : Workflows, at : {"discover", "retrieve", "verify"}, now : 0 .. MaxClock,
         path : Path, level : Issuers, pubs : [Issuers -> 0 .. MaxPubs]]
Result == [op : Workflows, path : Path, time : 0 .. MaxClock]
NoneAssumption == None \notin Call \cup Result

VARIABLES
  log,      \* each issuer's publications, in order; the index is the manifest number
  clock,    \* the time
  mark,     \* the manifest history: the greatest number verified, or 0
  call,     \* the running call of each caller, or None
  last,     \* history: the path that the last step accepted, or None
  retired   \* history: certificates proved to be retired

vars == <<log, clock, mark, call, last, retired>>

\* The issuers have given out a certificate each, and may have revoked it.
First == [time : {0}, child : {1}, crl : {{}, {1}}]
Init ==
  /\ log \in {[i \in Issuers |-> <<p>>] : p \in First} /\ clock = 0
  /\ mark = [i \in Issuers |-> 0]
  /\ call = [c \in Callers |-> None] /\ last = None /\ retired = {}

\* The serials that the issuer of a level has given out.
Given(i) == {log[i][k].child : k \in DOMAIN log[i]} \ {None}
At(c, at) == call[c] # None /\ call[c].at = at
\* RefreshDiskPersistent: the cache as it is, a newer publication of its
\* session, or any publication of another session.
Refreshed(i) == 1 .. Len(log[i])
-----------------------------------------------------------------------------
(* A call *)

NewCall(op, path) ==
  [op |-> op, at |-> IF op = "discover" /\ Depth > 1 THEN "discover" ELSE "retrieve",
   now |-> clock, path |-> path, level |-> 1, pubs |-> [i \in Issuers |-> 0]]

\* Discovery starts with the certificate alone, the other workflows with the
\* configured issuers.
Start(c) ==
  /\ call[c] = None
  /\ \E op \in Workflows, path \in Path :
       /\ path[0] \in Given(1)
       /\ \A i \in Below \ {0} : IF op = "discover" THEN path[i] = None ELSE path[i] \in Given(i + 1)
       /\ call' = [call EXCEPT ![c] = NewCall(op, path)]
  /\ last' = None /\ UNCHANGED <<log, clock, mark, retired>>

WithIssuer(d, cert) ==
  LET found == [d EXCEPT !.path[d.level] = cert] IN
  IF d.level + 1 < Depth THEN [found EXCEPT !.level = @ + 1]
  ELSE [found EXCEPT !.at = "retrieve", !.level = 1]
\* DiscoverPath: the certificate that the next repository has for an issuer.
Discover(c) ==
  /\ At(c, "discover") /\ call[c].level < Depth
  /\ LET i == call[c].level + 1 IN
     \E k \in Refreshed(i) :
       /\ log[i][k].child # None
       /\ call' = [call EXCEPT ![c] = WithIssuer(call[c], log[i][k].child)]
  /\ last' = None /\ UNCHANGED <<log, clock, mark, retired>>

\* retrievePath: the issuer must publish the very certificate of the path,
\* except the one that is being retired.
Publishes(c, i, k) ==
  log[i][k].child = call[c].path[i - 1] \/ (call[c].op = "retire" /\ i = 1)
WithPublication(d, k) ==
  LET read == [d EXCEPT !.pubs[d.level] = k] IN
  IF d.level < Depth THEN [read EXCEPT !.level = @ + 1] ELSE [read EXCEPT !.at = "verify"]
Retrieve(c) ==
  /\ At(c, "retrieve")
  /\ LET i == call[c].level IN
     \E k \in Refreshed(i) :
       /\ Publishes(c, i, k)
       /\ call' = [call EXCEPT ![c] = WithPublication(call[c], k)]
  /\ last' = None /\ UNCHANGED <<log, clock, mark, retired>>

\* The check after an issuance takes the time anew.
Now(c) == IF call[c].op = "issue" THEN clock ELSE call[c].now
Used(c, i) == log[i][call[c].pubs[i]]
\* checkFiles and resourceCertificateUnrevoked: manifest and CRL are current.
Current_Begun(c, i) == Used(c, i).time <= Now(c)
Current(c, i) ==
  Used(c, i).time <= Now(c) /\ Now(c) < Used(c, i).time + Validity
Unrevoked_Listed(c, i) == Used(c, i).child = call[c].path[i - 1]
Unrevoked(c, i) ==
  Used(c, i).child = call[c].path[i - 1] /\ call[c].path[i - 1] \notin Used(c, i).crl
\* checkRPKIRetirementProof: on the CRL, and no certificate of its key is left.
Retired_Unlisted(c) == Used(c, 1).child = None
Retired(c) == Used(c, 1).child = None /\ call[c].path[0] \in Used(c, 1).crl
\* rememberRPKIManifest: no number may fall, and a greater one must be newer.
NotBehind(c, i) ==
  /\ call[c].pubs[i] >= mark[i]
  /\ mark[i] \in 1 .. call[c].pubs[i] - 1 => Used(c, i).time > log[i][mark[i]].time
Remembered_Upstream(c) ==
  [i \in Issuers |-> IF call[c].op = "retire" /\ i = 1 THEN mark[i] ELSE call[c].pubs[i]]
Remembered(c) == call[c].pubs

Authentic(c) ==
  \A i \in Issuers :
    /\ Current(c, i) /\ NotBehind(c, i)
    /\ IF call[c].op = "retire" /\ i = 1 THEN Retired(c) ELSE Unrevoked(c, i)
Verify(c) ==
  /\ At(c, "verify") /\ Authentic(c)
  /\ mark' = Remembered(c)
  /\ call' = [call EXCEPT ![c] = None]
  /\ last' = [op |-> call[c].op, path |-> call[c].path, time |-> Now(c)]
  /\ retired' = retired \cup (IF call[c].op = "retire" THEN {call[c].path[0]} ELSE {})
  /\ UNCHANGED <<log, clock>>

\* A failed request or check, a crash: the history stays.
Fail(c) ==
  /\ call[c] # None /\ call' = [call EXCEPT ![c] = None]
  /\ last' = None /\ UNCHANGED <<log, clock, mark, retired>>
\* The history was saved, and the lock could not be removed or the process
\* ended: nothing is accepted.
SavedInVain(c) ==
  /\ At(c, "verify") /\ Authentic(c) /\ mark' = Remembered(c)
  /\ call' = [call EXCEPT ![c] = None]
  /\ last' = None /\ UNCHANGED <<log, clock, retired>>
-----------------------------------------------------------------------------
(* The issuers and the clock *)

\* An issuer publishes what it had, a new certificate for the level below, or
\* none; what was given out before is revoked now, or stays valid.  It may be
\* published although it is revoked.
Publish(i) ==
  /\ Len(log[i]) < MaxPubs
  /\ LET old == log[i][Len(log[i])]  new == Len(log[i]) + 1 IN
     \E child \in {old.child, new, None}, revoked \in {{}, Given(i)} :
       /\ log' = [log EXCEPT ![i] = Append(@, [time |-> clock, child |-> child,
                                               crl |-> old.crl \cup revoked])]
  /\ last' = None /\ UNCHANGED <<clock, mark, call, retired>>
Tick ==
  /\ clock < MaxClock /\ clock' = clock + 1
  /\ last' = None /\ UNCHANGED <<log, mark, call, retired>>

CallStep(c) ==
  Start(c) \/ Discover(c) \/ Retrieve(c) \/ Verify(c) \/ Fail(c) \/ SavedInVain(c)
Next == (\E c \in Callers : CallStep(c)) \/ (\E i \in Issuers : Publish(i)) \/ Tick
Spec == Init /\ [][Next]_vars
-----------------------------------------------------------------------------
(* Properties *)

\* Publications and calls keep to their domains, and neither the history nor
\* a call knows of a manifest that was not published.
TypeOK ==
  /\ log \in [Issuers -> Seq(Publication)] /\ clock \in 0 .. MaxClock
  /\ mark \in [Issuers -> 0 .. MaxPubs]
  /\ call \in [Callers -> {None} \cup Call]
  /\ \A i \in Issuers :
       /\ Len(log[i]) \in Serial /\ mark[i] <= Len(log[i])
       /\ \A c \in Callers : call[c] # None => call[c].pubs[i] <= Len(log[i])
  /\ last # None => last \in Result /\ \A i \in Below : last.path[i] # None
  /\ retired \subseteq Serial

\* A path that is accepted has no certificate, at any level, whose revocation
\* its issuer had published for as long as a CRL is valid: however old what
\* the caches show and however the repositories were read one after another.
NoneLongRevoked ==
  last # None =>
    \A i \in Issuers, k \in 1 .. MaxPubs :
      k <= Len(log[i]) /\ log[i][k].time + Validity <= last.time
        /\ ~(last.op = "retire" /\ i = 1)
      => last.path[i - 1] \notin log[i][k].crl

\* A retirement is proved only of a certificate that its issuer revoked and
\* no longer publishes.
RetirementIsReal ==
  \A s \in retired : \E k \in DOMAIN log[1] : s \in log[1][k].crl /\ log[1][k].child = None

\* "Preventing rollback across the two workflows": no path with a certificate
\* that was proved retired is accepted afterwards, by any caller, also one
\* that had retrieved its publications before the proof.
RetirementIsFinal ==
  last' # None => last'.op = "retire" \/ last'.path[0] \notin retired
-----------------------------------------------------------------------------
(* The inductive invariant: an issuer never takes a revocation back, a     *)
(* call has filled in what it goes on to use, and the history is as new as *)
(* any proof of a retirement.                                              *)
LogInv ==
  \A i \in Issuers : \A k, n \in 1 .. Len(log[i]) :
    /\ log[i][k].time <= clock
    /\ k <= n => log[i][k].time <= log[i][n].time /\ log[i][k].crl \subseteq log[i][n].crl
Filled(d) ==
  /\ d.path[0] # None /\ d.now <= clock
  /\ d.at = "discover" => \A i \in Below : i < d.level => d.path[i] # None
  /\ d.at # "discover" => \A i \in Below : d.path[i] # None
  /\ d.at = "retrieve" => \A i \in Issuers : i < d.level => d.pubs[i] # 0
  /\ d.at = "verify" => \A i \in Issuers : d.pubs[i] # 0
CallInv == \A c \in Callers : call[c] # None => Filled(call[c])
RetiredInv ==
  \A s \in retired : \E k \in 1 .. mark[1] : s \in log[1][k].crl /\ log[1][k].child = None

IInv == TypeOK /\ LogInv /\ CallInv /\ RetiredInv /\ NoneLongRevoked
=============================================================================
