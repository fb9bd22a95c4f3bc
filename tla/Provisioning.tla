---------------------------- MODULE Provisioning ----------------------------
(***************************************************************************)
(* One arin_rpki_certificate resource, its parent CA, the repository the   *)
(* parent publishes in, and the recovery of an uncertain issuance or       *)
(* revocation.                                                             *)
(*                                                                         *)
(* Signed requests go through the peer's journal, a recovery lists the     *)
(* inventory through a probe journal under the original's lease; both are  *)
(* taken as ExchangeJournal promises them, and the manifest history as     *)
(* ManifestWatermarks does.  History and journal are two files: the        *)
(* process may end between their saves.  The repository may be read at any *)
(* publication made so far, as caches and mirrors lag.                     *)
(*                                                                         *)
(* The parent is external: it executes a request at once or schedules it,  *)
(* may refuse it, and publishes what it lists some time later.             *)
(***************************************************************************)
EXTENDS Integers, FiniteSets, Sequences

CONSTANTS
  Keys,         \* resource keys
  Wants,        \* requested resource subsets
  None,         \* nil
  MaxTime,      \* bound: signing times are whole seconds 1..MaxTime
  MaxSerial,    \* bound: certificates issued
  MaxPubs       \* bound: publications

ASSUME BoundsAssumption == MaxTime \in Nat /\ MaxSerial \in Nat /\ MaxPubs \in Nat \ {0}

Config == [key : Keys, want : Wants]
Certificate == [key : Keys, want : Wants, serial : 1 .. MaxSerial]
Inventory == [class : BOOLEAN, certs : SUBSET Certificate]
Publication == [certs : SUBSET Certificate, crl : SUBSET (1 .. MaxSerial)]
Mutations == {"updown-issue", "updown-revoke"}
Request == [op : Mutations, body : Config, time : 1 .. MaxTime]
             \cup [op : {"updown-list"}, body : {None}, time : 1 .. MaxTime]
Evidence == [time : 1 .. MaxTime, certs : SUBSET Certificate]
Journal == [pending : Request \cup {None}, sent : 0 .. MaxTime, recovered : 0 .. MaxTime,
            list : Evidence \cup {None}]
State == [config : Config, cert : Certificate]
Calls == {"create", "update", "refresh", "import", "delete", "recover"}
Job == [op : Calls, at : {"answer", "path", "commit"}, config : Config \cup {None},
        cert : Certificate \cup {None}, found : Inventory \cup {None}]
Answer == [kind : {"issued"}, cert : Certificate] \cup [kind : {"revoked", "rejected"}]
            \cup [kind : {"list"}, inventory : Inventory]

ASSUME NoneAssumption ==
  None \notin Config \cup Certificate \cup Inventory \cup Request \cup Evidence \cup State \cup Job \cup Answer

VARIABLES
  listed,     \* the parent's inventory
  revoked,    \* serials the parent revoked
  expired,    \* serials whose notAfter has passed
  scheduled,  \* the mutation the parent will execute later, or None
  serial,     \* certificates issued so far
  accepted,   \* the latest signing time the parent accepted
  pubs,       \* the publications of the parent's repository, in order
  net,        \* requests sent and not yet received
  original,   \* the peer's journal
  probe,      \* the recovery journal of original's pending mutation
  mark,       \* the manifest history: the latest publication verified
  state,      \* the resource's Terraform state
  job,        \* the call under way, or None
  answer,     \* the authenticated answer on its connection, or None
  relied,     \* history: the publication the latest decision relied on
  recovered   \* history: was the last settled mutation a recovered issuance?

parent == <<listed, revoked, expired, scheduled, serial, accepted, pubs>>
journals == <<original, probe>>
history == <<relied, recovered>>
vars == <<parent, net, journals, mark, state, job, answer, history>>

NewJournal == [pending |-> None, sent |-> 0, recovered |-> 0, list |-> None]
Init ==
  /\ listed = [class |-> TRUE, certs |-> {}] /\ revoked = {} /\ expired = {}
  /\ scheduled = None /\ serial = 0 /\ accepted = 0
  /\ pubs = <<[certs |-> {}, crl |-> {}]>> /\ net = {}
  /\ original = NewJournal /\ probe = NewJournal /\ mark = 1
  /\ state = None /\ job = None /\ answer = None /\ relied = 1 /\ recovered = FALSE

IsMutation(r) == r # None /\ r.op \in Mutations
OfKey(certs, k) == {c \in certs : c.key = k}
-----------------------------------------------------------------------------
(* The journals, as ExchangeJournal promises them *)

CanBegin_WhilePending(j, t) == t >= j.sent /\ (j.recovered # 0 => t > j.recovered)
CanBegin(j, t) == j.pending = None /\ t >= j.sent /\ (j.recovered # 0 => t > j.recovered)
Begun_Unsaved(j, r) == [j EXCEPT !.sent = r.time]
Begun(j, r) == [j EXCEPT !.pending = r, !.sent = r.time]
Completed(j) == [j EXCEPT !.pending = None, !.list = None]
CompletedList(j, certs) ==
  [j EXCEPT !.pending = None, !.list = [time |-> j.pending.time, certs |-> certs]]
Abandoned(j) == [j EXCEPT !.pending = None, !.recovered = j.pending.time]
\* A decision takes over the probe's signing time.
Reconciled(j, p) == [j EXCEPT !.pending = None, !.sent = p.sent]
\* A request is saved as pending, then sent, unless the process fails between.
Send(r) == net' = net \cup {r} \/ UNCHANGED net

NewJob(op, config) == [op |-> op, at |-> "answer", config |-> config, cert |-> None, found |-> None]
Waiting == job # None /\ job.at = "answer" /\ answer # None
Recovering == job # None /\ job.op = "recover"
Return == job' = None /\ answer' = None
Goto(at, cert, found) ==
  job' = [job EXCEPT !.at = at, !.cert = cert, !.found = found] /\ answer' = None
-----------------------------------------------------------------------------
(* The resource's calls *)

Begin(op, config, r) ==
  /\ job = None /\ CanBegin(original, r.time)
  /\ job' = NewJob(op, config) /\ original' = Begun(original, r) /\ Send(r)
  /\ UNCHANGED <<parent, mark, state, answer, history>>

Mutate(op, request, config, t) ==
  /\ Begin(op, config, [op |-> request, body |-> config, time |-> t])
  /\ probe' = NewJournal            \* a new digest names a new journal
List(op, config, t) ==
  /\ Begin(op, config, [op |-> "updown-list", body |-> None, time |-> t])
  /\ UNCHANGED probe

\* Another key replaces the resource; other requested resources update it.
Create(config, t) == state = None /\ Mutate("create", "updown-issue", config, t)
Update(config, t) ==
  /\ state # None /\ config.key = state.config.key
  /\ Mutate("update", "updown-issue", config, t)
Delete(t) == state # None /\ Mutate("delete", "updown-revoke", state.config, t)
Read(t) == state # None /\ List("refresh", state.config, t)
ImportState(config, t) == state = None /\ List("import", config, t)

\* The definite refusals complete the exchange, a list's too.
Rejected ==
  /\ Waiting /\ answer.kind = "rejected" /\ ~Recovering
  /\ Return /\ original' = Completed(original)
  /\ recovered' = (recovered /\ ~IsMutation(original.pending))
  /\ UNCHANGED <<parent, net, probe, mark, state, relied>>

\* validateUpDownIssue passed; the exchange stays pending for the path.
Issued ==
  /\ Waiting /\ answer.kind = "issued"
  /\ Goto("path", answer.cert, None)
  /\ UNCHANGED <<parent, net, journals, mark, state, history>>

Revoked ==
  /\ Waiting /\ answer.kind = "revoked"
  /\ Return /\ original' = Completed(original) /\ state' = None /\ recovered' = FALSE
  /\ UNCHANGED <<parent, net, probe, mark, relied>>

\* readCertificate: one certificate of the key, for the requested resources.
Selected(found, config) == OfKey(found.certs, config.key)
Fits(certs, config) ==
  Cardinality(certs) = 1 /\ \A c \in certs : c.want = config.want /\ c.serial \notin expired

Listed ==
  /\ Waiting /\ answer.kind = "list" /\ ~Recovering
  /\ original' = CompletedList(original, answer.inventory.certs)
  /\ LET certs == Selected(answer.inventory, job.config) IN
     \/ /\ certs = {} /\ Return
        /\ state' = None      \* a refresh removes it, an import fails without one
     \/ /\ Fits(certs, job.config) /\ UNCHANGED state
        /\ \E c \in certs : Goto("path", c, None)
     \/ certs # {} /\ ~Fits(certs, job.config) /\ Return /\ UNCHANGED state
  /\ UNCHANGED <<parent, net, probe, mark, history>>

\* The manifest path of the certificate verifies at a publication that is not
\* behind the history, and the history is saved.
NotBehind_AnyPublication(i) == TRUE
NotBehind(i) == i >= mark
Verifies(c, i) == NotBehind(i) /\ c \in pubs[i].certs /\ c.serial \notin pubs[i].crl \cup expired
Remember_Forgets(i) == relied' = i /\ UNCHANGED mark
Remember(i) == mark' = i /\ relied' = i
VerifyPath ==
  /\ job # None /\ job.at = "path" /\ job.cert # None
  /\ \E i \in DOMAIN pubs : Verifies(job.cert, i) /\ Remember(i)
  /\ job' = [job EXCEPT !.at = "commit"]
  /\ UNCHANGED <<parent, net, journals, state, answer, recovered>>

\* CompleteSigned, or the end of a refresh, whose list is already completed.
Commit ==
  /\ job # None /\ job.at = "commit" /\ ~Recovering
  /\ Return /\ state' = [config |-> job.config, cert |-> job.cert]
  /\ IF job.op \in {"create", "update"}
     THEN original' = Completed(original) /\ recovered' = FALSE
     ELSE UNCHANGED <<original, recovered>>
  /\ UNCHANGED <<parent, net, probe, mark, relied>>

\* A lost or uncertain answer, a failed check, a crash: what is saved stays.
Fail ==
  /\ job # None /\ Return
  /\ UNCHANGED <<parent, net, journals, mark, state, history>>
-----------------------------------------------------------------------------
(* Recovery: readPendingIssuance and readPendingRevocation *)

\* rpki-journal -recover-read abandons an inventory read.
RecoverRead ==
  /\ job = None
  /\ \/ /\ original.pending # None /\ ~IsMutation(original.pending)
        /\ original' = Abandoned(original) /\ UNCHANGED probe
     \/ probe.pending # None /\ probe' = Abandoned(probe) /\ UNCHANGED original
  /\ UNCHANGED <<parent, net, mark, state, job, answer, history>>

MinimumSent_SameSecond(j) == j.sent
MinimumSent(j) == j.sent + 1
ReadPending(t) ==
  /\ job = None /\ IsMutation(original.pending)
  /\ CanBegin(probe, t) /\ t >= MinimumSent(original)
  /\ LET r == [op |-> "updown-list", body |-> None, time |-> t] IN
     probe' = Begun(probe, r) /\ Send(r)
  /\ job' = NewJob("recover", original.pending.body)
  /\ UNCHANGED <<parent, original, mark, state, answer, history>>

Issuance == Recovering /\ original.pending.op = "updown-issue"
Revocation == Recovering /\ original.pending.op = "updown-revoke"

ProbeRejected ==
  /\ Waiting /\ Recovering /\ answer.kind = "rejected"
  /\ Return /\ probe' = Completed(probe)
  /\ UNCHANGED <<parent, net, original, mark, state, history>>

\* An absent key decides nothing about an issuance.
ProbeIssuance ==
  /\ Waiting /\ Issuance /\ answer.kind = "list"
  /\ probe' = CompletedList(probe, answer.inventory.certs)
  /\ LET certs == Selected(answer.inventory, job.config) IN
     IF Fits(certs, job.config) THEN \E c \in certs : Goto("path", c, None) ELSE Return
  /\ UNCHANGED <<parent, net, original, mark, state, history>>

ProbeRevocation ==
  /\ Waiting /\ Revocation /\ answer.kind = "list"
  /\ probe' = CompletedList(probe, answer.inventory.certs)
  /\ Goto("path", None, answer.inventory)
  /\ UNCHANGED <<parent, net, original, mark, state, history>>

\* classifyRevocationInventory, and the retained list a missing class needs.
Absent(prior) ==
  /\ OfKey(job.found.certs, job.config.key) = {}
  /\ ~job.found.class => /\ original.list # None
                         /\ original.list.time < original.pending.time
                         /\ prior \in original.list.certs
\* checkRPKIRetirementProof: the prior certificate is on the CRL or expired,
\* and no certificate of its key is left in the publication.
Retired_StillPublished(prior, i) == prior.serial \in pubs[i].crl \cup expired
Retired(prior, i) ==
  prior.serial \in pubs[i].crl \cup expired /\ OfKey(pubs[i].certs, prior.key) = {}
VerifyRetirement ==
  /\ job # None /\ job.at = "path" /\ job.found # None
  /\ \E prior \in OfKey(UNION {pubs[i].certs : i \in DOMAIN pubs}, job.config.key), i \in DOMAIN pubs :
       Absent(prior) /\ Retired(prior, i) /\ NotBehind(i) /\ Remember(i)
  /\ job' = [job EXCEPT !.at = "commit", !.found = None]
  /\ UNCHANGED <<parent, net, journals, state, answer, recovered>>

\* reconcileIssuance and reconcileRevocation, when the operator selected the
\* certificate that was found; otherwise the observation ends like a failure.
Reconcile ==
  /\ Recovering /\ job.at = "commit"
  /\ Return /\ original' = Reconciled(original, probe)
  /\ recovered' = Issuance
  /\ UNCHANGED <<parent, net, probe, mark, state, relied>>
-----------------------------------------------------------------------------
(* The parent and its repository *)

Current(r) ==
  job # None /\ job.at = "answer" /\ answer = None
    /\ r = IF Recovering THEN probe.pending ELSE original.pending
Told(r, a) == answer' = IF Current(r) THEN a ELSE answer
Kind(k) == [kind |-> k]

Execute(r) ==
  LET old == OfKey(listed.certs, r.body.key) IN
  /\ revoked' = revoked \cup {c.serial : c \in old}
  /\ IF r.op = "updown-issue"
     THEN LET new == [key |-> r.body.key, want |-> r.body.want, serial |-> serial + 1] IN
          /\ serial < MaxSerial /\ serial' = serial + 1
          /\ listed' = [class |-> TRUE, certs |-> (listed.certs \ old) \cup {new}]
     ELSE listed' = [listed EXCEPT !.certs = @ \ old] /\ UNCHANGED serial
Outcome(r) ==
  IF r.op = "updown-issue"
  THEN [kind |-> "issued",
        cert |-> [key |-> r.body.key, want |-> r.body.want, serial |-> serial + 1]]
  ELSE Kind("revoked")

\* Requests of an earlier signing time than one accepted are dropped.
Receive(r) ==
  /\ net' = net \ {r}
  /\ UNCHANGED <<expired, pubs, journals, mark, state, job, history>>
Drop(r) ==
  /\ r.time < accepted /\ Receive(r)
  /\ UNCHANGED <<listed, revoked, scheduled, serial, accepted, answer>>
\* 1101: another mutation is being processed; 1104: it is scheduled.
ServeMutation(r) ==
  /\ IsMutation(r) /\ r.time >= accepted /\ accepted' = r.time /\ Receive(r)
  /\ \/ /\ scheduled = None /\ listed.class /\ Execute(r) /\ Told(r, Outcome(r))
        /\ UNCHANGED scheduled
     \/ /\ scheduled = None /\ listed.class /\ scheduled' = r
        /\ UNCHANGED <<listed, revoked, serial, answer>>
     \/ /\ Told(r, Kind("rejected")) /\ UNCHANGED <<listed, revoked, scheduled, serial>>
     \/ /\ scheduled # None /\ UNCHANGED <<listed, revoked, scheduled, serial, answer>>
ServeList(r) ==
  /\ ~IsMutation(r) /\ r.time >= accepted /\ accepted' = r.time /\ Receive(r)
  /\ Told(r, [kind |-> "list", inventory |-> listed]) \/ Told(r, Kind("rejected"))
  /\ UNCHANGED <<listed, revoked, scheduled, serial>>
ExecuteScheduled ==
  /\ scheduled # None /\ Execute(scheduled) /\ scheduled' = None
  /\ UNCHANGED <<expired, accepted, pubs, net, journals, mark, state, job, answer, history>>

\* The parent withdraws the whole class, or drops an expired certificate.
Withdraw ==
  /\ listed.class /\ scheduled' = None
  /\ listed' = [class |-> FALSE, certs |-> {}]
  /\ revoked' = revoked \cup {c.serial : c \in listed.certs}
  /\ UNCHANGED <<expired, serial, accepted, pubs, net, journals, mark, state, job, answer, history>>
Expire ==
  /\ scheduled = None
  /\ \E c \in listed.certs :
       expired' = expired \cup {c.serial} /\ listed' = [listed EXCEPT !.certs = @ \ {c}]
  /\ UNCHANGED <<revoked, scheduled, serial, accepted, pubs, net, journals, mark, state, job, answer, history>>
Publish ==
  LET next == [certs |-> listed.certs, crl |-> revoked] IN
  /\ Len(pubs) < MaxPubs /\ pubs[Len(pubs)] # next /\ pubs' = Append(pubs, next)
  /\ UNCHANGED <<listed, revoked, expired, scheduled, serial, accepted, net, journals, mark, state, job, answer, history>>

ResourceStep ==
  \/ \E config \in Config, t \in 1 .. MaxTime :
       Create(config, t) \/ Update(config, t) \/ ImportState(config, t)
  \/ \E t \in 1 .. MaxTime : Delete(t) \/ Read(t)
  \/ Rejected \/ Issued \/ Revoked \/ Listed \/ VerifyPath \/ Commit \/ Fail
RecoveryStep ==
  \/ RecoverRead \/ (\E t \in 1 .. MaxTime : ReadPending(t))
  \/ ProbeRejected \/ ProbeIssuance \/ ProbeRevocation \/ VerifyRetirement \/ Reconcile
ParentStep ==
  \/ \E r \in net : Drop(r) \/ ServeMutation(r) \/ ServeList(r)
  \/ ExecuteScheduled \/ Withdraw \/ Expire \/ Publish

Next == ResourceStep \/ RecoveryStep \/ ParentStep
Spec == Init /\ [][Next]_vars
-----------------------------------------------------------------------------
(* Properties *)

\* Everything keeps to its domain, and a call that waits for its answer has its
\* request pending in the journal it uses.
TypeOK ==
  /\ listed \in Inventory /\ revoked \cup expired \subseteq 1 .. MaxSerial
  /\ scheduled \in Request \cup {None} /\ serial \in 0 .. MaxSerial /\ accepted \in 0 .. MaxTime
  /\ pubs \in Seq(Publication) /\ Len(pubs) \in 1 .. MaxPubs
  /\ net \subseteq Request /\ original \in Journal /\ probe \in Journal
  /\ mark \in DOMAIN pubs /\ relied \in DOMAIN pubs /\ recovered \in BOOLEAN
  /\ state \in State \cup {None} /\ job \in Job \cup {None} /\ answer \in Answer \cup {None}
  /\ (job # None /\ job.at = "answer") =>
       (IF Recovering THEN probe ELSE original).pending # None
  /\ Recovering => IsMutation(original.pending)

\* Of all mutations under way only the pending one can still be accepted: none
\* that was settled, by its answer or by a recovery, is executed afterwards.
Fenced == \A r \in net : IsMutation(r) /\ r.time >= accepted => r = original.pending

\* The resource leaves the state only when the parent has no certificate of its
\* key and no request of its own can still bring one: neither an absent key in
\* an inventory nor a confirmed revocation leaves one behind unmanaged.
NotForgotten ==
  [][state # None /\ state' = None =>
       /\ OfKey(listed'.certs, state.config.key) = {}
       /\ \A r \in net' \cup ({scheduled'} \ {None}) :
            (r.op = "updown-issue" /\ (r.time >= accepted' \/ r = scheduled')) =>
              r.body.key # state.config.key]_vars

\* A recovered revocation is a fact of the repository: whatever else happened
\* meanwhile, the current publication has no certificate of the key, and every
\* certificate of it that was ever published is on the CRL or expired.
RevocationIsPublished ==
  [][Reconcile /\ Revocation =>
       LET last == pubs[Len(pubs)] IN
       /\ OfKey(last.certs, job.config.key) = {}
       /\ \A i \in DOMAIN pubs : \A c \in OfKey(pubs[i].certs, job.config.key) :
            c.serial \in last.crl \cup expired]_vars

\* A certificate in the state was published under a manifest that the history
\* covers, so that no later decision can be shown an older repository.
StateIsCovered ==
  state # None => \E i \in 1 .. mark : state.cert \in pubs[i].certs

\* "A newer revocation manifest prevents a later issuance or refresh from
\* accepting an earlier one": decisions of issuance, refresh and revocation,
\* through crashes between history and journal, never rely on a publication
\* older than one relied on before, and the history covers what is in state.
EvidenceIsCurrent == [][relied' >= relied /\ StateIsCovered']_vars

\* Giving a certificate up, or reporting it revoked, leaves nothing behind that
\* nobody manages.
NothingUnmanaged == NotForgotten /\ RevocationIsPublished

\* "After commit, run Terraform refresh/plan": a refresh after a recovered
\* issuance finds the certificate it asks for.
RefreshFits ==
  recovered /\ state # None /\ original.pending = None =>
    \A c \in OfKey(listed.certs, state.config.key) : c.want = state.config.want
-----------------------------------------------------------------------------
(***************************************************************************)
(* The inductive invariant.  Everything the peer signed lies at or before  *)
(* Horizon, and a probe that was answered raised the parent's accepted     *)
(* time past the pending mutation, so that once something was learnt no    *)
(* mutation can be accepted any more.  The mark never lies before a        *)
(* publication without a certificate of a key that comes back later,       *)
(* unless an issuance of that key is still in doubt.                       *)
(***************************************************************************)

Issue(r) == r # None /\ r.op = "updown-issue"
Later(s, t) == IF s < t THEN t ELSE s
Horizon == IF IsMutation(original.pending) THEN Later(original.sent, probe.sent) ELSE original.sent
Quiet == \A r \in net : IsMutation(r) => r.time < accepted

JournalInv ==
  /\ original.pending # None => original.pending.time = original.sent
  /\ probe.pending # None => probe.pending.time = probe.sent /\ ~IsMutation(probe.pending)
  /\ accepted <= Horizon /\ \A r \in net : r.time <= Horizon

\* Certificates leave the inventory for good, revoked or expired.
RepositoryInv ==
  /\ \A c \in listed.certs : c.serial <= serial
  /\ \A m \in DOMAIN pubs : \A c \in pubs[m].certs :
       /\ c.serial <= serial /\ (c \in listed.certs \/ c.serial \in revoked \cup expired)
       /\ \A i \in m .. Len(pubs) :
            /\ c \in listed.certs => c \in pubs[i].certs
            /\ c \in pubs[i].certs \/ c.serial \in pubs[i].crl \cup expired

\* The parent neither has a certificate of the key nor will issue one.
Missing(k) == OfKey(listed.certs, k) = {} /\ (Issue(scheduled) => scheduled.body.key # k)
\* From publication m on, a key that is gone stays gone.
Gone(k, i) == OfKey(pubs[i].certs, k) = {}
NoReturn(k, m) ==
  \A i \in m .. Len(pubs) : Gone(k, i) => Missing(k) /\ \A j \in i .. Len(pubs) : Gone(k, j)
Solid(c) == \A m \in DOMAIN pubs : c \in pubs[m].certs => NoReturn(c.key, m)

ScheduledInv ==
  scheduled # None =>
    /\ IsMutation(scheduled)
    /\ \/ /\ scheduled = original.pending /\ scheduled \notin net
          /\ job # None /\ ~Recovering => job.at = "answer" /\ answer = None
       \/ /\ scheduled.time < original.sent
          /\ Issue(scheduled) => OfKey(listed.certs, scheduled.body.key) # {}
KeyInv ==
  \A k \in Keys :
    \/ Issue(original.pending) /\ original.pending.body.key = k /\ original.pending \notin net
    \/ NoReturn(k, mark)

\* What a call is about, and what it has learnt.
Learnt == answer # None \/ (job # None /\ job.at # "answer")
CallInv ==
  /\ job = None => answer = None
  /\ job # None => job.config # None /\ (answer # None => job.at = "answer")
  /\ Learnt => Quiet
  /\ Recovering => /\ original.pending # None /\ job.config = original.pending.body
                   /\ probe.sent > original.sent /\ (Learnt => accepted > original.sent)
  /\ job # None /\ ~Recovering =>
       /\ IsMutation(original.pending) => probe.sent = 0
       /\ job.op \in {"create", "update"} =>
            Issue(original.pending) /\ original.pending.body = job.config
       /\ job.op = "delete" =>
            /\ original.pending # None /\ original.pending.op = "updown-revoke" /\ state # None
            /\ original.pending.body = job.config /\ job.config = state.config /\ job.at = "answer"
       /\ job.op \in {"refresh", "import"} => ~IsMutation(original.pending)
       /\ job.op = "refresh" => state # None /\ job.config = state.config
       /\ job.op = "import" => state = None
SchedulesListed(k) == Issue(scheduled) /\ scheduled.body.key = k => OfKey(listed.certs, k) # {}
AnswerInv ==
  answer # None =>
    /\ answer.kind = "issued" => /\ ~Recovering /\ Issue(original.pending)
                                /\ answer.cert.key = job.config.key /\ Solid(answer.cert)
    /\ answer.kind = "revoked" => ~Recovering /\ job.op = "delete" /\ Missing(job.config.key)
    /\ answer.kind = "rejected" /\ ~Recovering /\ Issue(original.pending) =>
         NoReturn(job.config.key, mark)
    /\ answer.kind = "list" =>
         /\ ~Recovering => /\ job.op \in {"refresh", "import"}
                          /\ \A k \in Keys : OfKey(answer.inventory.certs, k) = {} => Missing(k)
         /\ \A c \in answer.inventory.certs : Solid(c)
         /\ Recovering /\ OfKey(answer.inventory.certs, job.config.key) # {} =>
              SchedulesListed(job.config.key)
FoundInv ==
  job # None /\ job.at # "answer" =>
    IF Revocation
    THEN job.cert = None /\ (job.at = "commit" => Gone(job.config.key, mark))
    ELSE /\ job.cert # None /\ job.found = None /\ job.cert.key = job.config.key /\ Solid(job.cert)
         /\ job.at = "commit" => job.cert \in pubs[mark].certs
         /\ Recovering => SchedulesListed(job.config.key)
HistoryInv == relied = mark /\ StateIsCovered

IInv ==
  /\ TypeOK /\ JournalInv /\ Fenced /\ RepositoryInv /\ ScheduledInv /\ KeyInv
  /\ CallInv /\ AnswerInv /\ FoundInv /\ HistoryInv
=============================================================================
