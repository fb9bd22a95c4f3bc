# Formal models of terraform-provider-arin

This directory holds TLA+ specifications of the parts of the provider where a
wrong step is hard to notice and hard to test: what survives a crash, what may
still be under way when an answer is lost, who may act when, and what is decided
from evidence that changes meanwhile. TLC checks them on small instances; TLAPS
proves every safety property of the passing runs for every value of the constants. All
paths below are relative to the repository (`src/`).

To run one: `tlc -workers 2 -config Locks.cfg MCLocks`; to check proofs:
`tlapm ManifestProofs.tla`. `PROJECT.json` lists every run, theorem, mapped
definition, mutant and hazard.

## The system

The provider talks to two kinds of servers. ARIN's *hosted* services (Reg-RWS,
IRR, hosted RPKI) are ordinary HTTP APIs. A *delegated* RPKI holder also talks
to its parent (up-down protocol, RFC 6492) and its publication server (RFC 8181)
with CMS-signed messages, where a signing time may not go backward and a message
may not be repeated blindly. The delegated side therefore keeps durable state
next to Terraform's.

| Component | State it keeps | Operations | Hard behaviours | Modules |
| --- | --- | --- | --- | --- |
| Exchange journal, `internal/arin/rpki_exchange_{state,request,response,recovery}.go`, `rpki_*_reconciliation_state.go` | one JSON file per peer, two evidence sidecars, a lock directory | open, begin, complete, inspect, read recovery, three reconciliations, close | crashes between rename and directory sync, failed writes, two processes, manual lock removal | `ExchangeJournal`, `PendingSlot` |
| Signed exchange, `rpki_exchange_http.go`, `rpki_cms*.go` | none besides the journal | sign, post once, verify | late, lost or unauthenticated answers | `ExchangeJournal` (partly) |
| Publication client and bundle resource, `rpki_publication_{batch,manage,read}.go`, `internal/provider/rpki_publication_bundle_*.go` | Terraform state: objects and last observed hashes | create, read, update, delete, import | another publisher, lost answers, stale hashes | `PublicationBundle` (partly) |
| Publication recovery, `rpki_publication_{reconcile,recovery_read}.go` | a probe journal per pending mutation | probe, classify, reconcile | late original batch, crash between probe and decision | `PublicationBundle` |
| Up-down issuance and recovery, `rpki_updown*.go`, `rpki_issue_*.go`, `rpki_issuance_recovery*.go` | journal, manifest history, Terraform state | list, issue, recover | history persisted before the journal completes, a scheduled request | `Provisioning` (partly) |
| Revocation recovery, `rpki_updown_recovery*.go`, `rpki_revocation_*.go` | journal, manifest history | prove, classify, reconcile | absence is not proof | `Provisioning`, `PathVerification` |
| Manifest history and migration, `rpki_manifest_{state,migration}.go` | one JSON file and lock per trust anchor | verify and record, migrate | replayed manifests, two locks, failed syncs | `ManifestHistory`, `ManifestWatermarks` |
| RRDP cache, `rpki_rrdp_*.go` | pointer record, generation packs, lock | refresh, migrate, read path | crash between pack and pointer, session and serial rules, poll limit | `RRDPCache` (partly) |
| Object parsing, resources and paths, `rpki_{resources,resource_path,issue_resources,chain*,manifest,crl_profile,certificate_*,csr}.go` | none | parse, intersect, resolve, discover, verify | repositories that change between two reads; ranges at the ends of the number space | `ResourceRanges`, `ResourceIntersection`, `ResourceParsing`, `ResourcePath`, `PathVerification` (partly) |
| Journal tool, `tools/rpki-journal` | none of its own | inspect, recover-read, reconcile | runs beside the provider | `ExchangeJournal` (partly) |
| Organization lock, `internal/arin/org_lock.go` | map of channels with user counts | lock, cancel, unlock | entry dropped and made anew, cancelled waiters, server that loses updates | `OrgLock` |
| HTTP client, `client.go` | none | one request with a timeout | late answers | none: every module's environment |
| Organization resource, `organization.go`, `org_resource.go` | pending operation and ticket in Terraform state | create, read, update, delete, import | tickets, uncertain creation | `OrgResource` |
| Network resources, `net_registration.go`, `net_resource.go`, `net_metadata_resource.go` | pending operation, ticket | create, resolve, two-step delete | definitive against uncertain failures | `NetResource`, `WholeRecord` (partly) |
| Hosted RPKI, `rpki.go`, `rpki_bundle.go`, `roa_`, `aspa_`, `rpki_bundle_resource.go` | private recovery receipts | transaction, plan, reconcile | adoption by content after a lost answer | `RPKIService`, `RPKIBundleResource`, `ROAResource`, `ASPAResource` |
| Reports and tickets, `report*.go`, `ticket*.go` | pending receipt | submit, close | no second submission; another client's withdrawal | `ReportRequest`, `TicketStatus` (partly) |
| IRR objects, `route*.go`, `rpsl.go`, `as_set.go`, `route_set.go`, `autnum.go` | Terraform state | single reads and writes; linked-route metadata | uncertain creation; the link moves between read and write | `IRRObject`, `RouteLinks` |
| Customers, POCs, contacts, `customer.go`, `poc*.go`, `org_pocs.go` | elements of shared records | add, remove, verify | two owners of one record | `SharedRecord`, `WholeRecord` |
| Reverse delegations, `delegation.go` | Terraform state | whole-record and per-nameserver writes | check and write are two requests | `SharedRecord`, `WholeRecord` |
| Public reads, `whois*.go`, `rdap*.go`, `networks.go` data sources | none | read and decode | none | none |
| Provider and catalog tool, `provider.go`, `tools/catalog` | none | configuration | none | none |

How they interact. The publication, issuance and revocation clients each run
their exchange under one lease of the peer's journal; the recovery commands hold
that lease while they run a second exchange under the lease of a probe journal.
Issuance and revocation recovery also record the manifest history before they
decide; both read the parent's repository through the RRDP cache. Hosted
mutations share nothing on disk; inside one provider process they share the
organization lock.

## How the modules are put together

```
PendingSlot  <==implements==  ExchangeJournal        files, crashes
     ^------- implements ---  PublicationBundle      takes the journal as one atomic record
                              Provisioning           takes journal and history as promised
ManifestWatermarks  <==implements==  ManifestHistory files, locks, crashes
                              PathVerification       takes one verification as one step
                              RRDPCache              the caches PathVerification reads through
OrgLock                       the lock that RouteLinks and SharedRecord take as atomic
RPKIService  <--extends--     RPKIBundleResource, ROAResource, ASPAResource
ResourceRanges  <--extends--  ResourceIntersection   the loops ResourcePath takes as sets
```

Resources of one kind of system share no state with each other: what one
`arin_net` does cannot touch an `arin_roa`. Such modules are checked side by
side: a *union* module has one variable that names the part (`resource`, `family`,
`decider`, `part`), INSTANCEs each module with the small constants of its part, and its
Init and Next are the disjunctions over the parts. A behaviour is a behaviour of one part,
so the union says exactly what one run per module would, and states in one formula what all
the resources promise alike. The parts share some constants (handles, names, texts) to
keep the symmetry group small.

| Union | Parts |
| --- | --- |
| `HostedResources` | `NetResource`, `OrgResource`, `RPKIBundleResource`, `ROAResource`, `ASPAResource`, `ReportRequest`, `TicketStatus`; and the records of the registry: `IRRObject`, `RouteLinks`, `SharedRecord`, `WholeRecord` |
| `CertificatePaths` | `PathVerification`, `ResourceIntersection`, `ResourceParsing`, `ResourcePath`, and `ManifestHistory` with paths of three manifests and a history that holds two |
| `MCLocks` | `ManifestHistory`, `OrgLock`: what works under a lock |
| `MCProgress` | `OrgLock`, `NetResource`, `OrgResource`, `ROAResource`, for liveness |

The first two are checked on the small instances `MCHostedResources` and
`MCCertificatePaths`, and proved about (`HostedProofs` and
`RegistrationProofs`, `CertificateProofs`). The constant `Managed` of `HostedResources` is the
set of resources that an instance has: the run `hosted` takes the first seven, `records` the
registry's four, and the theorems hold for any set. The other modules have
an MC module of their own: `MCExchangeJournal`, `MCPublicationBundle`,
`MCRRDPCache`, `MCProvisioning`, and `MCRPKIBundleResource` for a run that
expects a violation. The theorems of a module are in `ExchangeJournalProofs`, `PublicationProofs`,
`ManifestProofs`, `RRDPCacheProofs` and `ProvisioningProofs`; those about `OrgLock` are in
`RegistrationProofs`, next to those about the organization and network resources and about the
shared records and linked routes that are changed under that lock.

In every module an operator `Name_Variant` is a deliberately wrong version of
`Name`. The project's mutants put it in Name's place: each property of each
passing run is violated by at least one of them, so no property holds
whatever the code does. No specification uses them.

## The core modules

### ExchangeJournal

Each file is a pair: what other processes see (`journal`) and the set of contents
a power loss may leave (`journalD`). A rename changes the first and adds to the
second; a directory sync collapses the second. Response files are kept as the set
that exists with a lower and an upper bound on the set that survives.
A process's program counter names the place between two effects of the Go code:
`Lock` is the `os.Mkdir`, `OpenSync` the sync before the journal is read,
`OpenExisting/Missing/Refused` the ways `openRPKIExchangeMode` goes on,
`SaveRename/SaveSync/SaveError` the method `save`, `BeginSigned ..
RequestSync` and `Post, Verify, ResponseRename .. PruneSync` an exchange. `Kill`
ends a process and leaves its lock; `PowerLoss` ends all and settles each file
independently; `RemoveStaleLock` is the documented manual repair, taken only while
no process runs. Temporary files are not modelled (they are never read), and a
failed `fsync` is taken to leave the set of survivable contents unchanged. A
signature is deterministic, so a request's digest is determined by content and
signing second and the record stands for its digest.

Properties: `LeaseIsSound` (`MutualExclusion`, and a holder decides only on what a
crash leaves: `DecidesOnDurableState`); `SurvivesCrash`, of whatever journal a crash
leaves: `UnsettledIsPending` (no outstanding request is ever forgotten),
`PendingHasEvidence` and `CompletedHasEvidence` (the sidecars it names survive with it),
`ReopensAfterCrash` (open refuses nothing that a crash can leave), `NoRevival` (a decided
read does not come back, not even as a new request with the same digest),
`WatermarksSurvive`; `ImplementsSlot` (refinement of `PendingSlot` through every crash);
and the liveness property `CallsEnd`.

### PublicationBundle

Two objects, a server with the whole repository, and requests in `net` that arrive
at any later time or never. The journals are taken at the level `ExchangeJournal`
justifies: a record that changes atomically. The lease makes calls sequential, so
`job` is the one call that holds it; `Fail` ends it at any point (lost answer,
timeout, crash). `ReadPending`, `ProbeComplete` and `Reconcile` are the three
stretches of `readPendingPublication` between which the process may die;
`RecoverProbe` is the read recovery of the probe's own journal.
`Edit` is another publisher. `accepted` is the server's latest signing time.

Properties: `DecisionsHold` (`Fenced`: a batch that was decided can never take effect
afterwards; `NotLockedOut`: a decision leaves the peer able to sign what the server accepts;
`AfterIsComplete`: what is reported as landed is there whole), `LandedIsSeen` (a batch that
took effect is never decided to be absent), `NoHalfBundle` (a batch takes effect on a whole
bundle or not at all, although it changes only some members), and `ImplementsSlot`
(with recovery through a second journal the peer still refines `PendingSlot`).

Assumed of the server, which is not in the repository: it refuses a signing time
older than the last it accepted and allows an equal one (the behaviour
`rpki_cms_trust.go` describes and itself applies), applies a batch atomically, and
only when every hash precondition holds (RFC 8181). It may also reject for reasons of
its own. The receive watermark is left out here; `ExchangeJournal` has it.

### OrgLock

`LockOrganization` and `Release` are the two critical sections of the map's mutex;
`Select`, `Wake`, `Cancel` are the outcomes of the `select`; `UnlockOrganization` is the receive
from the channel. A Go channel hands its slot to the longest waiting sender, which
`queue` represents; a call whose context is done may leave until the token is its own.
`Send`, `Verify` and `Fail` are `mutateOrgPOCs` inside the lock. The comment in
`org_lock.go` says why the lock exists, so the server is modelled as it says: it reads
an organization's links (`ServerRead`) and writes them back later (`ServerWrite`).

Properties: `LockIsSound` (`OneInside` although the entry is dropped and made
anew, and `NoEntryLeaked`), `NoLostAssociation`, `NobodyStarves`. `NoLostAssociation`
excepts organizations with an *abandoned* request, one whose client gave up: the lock is
released then while the server may still write, and the code has no way to know.
The lock is local to a process: two Terraform runs do not exclude each other.

### ManifestHistory

Files are as in `ExchangeJournal`: `file` is what other processes see, `fileD` what a
power loss may leave. A verification (`source[p] = None`) takes one lock and a migration
two, by the `os.Mkdir` of `Lock`, `LockFirst` and `LockSecond`; it never waits, so a
lock that exists means an error (`LockRefused`). `Remember` is the callback of
`verifyAndRecordRPKIManifestPathWithCheck`: a path is any map from manifests to versions
that the pure verification may have accepted, and it is remembered whole or refused.
`Merge` is the body of a migration. `SaveRename` and `SaveSync` are the two effects of
`saveRPKIManifestHistory`; `Refuse` stands for every error between the locks and the end of
the save; `Unlock` and `UnlockSync` are the deferred calls. `Kill`, `PowerLoss` and
`RemoveStaleLock` are as above, except that a power loss may also leave or take back any
lock directory. The history variable `reported` is what a caller may rely
on, set when a save returns without error, and for a migration it is the later of what
was reported under either anchor.

Properties: `NoRollback` (whatever history a power loss leaves refuses all that is older
than what was reported), `LocksAreSound` (`MutualExclusion`, and `NoLockLeaked`: no return
leaves a lock directory behind; a failing `os.Remove`, which the code reports, is not
modelled) and `ImplementsWatermarks`, the refinement of `ManifestWatermarks` through every
crash. The last says two things together: no report is a rollback, and `reported` moves in
one step.

## The delegated side above the core

### Provisioning

One `arin_rpki_certificate`, the parent CA (`listed`, `revoked`, `scheduled`), the
repository it publishes in (`pubs`), and recovery. `original` and `probe` are the two
journals and `mark` the manifest history; each is one value that changes atomically, as
the core modules show they may be taken. History and journal are *two* files, so the
process may end between them: the path gate raises `mark` in one step and the journal
completes in another. A caller may be shown any publication the history admits.

Properties: `Fenced` (of all mutations under way only the pending one can still be
accepted), `EvidenceIsCurrent` (decisions never rely on an older publication than an earlier
decision did, and the history covers every certificate in state), `NothingUnmanaged` (the
state is dropped only when the parent has no certificate of the key and none can come; a
recovered revocation is a fact of the repository).

### RRDPCache

`record` is the pointer, `dir` and `files` the packs and `disk` the pointers that
a power loss may leave; a call's `at` walks through `RefreshDiskPersistent`: lock, load,
attempt, notification, deltas or snapshot, pack, pointer, removal of the old pack. The
server publishes serials of several sessions and a mirror may answer with any of them, so a
repository may change its session and return to the first. `handle` is what a caller reads through.

Properties: `GenerationsAreWhole` (every pointer that may survive names a pack with exactly
the objects published under its session and serial; a reader keeps one generation while
others replace it; without failures nothing is left over), `PollInterval` (two requests are
a minute apart, crash or not), `SavesGoForward` (what is saved has, of the same session, no lower
serial than any record that the disk may hold just then and at an equal serial its snapshot, also
across crashes and the migration of a version 1 cache). It does *not* say that a session's serial
never falls: the code compares a notification with the cached session only
(`rpki_rrdp_disk.go:242`), so a cache at serial 2 of one session may go to another session and
back to serial 1 of the first, and the model does so too.

### PathVerification, ResourcePath, ResourceIntersection, ResourceParsing

`PathVerification` has two callers that discover, issue and retire. Discovery, the
retrieval of each issuer's publication, and the verification are separate steps, and
issuers publish, reissue and revoke between them. A read may show any publication, because a
cache may keep what it has or go back to an older one of another session (`RRDPCache`); only the
history, whose verification is one step (`ManifestHistory`), moves forward. `NoneLongRevoked`
bounds how stale an accepted path can be: no certificate of it had been revoked, visibly,
for a CRL's validity. `RetirementHolds` says that a proof of retirement is never contradicted.

The other three take the pure parts. `ResourceIntersection` walks two range sequences with
two indices as the code's loops do, one step of the loop at a time, at the ends of the number
space too; `ResourceParsing` reads the DER choices and the up-down texts item by item;
`NumbersAreExact` compares them with sets of numbers and with the encoding rules of
RFC 3779. `ResourcePath` resolves inheritance and the reconsidered profile down a path, with
claims as sets; `ResolvedIsMeet` compares it with the meet of all the claims, and says that
a refusal has a reason.

## The hosted side

In all these modules `wire` holds the requests under way: one may take effect at any later
time or never, whatever its call was told. A `call` is the list of requests Terraform
core's Create, Read, Update, Delete or ImportState makes, one step per request;
everything else happens between them. An answer is lost (`NoAnswer`), a rejection, malformed,
a ticket, the finished record, or both. `Edit` is another channel (`edits`), `Crash` loses a call.
Terraform runs one call of a resource at a time.

| Module | What is particular | Properties |
| --- | --- | --- |
| `NetResource` | a lost assignment can be found again by its range; deletion takes two applies, and state is dropped only when the ticket confirms it; handles are reused | `NoRepeatedSubmission`, `NoOrphan`, `SettledIsCreated`, `TicketsKept`, `NoLateRemoval` |
| `OrgResource` | an organization cannot be found again, so only the pending marker prevents a second one; an answer may carry a record and a ticket | `NoSecondOrganization`, `BlocksRepeats`, `SettledIsQuiet`, `TicketsKept` |
| `RPKIService` | the two inventories, and transactions that take effect whole, before or after their answer; extended by the next three | |
| `RPKIBundleResource` | `RPKIBundlePlan`, the receipt, `ReconcileRPKIBundle` against two inventory reads | `SettledIsQuiet`, `NoOrphan`, `NeverTakesForeign`, `OwnsItsOwn` |
| `ROAResource` | a private journal with the handles that existed before the write | `NoSecondRequest`, `NoOrphan`, `NeverTakesForeign` |
| `ASPAResource` | the customer ASN is the identity; no journal | `NoForgottenCreation`, `NeverTakesForeign`, `NeverWithout` |
| `ReportRequest` | the request is a GET that opens a ticket; the transport may repeat it unless told not to | `OneOutstanding`, `SettledIsQuiet` |
| `TicketStatus` | read, close, read again, beside another client | `SuccessIsClosed`, `NeverWithdraws` |
| `IRRObject` | five resources with one set of calls and two policies per kind; `seen` is what the registry held during the call | `StateIsReal`, `UncertainIsKept` |
| `RouteLinks` | the link of a route moves by RPKI transactions; linked writes share their lock | `LinkedWritesAreScoped` |
| `SharedRecord` | e-mails, phones, organization POCs and nameservers: parallel resources on one record, a server that writes associations in two steps | `OwnershipSeesAbsence`, `LostAnswerIsTracked`, `SiblingsAreSpared` |
| `WholeRecord` | contacts, customers, zones and network metadata written whole from a read | `StateIsReal`, `WritesBuildOnReads` |

`SubmittedOnce`, `NothingForgotten` and `TakesOnlyItsOwn` in `HostedResources`, and
`StateIsReal` and `WritesAreScoped` for the registry's records, are the conjunctions of these by
theme. `UncertainIsKept` says: while nobody else edits, an RPSL creation that may still take
effect has its call running or a pending state, and nothing is written after it. That nothing
*else* is on its way would be false, from the fourth write on: a deletion whose answer was
lost may still be under way when its repetition has removed the object and a new
creation is sent.

A property that begins with `~lost` speaks of behaviours in which no outcome of a write was lost.
It is lost when

* the provider process crashes during the write: Terraform then never receives the new state,
  and nothing the provider does could keep it;
* the GET that verifies an organization's accepted deletion is refused (`OrgResource`'s
  `VerifyRefused`): the code keeps no marker, against its documentation (see Findings);
* a network's creation is answered with the network *and* a ticket (`NetResource`'s
  `TicketDropped`): `decodeNetWriteResult` accepts both and `net_resource.go:187` takes the network
  as settled and drops the ticket;
* the inventory of a ROA without a journal is answered with 404 (`ListMissing`): the code takes
  this for the absence of the ROA and drops it from state. An ASPA is dropped in the same way,
  which `NoForgottenCreation` counts as a refresh that found nothing.

All four are actions of the models, and what follows them is explored. A property that begins
with `edits = 0` speaks of the resource's own doing only, because another channel can make an object that looks exactly like
the one a lost request would have made. `late` collects the objects that another channel made
while a write of the resource was in progress, unresolved or not yet carried out: no inventory tells
them from the resource's own. `relabelled` marks a bundle whose plan replaced a ROA by an
equal one (see Findings). `TakesOnlyItsOwn` says nothing of `arin_org`: handles of organizations
are not reused, so a late write can only meet the organization that it names.

Assumptions about ARIN, from how the code uses it: a transaction is atomic; ARIN keeps one ROA
per origin and prefix and one ASPA per customer; handles may be reused, except those of
organizations; a ticket is processed at most once; PUTs may be delayed but are executed once.

## Runs

| Run | Module | Instance and bounds | Distinct states | Result |
| --- | --- | --- | --- | --- |
| `journal` | `MCExchangeJournal` | 2 processes, 1 read and 1 mutation operation, 1 body, 1 reply, 2 signing seconds, any number of kills and power losses | 258 thousand | `LeaseIsSound`, `SurvivesCrash`, `ImplementsSlot` and, under fairness, `CallsEnd` hold |
| `publication` | `MCPublicationBundle` | 2 objects, 2 hashes, bundles that keep one member and replace the other, 3 seconds, 1 foreign edit | 339 thousand | all hold |
| `locks` | `MCLocks` | histories: 2 processes, 2 anchors, 1 manifest, 2 numbers, 2 times, 2 hashes; lock of an organization: 3 calls, 1 organization, 2 locks, 2 associations, at most 1 abandoned request at the server | 1.3 million | all hold |
| `rrdp_cache` | `MCRRDPCache` | 2 processes, 1 repository, 3 packs, 3 publications, 3 minutes, 1 failure or crash | 1.9 million | all hold |
| `provisioning` | `MCProvisioning` | 1 key, all or a part of the resources, 4 seconds (3 once a part was asked for), 2 certificates, 3 publications | 4.7 million | all hold |
| `certificate_paths` | `MCCertificatePaths` | below | 1.7 million | all hold |
| `hosted` | `MCHostedResources` | below | 1.5 million | all hold |
| `records` | `MCHostedResources` | below | 2.2 million | all hold |
| `progress` | `MCProgress` | below | 32 thousand | `NobodyStarves` and `RecoveryCompletes` hold |
| `publication_refresh` | `MCPublicationBundle` | bundles that add a member, 4 seconds, no edit | until the violation | `RefreshedUpdateFits` is violated |
| `bundle_relabel` | `MCRPKIBundleResource` | a bundle that moves one ROA to another label, no edit, no crash | until the violation | `BlocksReplay` is violated |
| `org_refused` | `OrgResource` | 1 organization, 3 requests, no tickets, no edit, no crash | until the violation | `RepeatsBlocked` is violated |

Why the bounds are enough. Two seconds are the fewest in which a request can be
signed before, in and after another's second; two processes are the fewest that can
interleave with each other and with a crash; the number of calls is unbounded in
`journal`, so any length of history within those times is covered. Three seconds let a
batch, its probe and a later batch follow one another, and a probe that failed be
repeated; one edit suffices to make any one member differ. Three calls let one hold the
lock, one wait and one arrive; two locks let an old and a new entry coexist. The
constraint on abandoned requests bounds the exploration only; the proof covers any
number. Two numbers, two times and two hashes give every case that `rememberRPKIManifest` and the
migration distinguish; two anchors let migrations run in both directions at once;
`MaxEntries`, 4096 in the code, is 1 with one manifest, where it never binds, and 2 with the
three manifests of `certificate_paths`, where it does.

* `rrdp_cache`: three publications give a first, a delta and a change of session; three packs an
  old, a current and a leftover one; two processes one that reads while the other replaces.
* `provisioning`: its `Bound` keeps the fourth second for histories in which nobody has asked for a
  part (a change of the requested resources and its recovery take three). Four seconds let an
  issuance, its probe, a repeated probe and a revocation follow one another; two certificates let a
  reissue replace an old one; three publications let one be shown that is older than one relied on.
* `certificate_paths`: for `PathVerification` two callers, an anchor and one issuer below it, CRLs
  valid for two ticks of three, two publications each; by the constraint `Bound` one
  caller at a time runs in the second tick, and if both issuers publish anew they do so by the
  first, so that in the second a path is accepted when all that it was first published with has
  run out. For `ResourceIntersection` all canonical pairs of
  sets over 0..6; for `ResourceParsing` texts and encodings of at most four items over
  three-bit numbers; for `ResourcePath` paths of three certificates, two families, two resources,
  which let a claim be given, lost above and claimed again below.
* `hosted`: two or three writes, two tickets, one change by others, one crash. Three writes
  are a creation that is lost, its repetition or an update, and a deletion; two handles let one be
  reused, three ROA handles a replaced, a new and a foreign ROA. Once an outcome is
  lost, after which the `~lost` properties say nothing more, the constraint `HostedBound` lets a
  network, an organization or a ROA send two writes in all. Bundles have two ROA labels and
  one ASPA; their configurations change the ASPA alone, the ROAs alone, or both.
* `records`: four writes of an object or a whole record and one change by others, so that a write
  can be repeated after a lost one and followed by a deletion and a new creation; two requests
  of the ROA, the metadata and the linked-route resource for a link, or one that is abandoned, after
  which nothing is promised; for shared records three requests, or two and a change by others
  (both `Bound`), on two elements, the second of which is the sibling.
* `progress`: three calls for one lock; two or three writes of one network, organization or ROA,
  no other channels. It is small because the tableau of the fairness grows with each condition.

Each mutant shows that its run reaches the interesting cases. Where a run sets `CHECK_DEADLOCK
FALSE`, the bounded clock or the bounded number of requests really ends: there is nothing
left to sign or send. `journal` and `locks` check deadlock.

Symmetry is used in safety runs whose properties do not distinguish the
permuted values, and in no run with a liveness property.

## Fairness

`ExchangeJournal` and `OrgLock` assume weak fairness of each process's own steps: a
goroutine that can run eventually does. The wait for an answer ends because the
HTTP client has a timeout (`rpki_exchange_http.go`, `client.go`), which is the local
step `ExchangeError` or `Fail`. Nothing is assumed of the peer, the server, the
operator, or the caller's context. `NobodyStarves` also uses the FIFO order of the
channel's waiting senders.

`RecoveryCompletes` is about recovery by repeated refreshes, which only an operator and an
answering ARIN can complete. `MCProgress` states what it takes: the running call goes on and its waits
time out (weak fairness); the operator refreshes again and again, and applies a
network's removal; the reads that recovery needs are answered again and again although single
answers may be lost (strong fairness); a ticket is eventually closed. No fairness is assumed of
writes, of their taking effect or of their answers. An organization's update may stay pending for
good in one case, which the property names: a deletion that the code forgot (`VerifyRefused`)
removed the organization after the update was carried out.

The fairness is stated in `MCProgress` and not in the resources' modules because the four parts
share their conditions: TLC normalizes the conjunction of all of them before it starts.

## Proofs

Every invariant, every action property and every refinement that a passing run checks is stated
by a theorem and proved for every value of the constants. The argument is the same
everywhere: `IInv`, an inductive strengthening stated in the module itself (TLC checked it as an
invariant of the runs before it was proved), holds initially, is preserved by every action, and
implies the property.

The only assumptions are the named ASSUMEs on the constants: bounds are natural numbers, `None` is
not one of the values it stands beside, sets that name different things are disjoint
(`OpsAssumption`), configurations are bundles. TLC evaluates them on every run. The
theorems about a part of a union have the part's own `Assumption` as hypothesis;
`PartsAssumption` of the union is their conjunction. `HostedIInv` is the invariant of the managed
resource or record, and the theorems of the union follow from those of its parts, because every step of
the union is one of the part it names. No theorem assumes anything of the bounds, so
each holds for any number of processes, submissions, edits and crashes.

* `ExchangeJournal`: a journal is `Good` if it would satisfy every property were it the
  one that survives. All survivable journals are good, the one about to be saved is
  good, and a process that has settled knows the only survivable one. The strengthening
  is needed because the properties speak of what a crash may leave, while the steps read
  only the process's memory. For the refinement, `MarkInv` says in addition that the slot's
  watermark, which no file holds while a save is under way, is the latest signed second.
* `PublicationBundle`: everything the peer signed lies at or before `Horizon`, the later
  of the journal's watermark and, while a batch is pending, its probe's; an answered probe
  has raised the server's accepted time past the pending batch. `Fenced` alone is not
  inductive because it says nothing of requests still in the network. `LandedInv` adds what the
  repository holds of a batch that took effect, as long as nobody else edited it.
* `OrgLock`: the users of a lock are exactly the calls whose local points to it, an entry
  in the map has a user, the call inside has the token, and a call has at most one
  request, based on the current links. The properties alone say nothing of the calls that
  wait, which is where a dropped entry would do harm.
* `ManifestHistory`: every history that may survive, and every history about to be saved,
  covers what was reported under its anchor, and while a migration saves, under its source
  too. That needs the locks: who works on a history holds the lock of its target and its
  source, so nobody reports under either meanwhile. `FollowsTransitive` and `MergedFollows`
  carry the numbers-and-times argument.
* `RRDPCache`: the publications form sessions whose serials leave no gap (`LogInv`); one process is
  between the lock and its release (`LockInv`); what the disk may hold besides the record is
  older (`DiskInv`); a record names what was published (`RecordInv`) and its pack is not reclaimed
  while it may survive (`ReclaimInv`); and each step of a call knows something of the record it
  started from (`CallInv`), for example that the deltas it fetched lead from that record to the
  notification's serial.
* `Provisioning`: `Horizon` and `JournalInv` as for the publication peer. `KeyInv`, with
  `RepositoryInv` and `ScheduledInv`, says that the mark never lies before a publication that lacks
  a key's certificate and is followed by one that has it, unless an issuance of that key is in
  doubt. It is needed for `NothingUnmanaged`: a recovery that finds no certificate may conclude
  that none can come only because a publication it may be shown cannot predate one.
* `CertificatePaths`: `ResourceIntersection` keeps the exact intersection of what lies below its two
  indices (`IntersectionSoFar`), and that the child's ranges used up lie in one range each
  (`ContainedSoFar`), with arithmetic over numbers of any size. `ResourcePath` needs that a family is
  absent exactly where the last certificate leaves it out (`AbsentAsClaimed`), or nothing left of a
  family could turn into the whole again. `PathVerification` needs that issuers never take a
  revocation back and that a call verifies what it fetched (`LogInv`, `CallInv`).
  `ResourceParsing` keeps that the ranges so far are those of the items so far, in DER each the
  one encoding of the other (`ParsedSoFar`). A step of it rests on the arithmetic of prefixes:
  a range is a prefix exactly if it starts at a multiple of its size, a power of two, and then
  only one length and one bit string name it (`WellFormedIsEncoding`, `EncodingIsWellFormed`).
  `Power` is a recursive function, not `^`, of which the provers know nothing. Induction on the
  exponent is done without the library's induction theorem: a set of natural numbers that is not empty has
  a least element (`LeastNumber`, from the well-foundedness of `<`), and `UpTo` derives from it that
  a set with 0 that is closed under successor below n contains 0..n.
  The history of a path of several manifests is `ManifestHistory` with other constants;
  `CertificateProofs` instantiates `ManifestProofs`, shows that both instances have the
  same steps, and takes its invariant over.
* `HostedResources`. A ticket's PUT is on its way only for a ticket that has been read resolved. A
  report's request is outstanding only in the creation that sent it or behind a pending receipt.
  For an ASPA, whatever may still add one belongs to the running creation or the resource is in
  state, and before the resource took an ASPA over nothing has been sent (`CreationInv`, `ForeignInv`).
  For a ROA, what may still be added is the running call's or the pending journal's request and its
  content is not in the inventory yet (`AddInv`), all that was made is the settled handle, the running
  call's or the journal's (`ClaimInv`), and every handle that a request, state, journal or receipt can
  lead the resource to delete is its own (`OwnInv`). `NoSecondRequest` alone is not inductive:
  it says nothing about which ROA a journal would be resolved to.
  The bundle's argument is the ROA's, over many ROAs at once and with plans: a plan adds each origin
  and prefix once and keeps only what the resource owned (`PlanOK`); what is still under way and
  adds is the plan's of the running call or the journal (`AddInv`); an inventory that shows one of the
  plan's additions shows them all and is current but for deletions (`FreshInv`), so the
  handles that a settled state takes from it are those its transaction made (`ClaimInv`); what a plan
  deletes, retains or did not see in its baseline is its own (`PlanOwn`); and while nobody else
  edits, the inventories do not confirm a plan before it took effect (`QuietInv`). The
  last fails exactly for plans that relabel.
  For an organization, a request keeps its number and operation behind its ticket (`RequestInv`),
  what an answer told of a creation names the only one there can be (`Told`, `CreateInv`), and while
  nobody else edits the organization every write that can still take effect is the running call's or
  the one the state has pending (`QuietInv`). The properties are not inductive: none says what a
  read may conclude from a record while a request is still on its way. `TicketInv`, `CreateInv` and
  `QuietInv` end with the first lost outcome, a refused verification included, which loses one
  exactly if something is still outstanding then.
  A network is known by its range, so a pending creation without a ticket says nothing of what is
  registered; with one it does (`Told`, `CreateInv`). A deletion of the registered network that can
  still take effect is the running call's or the one the state has pending, and a deletion ticket that
  an answer named never names a handle that a later registration got (`DeleteInv`), because no network
  can be created, and so no handle reused, while the state still has that ticket.
* `HostedResources`, the records of the registry. For an IRR object, a definite answer tells what the
  registry held during the call and that the request is no longer on its way (`AnswerInv`), and
  without other channels only a creation under way can make the object that its call found
  absent (`AbsentInv`). For a linked route, unless a call was abandoned every mutation on its way
  has its call waiting for it, with the lock in hand if it is guarded, so the link it expects stays
  as it was checked (`LinkInv`). For shared records, an element that was added is
  managed or its creation still runs (`MadeInv`), changes of associations are made by the holder of
  the lock (`LockInv`), and so what ARIN read to write all associations anew is still
  current while nobody else came between (`RequestInv`). For a record written whole, all
  that a call has read or was told ARIN held while it ran (`SeenInv`), and a request passes on what
  its call read last (`WireInv`).

| Property of the runs | Theorem | By |
| --- | --- | --- |
| `LeaseIsSound`, `SurvivesCrash` | `ExchangeJournalProofs!LeaseProtects`, `JournalSurvives` | `LeaseIsExclusive`, `HolderStateIsDurable`; `UnsettledSurvives`, `PendingEvidenceSurvives`, `CompletedEvidenceSurvives`, `JournalReopens`, `DecisionsAreFinal`, `WatermarksNeverRegress` |
| `ImplementsSlot` of both | `ExchangeJournalProofs!JournalImplementsSlot`, `PublicationProofs!PeerImplementsSlot` | |
| `DecisionsHold`, `NoHalfBundle`, `LandedIsSeen` | `PublicationProofs!RecoveryDecides`, `BundlesAreWhole`, `LandedIsReported` | `DecisionsAreFinal`, `PeerIsNotLockedOut`, `AfterMeansComplete` |
| `LockIsSound`, `NoLostAssociation` | `RegistrationProofs!LockWorks`, `AssociationsSurvive` | `LockExcludes`, `MapDoesNotLeak` |
| `NoRollback`, `LocksAreSound`, `ImplementsWatermarks` | `ManifestProofs!NeverRolledBack`, `LocksWork`, `HistoriesImplementWatermarks` | `LocksExclude`, `LocksReleased` |
| `GenerationsAreWhole`, `PollInterval`, `SavesGoForward` | `RRDPCacheProofs!GenerationsStayWhole`, `PollsAreSpaced`, `SavesReplace` | |
| `Fenced`, `EvidenceIsCurrent`, `NothingUnmanaged` | `ProvisioningProofs!SettledIsFinal`, `EvidenceOnlyAdvances`, `NothingLeftBehind` | `NeverForgets`, `PublishedRevocation` |
| `NoneLongRevoked`, `RetirementHolds`, `ResolvedIsMeet` | `CertificateProofs!RevocationIsHeeded`, `RetirementHoldsForever`, `NothingIsRegained` | `RetiredIsRevoked` |
| `NumbersAreExact` | `CertificateProofs!ReadExactly` | |
| `NoRollback` of `CertificatePaths` | `CertificateProofs!HistoryIsNeverRolledBack` | `ManifestProofs!Initially`, `Preserved` |
| `SubmittedOnce`, `NothingForgotten`, `TakesOnlyItsOwn` | `HostedProofs!HostedSubmitOnce`, `HostedForgetNothing`, `HostedTakeOnlyTheirOwn` | `OnlyResolvedIsClosed`, `ReportsAreSentOnce`, `ASPAIsNeitherLostNorTaken`, `ROAIsNeitherLostNorTaken`, `BundleIsNeitherLostNorTaken`, `RegistrationProofs!OrgIsRegisteredOnce`, `NetIsAssignedOnce` |
| `StateIsReal`, `WritesAreScoped` | `HostedProofs!RegistryStateIsReal`, `RegistryWritesAreScoped` | `IRRStateHolds`, `WholeStateHolds`, `RegistrationProofs!SharedElementsAreSafe`, `LinksAreRespected` |
| `TypeOK` of the core modules, `RRDPCache`, `Provisioning` and `CertificatePaths`; of `HostedResources`; `LockTypeOK` | `TypeCorrect` of each; `HostedProofs!HostedTypeCorrect`; `RegistrationProofs!LockTypeCorrect` | |

Three refinements are proved. `ExchangeJournalProofs!JournalImplementsSlot`: with its files, saves
and crashes the journal moves its outstanding request and its watermark only as `PendingSlot`
allows. `PublicationProofs!PeerImplementsSlot`: every step of the publication peer is a step of
`PendingSlot` or a stutter. `ManifestProofs!HistoriesImplementWatermarks`: only the sync of a save
moves the watermarks, and as `ManifestWatermarks` allows.

Checked by TLC only: liveness (`CallsEnd`, `NobodyStarves`, `RecoveryCompletes`), which is out of
the prover's reach, and the three disagreements below, which TLC refutes.

## Findings

Three runs show a disagreement of the reference documentation with the code.

* `publication_refresh`. After a recovery the documentation says "Updates and deletes use the
  next refreshed inventory as usual" (`docs/reference/delegated-rpki.md:1226`). When an update
  that *adds* an object is recovered as `matches_after`, Terraform's state still lists the old
  objects, and `Read` (`rpki_publication_bundle_resource.go:130`) keeps hashes only of those. The
  repeated update then plans the added object without a hash, and the server, which already
  holds it, must reject the batch. No object is lost; the operator has to import or remove it.
* `bundle_relabel`. "Reconciliation must establish every intended addition, replacement and
  deletion before clearing recovery state" (`docs/reference/rpki-bundle.md:90`). A bundle that
  moves an unchanged ROA to another label deletes its handle and adds an equal ROA.
  `ReconcileRPKIBundle` (`internal/arin/rpki_bundle.go:287`) accepts a handle the plan deletes as
  the addition, so a refresh *before* the transaction takes effect finds the whole postcondition
  already there and clears the journal, while the transaction can still take effect.

* `org_refused`. "Pending or uncertain writes retain recovery state and block repeat submission"
  (`docs/resources/org.md:6`). A DELETE that ARIN accepted is followed by a verifying GET
  (`organization.go:311`). If that GET is answered 403, 409 or 429, its error is taken for a
  definitive failure of the deletion (`org_resource.go:375`), no pending marker is kept, and the
  next destroy sends another DELETE while the first can still take effect.

Three more were met while modelling. Each has an operator in its module that TLC finds violated
when it is added to the run of its module:

* `Provisioning`, `RefreshFits`, with two subsets in `Wants`. After an update whose answer was lost
  the state keeps the previous requested resources; once the new certificate is reconciled, a
  refresh compares them with the certificate's and fails (`rpki_updown_issue.go:155`).
  `docs/reference/delegated-rpki.md:1492`: "After commit, run Terraform refresh/plan".
* `RouteLinks`, `UnlinkedWritesAreScoped`. With `expected_roa_handle` empty,
  `arin_irr_route_metadata` reads and writes the route without the organization lock
  (`route.go:195`), so a ROA transaction of the same process can link it between the two.
  `docs/reference/irr-route-metadata.md:59`: "Changing links must not let a stale planned update
  mutate another ROA's route."
* `WholeRecord`, `OmittedFieldsAreKept`. `UpdateNetMetadata` (`net_registration.go:411`) reads a
  network and writes it whole; networks have no lock, and a change of other fields between the
  two is set back. `docs/resources/net_metadata.md:11`: "Omitted fields preserve current values".

The last two are the hazard of a change between a read and the PUT, which no run catches: the
property that would is false of the code.

## Plan

Modelled in this order: the core (`ExchangeJournal` with `PendingSlot`, `PublicationBundle`,
`OrgLock`, `ManifestHistory` with `ManifestWatermarks`); `RRDPCache`; `Provisioning`; the hosted
resources; the registry's records; the certificate paths. Proved in the same order, with the
registry's records and the parsing of resources last. The plan is complete: no safety property of a
passing run is left without a theorem. A change of the code should first be made in the module's action,
then in its run, then in the step of the proof that has the action's name.

## Not modelled

* CMS, X.509, XML and DER framing, signatures and profile checks: pure functions without state,
  for which vectors are the better tool. They appear as guards (`Verify` accepts or not).
* Of the resource arithmetic: the limit of 512000 bytes on an extension or a text
  (`rpki_resources.go:47`, `rpki_updown_list.go:212`), and the comparison for equality that ends
  `validateIssuedResources`.
* The HTTP client has no state; every module's environment is what it can return:
  an answer, an error status, or none.
* Public reads (WHOIS, RDAP, networks), provider configuration and the catalog tool: nothing
  persists or interleaves. Schemas, formatting and logging.
* Of partly modelled components: the XML of the publication client and its data source; the
  contents of CSRs; the memory cache that the RRDP disk cache replaced, which is
  met by its migration only; prefix arithmetic of network assignments; ticket messages
  and the byte-preserving edit of a ticket payload; argument handling and reports of the
  journal tool.

Every other operation of the components in the first table that changes state is an action of a module.
`PROJECT.json` gives the status of each component, and the hazards with the properties
that would catch them.
