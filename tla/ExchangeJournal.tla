--------------------------- MODULE ExchangeJournal ---------------------------
(***************************************************************************)
(* The durable journal of one delegated-RPKI peer, its lock directory and  *)
(* its evidence sidecars, as processes sharing one directory use them.     *)
(*                                                                         *)
(* A process opens the journal, holds the lock directory, and runs one     *)
(* call to its end: an HTTP exchange, an inspection or read recovery, or   *)
(* the reconciliation of a pending mutation.  Every save writes a          *)
(* temporary file, renames it over the old one and syncs the directory.    *)
(* Between the rename and the sync a power loss may leave the old file or  *)
(* the new one, so each file has the content other processes see and the   *)
(* set of contents a power loss may leave (the variables ending in D).     *)
(*                                                                         *)
(* An operator Name_Variant is a deliberately wrong version of Name: the   *)
(* project's mutants put it in Name's place to show that a property        *)
(* notices.                                                                *)
(***************************************************************************)
EXTENDS Integers, FiniteSets

CONSTANTS
  Procs,        \* processes sharing the state directory
  ReadOps,      \* operations that only read: publication-list, updown-list
  MutationOps,  \* publication-batch, updown-issue, updown-revoke
  Bodies,       \* request contents that differ for one operation
  Replies,      \* contents of authenticated responses
  MaxTime,      \* bound: signing times are whole seconds 1..MaxTime
  None          \* nil, and the absence of a file

ASSUME OpsAssumption == ReadOps \cap MutationOps = {}
ASSUME TimeAssumption == MaxTime \in Nat

Ops == ReadOps \cup MutationOps
Time == 0 .. MaxTime                    \* 0 is the zero time.Time
SigningTime == 1 .. MaxTime

\* A signature is deterministic (PKCS #1 v1.5), so a request's digest is
\* determined by its content and signing second and the record stands for it.
Request == [op : Ops, body : Bodies, time : SigningTime]
Response == [body : Replies, time : SigningTime]
Completed == [request : Request, response : Response]
Receipt == [original : Request, sent : Time, received : Time]

Journal == [sent : Time, received : Time,
            pending : Request \cup {None},
            last : Completed \cup {None},
            recovered : Request \cup {None},
            receipts : [MutationOps -> Receipt \cup {None}]]

ASSUME NoneAssumption ==
  None \notin Request \cup Response \cup Completed \cup Receipt \cup Journal

Fresh == [sent |-> 0, received |-> 0, pending |-> None, last |-> None,
          recovered |-> None, receipts |-> [m \in MutationOps |-> None]]

VARIABLES
  journal, journalD,    \* the journal file, and what a power loss may leave
  request, requestD,    \* the .request.der sidecar
  response,             \* the .response-<sha>.der files that exist
  responseMust,         \* ... those every power loss keeps
  responseMay,          \* ... those some power loss keeps
  lock, lockD,          \* does the lock directory exist?
  pc, call,             \* each process: its place, and the call it runs
  mem,                  \* lease.state
  req, rep, old,        \* locals: request signed, response verified, response replaced
  unsettled,            \* history: dispatched, neither answered nor decided
  abandoned,            \* history: requests whose durable recovery was reported
  sentMark,             \* history: latest signing time ever dispatched
  receivedMark          \* history: latest response time reported to a caller

files == <<journal, journalD, request, requestD, response, responseMust,
           responseMay, lock, lockD>>
locals == <<pc, call, mem, req, rep, old>>
history == <<unsettled, abandoned, sentMark, receivedMark>>
vars == <<files, locals, history>>

Init ==
  /\ journal = None /\ journalD = {None}
  /\ request = None /\ requestD = {None}
  /\ response = {} /\ responseMust = {} /\ responseMay = {}
  /\ lock = FALSE /\ lockD = {FALSE}
  /\ pc = [p \in Procs |-> "idle"]
  /\ call = [p \in Procs |-> "none"]
  /\ mem = [p \in Procs |-> Fresh]
  /\ req = [p \in Procs |-> None]
  /\ rep = [p \in Procs |-> None]
  /\ old = [p \in Procs |-> None]
  /\ unsettled = {} /\ abandoned = {} /\ sentMark = 0 /\ receivedMark = 0
-----------------------------------------------------------------------------
(* Helpers *)

Goto(p, here, there) == pc[p] = here /\ pc' = [pc EXCEPT ![p] = there]

\* The processes P drop the lease and its state and go on at place there.
Leave(P, there) ==
  /\ pc' = [p \in Procs |-> IF p \in P THEN there ELSE pc[p]]
  /\ call' = [p \in Procs |-> IF p \in P THEN "none" ELSE call[p]]
  /\ mem' = [p \in Procs |-> IF p \in P THEN Fresh ELSE mem[p]]
  /\ req' = [p \in Procs |-> IF p \in P THEN None ELSE req[p]]
  /\ rep' = [p \in Procs |-> IF p \in P THEN None ELSE rep[p]]
  /\ old' = [p \in Procs |-> IF p \in P THEN None ELSE old[p]]

\* A directory fsync makes every entry of the directory durable as it stands.
SyncDirectory ==
  /\ journalD' = {journal}
  /\ requestD' = {request}
  /\ responseMust' = response /\ responseMay' = response
  /\ lockD' = {lock}
  /\ UNCHANGED <<journal, request, response, lock>>

\* os.Mkdir fails, without waiting, if the directory exists.
MakeLock_MkdirAll == lock' = TRUE /\ lockD' = lockD \cup {TRUE}
MakeLock == ~lock /\ lock' = TRUE /\ lockD' = lockD \cup {TRUE}

RemoveLock ==
  /\ lock' = FALSE /\ lockD' = lockD \cup {FALSE}
  /\ UNCHANGED <<journal, journalD, request, requestD, response, responseMust,
                 responseMay>>

ReadOnly_AnyOperation(r) == r.op \in Ops
ReadOnly(r) == r.op \in ReadOps

\* What openRPKIExchangeMode accepts of a journal it loads.
ValidReceipt(j, m) ==
  LET r == j.receipts[m] IN
  r # None =>
    /\ r.original.op = m
    /\ r.sent > r.original.time /\ r.received > 0
    /\ r.sent <= j.sent /\ r.received <= j.received

Valid(j) ==
  /\ (j.pending = None /\ j.recovered = None) => (j.sent = 0 <=> j.received = 0)
  /\ j.last # None => /\ j.last.request.time <= j.sent
                      /\ j.last.response.time <= j.received
  /\ j.recovered # None =>
       /\ ReadOnly(j.recovered)
       /\ j.recovered.time <= j.sent
       /\ j.pending # None => j.pending.time > j.recovered.time
  /\ \A m \in MutationOps : ValidReceipt(j, m)
  /\ j.pending # None => j.pending.time = j.sent

CanBegin_SameSecond(j, r) == j.pending = None /\ r.time >= j.sent
CanBegin_WhilePending(j, r) ==
  r.time >= j.sent /\ (j.recovered # None => r.time > j.recovered.time)
CanBegin(j, r) ==
  /\ j.pending = None
  /\ r.time >= j.sent
  /\ j.recovered # None => r.time > j.recovered.time

CanComplete(j, r, t) ==
  /\ j.pending = r
  /\ t >= j.received
-----------------------------------------------------------------------------
(* Opening the journal *)

Lock(p) ==
  /\ Goto(p, "idle", "locked")
  /\ MakeLock
  /\ \E c \in {"exchange", "access", "reconcile"} : call' = [call EXCEPT ![p] = c]
  /\ UNCHANGED <<journal, journalD, request, requestD, response, responseMust,
                 responseMay, mem, req, rep, old, history>>

\* Leaving open with an error: the deferred removal of the lock, not synced.
OpenError(p) == Leave({p}, "idle") /\ RemoveLock /\ UNCHANGED history

OpenSync_Unsynced(p) ==
  /\ Goto(p, "locked", "read")
  /\ UNCHANGED <<files, call, mem, req, rep, old, history>>
OpenSync(p) ==
  \/ /\ Goto(p, "locked", "read")
     /\ SyncDirectory
     /\ UNCHANGED <<call, mem, req, rep, old, history>>
  \/ pc[p] = "locked" /\ OpenError(p)

OpenExisting(p) ==
  /\ Goto(p, "read", "open")
  /\ journal # None /\ Valid(journal)
  /\ mem' = [mem EXCEPT ![p] = journal]
  /\ UNCHANGED <<files, call, req, rep, old, history>>

\* Only an exchange creates a missing journal.
OpenMissing(p) ==
  /\ journal = None /\ call[p] = "exchange"
  /\ Goto(p, "read", "create")
  /\ mem' = [mem EXCEPT ![p] = Fresh]
  /\ UNCHANGED <<files, call, req, rep, old, history>>

OpenRefused(p) ==
  /\ pc[p] = "read"
  /\ IF journal = None THEN call[p] # "exchange" ELSE ~Valid(journal)
  /\ OpenError(p)
-----------------------------------------------------------------------------
(* Saving lease.state: "create", "begin", "complete" and "decide" are the  *)
(* places of a save, with "Sync" appended once the rename is done.          *)

Saving == {"create", "begin", "complete", "decide"}
Syncing == {"createSync", "beginSync", "completeSync", "decideSync"}
SyncOf(s) ==
  CASE s = "create"   -> "createSync"   [] s = "begin"  -> "beginSync"
    [] s = "complete" -> "completeSync" [] s = "decide" -> "decideSync"
\* Where a save returns to.
AfterSync_PruneAlways(p) ==
  CASE pc[p] = "createSync"   -> "open"
    [] pc[p] = "beginSync"    -> "ready"
    [] pc[p] = "decideSync"   -> "done"
    [] pc[p] = "completeSync" -> IF old[p] # None THEN "prune" ELSE "done"
AfterSync(p) ==
  CASE pc[p] = "createSync"   -> "open"
    [] pc[p] = "beginSync"    -> "ready"
    [] pc[p] = "decideSync"   -> "done"
    [] pc[p] = "completeSync" ->
         IF old[p] # None /\ old[p] # rep[p] THEN "prune" ELSE "done"

SaveRename(p) ==
  /\ pc[p] \in Saving
  /\ pc' = [pc EXCEPT ![p] = SyncOf(pc[p])]
  /\ journal' = mem[p] /\ journalD' = journalD \cup {mem[p]}
  /\ UNCHANGED <<request, requestD, response, responseMust, responseMay, lock,
                 lockD, call, mem, req, rep, old, history>>

SaveSync(p) ==
  /\ pc[p] \in Syncing
  /\ pc' = [pc EXCEPT ![p] = AfterSync(p)]
  /\ SyncDirectory
  /\ abandoned' = IF pc[p] = "decideSync" THEN abandoned \cup {req[p]} ELSE abandoned
  /\ receivedMark' = IF pc[p] = "completeSync" THEN mem[p].received ELSE receivedMark
  /\ UNCHANGED <<call, mem, req, rep, old, unsettled, sentMark>>

SaveError_Ignored(p) ==
  /\ pc[p] \in Syncing
  /\ pc' = [pc EXCEPT ![p] = AfterSync(p)]
  /\ UNCHANGED <<files, call, mem, req, rep, old, history>>
\* A save that fails before its rename or at its directory sync poisons the
\* lease; a failed creation makes open itself fail.
SaveError(p) ==
  \/ /\ pc[p] \in {"create", "createSync"} /\ OpenError(p)
  \/ /\ pc[p] \in (Saving \cup Syncing) \ {"create", "createSync"}
     /\ pc' = [pc EXCEPT ![p] = "failed"]
     /\ UNCHANGED <<files, call, mem, req, rep, old, history>>
-----------------------------------------------------------------------------
(* One HTTP exchange *)

\* BeginSigned saves the exact request first, then the journal entry.
BeginSigned(p, r) ==
  /\ Goto(p, "open", "saveRequest")
  /\ call[p] = "exchange" /\ CanBegin(mem[p], r)
  /\ req' = [req EXCEPT ![p] = r]
  /\ UNCHANGED <<files, call, mem, rep, old, history>>

RequestRename(p) ==
  /\ Goto(p, "saveRequest", "requestSync")
  /\ request' = req[p] /\ requestD' = requestD \cup {req[p]}
  /\ UNCHANGED <<journal, journalD, response, responseMust, responseMay, lock,
                 lockD, call, mem, req, rep, old, history>>

BeginEntry(p) ==
  [mem[p] EXCEPT !.sent = req[p].time, !.pending = req[p]]

RequestSync(p) ==
  /\ Goto(p, "requestSync", "begin")
  /\ SyncDirectory
  /\ mem' = [mem EXCEPT ![p] = BeginEntry(p)]
  /\ UNCHANGED <<call, req, rep, old, history>>

\* The single POST.  Whether the peer receives it is not known here.
Post(p) ==
  /\ Goto(p, "ready", "waiting")
  /\ unsettled' = unsettled \cup {req[p]}
  /\ sentMark' = IF req[p].time > sentMark THEN req[p].time ELSE sentMark
  /\ UNCHANGED <<files, call, mem, req, rep, old, abandoned, receivedMark>>

\* An authenticated, correlated response no older than the last one.
Verify(p, w) ==
  /\ Goto(p, "waiting", "saveResponse")
  /\ CanComplete(mem[p], req[p], w.time)
  /\ rep' = [rep EXCEPT ![p] = w]
  /\ unsettled' = unsettled \ {req[p]}
  /\ UNCHANGED <<files, call, mem, req, old, abandoned, sentMark, receivedMark>>

ResponseRename(p) ==
  /\ Goto(p, "saveResponse", "responseSync")
  /\ response' = response \cup {rep[p]}
  /\ responseMay' = responseMay \cup {rep[p]}
  /\ UNCHANGED <<journal, journalD, request, requestD, responseMust, lock,
                 lockD, call, mem, req, rep, old, history>>

CompletedEntry_NoRequest(p) ==
  [mem[p] EXCEPT !.received = rep[p].time, !.pending = None, !.last = rep[p]]
CompletedEntry(p) ==
  [mem[p] EXCEPT !.received = rep[p].time, !.pending = None,
                 !.last = [request |-> req[p], response |-> rep[p]]]

ResponseSync(p) ==
  /\ Goto(p, "responseSync", "complete")
  /\ SyncDirectory
  /\ old' = [old EXCEPT ![p] =
       IF mem[p].last = None THEN None ELSE mem[p].last.response]
  /\ mem' = [mem EXCEPT ![p] = CompletedEntry(p)]
  /\ UNCHANGED <<call, req, rep, history>>

\* The replaced response goes only after the new journal is durable.
PruneResponse(p) ==
  /\ Goto(p, "prune", "pruneSync")
  /\ response' = response \ {old[p]}
  /\ responseMust' = responseMust \ {old[p]}
  /\ UNCHANGED <<journal, journalD, request, requestD, responseMay, lock,
                 lockD, call, mem, req, rep, old, history>>

PruneSync(p) ==
  /\ Goto(p, "pruneSync", "done")
  /\ \/ SyncDirectory
     \/ UNCHANGED files
  /\ UNCHANGED <<call, mem, req, rep, old, history>>

ExchangeError_NoTimeout(p) ==
  /\ pc[p] \in {"saveRequest", "requestSync", "ready", "saveResponse", "responseSync"}
  /\ pc' = [pc EXCEPT ![p] = "failed"]
  /\ UNCHANGED <<files, call, mem, req, rep, old, history>>
\* A sidecar that cannot be saved, a request that is not sent or not answered
\* in time, a response refused: the call returns with the pending entry kept.
ExchangeError(p) ==
  /\ pc[p] \in {"saveRequest", "requestSync", "ready", "waiting",
                "saveResponse", "responseSync"}
  /\ pc' = [pc EXCEPT ![p] = "failed"]
  /\ UNCHANGED <<files, call, mem, req, rep, old, history>>
-----------------------------------------------------------------------------
(* Operator decisions about a pending request *)

RecoveredEntry_Forgotten(p, r) == [mem[p] EXCEPT !.pending = None]
RecoveredEntry(p, r) == [mem[p] EXCEPT !.recovered = r, !.pending = None]

\* RecoverRead abandons exactly one inventory request, named by its digest.
RecoverRead(p, r) ==
  /\ Goto(p, "open", "decide")
  /\ call[p] = "access"
  /\ mem[p].pending = r /\ ReadOnly(r)
  /\ mem' = [mem EXCEPT ![p] = RecoveredEntry(p, r)]
  /\ req' = [req EXCEPT ![p] = r]
  /\ unsettled' = {u \in unsettled : u # r \/ u.op \in MutationOps}
  /\ UNCHANGED <<files, call, rep, old, abandoned, sentMark, receivedMark>>

\* s and t are the durable times of the recovery probe's own journal.
Newer_SentOnly(j, s, t) == s > j.sent
Newer(j, s, t) == s > j.sent /\ t >= j.received

ReconciledEntry(p, r, s, t) ==
  [mem[p] EXCEPT
     !.receipts[r.op] = [original |-> r, sent |-> s, received |-> t],
     !.sent = s, !.received = t, !.pending = None]

\* reconcilePublication, reconcileIssuance and reconcileRevocation decide on a
\* mutation whose exact saved bytes were read back under the same lease.
Reconcile(p, r, s, t) ==
  /\ Goto(p, "open", "decide")
  /\ call[p] = "reconcile"
  /\ mem[p].pending = r /\ ~ReadOnly(r) /\ request = r
  /\ Newer(mem[p], s, t)
  /\ mem' = [mem EXCEPT ![p] = ReconciledEntry(p, r, s, t)]
  /\ req' = [req EXCEPT ![p] = r]
  /\ unsettled' = unsettled \ {r}
  /\ UNCHANGED <<files, call, rep, old, abandoned, sentMark, receivedMark>>
-----------------------------------------------------------------------------
(* Closing, crashes and manual repair *)

Close(p) ==
  /\ pc[p] \in {"open", "failed", "done"}
  /\ Leave({p}, "closeSync")
  /\ RemoveLock
  /\ UNCHANGED history

CloseSync(p) ==
  /\ pc[p] = "closeSync" /\ Leave({p}, "idle")
  /\ SyncDirectory \/ UNCHANGED files
  /\ UNCHANGED history

\* A killed process leaves its lock directory behind.
Kill(p) ==
  /\ pc[p] # "idle" /\ Leave({p}, "idle")
  /\ UNCHANGED <<files, history>>

\* A power loss stops everything and settles each file independently.
PowerLoss ==
  /\ Leave(Procs, "idle")
  /\ journal' \in journalD /\ journalD' = {journal'}
  /\ request' \in requestD /\ requestD' = {request'}
  /\ \E kept \in SUBSET (responseMay \ responseMust) :
       response' = responseMust \cup kept
  /\ responseMust' = response' /\ responseMay' = response'
  /\ lock' \in lockD /\ lockD' = {lock'}
  /\ UNCHANGED history

\* The documented manual procedure: remove a crash lock once no process runs.
RemoveStaleLock ==
  /\ lock /\ \A p \in Procs : pc[p] = "idle"
  /\ RemoveLock
  /\ UNCHANGED <<locals, history>>

LocalStep(p) ==
  \/ Lock(p) \/ OpenSync(p) \/ OpenExisting(p) \/ OpenMissing(p) \/ OpenRefused(p)
  \/ SaveRename(p) \/ SaveSync(p) \/ SaveError(p)
  \/ \E r \in Request : BeginSigned(p, r)
  \/ RequestRename(p) \/ RequestSync(p) \/ Post(p)
  \/ ResponseRename(p) \/ ResponseSync(p)
  \/ PruneResponse(p) \/ PruneSync(p) \/ ExchangeError(p)
  \/ \E r \in Request : RecoverRead(p, r)
  \/ \E r \in Request, s, t \in SigningTime : Reconcile(p, r, s, t)
  \/ Close(p) \/ CloseSync(p)

Next ==
  \/ \E p \in Procs : LocalStep(p) \/ (\E w \in Response : Verify(p, w)) \/ Kill(p)
  \/ PowerLoss
  \/ RemoveStaleLock

Spec == Init /\ [][Next]_vars

\* A process that runs goes on; nothing is assumed of the peer's answers.
FairSpec == Spec /\ \A p \in Procs : WF_vars(LocalStep(p))
-----------------------------------------------------------------------------
(* Properties *)

\* The places at which the locals req and rep hold a request and a response.
HasResponse == {"saveResponse", "responseSync", "complete", "completeSync", "prune",
                "pruneSync"}
HasRequest == {"saveRequest", "requestSync", "begin", "beginSync", "ready", "waiting",
               "decide", "decideSync"} \cup HasResponse
Places == {"idle", "locked", "read", "create", "createSync", "open", "failed", "done",
           "closeSync"} \cup HasRequest

FilesOK ==
  /\ journal \in Journal \cup {None} /\ journalD \subseteq Journal \cup {None}
  /\ request \in Request \cup {None} /\ requestD \subseteq Request \cup {None}
  /\ responseMust \subseteq response /\ response \subseteq responseMay
  /\ responseMay \subseteq Response
  /\ lock \in BOOLEAN /\ lockD \subseteq BOOLEAN

LocalsOK ==
  /\ pc \in [Procs -> Places]
  /\ call \in [Procs -> {"none", "exchange", "access", "reconcile"}]
  /\ mem \in [Procs -> Journal]
  /\ req \in [Procs -> Request \cup {None}]
  /\ rep \in [Procs -> Response \cup {None}]
  /\ old \in [Procs -> Response \cup {None}]
  /\ \A p \in Procs : pc[p] \in HasRequest => req[p] \in Request
  /\ \A p \in Procs : pc[p] \in HasResponse => rep[p] \in Response

HistoryOK ==
  /\ unsettled \subseteq Request /\ abandoned \subseteq Request
  /\ sentMark \in Time /\ receivedMark \in Time

\* Every file, lease and local has the shape the code gives it; in particular a
\* process past BeginSigned has a request and past Verify a response.
TypeOK == FilesOK /\ LocalsOK /\ HistoryOK

Holds(p) == pc[p] \notin {"idle", "closeSync"}

\* Never do two processes hold the lease of one peer, crash locks and their
\* manual removal included (Mkdir, Close and the deferred removal in open).
MutualExclusion ==
  \A p, q \in Procs : Holds(p) /\ Holds(q) => p = q

\* A dispatched request that was neither answered nor decided by the operator
\* is pending in every journal that a power loss at this instant can leave, so
\* no crash, restart, failed save or other process forgets it, and at most one
\* is outstanding.
UnsettledIsPending ==
  \A u \in unsettled : \A j \in journalD : j # None /\ j.pending = u

\* Whatever journal a power loss leaves, the exact signed bytes of its pending
\* request survive beside it (BeginSigned's order of saves).
PendingHasEvidence ==
  \A j \in journalD : j # None => (j.pending # None => requestD = {j.pending})

\* Whatever journal a power loss leaves, the response file it names survives
\* too (CompleteSigned saves it first and prunes the replaced one last).
CompletedHasEvidence ==
  \A j \in journalD : j # None => (j.last # None => j.last.response \in responseMust)

\* Nothing the lease writes, completely or not, is refused by the next open.
ReopensAfterCrash ==
  \A j \in journalD : j # None => Valid(j)

\* A request whose recovery was reported as durable is never pending again,
\* not even as a new request with the same digest: a repeated recovery of that
\* digest cannot consume a later operation.
NoRevival ==
  \A j \in journalD : j # None => j.pending \notin abandoned

\* No power loss takes the watermarks behind a request that was dispatched or
\* a response that was reported, so signing times never go backward.
WatermarksSurvive ==
  \A j \in journalD :
    IF j = None THEN sentMark = 0 /\ receivedMark = 0
    ELSE j.sent >= sentMark /\ j.received >= receivedMark

\* A process decides on a state that no power loss can take back: what it read
\* under the lock is the only journal that can survive.
Settled(p) == pc[p] \in {"open", "saveRequest", "requestSync", "ready", "waiting",
                         "saveResponse", "responseSync", "prune", "pruneSync", "done"}
DecidesOnDurableState ==
  \A p \in Procs : Settled(p) => journalD = {mem[p]}

\* The lease protects what it is taken for: its holder is alone, and decides
\* on a state that no power loss takes back.
LeaseIsSound == MutualExclusion /\ DecidesOnDurableState

\* What a power loss leaves is a journal that the next open accepts, with its
\* outstanding request and its evidence, with watermarks that cover all that
\* was signed or reported, and without a request that was decided.
SurvivesCrash ==
  /\ UnsettledIsPending /\ PendingHasEvidence /\ CompletedHasEvidence
  /\ ReopensAfterCrash /\ NoRevival /\ WatermarksSurvive

\* Whatever the peer does, no call keeps the peer's lease forever: the HTTP
\* client's timeout ends the wait and every path reaches Close.
CallsEnd == \A p \in Procs : pc[p] # "idle" ~> pc[p] = "idle"

\* The journal implements the promise of PendingSlot through every crash.
Outstanding == IF unsettled = {} THEN None ELSE CHOOSE u \in unsettled : TRUE
Slot == INSTANCE PendingSlot WITH slot <- Outstanding, mark <- sentMark
ImplementsSlot == Slot!Spec
-----------------------------------------------------------------------------
(***************************************************************************)
(* The inductive invariant.  A journal is good if it would satisfy every   *)
(* safety property were it the one that survives.  All survivable journals *)
(* are good, the one a process is about to save is good, and a process     *)
(* that has settled on a state knows the only survivable journal.          *)
(***************************************************************************)

\* A journal that can never again take a as a new pending request.
Beyond(j, a) == a.time < j.sent \/ (j.recovered # None /\ a.time <= j.recovered.time)

Good(j) ==
  /\ Valid(j)
  /\ j.pending # None => requestD = {j.pending}
  /\ j.last # None => j.last.response \in responseMust
  /\ \A u \in unsettled : j.pending = u
  /\ \A a \in abandoned : Beyond(j, a)
  /\ j.sent >= sentMark /\ j.received >= receivedMark

Untouched == unsettled = {} /\ abandoned = {} /\ sentMark = 0 /\ receivedMark = 0

FilesInv ==
  /\ journal \in journalD /\ request \in requestD
  /\ \A j \in journalD : IF j = None THEN Untouched ELSE Good(j)

LockInv == MutualExclusion /\ \A p \in Procs : Holds(p) => lock

Begun(p) == pc[p] \in {"begin", "beginSync", "ready", "waiting", "saveResponse",
                       "responseSync"}

ProcessInv(p) ==
  /\ pc[p] = "read" => journalD = {journal}
  /\ pc[p] \in {"create", "createSync"} =>
       /\ mem[p] = Fresh
       /\ \A j \in journalD : j \in {None, Fresh}
  /\ Settled(p) => journalD = {mem[p]}
  /\ pc[p] \in Saving \cup Syncing => Good(mem[p])
  /\ pc[p] \in Syncing => journal = mem[p]
  /\ pc[p] \in {"saveRequest", "requestSync"} => CanBegin(mem[p], req[p])
  /\ pc[p] = "requestSync" => request = req[p]
  /\ Begun(p) => mem[p].pending = req[p]
  /\ pc[p] \in {"saveResponse", "responseSync"} =>
       unsettled = {} /\ rep[p].time >= mem[p].received
  /\ pc[p] = "responseSync" => rep[p] \in response
  /\ pc[p] \in {"begin", "beginSync"} =>
       \A j \in journalD : j # None /\ (j.pending = None \/ j = mem[p])
  /\ pc[p] \in {"complete", "completeSync", "prune", "pruneSync"} =>
       mem[p].last # None /\ mem[p].last.response = rep[p]
  /\ pc[p] \in {"prune", "pruneSync"} => old[p] # rep[p]
  /\ pc[p] \in {"decide", "decideSync"} => Beyond(mem[p], req[p])

IInv == TypeOK /\ LockInv /\ FilesInv /\ \A p \in Procs : ProcessInv(p)

\* The mark covers the outstanding request: with it and IInv, every step is one
\* of PendingSlot's or leaves its slot and mark alone.
MarkInv == \A u \in unsettled : u.time <= sentMark
=============================================================================
