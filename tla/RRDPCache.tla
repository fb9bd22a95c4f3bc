----------------------------- MODULE RRDPCache -----------------------------
(***************************************************************************)
(* The disk cache of one RRDP repository, shared by several processes.     *)
(*                                                                         *)
(* A generation is a pack file with the repository's objects and a pointer *)
(* record that names it.  RefreshDiskPersistent takes the directory lock,  *)
(* saves the polling attempt, fetches a notification, builds the next      *)
(* generation from deltas or a snapshot and publishes it.  Processes and   *)
(* the machine may fail between any two steps, and a rename that was not   *)
(* synchronized may be lost with the machine.                              *)
(*                                                                         *)
(* The server is external: it publishes serials of one session after       *)
(* another, and a mirror may answer with any publication made so far.      *)
(***************************************************************************)
EXTENDS Integers, FiniteSets, Sequences

CONSTANTS
  Procs,            \* processes that refresh the repository
  URIs,             \* object URIs
  Hosts,            \* places a snapshot may be served from
  Packs,            \* names of pack files
  None,             \* nil, "" or no file
  Minute,           \* clock ticks in the polling interval
  MaxPublications,  \* bound: publications of the server
  MaxClock,         \* bound: the clock
  MaxFaults         \* bound: crashes, power failures and failed synchronizations

ASSUME BoundsAssumption ==
  {Minute, MaxPublications, MaxClock, MaxFaults} \subseteq Nat /\ MaxPublications >= 1 /\ Hosts # {}

\* The value of an object is the publication that set it; 0 is no object.
Contents == [URIs -> 0 .. MaxPublications]
Publication == [session : 1 .. MaxPublications, serial : 1 .. MaxPublications, objects : Contents]
Record == [version : {1, 2}, session : {None} \cup 1 .. MaxPublications, serial : 0 .. MaxPublications,
           snapshot : Hosts \cup {None}, attempt : -Minute .. MaxClock,
           pack : Packs \cup {None}, objects : Contents \cup {None}]
Notification == [k : 1 .. MaxPublications, host : Hosts]
Call == [at : {"lock", "read", "migrate", "attempt", "fetch", "delta", "snapshot", "stage", "save",
               "reopen", "unlock"},
         now : 0 .. MaxClock, cache : Record \cup {None}, migrating : BOOLEAN,
         note : Notification \cup {None}, next : 0 .. MaxPublications + 1,
         candidate : Contents \cup {None}, pack : Packs \cup {None}]

ASSUME NoneAssumption ==
  None \notin Packs \cup Hosts \cup Nat \cup Contents \cup Record \cup Notification \cup Call

VARIABLES
  log,      \* what the server published, in order
  record,   \* the pointer record as processes see it, or None
  disk,     \* the pointer records the disk may hold after a power failure
  dir,      \* the pack files in the directory
  files,    \* the contents of packs, open ones that were removed included
  lock,     \* does the lock directory exist?
  clock,    \* the time, in ticks
  call,     \* the running refresh of each process, or None
  handle,   \* the cache each process holds open, or None
  polls,    \* history: the attempt times of the notifications fetched
  faults    \* bound: faults so far

storage == <<record, disk, dir, files>>
server == <<log, clock>>
vars == <<server, storage, lock, call, handle, polls, faults>>

NoRecord ==
  [version |-> 2, session |-> None, serial |-> 0, snapshot |-> None, attempt |-> -Minute,
   pack |-> None, objects |-> None]
First == [session |-> 1, serial |-> 1, objects |-> [u \in URIs |-> 1]]

\* A directory that was never used, or one with a version 1 cache of the
\* first publication.
Version1 ==
  [version |-> 1, session |-> 1, serial |-> 1, snapshot |-> CHOOSE h \in Hosts : TRUE,
   attempt |-> 0, pack |-> None, objects |-> First.objects]
Init ==
  /\ log = <<First>> /\ clock = 0
  /\ record \in {None, Version1} /\ disk = {record}
  /\ dir = {} /\ files = [k \in Packs |-> None]
  /\ lock = FALSE /\ call = [p \in Procs |-> None] /\ handle = [p \in Procs |-> None]
  /\ polls = <<>> /\ faults = 0

Index(session, serial) == CHOOSE k \in DOMAIN log : log[k].session = session /\ log[k].serial = serial
-----------------------------------------------------------------------------
(* Storage *)

\* A record is renamed into place and the directory synchronized.
Save(r) == record' = r /\ disk' = {r}
\* The rename succeeded and the synchronization failed.
SaveUnsynced(r) ==
  /\ faults < MaxFaults /\ faults' = faults + 1
  /\ record' = r /\ disk' = disk \cup {r}

\* A pack whose handle is not kept is removed when it is closed.
OpenPacks == {handle[p].pack : p \in {q \in Procs : handle[q] # None}}
CachedPacks == {call[p].cache.pack : p \in {q \in Procs : call[q] # None /\ call[q].cache # None}}
FreePacks == Packs \ (dir \cup OpenPacks \cup CachedPacks)

Readable(r) == r.version = 2 /\ (r.session # None => (r.pack \in dir /\ files[r.pack] # None))
-----------------------------------------------------------------------------
(* RefreshDiskPersistent *)

Begun(now) == [at |-> "lock", now |-> now, cache |-> None, migrating |-> FALSE,
               note |-> None, next |-> 0, candidate |-> None, pack |-> None]
At(p, at) == call[p] # None /\ call[p].at = at
Goto(p, at) == call' = [call EXCEPT ![p].at = at]
\* The deferred unlock; the cache goes to the caller then.
Return(p, cache) == call' = [call EXCEPT ![p] = [Begun(0) EXCEPT !.at = "unlock", !.cache = cache]]

Start(p) ==
  /\ call[p] = None /\ handle[p] = None
  /\ call' = [call EXCEPT ![p] = Begun(clock)]
  /\ UNCHANGED <<server, storage, lock, handle, polls, faults>>

\* os.Mkdir of the lock directory; it fails when the lock exists.
Locked_Never == FALSE
Locked == lock
Lock(p) ==
  /\ At(p, "lock")
  /\ IF Locked THEN call' = [call EXCEPT ![p] = None] /\ UNCHANGED lock ELSE lock' = TRUE /\ Goto(p, "read")
  /\ UNCHANGED <<server, storage, handle, polls, faults>>

\* An attempt less than a minute ago ends the refresh with the cache it has.
TooSoon_Never(now, r) == FALSE
TooSoon(now, r) == now < r.attempt + Minute
Opened(p, r) ==
  IF TooSoon(call[p].now, r) THEN Return(p, r)
  ELSE call' = [call EXCEPT ![p].at = "attempt", ![p].cache = r, ![p].migrating = FALSE]
Read(p) ==
  /\ At(p, "read")
  /\ IF record = None THEN call' = [call EXCEPT ![p].at = "attempt", ![p].cache = NoRecord]
     ELSE IF Readable(record) THEN Opened(p, record)
     ELSE IF record.version = 1 THEN Goto(p, "migrate") ELSE Return(p, None)
  /\ UNCHANGED <<server, storage, lock, handle, polls, faults>>

\* migrateRRDPDisk keeps the attempt, session and serial of version 1.
Migrate(p) ==
  /\ At(p, "migrate")
  /\ call' = [call EXCEPT ![p].at = "stage", ![p].migrating = TRUE, ![p].candidate = record.objects]
  /\ UNCHANGED <<server, storage, lock, handle, polls, faults>>

\* The attempt is durable before the first request.
Attempt_NotSaved(p) ==
  /\ At(p, "attempt")
  /\ call' = [call EXCEPT ![p].at = "fetch", ![p].cache.attempt = call[p].now]
  /\ UNCHANGED <<server, storage, lock, handle, polls, faults>>
Attempt(p) ==
  /\ At(p, "attempt")
  /\ LET r == [call[p].cache EXCEPT !.attempt = call[p].now] IN
     \/ /\ Save(r) /\ call' = [call EXCEPT ![p].at = "fetch", ![p].cache = r]
        /\ UNCHANGED faults
     \/ SaveUnsynced(r) /\ Return(p, None)
     \/ Return(p, None) /\ UNCHANGED <<record, disk, faults>>  \* not published
  /\ UNCHANGED <<server, dir, files, lock, handle, polls>>

\* The serial rules for a notification of the cached session.
Stale_Ignored(n, r) == FALSE
Stale(n, r) ==
  /\ log[n.k].session = r.session
  /\ \/ log[n.k].serial < r.serial
     \/ log[n.k].serial = r.serial /\ n.host # r.snapshot
Current(n, r) == log[n.k].session = r.session /\ log[n.k].serial = r.serial
HasDeltas(n, r, from) ==
  log[n.k].session = r.session /\ r.pack # None /\ r.serial + 1 \in from .. log[n.k].serial

Fetch(p) ==
  /\ At(p, "fetch") /\ polls' = Append(polls, call[p].now)
  /\ \E k \in DOMAIN log, host \in Hosts, from \in 1 .. Len(log) + 1 :
       LET n == [k |-> k, host |-> host]  r == call[p].cache IN
       IF Stale(n, r) THEN Return(p, r) /\ UNCHANGED storage
       ELSE IF Current(n, r) THEN Save(r) /\ Return(p, r) /\ UNCHANGED <<dir, files>>
       ELSE /\ call' = [call EXCEPT ![p].at = IF HasDeltas(n, r, from) THEN "delta" ELSE "snapshot",
                                    ![p].note = n, ![p].next = IF HasDeltas(n, r, from) THEN r.serial + 1 ELSE 0,
                                    ![p].candidate = IF HasDeltas(n, r, from) THEN files[r.pack] ELSE None]
            /\ UNCHANGED storage
  /\ UNCHANGED <<server, lock, handle, faults>>
\* A request that fails, or a repository that was not modified.
FetchFails(p) ==
  /\ At(p, "fetch") /\ polls' = Append(polls, call[p].now) /\ Return(p, call[p].cache)
  /\ UNCHANGED <<server, storage, lock, handle, faults>>

\* applyDiskDelta: every change names the hash of what it replaces.
Changed(k) == {u \in URIs : log[k].objects[u] # log[k - 1].objects[u]}
Applies(k, objects) == \A u \in Changed(k) : objects[u] = log[k - 1].objects[u]
Applied(k, objects) == [u \in URIs |-> IF u \in Changed(k) THEN log[k].objects[u] ELSE objects[u]]

\* One delta of the chain goes into the private candidate.
Candidate_InPlace(p, objects) ==
  /\ call' = [call EXCEPT ![p].candidate = objects, ![p].next = @ + 1]
  /\ files' = [files EXCEPT ![call[p].cache.pack] = objects]
  /\ UNCHANGED <<record, disk, dir>>
Candidate(p, objects) ==
  call' = [call EXCEPT ![p].candidate = objects, ![p].next = @ + 1] /\ UNCHANGED storage
FallBack(p) == call' = [call EXCEPT ![p].at = "snapshot", ![p].candidate = None, ![p].next = 0]
Complete(p, objects) ==
  call' = [call EXCEPT ![p].at = "stage", ![p].candidate = objects, ![p].next = 0] /\ UNCHANGED storage
DeltaStep(p) ==
  /\ At(p, "delta")
  /\ LET k == Index(call[p].cache.session, call[p].next) IN
     IF call[p].next > log[call[p].note.k].serial THEN Complete(p, call[p].candidate)
     ELSE IF Applies(k, call[p].candidate) THEN Candidate(p, Applied(k, call[p].candidate))
     ELSE FallBack(p) /\ UNCHANGED storage
  /\ UNCHANGED <<server, lock, handle, polls, faults>>
\* A delta that cannot be fetched falls back to the snapshot.
DeltaFails(p) ==
  /\ At(p, "delta") /\ FallBack(p)
  /\ UNCHANGED <<server, storage, lock, handle, polls, faults>>

Snapshot(p) ==
  /\ At(p, "snapshot")
  /\ Complete(p, log[call[p].note.k].objects)
  /\ UNCHANGED <<server, lock, handle, polls, faults>>
SnapshotFails(p) ==
  /\ At(p, "snapshot") /\ Return(p, call[p].cache)
  /\ UNCHANGED <<server, storage, lock, handle, polls, faults>>

\* stageRRDPDiskPack fills a new file that nobody else knows of.
StagePack(p) ==
  /\ At(p, "stage")
  /\ \E k \in FreePacks :
       /\ dir' = dir \cup {k} /\ files' = [files EXCEPT ![k] = call[p].candidate]
       /\ call' = [call EXCEPT ![p].at = "save", ![p].pack = k, ![p].candidate = None]
  /\ UNCHANGED <<server, record, disk, lock, handle, polls, faults>>
\* The copy fails, the refresh is cancelled, or the pointer is not published.
StageFails(p) ==
  /\ At(p, "save")
  /\ dir' = dir \ {call[p].pack}
  /\ \E cache \in {None} \cup (IF call[p].migrating THEN {} ELSE {call[p].cache}) : Return(p, cache)
  /\ UNCHANGED <<server, record, disk, files, lock, handle, polls, faults>>

NewRecord(p) ==
  IF call[p].migrating
  THEN [record EXCEPT !.version = 2, !.objects = None, !.pack = call[p].pack]
  ELSE LET n == call[p].note IN
       [NoRecord EXCEPT !.session = log[n.k].session, !.serial = log[n.k].serial, !.snapshot = n.host,
                        !.attempt = call[p].now, !.pack = call[p].pack]
\* "Never remove a generation that the on-disk pointer may already name."
PacksAfterUnsynced_Removed(p) == dir \ {call[p].pack}
PacksAfterUnsynced(p) == dir
SavePointer(p) ==
  /\ At(p, "save")
  /\ \/ /\ Save(NewRecord(p)) /\ UNCHANGED <<dir, faults>>
        /\ IF call[p].migrating THEN Opened(p, record') ELSE Goto(p, "reopen")
     \/ /\ SaveUnsynced(NewRecord(p)) /\ dir' = PacksAfterUnsynced(p) /\ Return(p, None)
  /\ UNCHANGED <<server, files, lock, handle, polls>>

\* The new generation is opened, then the pack of the previous one removed.
OldPack_Kept(p) == {}
OldPack(p) == {call[p].cache.pack} \ {record.pack}
Reopen(p) ==
  /\ At(p, "reopen") /\ Return(p, IF Readable(record) THEN record ELSE None)
  /\ dir' = dir \ OldPack(p)
  /\ UNCHANGED <<server, record, disk, files, lock, handle, polls, faults>>

Unlock(p) ==
  /\ At(p, "unlock") /\ lock' = FALSE
  /\ call' = [call EXCEPT ![p] = None] /\ handle' = [handle EXCEPT ![p] = call[p].cache]
  /\ UNCHANGED <<server, storage, polls, faults>>
\* retrievePath closes the caches it used when it has read the publications.
Close(p) ==
  /\ handle[p] # None /\ handle' = [handle EXCEPT ![p] = None]
  /\ UNCHANGED <<server, storage, lock, call, polls, faults>>
-----------------------------------------------------------------------------
(* Faults, the operator, the server and the clock *)

Crash(p) ==
  /\ call[p] # None /\ faults < MaxFaults /\ faults' = faults + 1
  /\ call' = [call EXCEPT ![p] = None]
  /\ UNCHANGED <<server, storage, lock, handle, polls>>
PowerFailure ==
  /\ faults < MaxFaults /\ faults' = faults + 1
  /\ \E r \in disk : record' = r /\ disk' = {r}
  /\ call' = [p \in Procs |-> None] /\ handle' = [p \in Procs |-> None]
  /\ UNCHANGED <<server, dir, files, lock, polls>>
\* Recovery of a lock that no running process holds is manual.
Recover ==
  /\ lock /\ \A p \in Procs : call[p] # None => call[p].at = "lock"
  /\ lock' = FALSE /\ UNCHANGED <<server, storage, call, handle, polls, faults>>

\* The server changes some objects and removes others, in its session or in
\* a new one.
Publish ==
  /\ Len(log) < MaxPublications
  /\ LET last == log[Len(log)] IN
     \E set \in SUBSET URIs, withdraw \in SUBSET URIs, session \in {last.session, last.session + 1} :
       /\ set \cup withdraw # {} /\ set \cap withdraw = {}
       /\ log' = Append(log, [session |-> session,
                              serial |-> IF session = last.session THEN last.serial + 1 ELSE 1,
                              objects |-> [u \in URIs |-> IF u \in set THEN Len(log) + 1
                                                          ELSE IF u \in withdraw THEN 0 ELSE last.objects[u]]])
  /\ UNCHANGED <<clock, storage, lock, call, handle, polls, faults>>
Tick ==
  /\ clock < MaxClock /\ clock' = clock + 1
  /\ UNCHANGED <<log, storage, lock, call, handle, polls, faults>>

RefreshStep(p) ==
  \/ Lock(p) \/ Read(p) \/ Migrate(p) \/ Attempt(p) \/ Fetch(p) \/ FetchFails(p)
  \/ DeltaStep(p) \/ DeltaFails(p) \/ Snapshot(p) \/ SnapshotFails(p)
  \/ StagePack(p) \/ StageFails(p) \/ SavePointer(p) \/ Reopen(p) \/ Unlock(p)

Next ==
  \/ \E p \in Procs : Start(p) \/ RefreshStep(p) \/ Close(p) \/ Crash(p)
  \/ PowerFailure \/ Recover \/ Publish \/ Tick
Spec == Init /\ [][Next]_vars
-----------------------------------------------------------------------------
(* Properties *)

\* Records, calls and files keep to their domains, and one process at most
\* is between the lock and the unlock.
TypeOK ==
  /\ log \in Seq(Publication) /\ disk \subseteq Record \cup {None} /\ record \in disk
  /\ dir \subseteq Packs /\ files \in [Packs -> Contents \cup {None}] /\ lock \in BOOLEAN
  /\ call \in [Procs -> Call \cup {None}] /\ handle \in [Procs -> Record \cup {None}]
  /\ Cardinality({p \in Procs : call[p] # None /\ call[p].at # "lock"}) <= IF lock THEN 1 ELSE 0
  /\ clock \in 0 .. MaxClock /\ polls \in Seq(0 .. MaxClock) /\ faults \in 0 .. MaxFaults

IsGeneration(r) ==
  r.version = 2 /\ r.session # None =>
    /\ \E k \in DOMAIN log : log[k].session = r.session /\ log[k].serial = r.serial
    /\ files[r.pack] = log[Index(r.session, r.serial)].objects

\* "Partial updates never reach the cache": every pointer the disk may hold,
\* also after a crash or a power failure, names a pack in the directory with
\* exactly the objects the server published under its session and serial.
PointerNamesPublication ==
  \A r \in disk \ {None} :
    IsGeneration(r) /\ ((r.version = 2 /\ r.session # None) => r.pack \in dir)

\* What a caller reads through the cache it holds is one publication, though
\* other processes replace the generation and remove its pack meanwhile.
HandleIsOneGeneration == \A p \in Procs : handle[p] # None => IsGeneration(handle[p])

\* Two attempts that reach the server are at least a minute apart, whatever
\* failed between them.
PollInterval ==
  \A i, j \in DOMAIN polls : i < j => polls[j] >= polls[i] + Minute

\* While nothing fails, a pack stays only as long as the pointer names it.
PacksReclaimed ==
  faults = 0 /\ (\A p \in Procs : call[p] = None) =>
    dir \subseteq IF record = None THEN {} ELSE {record.pack}

\* Pointers and packs belong together: at every crash, under every reader, and
\* without leftovers.
GenerationsAreWhole == PointerNamesPublication /\ HandleIsOneGeneration /\ PacksReclaimed

\* A record that may replace another.
Succeeds(r, old) ==
  /\ old.session # None => r.session # None
  /\ r.session = old.session /\ r.session # None =>
       \/ r.serial > old.serial
       \/ r.serial = old.serial /\ r.snapshot = old.snapshot
  /\ r.attempt >= old.attempt
\* A record is saved only over records it may replace, those that a power
\* failure may bring back included: of their session it has no lower serial
\* and at an equal one their snapshot, objects are not dropped for an empty
\* cache, and the migration of a version 1 cache keeps what it knew.  Serials
\* are compared with the cached session only: a repository that changes its
\* session and returns may be cached with an older publication than before.
SavesGoForward == [][\A r \in disk' \ disk, old \in disk \ {None} : Succeeds(r, old)]_vars
-----------------------------------------------------------------------------
(* The inductive invariant behind the properties *)

\* Sessions follow one another, and the serials of a session leave no gap.
LogInv ==
  /\ Len(log) \in 1 .. MaxPublications
  /\ \A k \in DOMAIN log : log[k].session <= k /\ log[k].serial <= k
  /\ \A i, k \in DOMAIN log : i < k =>
       /\ log[i].session <= log[k].session
       /\ log[i].session = log[k].session => log[k].serial = log[i].serial + (k - i)

\* The process between the lock and the unlock, and what it works towards.
Held(p) == call[p] # None /\ call[p].at # "lock"
LockInv ==
  /\ \A p \in Procs : Held(p) => lock
  /\ \A p, q \in Procs : Held(p) /\ Held(q) => p = q

\* A record has a pack exactly when it has a session and version 2, and names
\* what was published.
Named(r) == r.version = 2 /\ r.session # None
Holds(r, objects) ==
  \E k \in DOMAIN log :
    log[k].session = r.session /\ log[k].serial = r.serial /\ objects = log[k].objects
RecordInv(r) ==
  /\ r.version = 1 => r.pack = None /\ r.session # None /\ Holds(r, r.objects)
  /\ Named(r) => r.pack \in Packs /\ Holds(r, files[r.pack])
  /\ r.version = 2 /\ r.session = None => r.pack = None

\* What the disk may hold besides the record is older.
DiskInv ==
  /\ \A r \in disk \ {None} : RecordInv(r) /\ (Named(r) => r.pack \in dir)
  /\ \A r \in disk \ {None} : record # None /\ Succeeds(record, r)
  /\ record = None => disk = {None}
  /\ (record # None /\ record.version = 1) => disk = {record}
  /\ \A r \in disk, i \in DOMAIN polls : r # None /\ r.attempt >= polls[i]

\* What a call knows of the record at each of its steps.
Fetched(c) == c.at \in {"fetch", "delta", "snapshot"} \/ (c.at \in {"stage", "save"} /\ ~c.migrating)
Wanted(c) == IF c.migrating THEN record.objects ELSE log[c.note.k].objects
DeltaInv(c) ==
  /\ record.session = log[c.note.k].session
  /\ c.next \in record.serial + 1 .. log[c.note.k].serial + 1
  /\ \E k \in DOMAIN log :
       log[k].session = record.session /\ log[k].serial = c.next - 1 /\ c.candidate = log[k].objects
CallInv(c) ==
  /\ c.migrating => c.at \in {"stage", "save"}
  /\ c.at = "migrate" \/ c.migrating => record # None /\ record.version = 1
  /\ c.at = "attempt" =>
       /\ c.cache = IF record = None THEN NoRecord ELSE record
       /\ c.cache.version = 2 /\ c.now >= c.cache.attempt + Minute
  /\ Fetched(c) => /\ record # None /\ c.cache = record /\ disk = {record}
                   /\ record.version = 2 /\ record.attempt = c.now
  /\ c.at = "fetch" => \A i \in DOMAIN polls : c.now >= polls[i] + Minute
  /\ Fetched(c) /\ c.at # "fetch" =>
       /\ c.note # None /\ c.note.k \in DOMAIN log
       /\ log[c.note.k].session = record.session => log[c.note.k].serial > record.serial
  /\ c.at = "delta" => DeltaInv(c)
  /\ c.at = "stage" => c.candidate = Wanted(c)
  /\ c.at = "save" => /\ c.pack \in dir /\ files[c.pack] = Wanted(c)
                     /\ \A r \in disk \ {None} : r.pack # c.pack
  /\ c.at = "reopen" => /\ record # None /\ Named(record) /\ disk = {record}
                       /\ c.cache # None /\ ~c.migrating
  /\ c.at = "unlock" /\ c.cache # None => RecordInv(c.cache)

ReclaimInv ==
  faults = 0 => \A k \in dir :
    \/ record # None /\ k = record.pack
    \/ \E p \in Procs : call[p] # None /\ call[p].at = "save" /\ k = call[p].pack
    \/ \E p \in Procs : call[p] # None /\ call[p].at = "reopen" /\ k = call[p].cache.pack

IInv ==
  /\ TypeOK /\ LogInv /\ LockInv /\ DiskInv /\ PollInterval /\ ReclaimInv
  /\ \A p \in Procs : call[p] # None => CallInv(call[p])
  /\ \A p \in Procs : handle[p] # None => RecordInv(handle[p])
=============================================================================
