-------------------------- MODULE RRDPCacheProofs --------------------------
(***************************************************************************)
(* Machine-checked proofs about RRDPCache, for every number of processes,  *)
(* objects, hosts and packs, every polling interval and every bound.       *)
(***************************************************************************)
EXTENDS RRDPCache, FiniteSetTheorems, TLAPS

\* None is no value of the sets that a field may be None instead of.
LEMMA NoneIsApart ==
  /\ None \notin Packs /\ None \notin Hosts /\ None \notin Nat /\ None \notin Contents
  /\ None \notin Record /\ None \notin Notification /\ None \notin Call
  BY NoneAssumption

LEMMA OneHolder ==
  ASSUME NEW S, \A x, y \in S : x = y
  PROVE  Cardinality(S) <= 1 /\ (S = {} => Cardinality(S) <= 0)
<1>1. CASE S = {}
  BY <1>1, FS_EmptySet
<1>2. CASE S # {}
  <2>1. PICK x \in S : TRUE
    BY <1>2
  <2>2. S = {x}
    BY <2>1
  <2> QED  BY <1>2, <2>2, FS_Singleton
<1> QED  BY <1>1, <1>2

LEMMA FirstRecords ==
  /\ First \in Publication /\ NoRecord \in Record /\ Version1 \in Record
  /\ \A now \in 0 .. MaxClock : Begun(now) \in Call
  /\ -Minute \in Int /\ -Minute <= 0 /\ {0} \subseteq 0 .. MaxClock
<1>1. (CHOOSE h \in Hosts : TRUE) \in Hosts
  BY BoundsAssumption
<1>2. First \in Publication /\ First.objects \in Contents
  BY BoundsAssumption DEF First, Publication, Contents
<1>3. -Minute \in Int /\ -Minute <= 0 /\ {0} \subseteq 0 .. MaxClock
  BY BoundsAssumption
<1>4. 0 \in 0 .. MaxPublications /\ 1 \in 1 .. MaxPublications /\ {0, -Minute} \subseteq -Minute .. MaxClock
  BY BoundsAssumption
<1>5. NoRecord \in Record
  BY <1>4 DEF NoRecord, Record
<1>6. Version1 \in Record
  BY <1>1, <1>2, <1>4 DEF Version1, Record
<1>7. \A now \in 0 .. MaxClock : Begun(now) \in Call
  BY BoundsAssumption DEF Begun, Call
<1> QED  BY <1>2, <1>3, <1>5, <1>6, <1>7

LEMMA LogTypes ==
  ASSUME log \in Seq(Publication)
  PROVE  /\ Len(log) \in Nat /\ DOMAIN log = 1 .. Len(log)
         /\ \A k \in DOMAIN log :
              /\ k \in Nat /\ log[k] \in Publication /\ log[k].objects \in Contents
              /\ log[k].session \in 1 .. MaxPublications /\ log[k].serial \in 1 .. MaxPublications
              /\ log[k].session \in Nat /\ log[k].serial \in Nat
<1>1. Len(log) \in Nat /\ DOMAIN log = 1 .. Len(log)
  OBVIOUS
<1>2. \A k \in 1 .. Len(log) : log[k] \in Publication
  OBVIOUS
<1>3. \A e \in Publication : /\ e.objects \in Contents
                            /\ e.session \in 1 .. MaxPublications /\ e.serial \in 1 .. MaxPublications
                            /\ e.session \in Nat /\ e.serial \in Nat
  BY BoundsAssumption DEF Publication
<1> QED  BY <1>1, <1>2, <1>3

\* A publication is known by its session and serial.
LEMMA Unique ==
  ASSUME log \in Seq(Publication), LogInv, NEW i \in DOMAIN log, NEW k \in DOMAIN log,
         log[i].session = log[k].session, log[i].serial = log[k].serial
  PROVE  i = k
<1>1. i \in Nat /\ k \in Nat /\ log[i].serial \in Nat /\ log[k].serial \in Nat
  BY LogTypes
<1>2. i < k => log[k].serial = log[i].serial + (k - i)
  BY DEF LogInv
<1>3. k < i => log[i].serial = log[k].serial + (i - k)
  BY DEF LogInv
<1> QED  BY <1>1, <1>2, <1>3

LEMMA IndexIs ==
  ASSUME log \in Seq(Publication), LogInv, NEW k \in DOMAIN log
  PROVE  Index(log[k].session, log[k].serial) = k
  BY Unique DEF Index

\* The serials of a session leave no gap, and the serial after the k-th
\* publication's is the next publication.
LEMMA NextSerial ==
  ASSUME log \in Seq(Publication), LogInv, NEW i \in DOMAIN log, NEW k \in DOMAIN log,
         log[i].session = log[k].session, log[i].serial < log[k].serial
  PROVE  /\ i + 1 \in DOMAIN log /\ log[i + 1].session = log[i].session
         /\ log[i + 1].serial = log[i].serial + 1
<1>1. i \in Nat /\ k \in Nat /\ DOMAIN log = 1 .. Len(log) /\ Len(log) \in Nat
  OBVIOUS
<1>2. \A j \in DOMAIN log : log[j].serial \in Nat /\ log[j].session \in Nat
  BY LogTypes
<1>3. ~(k < i)
  BY <1>1, <1>2 DEF LogInv
<1>4. i < k
  BY <1>1, <1>2, <1>3
<1>5. i + 1 \in DOMAIN log /\ i < i + 1 /\ i + 1 <= k
  BY <1>1, <1>4
<1>6. log[i].session <= log[i + 1].session /\ log[i + 1].session <= log[k].session
  <2>1. CASE i + 1 = k
    BY <1>2, <1>5, <2>1
  <2>2. CASE i + 1 < k
    BY <1>5, <2>2 DEF LogInv
  <2> QED  BY <1>1, <1>5, <2>1, <2>2
<1>7. log[i + 1].session = log[i].session
  BY <1>2, <1>5, <1>6
<1>8. log[i + 1].serial = log[i].serial + ((i + 1) - i)
  BY <1>5, <1>7 DEF LogInv
<1> QED  BY <1>1, <1>2, <1>5, <1>7, <1>8
-----------------------------------------------------------------------------
(* What a step of one process leaves alone *)

\* A record keeps naming a publication while the log only grows and the pack
\* it names keeps its contents.
LEMMA RecordKept ==
  ASSUME NEW r, RecordInv(r), Named(r) => files'[r.pack] = files[r.pack],
         \A k \in DOMAIN log : k \in DOMAIN log' /\ log'[k] = log[k]
  PROVE  RecordInv(r)'
<1>1. \A o : Holds(r, o) => Holds(r, o)'
  BY DEF Holds
<1>2. Named(r)' <=> Named(r)
  BY DEF Named
<1> QED  BY <1>1, <1>2 DEF RecordInv

\* A call that has not got the lock knows nothing yet.
LEMMA OutsideCalls ==
  ASSUME NEW c, c.at \in {"lock", "read"}
  PROVE  (CallInv(c) <=> ~c.migrating) /\ (CallInv(c)' <=> ~c.migrating)
  BY DEF CallInv, Fetched

LEMMA Others ==
  ASSUME IInv, NEW p \in Procs, Held(p), NEW q \in Procs, q # p, call[q] # None
  PROVE  call[q].at = "lock"
  BY DEF IInv, LockInv, Held

LEMMA CallIsTyped ==
  ASSUME IInv, NEW p \in Procs, call[p] # None
  PROVE  /\ call[p] \in Call /\ CallInv(call[p])
         /\ call[p].now \in 0 .. MaxClock /\ call[p].cache \in Record \cup {None}
         /\ call[p].note \in Notification \cup {None} /\ call[p].candidate \in Contents \cup {None}
         /\ call[p].pack \in Packs \cup {None} /\ call[p].next \in 0 .. MaxPublications + 1
         /\ call[p].migrating \in BOOLEAN
<1>1. call[p] \in Call
  BY DEF IInv, TypeOK
<1> QED  BY <1>1 DEF IInv, Call

\* The calls after a step of the process that holds the lock.
LEMMA CallStep ==
  ASSUME IInv, NEW p \in Procs, Held(p), NEW c \in Call \cup {None},
         call' = [call EXCEPT ![p] = c], c # None => CallInv(c)' /\ lock'
  PROVE  /\ call' \in [Procs -> Call \cup {None}]
         /\ LockInv'
         /\ (\A q \in Procs : call[q] # None => CallInv(call[q]))'
         /\ call'[p] = c /\ \A q \in Procs \ {p} : call'[q] = call[q]
<1>1. /\ call' \in [Procs -> Call \cup {None}] /\ call'[p] = c
      /\ \A q \in Procs \ {p} : call'[q] = call[q]
  BY DEF IInv, TypeOK
<1>2. \A q \in Procs \ {p} : call'[q] # None => call'[q].at = "lock" /\ ~call'[q].migrating
  BY <1>1, Others, OutsideCalls DEF IInv
<1>3. LockInv'
  BY <1>1, <1>2 DEF LockInv, Held
<1>4. ASSUME NEW q \in Procs, call'[q] # None PROVE CallInv(call[q])'
  BY <1>1, <1>2, <1>4, OutsideCalls
<1> QED  BY <1>1, <1>3, <1>4

OneHolds == Cardinality({p \in Procs : call[p] # None /\ call[p].at # "lock"}) <= IF lock THEN 1 ELSE 0
LEMMA LockCount == LockInv => OneHolds
<1> SUFFICES ASSUME LockInv PROVE OneHolds
  OBVIOUS
<1> DEFINE S == {p \in Procs : call[p] # None /\ call[p].at # "lock"}
<1>1. \A x, y \in S : x = y
  BY DEF LockInv, Held
<1>2. ~lock => S = {}
  BY DEF LockInv, Held
<1> QED  BY <1>1, <1>2, OneHolder DEF OneHolds
LEMMA LockCountNext == LockInv' => OneHolds'
  BY LockCount, PTL

\* A step that writes nothing to the disk and fetches nothing.
LEMMA QuietStorage ==
  ASSUME IInv, UNCHANGED <<log, storage, polls>>
  PROVE  /\ LogInv' /\ DiskInv' /\ PollInterval'
         /\ \A r : RecordInv(r)' <=> RecordInv(r)
         /\ \A c : CallInv(c)' <=> CallInv(c)
<1>1. \A r : RecordInv(r)' <=> RecordInv(r)
  BY DEF RecordInv, Named, Holds, storage
<1>2. \A c : CallInv(c)' <=> CallInv(c)
  BY <1>1 DEF CallInv, Fetched, Wanted, DeltaInv, Named, storage
<1>3. LogInv' /\ PollInterval'
  BY DEF IInv, LogInv, PollInterval
<1>4. DiskInv'
  BY <1>1 DEF IInv, DiskInv, Named, Succeeds, storage
<1> QED  BY <1>1, <1>2, <1>3, <1>4

\* A step that only moves the call of one process.
LEMMA PrivateStep ==
  ASSUME IInv, NEW p \in Procs, call[p] = None \/ call[p].at \notin {"save", "reopen"},
         NEW c \in Call, c.at = "lock" \/ Held(p), c.at # "lock" => lock, CallInv(c),
         call' = [call EXCEPT ![p] = c], UNCHANGED <<server, storage, lock, handle, polls, faults>>
  PROVE  IInv'
<1>1. /\ call' \in [Procs -> Call \cup {None}] /\ call'[p] = c
      /\ \A q \in Procs \ {p} : call'[q] = call[q]
  BY DEF IInv, TypeOK
<1>2. LogInv' /\ DiskInv' /\ PollInterval' /\ \A d : CallInv(d)' <=> CallInv(d)
  BY QuietStorage DEF server
<1>3. LockInv'
  BY <1>1, Others DEF IInv, LockInv, Held
<1>4. TypeOK'
  BY <1>1, <1>3, LockCountNext DEF IInv, TypeOK, OneHolds, server, storage
<1>5. ReclaimInv'
  BY <1>1 DEF IInv, ReclaimInv, storage
<1>6. \A q \in Procs : call'[q] # None => CallInv(call[q])'
  BY <1>1, <1>2 DEF IInv
<1>7. \A q \in Procs : handle'[q] # None => RecordInv(handle[q])'
  BY QuietStorage DEF IInv, server
<1> QED  BY <1>2, <1>3, <1>4, <1>5, <1>6, <1>7 DEF IInv
-----------------------------------------------------------------------------
(* The initial states and the steps of a refresh before it fetches *)

Returned(cache) == [Begun(0) EXCEPT !.at = "unlock", !.cache = cache]
LEMMA ReturnedCall ==
  ASSUME NEW r \in Record \cup {None}
  PROVE  /\ Returned(r) \in Call /\ Returned(r).at = "unlock"
         /\ (r # None => RecordInv(r)) => CallInv(Returned(r))
         /\ (r # None => RecordInv(r)') => CallInv(Returned(r))'
<1>1. Begun(0) \in Call
  BY FirstRecords
<1>2. Returned(r) \in Call
  BY <1>1 DEF Returned, Call
<1>3. Returned(r).at = "unlock" /\ Returned(r).cache = r /\ Returned(r).migrating = FALSE
  BY DEF Returned, Begun
<1>4. (r # None => RecordInv(r)) => CallInv(Returned(r))
  BY <1>3 DEF CallInv, Fetched
<1>5. (r # None => RecordInv(r)') => CallInv(Returned(r))'
  BY <1>3 DEF CallInv, Fetched
<1> QED  BY <1>2, <1>3, <1>4, <1>5

LEMMA RecordTypes ==
  ASSUME NEW r \in Record
  PROVE  /\ r.version \in {1, 2} /\ r.session \in {None} \cup 1 .. MaxPublications
         /\ r.serial \in 0 .. MaxPublications /\ r.serial \in Nat /\ r.attempt \in -Minute .. MaxClock
         /\ r.attempt \in Int /\ r.pack \in Packs \cup {None} /\ r.objects \in Contents \cup {None}
         /\ r # None
  BY FirstRecords, NoneIsApart, BoundsAssumption DEF Record

LEMMA SafeInit == Init => IInv
<1> SUFFICES ASSUME Init PROVE IInv
  OBVIOUS
<1>1. log \in Seq(Publication) /\ Len(log) = 1 /\ DOMAIN log = {1} /\ log[1] = First
  BY FirstRecords DEF Init
<1>2. LogInv
  BY <1>1, BoundsAssumption DEF LogInv, First
<1>3. \A p \in Procs : call[p] = None /\ handle[p] = None
  BY DEF Init
<1>4. LockInv
  BY <1>3 DEF LockInv, Held
<1>5. record # None => record = Version1 /\ RecordInv(record) /\ ~Named(record)
  BY <1>1, NoneIsApart, FirstRecords DEF Init, RecordInv, Named, Holds, Version1, First
<1>6. record # None => Succeeds(record, record)
  BY <1>5, RecordTypes, FirstRecords DEF Succeeds
<1>7. DiskInv
  BY <1>5, <1>6 DEF Init, DiskInv
<1>8. TypeOK
  <2>1. OneHolds /\ lock \in BOOLEAN
    BY <1>4, LockCount DEF Init
  <2> QED  BY <1>1, <2>1, FirstRecords, BoundsAssumption DEF Init, TypeOK, OneHolds
<1>9. PollInterval /\ ReclaimInv
  BY DEF Init, PollInterval, ReclaimInv
<1> QED  BY <1>2, <1>3, <1>4, <1>7, <1>8, <1>9 DEF IInv

LEMMA SafeStart ==
  ASSUME IInv, NEW p \in Procs, Start(p)
  PROVE  IInv'
<1>1. clock \in 0 .. MaxClock
  BY DEF IInv, TypeOK
<1>2. Begun(clock) \in Call /\ Begun(clock).at = "lock" /\ CallInv(Begun(clock))
  BY <1>1, FirstRecords, OutsideCalls DEF Begun
<1> QED  BY <1>2, PrivateStep DEF Start

LEMMA SafeLock ==
  ASSUME IInv, NEW p \in Procs, Lock(p)
  PROVE  IInv'
<1>1. call[p] # None /\ call[p].at = "lock" /\ call[p] \in Call /\ ~call[p].migrating
  BY CallIsTyped, OutsideCalls DEF Lock, At
<1>2. LogInv' /\ DiskInv' /\ PollInterval' /\ (\A d : CallInv(d)' <=> CallInv(d))
      /\ \A r : RecordInv(r)' <=> RecordInv(r)
  BY QuietStorage DEF Lock, server
<1>3. CASE lock
  <2>1. /\ call' \in [Procs -> Call \cup {None}] /\ call'[p] = None
        /\ \A q \in Procs \ {p} : call'[q] = call[q]
    BY <1>3 DEF IInv, TypeOK, Lock, Locked
  <2>2. lock' = lock
    BY <1>3 DEF Lock, Locked
  <2>3. LockInv'
    BY <2>1, <2>2 DEF IInv, LockInv, Held
  <2>4. TypeOK'
    BY <2>1, <2>3, LockCountNext DEF IInv, TypeOK, OneHolds, Lock, server, storage
  <2>5. ReclaimInv'
    BY <1>1, <2>1 DEF IInv, ReclaimInv, Lock, storage
  <2> QED  BY <1>2, <2>1, <2>3, <2>4, <2>5 DEF IInv, Lock
<1>4. CASE ~lock
  <2> DEFINE c == [call[p] EXCEPT !.at = "read"]
  <2>1. c \in Call /\ CallInv(c)
    BY <1>1, OutsideCalls DEF Call
  <2>2. /\ call' \in [Procs -> Call \cup {None}] /\ call'[p] = c
        /\ \A q \in Procs \ {p} : call'[q] = call[q]
    BY <1>4, <2>1 DEF IInv, TypeOK, Lock, Locked, Goto
  <2>3. lock' = TRUE /\ \A q \in Procs : ~Held(q)
    BY <1>4 DEF IInv, LockInv, Lock, Locked
  <2> HIDE DEF c
  <2>4. LockInv'
    BY <2>2, <2>3 DEF LockInv, Held
  <2>5. TypeOK'
    BY <2>2, <2>4, LockCountNext DEF IInv, TypeOK, OneHolds, Lock, server, storage
  <2>6. ReclaimInv'
    BY <1>1, <2>2 DEF IInv, ReclaimInv, Lock, storage
  <2> QED  BY <1>2, <2>1, <2>2, <2>4, <2>5, <2>6 DEF IInv, Lock
<1> QED  BY <1>3, <1>4

\* Opening a usable generation either ends the refresh or starts polling.
OpenedCall(p, r) ==
  IF TooSoon(call[p].now, r) THEN Returned(r)
  ELSE [call[p] EXCEPT !.at = "attempt", !.cache = r, !.migrating = FALSE]
LEMMA OpenedIs ==
  ASSUME IInv, NEW p \in Procs, call[p] # None, NEW r \in Record, r.version = 2,
         NEW c, c = OpenedCall(p, r)
  PROVE  /\ Opened(p, r) => call' = [call EXCEPT ![p] = c]
         /\ c \in Call /\ c.at \in {"attempt", "unlock"}
         /\ r = record /\ RecordInv(r) => CallInv(c)
         /\ r = record' /\ RecordInv(r)' => CallInv(c)'
<1>1. r \in Record \cup {None} /\ r # None
  BY RecordTypes
<1>2. CASE TooSoon(call[p].now, r)
  <2>1. c = Returned(r)
    BY <1>2 DEF OpenedCall
  <2>2. Opened(p, r) => call' = [call EXCEPT ![p] = c]
    BY <1>2, <2>1 DEF Opened, Return, Returned
  <2> QED  BY <1>1, <2>1, <2>2, ReturnedCall
<1>3. CASE ~TooSoon(call[p].now, r)
  <2>1. c = [call[p] EXCEPT !.at = "attempt", !.cache = r, !.migrating = FALSE]
    BY <1>3 DEF OpenedCall
  <2>2. Opened(p, r) => call' = [call EXCEPT ![p] = c]
    BY <1>3, <2>1 DEF Opened, IInv, TypeOK
  <2>3. call[p] \in Call
    BY CallIsTyped
  <2>4. c \in Call
    BY <1>1, <2>1, <2>3 DEF Call
  <2>5. c.at = "attempt" /\ c.cache = r /\ c.migrating = FALSE /\ c.now = call[p].now
    BY <2>1, <2>3 DEF Call
  <2>6. c.now >= r.attempt + Minute
    BY <1>3, <2>5, CallIsTyped, RecordTypes, BoundsAssumption DEF TooSoon
  <2>7. /\ r = record => CallInv(c)
        /\ r = record' => CallInv(c)'
    BY <1>1, <2>5, <2>6 DEF CallInv, Fetched
  <2> QED  BY <2>2, <2>4, <2>5, <2>7
<1> QED  BY <1>2, <1>3

LEMMA RecordFacts ==
  ASSUME IInv, record # None
  PROVE  /\ record \in Record /\ record \in disk /\ RecordInv(record)
         /\ Named(record) => record.pack \in dir
         /\ \A r \in disk : r # None => r \in Record /\ Succeeds(record, r)
  BY NoneIsApart DEF IInv, TypeOK, DiskInv

LEMMA SafeRead ==
  ASSUME IInv, NEW p \in Procs, Read(p)
  PROVE  IInv'
<1>1. /\ call[p] # None /\ call[p].at = "read" /\ Held(p) /\ lock
      /\ call[p] \in Call /\ ~call[p].migrating
  BY CallIsTyped, OutsideCalls DEF Read, At, Held, IInv, LockInv
<1>2. \A c \in Call : CallInv(c) /\ call' = [call EXCEPT ![p] = c] => IInv'
  BY <1>1, PrivateStep DEF Read
<1>3. CASE record = None
  <2> DEFINE c == [call[p] EXCEPT !.at = "attempt", !.cache = NoRecord]
  <2>1. call' = [call EXCEPT ![p] = c]
    BY <1>3 DEF Read, IInv, TypeOK
  <2>2. /\ c \in Call /\ c.at = "attempt" /\ c.cache = NoRecord /\ ~c.migrating
        /\ c.now \in 0 .. MaxClock
    BY <1>1, CallIsTyped, FirstRecords DEF Call
  <2>3. NoRecord.version = 2 /\ NoRecord.attempt + Minute = 0
    BY BoundsAssumption DEF NoRecord
  <2> HIDE DEF c
  <2>4. CallInv(c)
    BY <1>3, <2>2, <2>3 DEF CallInv, Fetched
  <2> QED  BY <1>2, <2>1, <2>2, <2>4
<1>4. CASE record # None /\ Readable(record)
  <2>1. record \in Record /\ record.version = 2 /\ RecordInv(record)
    BY <1>4, RecordFacts DEF Readable
  <2>2. Opened(p, record)
    BY <1>4 DEF Read
  <2> QED  BY <1>1, <1>2, <2>1, <2>2, OpenedIs
<1>5. CASE record # None /\ ~Readable(record) /\ record.version = 1
  <2> DEFINE c == [call[p] EXCEPT !.at = "migrate"]
  <2>1. call' = [call EXCEPT ![p] = c]
    BY <1>5 DEF Read, Goto, IInv, TypeOK
  <2>2. c \in Call /\ c.at = "migrate" /\ ~c.migrating
    BY <1>1, CallIsTyped DEF Call
  <2> HIDE DEF c
  <2>3. CallInv(c)
    BY <1>5, <2>2 DEF CallInv, Fetched
  <2> QED  BY <1>2, <2>1, <2>2, <2>3
<1>6. CASE record # None /\ ~Readable(record) /\ record.version # 1
  <2>1. call' = [call EXCEPT ![p] = Returned(None)]
    BY <1>6 DEF Read, Return, Returned
  <2> QED  BY <1>2, <2>1, ReturnedCall
<1> QED  BY <1>3, <1>4, <1>5, <1>6

LEMMA SafeMigrate ==
  ASSUME IInv, NEW p \in Procs, Migrate(p)
  PROVE  IInv'
<1> DEFINE c == [call[p] EXCEPT !.at = "stage", !.migrating = TRUE, !.candidate = record.objects]
<1>1. /\ call[p] # None /\ call[p].at = "migrate" /\ Held(p) /\ lock
      /\ call[p] \in Call /\ CallInv(call[p])
  BY CallIsTyped DEF Migrate, At, Held, IInv, LockInv
<1>2. record # None /\ record.version = 1
  BY <1>1 DEF CallInv
<1>3. record \in Record /\ record.objects \in Contents \cup {None}
  BY <1>2, RecordFacts, RecordTypes
<1>4. call' = [call EXCEPT ![p] = c]
  BY DEF Migrate, IInv, TypeOK
<1>5. c \in Call /\ c.at = "stage" /\ c.migrating = TRUE /\ c.candidate = record.objects
  BY <1>1, <1>3 DEF Call
<1> HIDE DEF c
<1>6. CallInv(c)
  BY <1>2, <1>5 DEF CallInv, Fetched, Wanted
<1> QED  BY <1>1, <1>4, <1>5, <1>6, PrivateStep DEF Migrate
-----------------------------------------------------------------------------
(* Steps that write to the disk or fetch *)

LEMMA HeldStep ==
  ASSUME IInv, NEW p \in Procs, Held(p), NEW c \in Call, CallInv(c)',
         call' = [call EXCEPT ![p] = c], UNCHANGED <<server, lock, handle>>,
         \A q \in Procs : handle[q] # None /\ Named(handle[q]) =>
           files'[handle[q].pack] = files[handle[q].pack],
         record' \in disk', disk' \subseteq Record \cup {None},
         dir' \subseteq Packs, files' \in [Packs -> Contents \cup {None}],
         polls' \in Seq(0 .. MaxClock), faults' \in 0 .. MaxFaults,
         DiskInv', PollInterval', ReclaimInv'
  PROVE  IInv'
<1>1. lock
  BY DEF IInv, LockInv
<1>2. /\ call' \in [Procs -> Call \cup {None}] /\ LockInv'
      /\ (\A q \in Procs : call[q] # None => CallInv(call[q]))'
  BY <1>1, CallStep
<1>3. TypeOK'
  BY <1>2, LockCountNext DEF IInv, TypeOK, OneHolds, server
<1>4. LogInv'
  BY DEF IInv, LogInv, server
<1>5. \A q \in Procs : handle'[q] # None => RecordInv(handle[q])'
  BY RecordKept DEF IInv, server
<1> QED  BY <1>2, <1>3, <1>4, <1>5 DEF IInv

LEMMA SucceedsSame ==
  ASSUME NEW r \in Record, NEW t \in Record, NEW old \in Record, Succeeds(t, old),
         r.session = t.session, r.serial = t.serial, r.snapshot = t.snapshot, r.attempt >= t.attempt
  PROVE  Succeeds(r, old)
  BY RecordTypes DEF Succeeds

\* The first attempt of a repository, and a record that replaces another.
LEMMA Written ==
  ASSUME IInv, NEW r \in Record, record' = r, disk' = {r} \/ disk' = disk \cup {r},
         RecordInv(r)', Named(r) => r.pack \in dir', UNCHANGED <<log, files, polls>>,
         r.version = 1 => disk' = {r},
         \A old \in disk \ {None} : Succeeds(r, old) /\ (Named(old) => old.pack \in dir'),
         \A i \in DOMAIN polls : r.attempt >= polls[i], Succeeds(r, r)
  PROVE  DiskInv' /\ (\A s \in disk' \ disk, old \in disk \ {None} : Succeeds(s, old))
<1>1. r # None
  BY RecordTypes
<1>2. \A old \in disk \ {None} : RecordInv(old)'
  BY RecordKept DEF IInv, DiskInv
<1>3. \A old \in disk' \ {None} : RecordInv(old)' /\ (Named(old) => old.pack \in dir') /\ Succeeds(r, old)
  BY <1>2
<1>4. \A old \in disk', i \in DOMAIN polls : old # None /\ old.attempt >= polls[i]
  BY <1>1 DEF IInv, DiskInv
<1>5. DiskInv'
  BY <1>1, <1>3, <1>4 DEF DiskInv, Named, Succeeds
<1> QED  BY <1>5

LEMMA PacksStay ==
  ASSUME IInv, NEW p \in Procs, Held(p), call[p].at \notin {"save", "reopen"},
         NEW c, call' = [call EXCEPT ![p] = c], UNCHANGED <<dir, faults>>,
         record' # None \/ record = None, record # None => record'.pack = record.pack
  PROVE  ReclaimInv'
<1>1. \A q \in Procs \ {p} : call'[q] = call[q]
  BY DEF IInv, TypeOK
<1> QED  BY <1>1 DEF IInv, ReclaimInv, Held

LEMMA SelfSucceeds ==
  ASSUME NEW r \in Record
  PROVE  Succeeds(r, r)
  BY RecordTypes DEF Succeeds

\* SavesGoForward, for one step.
Forward == \A r \in disk' \ disk, old \in disk \ {None} : Succeeds(r, old)

LEMMA ElementOf ==
  ASSUME NEW S, NEW s \in Seq(S), NEW i \in DOMAIN s
  PROVE  s[i] \in S
  OBVIOUS

LEMMA PollTypes ==
  ASSUME IInv
  PROVE  polls \in Seq(0 .. MaxClock) /\ \A i \in DOMAIN polls : polls[i] \in 0 .. MaxClock /\ polls[i] \in Int
<1>1. polls \in Seq(0 .. MaxClock)
  BY DEF IInv, TypeOK
<1>2. \A i \in DOMAIN polls : polls[i] \in 0 .. MaxClock
  BY <1>1, ElementOf
<1> QED  BY <1>1, <1>2, BoundsAssumption

LEMMA SafeAttempt ==
  ASSUME IInv, NEW p \in Procs, Attempt(p)
  PROVE  IInv' /\ Forward
<1> PICK r : r = [call[p].cache EXCEPT !.attempt = call[p].now]
  OBVIOUS
<1> PICK c : c = [call[p] EXCEPT !.at = "fetch", !.cache = r]
  OBVIOUS
<1>1. /\ call[p] # None /\ call[p].at = "attempt" /\ Held(p) /\ lock
      /\ call[p] \in Call /\ CallInv(call[p]) /\ call[p].now \in 0 .. MaxClock
  BY CallIsTyped DEF Attempt, At, Held, IInv, LockInv
<1>2. /\ call[p].cache = IF record = None THEN NoRecord ELSE record
      /\ call[p].cache.version = 2 /\ call[p].now >= call[p].cache.attempt + Minute
      /\ ~call[p].migrating
  BY <1>1 DEF CallInv
<1>3. call[p].cache \in Record
  BY <1>2, RecordFacts, FirstRecords
<1>4. /\ r \in Record /\ r # None /\ r.version = 2 /\ r.attempt = call[p].now
      /\ r.session = call[p].cache.session /\ r.serial = call[p].cache.serial
      /\ r.snapshot = call[p].cache.snapshot /\ r.pack = call[p].cache.pack
  <2>1. call[p].now \in -Minute .. MaxClock
    BY <1>1, BoundsAssumption
  <2>2. r \in Record
    BY <1>3, <2>1 DEF Record
  <2> QED  BY <1>2, <1>3, <2>2, RecordTypes DEF Record
<1>5. r.attempt >= call[p].cache.attempt + Minute /\ r.attempt >= call[p].cache.attempt
  <2>1. call[p].cache.attempt \in Int /\ r.attempt \in Int /\ Minute \in Nat
    BY <1>3, <1>4, RecordTypes, BoundsAssumption
  <2> QED  BY <1>2, <1>4, <2>1
<1>6. /\ c \in Call /\ c.at = "fetch" /\ c.cache = r /\ c.migrating = FALSE /\ c.now = call[p].now
  BY <1>1, <1>2, <1>4 DEF Call
<1>7. RecordInv(r)'
  <2>1. CASE record = None
    <3>1. r.session = None /\ r.pack = None
      BY <1>2, <1>4, <2>1 DEF NoRecord
    <3> QED  BY <1>4, <3>1 DEF RecordInv, Named
  <2>2. CASE record # None
    <3>1. RecordInv(record) /\ r.session = record.session /\ r.serial = record.serial
          /\ r.pack = record.pack /\ record.version = 2
      BY <1>2, <1>4, <2>2, RecordFacts
    <3>2. UNCHANGED <<log, files>>
      BY DEF Attempt, server
    <3> QED  BY <1>4, <3>1, <3>2 DEF RecordInv, Named, Holds
  <2> QED  BY <2>1, <2>2
<1>8. \A old \in disk \ {None} : old \in Record /\ Succeeds(r, old) /\ (Named(old) => old.pack \in dir)
  <2> SUFFICES ASSUME NEW old \in disk \ {None}
               PROVE  old \in Record /\ Succeeds(r, old) /\ (Named(old) => old.pack \in dir)
    OBVIOUS
  <2>1. record # None /\ old \in Record /\ Succeeds(record, old) /\ (Named(old) => old.pack \in dir)
    BY DEF IInv, DiskInv, TypeOK
  <2>2. record \in Record /\ call[p].cache = record
    BY <1>2, <2>1, RecordFacts
  <2> QED  BY <1>4, <1>5, <2>1, <2>2, SucceedsSame
<1>9. \A i \in DOMAIN polls : r.attempt >= polls[i] /\ r.attempt >= polls[i] + Minute
  <2> SUFFICES ASSUME NEW i \in DOMAIN polls
               PROVE  r.attempt >= polls[i] /\ r.attempt >= polls[i] + Minute
    OBVIOUS
  <2>1. polls[i] \in Int
    BY PollTypes
  <2>2. record # None /\ record.attempt >= polls[i]
    BY DEF IInv, DiskInv, TypeOK
  <2>3. record \in Record /\ call[p].cache = record
    BY <1>2, <2>2, RecordFacts
  <2>4. record.attempt \in Int /\ r.attempt \in Int /\ Minute \in Nat
    BY <1>4, <2>3, RecordTypes, BoundsAssumption
  <2>5. r.attempt >= record.attempt + Minute
    BY <1>5, <2>3
  <2> QED  BY <2>1, <2>2, <2>4, <2>5
<1>10. Named(r) => r.pack \in dir
  <2> SUFFICES ASSUME Named(r) PROVE r.pack \in dir
    OBVIOUS
  <2>1. r.session # None /\ r.version = 2
    BY DEF Named
  <2>2. record # None
    BY <1>2, <1>4, <2>1 DEF NoRecord
  <2>3. Named(record) /\ r.pack = record.pack
    BY <1>2, <1>4, <2>1, <2>2 DEF Named
  <2> QED  BY <2>2, <2>3, RecordFacts
<1>11. /\ UNCHANGED <<server, dir, files, lock, handle, polls>>
       /\ polls' \in Seq(0 .. MaxClock) /\ PollInterval'
       /\ dir' \subseteq Packs /\ files' \in [Packs -> Contents \cup {None}]
       /\ disk \subseteq Record \cup {None}
  BY DEF Attempt, IInv, TypeOK, PollInterval, server
<1>12. /\ record # None => r.pack = record.pack
       /\ Returned(None) \in Call /\ CallInv(Returned(None))'
  BY <1>2, <1>4, ReturnedCall
<1>13. CASE Save(r) /\ call' = [call EXCEPT ![p] = c] /\ UNCHANGED faults
  <2>1. record' = r /\ disk' = {r}
    BY <1>13 DEF Save
  <2>2. DiskInv' /\ Forward
    <3>1. /\ dir' = dir /\ UNCHANGED <<log, files, polls>>
      BY <1>11 DEF server
    <3>2. r \in Record /\ r.version = 2 /\ Succeeds(r, r)
      BY <1>4, SelfSucceeds
    <3>3. \A old \in disk \ {None} : Succeeds(r, old) /\ (Named(old) => old.pack \in dir')
      BY <1>8, <3>1
    <3>4. Named(r) => r.pack \in dir'
      BY <1>10, <3>1
    <3>5. \A i \in DOMAIN polls : r.attempt >= polls[i]
      BY <1>9
    <3> QED  BY <1>7, <2>1, <3>1, <3>2, <3>3, <3>4, <3>5, Written DEF Forward
  <2>3. ReclaimInv'
    BY <1>1, <1>4, <1>11, <1>12, <1>13, <2>1, PacksStay
  <2>4. CallInv(c)'
    BY <1>4, <1>6, <1>9, <1>11, <2>1 DEF CallInv, Fetched
  <2> QED  BY <1>1, <1>4, <1>6, <1>11, <1>13, <2>1, <2>2, <2>3, <2>4, HeldStep DEF IInv, TypeOK
<1>14. CASE SaveUnsynced(r) /\ Return(p, None)
  <2>1. /\ record' = r /\ disk' = disk \cup {r} /\ faults' \in 0 .. MaxFaults /\ faults' # 0
        /\ call' = [call EXCEPT ![p] = Returned(None)]
    BY <1>14, BoundsAssumption DEF SaveUnsynced, Return, Returned, IInv, TypeOK
  <2>2. DiskInv' /\ Forward
    <3>1. UNCHANGED <<log, files, polls, dir>> /\ Succeeds(r, r)
      BY <1>4, <1>11, SelfSucceeds DEF server
    <3>2. /\ \A old \in disk \ {None} : Succeeds(r, old) /\ (Named(old) => old.pack \in dir')
          /\ \A i \in DOMAIN polls : r.attempt >= polls[i]
          /\ Named(r) => r.pack \in dir'
      BY <1>8, <1>9, <1>10, <3>1
    <3>3. /\ record' = r /\ (disk' = {r} \/ disk' = disk \cup {r}) /\ r \in Record /\ RecordInv(r)'
          /\ (r.version = 1 => disk' = {r})
      BY <1>4, <1>7, <2>1
    <3> QED  BY <3>1, <3>2, <3>3, Written, Zenon DEF Forward
  <2>3. ReclaimInv'
    BY <2>1 DEF ReclaimInv
  <2> QED  BY <1>1, <1>4, <1>11, <1>12, <2>1, <2>2, <2>3, HeldStep
<1>15. CASE Return(p, None) /\ UNCHANGED <<record, disk, faults>>
  <2>1. call' = [call EXCEPT ![p] = Returned(None)] /\ UNCHANGED <<server, storage, lock, handle, polls, faults>>
    BY <1>11, <1>15 DEF Return, Returned, storage
  <2>2. CallInv(Returned(None)) /\ Returned(None).at # "save"
    BY ReturnedCall
  <2>3. IInv'
    BY <1>1, <1>12, <2>1, <2>2, PrivateStep
  <2> QED  BY <1>15, <2>3 DEF Forward
<1> QED  BY <1>13, <1>14, <1>15 DEF Attempt

\* What a call that polls knows.
LEMMA FetchedFacts ==
  ASSUME IInv, NEW p \in Procs, call[p] # None, Fetched(call[p])
  PROVE  /\ Held(p) /\ lock /\ record # None /\ record \in Record /\ call[p].cache = record
         /\ disk = {record} /\ record.version = 2 /\ record.attempt = call[p].now
         /\ RecordInv(record) /\ (Named(record) => record.pack \in dir)
<1>1. CallInv(call[p]) /\ call[p].at # "lock"
  BY CallIsTyped DEF Fetched
<1>2. record # None /\ call[p].cache = record /\ disk = {record} /\ record.version = 2
      /\ record.attempt = call[p].now
  BY <1>1 DEF CallInv
<1>3. Held(p) /\ lock
  BY <1>1 DEF Held, IInv, LockInv
<1> QED  BY <1>2, <1>3, RecordFacts

LEMMA FetchStep ==
  ASSUME IInv, NEW p \in Procs, At(p, "fetch"), polls' = Append(polls, call[p].now),
         NEW c \in Call, c.at # "fetch", c.at # "lock", CallInv(c), call' = [call EXCEPT ![p] = c],
         UNCHANGED <<server, storage, lock, handle, faults>>
  PROVE  IInv'
<1>1. call[p] # None /\ call[p].at = "fetch" /\ Fetched(call[p]) /\ CallInv(call[p])
      /\ call[p].now \in 0 .. MaxClock
  BY CallIsTyped DEF At, Fetched
<1>2. /\ Held(p) /\ record # None /\ record \in Record /\ disk = {record}
      /\ record.attempt = call[p].now
  BY <1>1, FetchedFacts
<1>3. \A i \in DOMAIN polls : call[p].now >= polls[i] + Minute
  BY <1>1 DEF CallInv
<1>4. /\ polls \in Seq(0 .. MaxClock) /\ polls' \in Seq(0 .. MaxClock)
      /\ Len(polls) \in Nat /\ DOMAIN polls = 1 .. Len(polls) /\ DOMAIN polls' = 1 .. Len(polls) + 1
      /\ polls'[Len(polls) + 1] = call[p].now
      /\ \A i \in DOMAIN polls : polls'[i] = polls[i] /\ polls[i] \in Int
  BY <1>1, PollTypes
<1>5. PollInterval'
  <2> SUFFICES ASSUME NEW i \in DOMAIN polls', NEW j \in DOMAIN polls', i < j
               PROVE  polls'[j] >= polls'[i] + Minute
    BY DEF PollInterval
  <2>1. i \in DOMAIN polls /\ (j \in DOMAIN polls \/ j = Len(polls) + 1)
    BY <1>4
  <2> QED  BY <1>3, <1>4, <2>1 DEF IInv, PollInterval
<1>6. \A i \in DOMAIN polls' : record.attempt >= polls'[i]
  <2> SUFFICES ASSUME NEW i \in DOMAIN polls' PROVE record.attempt >= polls'[i]
    OBVIOUS
  <2>1. i \in DOMAIN polls \/ i = Len(polls) + 1
    BY <1>4
  <2>2. call[p].now \in Int /\ Minute \in Nat
    BY <1>1, BoundsAssumption
  <2> QED  BY <1>2, <1>3, <1>4, <2>1, <2>2
<1>7. \A r : RecordInv(r)' <=> RecordInv(r)
  BY DEF RecordInv, Named, Holds, storage, server
<1>8. DiskInv'
  BY <1>2, <1>6, <1>7 DEF IInv, DiskInv, storage, Named, Succeeds
<1>9. CallInv(c)'
  BY <1>7 DEF CallInv, Fetched, Wanted, DeltaInv, Named, storage, server
<1>10. ReclaimInv'
  BY <1>1, <1>2, PacksStay DEF storage
<1>11. /\ record' \in disk' /\ disk' \subseteq Record \cup {None} /\ dir' \subseteq Packs
       /\ files' \in [Packs -> Contents \cup {None}] /\ faults' \in 0 .. MaxFaults
       /\ UNCHANGED <<server, lock, handle, files>>
  BY DEF IInv, TypeOK, storage
<1> QED  BY <1>2, <1>4, <1>5, <1>8, <1>9, <1>10, <1>11, HeldStep

LEMMA SafeFetchFails ==
  ASSUME IInv, NEW p \in Procs, FetchFails(p)
  PROVE  IInv'
<1>1. Fetched(call[p]) /\ call[p] # None
  BY DEF FetchFails, At, Fetched
<1>2. call[p].cache \in Record /\ RecordInv(call[p].cache)
  BY <1>1, FetchedFacts
<1>3. PICK r : r = call[p].cache
  OBVIOUS
<1>4. call' = [call EXCEPT ![p] = Returned(r)]
  BY <1>3 DEF FetchFails, Return, Returned
<1> QED  BY <1>2, <1>3, <1>4, ReturnedCall, FetchStep DEF FetchFails

LEMMA SafeFetch ==
  ASSUME IInv, NEW p \in Procs, Fetch(p)
  PROVE  IInv'
<1>1. PICK k \in DOMAIN log, host \in Hosts, from \in 1 .. Len(log) + 1 :
        LET n == [k |-> k, host |-> host]  r == call[p].cache IN
        IF Stale(n, r) THEN Return(p, r) /\ UNCHANGED storage
        ELSE IF Current(n, r) THEN Save(r) /\ Return(p, r) /\ UNCHANGED <<dir, files>>
        ELSE /\ call' = [call EXCEPT ![p].at = IF HasDeltas(n, r, from) THEN "delta" ELSE "snapshot",
                                     ![p].note = n, ![p].next = IF HasDeltas(n, r, from) THEN r.serial + 1 ELSE 0,
                                     ![p].candidate = IF HasDeltas(n, r, from) THEN files[r.pack] ELSE None]
             /\ UNCHANGED storage
  BY DEF Fetch
<1>2. PICK n : n = [k |-> k, host |-> host]
  OBVIOUS
<1>3. PICK r : r = call[p].cache
  OBVIOUS
<1>4. At(p, "fetch") /\ Fetched(call[p]) /\ call[p] # None /\ call[p] \in Call /\ call[p].at = "fetch"
      /\ call[p].migrating = FALSE
  BY CallIsTyped DEF Fetch, At, Fetched, CallInv
<1>5. /\ r = record /\ record # None /\ r \in Record /\ RecordInv(r) /\ disk = {r} /\ r.version = 2
      /\ r.attempt = call[p].now
  BY <1>3, <1>4, FetchedFacts
<1>6. /\ log \in Seq(Publication) /\ Len(log) \in 1 .. MaxPublications /\ k \in 1 .. Len(log)
      /\ n \in Notification /\ n.k = k /\ n.host = host /\ n # None
  <2>1. log \in Seq(Publication) /\ Len(log) \in 1 .. MaxPublications /\ k \in 1 .. Len(log)
    BY LogTypes DEF IInv, TypeOK, LogInv
  <2>2. k \in 1 .. MaxPublications
    BY <2>1, BoundsAssumption
  <2> QED  BY <1>2, <2>1, <2>2, NoneIsApart DEF Notification
<1>7. CASE Stale(n, r) \/ Current(n, r)
  <2>1. call' = [call EXCEPT ![p] = Returned(r)] /\ UNCHANGED storage
    BY <1>1, <1>2, <1>3, <1>5, <1>7 DEF Return, Returned, Save, storage
  <2> QED  BY <1>4, <1>5, <2>1, ReturnedCall, FetchStep DEF Fetch
<1>8. CASE ~Stale(n, r) /\ ~Current(n, r)
  <2>1. log[k].session = r.session => log[k].serial > r.serial
    BY <1>5, <1>6, <1>8, LogTypes, RecordTypes DEF Stale, Current
  <2>2. CASE HasDeltas(n, r, from)
    <3> DEFINE d == [call[p] EXCEPT !.at = "delta", !.note = n, !.next = r.serial + 1,
                                    !.candidate = files[r.pack]]
    <3>1. call' = [call EXCEPT ![p] = d] /\ UNCHANGED storage
      BY <1>1, <1>2, <1>3, <1>8, <2>2 DEF IInv, TypeOK
    <3>2. /\ log[k].session = r.session /\ r.pack # None /\ r.serial + 1 <= log[k].serial
          /\ r.serial \in Nat /\ log[k].serial \in 1 .. MaxPublications
      BY <1>5, <1>6, <2>2, LogTypes, RecordTypes DEF HasDeltas
    <3>3. r.session # None /\ Named(r) /\ r.pack \in Packs /\ Holds(r, files[r.pack])
      BY <1>5, <3>2 DEF RecordInv, Named
    <3>4. r.serial + 1 \in 0 .. MaxPublications + 1 /\ files[r.pack] \in Contents \cup {None}
      <4>1. r.serial + 1 \in 0 .. MaxPublications + 1
        BY <3>2, BoundsAssumption
      <4>2. files[r.pack] \in Contents \cup {None}
        BY <3>3 DEF IInv, TypeOK
      <4> QED  BY <4>1, <4>2
    <3>5. d \in Call
      BY <1>4, <1>6, <3>4 DEF Call
    <3>6. /\ d.at = "delta" /\ d.note = n /\ d.next = r.serial + 1 /\ d.candidate = files[r.pack]
          /\ d.cache = r /\ d.migrating = FALSE /\ d.now = call[p].now
      BY <1>3, <1>4 DEF Call
    <3> HIDE DEF d
    <3>7. DeltaInv(d)
      <4>1. d.next \in record.serial + 1 .. log[k].serial + 1 /\ d.next - 1 = r.serial
        BY <1>5, <3>2, <3>6, LogTypes, RecordTypes
      <4> QED  BY <1>5, <1>6, <3>2, <3>3, <3>6, <4>1 DEF DeltaInv, Holds
    <3>8. CallInv(d)
      BY <1>5, <1>6, <2>1, <3>6, <3>7 DEF CallInv, Fetched
    <3> QED  BY <1>4, <3>1, <3>5, <3>6, <3>8, FetchStep DEF Fetch
  <2>3. CASE ~HasDeltas(n, r, from)
    <3> DEFINE d == [call[p] EXCEPT !.at = "snapshot", !.note = n, !.next = 0, !.candidate = None]
    <3>1. call' = [call EXCEPT ![p] = d] /\ UNCHANGED storage
      BY <1>1, <1>2, <1>3, <1>8, <2>3 DEF IInv, TypeOK
    <3>2. 0 \in 0 .. MaxPublications + 1
      BY BoundsAssumption
    <3>3. d \in Call
      BY <1>4, <1>6, <3>2 DEF Call
    <3>4. d.at = "snapshot" /\ d.note = n /\ d.cache = r /\ d.migrating = FALSE /\ d.now = call[p].now
      BY <1>3, <1>4 DEF Call
    <3> HIDE DEF d
    <3>5. CallInv(d)
      BY <1>5, <1>6, <2>1, <3>4 DEF CallInv, Fetched
    <3> QED  BY <1>4, <3>1, <3>3, <3>4, <3>5, FetchStep DEF Fetch
  <2> QED  BY <2>2, <2>3
<1> QED  BY <1>7, <1>8
-----------------------------------------------------------------------------
(* Steps of a refresh after the fetch *)

LEMMA NotedFacts ==
  ASSUME IInv, NEW p \in Procs, call[p] # None, Fetched(call[p]), call[p].at # "fetch"
  PROVE  /\ call[p].note # None /\ call[p].note \in Notification /\ call[p].note.k \in DOMAIN log
         /\ log[call[p].note.k] \in Publication /\ log[call[p].note.k].objects \in Contents
         /\ log[call[p].note.k].session = record.session => log[call[p].note.k].serial > record.serial
         /\ log \in Seq(Publication) /\ LogInv
<1>1. log \in Seq(Publication) /\ LogInv
  BY DEF IInv, TypeOK
<1> QED  BY <1>1, CallIsTyped, LogTypes DEF CallInv

\* Applying the next delta to a publication of the session gives the next one.
LEMMA DeltaIsNext ==
  ASSUME log \in Seq(Publication), LogInv, NEW i \in DOMAIN log, i + 1 \in DOMAIN log
  PROVE  Applied(i + 1, log[i].objects) = log[i + 1].objects /\ Applies(i + 1, log[i].objects)
<1>1. log[i].objects \in Contents /\ log[i + 1].objects \in Contents /\ (i + 1) - 1 = i
  BY LogTypes
<1> QED  BY <1>1 DEF Applied, Applies, Changed, Contents

LEMMA SafeDeltaFails ==
  ASSUME IInv, NEW p \in Procs, At(p, "delta"), FallBack(p),
         UNCHANGED <<server, storage, lock, handle, polls, faults>>
  PROVE  IInv'
<1> DEFINE c == [call[p] EXCEPT !.at = "snapshot", !.candidate = None, !.next = 0]
<1>1. /\ call[p] # None /\ call[p].at = "delta" /\ Fetched(call[p]) /\ call[p] \in Call
      /\ call[p].migrating = FALSE
  BY CallIsTyped DEF At, Fetched, CallInv
<1>2. call' = [call EXCEPT ![p] = c]
  BY DEF FallBack, IInv, TypeOK
<1>3. c \in Call
  <2>1. 0 \in 0 .. MaxPublications + 1
    BY BoundsAssumption
  <2> QED  BY <1>1, <2>1 DEF Call
<1>4. /\ c.at = "snapshot" /\ c.note = call[p].note /\ c.cache = call[p].cache
      /\ c.migrating = FALSE /\ c.now = call[p].now
  BY <1>1 DEF Call
<1> HIDE DEF c
<1>5. CallInv(c)
  BY <1>1, <1>4, FetchedFacts, NotedFacts DEF CallInv, Fetched
<1> QED  BY <1>1, <1>2, <1>3, <1>4, <1>5, FetchedFacts, PrivateStep

\* A complete candidate goes to be staged.
LEMMA CompleteStep ==
  ASSUME IInv, NEW p \in Procs, call[p] # None, call[p].at \in {"delta", "snapshot"},
         NEW objects, objects = log[call[p].note.k].objects, Complete(p, objects),
         UNCHANGED <<server, lock, handle, polls, faults>>
  PROVE  IInv'
<1> DEFINE c == [call[p] EXCEPT !.at = "stage", !.candidate = objects, !.next = 0]
<1>1. /\ Fetched(call[p]) /\ call[p] \in Call /\ call[p].migrating = FALSE
      /\ call[p].at \notin {"fetch", "save", "reopen"}
  BY CallIsTyped DEF Fetched, CallInv
<1>2. call' = [call EXCEPT ![p] = c] /\ UNCHANGED storage
  BY DEF Complete, IInv, TypeOK
<1>3. objects \in Contents
  BY <1>1, NotedFacts
<1>4. c \in Call
  <2>1. 0 \in 0 .. MaxPublications + 1
    BY BoundsAssumption
  <2> QED  BY <1>1, <1>3, <2>1 DEF Call
<1>5. /\ c.at = "stage" /\ c.note = call[p].note /\ c.cache = call[p].cache /\ c.candidate = objects
      /\ c.migrating = FALSE /\ c.now = call[p].now
  BY <1>1 DEF Call
<1> HIDE DEF c
<1>6. CallInv(c)
  BY <1>1, <1>5, FetchedFacts, NotedFacts DEF CallInv, Fetched, Wanted
<1> QED  BY <1>1, <1>2, <1>4, <1>5, <1>6, FetchedFacts, PrivateStep

LEMMA SafeSnapshot ==
  ASSUME IInv, NEW p \in Procs, Snapshot(p)
  PROVE  IInv'
<1>1. PICK objects : objects = log[call[p].note.k].objects
  OBVIOUS
<1> QED  BY <1>1, CompleteStep DEF Snapshot, At

LEMMA SafeSnapshotFails ==
  ASSUME IInv, NEW p \in Procs, SnapshotFails(p)
  PROVE  IInv'
<1>1. /\ Fetched(call[p]) /\ call[p] # None /\ call[p].at \notin {"save", "reopen"}
      /\ call[p].cache \in Record /\ RecordInv(call[p].cache)
  BY FetchedFacts DEF SnapshotFails, At, Fetched
<1>2. PICK r : r = call[p].cache
  OBVIOUS
<1>3. call' = [call EXCEPT ![p] = Returned(r)]
  BY <1>2 DEF SnapshotFails, Return, Returned
<1> QED  BY <1>1, <1>2, <1>3, FetchedFacts, ReturnedCall, PrivateStep DEF SnapshotFails

LEMMA SafeDeltaStep ==
  ASSUME IInv, NEW p \in Procs, DeltaStep(p)
  PROVE  IInv'
<1>1. /\ call[p] # None /\ call[p].at = "delta" /\ Fetched(call[p]) /\ call[p] \in Call
      /\ DeltaInv(call[p]) /\ call[p].migrating = FALSE
  BY CallIsTyped DEF DeltaStep, At, Fetched, CallInv
<1>2. PICK m : m = call[p].note.k
  OBVIOUS
<1>3. /\ m \in DOMAIN log /\ log \in Seq(Publication) /\ LogInv
      /\ call[p].cache = record /\ record \in Record
  BY <1>1, <1>2, NotedFacts, FetchedFacts
<1>4. PICK i \in DOMAIN log : /\ log[i].session = record.session /\ log[i].serial = call[p].next - 1
                              /\ call[p].candidate = log[i].objects
  BY <1>1 DEF DeltaInv
<1>5. /\ record.session = log[m].session /\ record.serial \in Nat
      /\ call[p].next \in record.serial + 1 .. log[m].serial + 1
      /\ call[p].next \in Nat /\ log[m].serial \in Nat /\ log[i].serial \in Nat
      /\ log[m].serial <= MaxPublications
  BY <1>1, <1>2, <1>3, LogTypes, RecordTypes DEF DeltaInv
<1>6. CASE call[p].next > log[m].serial
  <2>1. log[i].serial = log[m].serial
    BY <1>4, <1>5, <1>6
  <2>2. i = m
    BY <1>3, <1>4, <1>5, <2>1, Unique
  <2>3. PICK objects : objects = log[m].objects
    OBVIOUS
  <2>4. Complete(p, objects)
    BY <1>2, <1>4, <1>6, <2>2, <2>3 DEF DeltaStep
  <2> QED  BY <1>1, <1>2, <2>3, <2>4, CompleteStep DEF DeltaStep
<1>7. CASE ~(call[p].next > log[m].serial)
  <2>1. log[i].session = log[m].session /\ log[i].serial < log[m].serial
    BY <1>4, <1>5, <1>7
  <2>2. /\ i + 1 \in DOMAIN log /\ log[i + 1].session = record.session
        /\ log[i + 1].serial = call[p].next
    BY <1>3, <1>4, <1>5, <2>1, NextSerial
  <2>3. Index(call[p].cache.session, call[p].next) = i + 1
    BY <1>3, <2>2, IndexIs
  <2>4. Applied(i + 1, call[p].candidate) = log[i + 1].objects /\ Applies(i + 1, call[p].candidate)
    BY <1>3, <1>4, <2>2, DeltaIsNext
  <2>5. Candidate(p, log[i + 1].objects)
    BY <1>2, <1>7, <2>3, <2>4 DEF DeltaStep
  <2> DEFINE c == [call[p] EXCEPT !.candidate = log[i + 1].objects, !.next = call[p].next + 1]
  <2>6. call' = [call EXCEPT ![p] = c] /\ UNCHANGED storage
    BY <2>5 DEF Candidate, IInv, TypeOK
  <2>7. call[p].next + 1 \in 0 .. MaxPublications + 1 /\ log[i + 1].objects \in Contents
    <3>1. call[p].next <= MaxPublications
      BY <1>5, <1>7, BoundsAssumption
    <3>2. call[p].next + 1 \in 0 .. MaxPublications + 1
      BY <1>5, <3>1, BoundsAssumption
    <3> QED  BY <1>3, <2>2, <3>2, LogTypes
  <2>8. c \in Call
    BY <1>1, <2>7 DEF Call
  <2>9. /\ c.at = "delta" /\ c.note = call[p].note /\ c.cache = call[p].cache
        /\ c.candidate = log[i + 1].objects /\ c.next = call[p].next + 1
        /\ c.migrating = FALSE /\ c.now = call[p].now
    BY <1>1 DEF Call
  <2> HIDE DEF c
  <2>10. DeltaInv(c)
    <3>1. c.next \in record.serial + 1 .. log[m].serial + 1 /\ c.next - 1 = call[p].next
      BY <1>5, <1>7, <2>9
    <3> QED  BY <1>2, <1>5, <2>2, <2>9, <3>1 DEF DeltaInv
  <2>11. CallInv(c)
    BY <1>1, <2>9, <2>10, FetchedFacts, NotedFacts DEF CallInv, Fetched
  <2> QED  BY <1>1, <2>6, <2>8, <2>9, <2>11, FetchedFacts, PrivateStep DEF DeltaStep
<1> QED  BY <1>6, <1>7

LEMMA DiskPacks ==
  ASSUME IInv, NEW r \in disk \ {None}
  PROVE  /\ r \in Record /\ RecordInv(r) /\ (Named(r) => r.pack \in dir)
         /\ ~Named(r) => r.pack = None
<1>1. r \in Record /\ RecordInv(r) /\ (Named(r) => r.pack \in dir)
  BY DEF IInv, TypeOK, DiskInv
<1> QED  BY <1>1, RecordTypes DEF RecordInv, Named

\* The disk as a step leaves it that writes no record but adds or removes packs.
LEMMA DirStep ==
  ASSUME IInv, UNCHANGED <<log, record, disk, polls>>,
         \A r \in disk \ {None} : Named(r) => r.pack \in dir' /\ files'[r.pack] = files[r.pack]
  PROVE  DiskInv' /\ PollInterval'
<1>1. \A r \in disk \ {None} : RecordInv(r)'
  BY RecordKept DEF IInv, DiskInv
<1> QED  BY <1>1 DEF IInv, DiskInv, PollInterval, Named, Succeeds

LEMMA SafeStagePack ==
  ASSUME IInv, NEW p \in Procs, StagePack(p)
  PROVE  IInv'
<1>1. PICK k \in FreePacks :
        /\ dir' = dir \cup {k} /\ files' = [files EXCEPT ![k] = call[p].candidate]
        /\ call' = [call EXCEPT ![p].at = "save", ![p].pack = k, ![p].candidate = None]
  BY DEF StagePack
<1>2. PICK c : c = [call[p] EXCEPT !.at = "save", !.pack = k, !.candidate = None]
  OBVIOUS
<1>3. /\ call[p] # None /\ call[p].at = "stage" /\ Held(p) /\ lock /\ call[p] \in Call
      /\ CallInv(call[p]) /\ call[p].candidate \in Contents \cup {None}
  BY CallIsTyped DEF StagePack, At, Held, IInv, LockInv
<1>4. k \in Packs /\ k \notin dir /\ k \notin OpenPacks /\ k # None
  BY NoneIsApart DEF FreePacks
<1>5. /\ dir' \subseteq Packs /\ files' \in [Packs -> Contents \cup {None}]
      /\ files'[k] = call[p].candidate /\ \A j \in Packs \ {k} : files'[j] = files[j]
  BY <1>1, <1>3, <1>4 DEF IInv, TypeOK
<1>6. c \in Call
  BY <1>2, <1>3, <1>4 DEF Call
<1>7. /\ c.at = "save" /\ c.pack = k /\ c.note = call[p].note /\ c.cache = call[p].cache
      /\ c.migrating = call[p].migrating /\ c.now = call[p].now
  BY <1>2, <1>3 DEF Call
<1>8. call' = [call EXCEPT ![p] = c]
  BY <1>1, <1>2 DEF IInv, TypeOK
<1>9. \A r \in disk \ {None} : r.pack # k /\ (Named(r) => r.pack \in Packs /\ r.pack \in dir)
  BY <1>4, DiskPacks DEF RecordInv
<1>10. \A r \in disk \ {None} : Named(r) => r.pack \in dir' /\ files'[r.pack] = files[r.pack]
  BY <1>1, <1>5, <1>9
<1>11. UNCHANGED <<server, record, disk, lock, handle, polls, faults>>
  BY DEF StagePack
<1>12. DiskInv' /\ PollInterval'
  BY <1>10, <1>11, DirStep DEF server
<1>13. CallInv(c)'
  <2>1. files'[k] = IF c.migrating THEN record.objects ELSE log[c.note.k].objects
    BY <1>3, <1>5, <1>7 DEF CallInv, Wanted
  <2>2. k \in dir' /\ \A r \in disk' \ {None} : r.pack # k
    BY <1>1, <1>9, <1>11
  <2> QED  BY <1>3, <1>7, <1>11, <2>1, <2>2 DEF CallInv, Fetched, Wanted, server
<1>14. ReclaimInv'
  <2>1. call'[p] = c /\ \A q \in Procs \ {p} : call'[q] = call[q]
    BY <1>8 DEF IInv, TypeOK
  <2>2. c # None
    BY <1>6, NoneIsApart
  <2>3. \A q \in Procs : call[q] # None /\ call[q].at \in {"save", "reopen"} => call'[q] = call[q]
    BY <1>3, <2>1
  <2>4. ASSUME NEW j \in dir, faults = 0
        PROVE  \/ record # None /\ j = record.pack
               \/ \E q \in Procs : call[q] # None /\ call[q].at = "save" /\ j = call[q].pack
               \/ \E q \in Procs : call[q] # None /\ call[q].at = "reopen" /\ j = call[q].cache.pack
    BY <2>4 DEF IInv, ReclaimInv
  <2>5. ASSUME NEW j \in dir, faults = 0
        PROVE  \/ record # None /\ j = record.pack
               \/ \E q \in Procs : call'[q] # None /\ call'[q].at = "save" /\ j = call'[q].pack
               \/ \E q \in Procs : call'[q] # None /\ call'[q].at = "reopen" /\ j = call'[q].cache.pack
    BY <2>3, <2>4, <2>5
  <2>6. \E q \in Procs : call'[q] # None /\ call'[q].at = "save" /\ k = call'[q].pack
    BY <1>7, <2>1, <2>2
  <2> QED  BY <1>1, <1>11, <2>5, <2>6 DEF ReclaimInv
<1>15. \A q \in Procs : handle[q] # None /\ Named(handle[q]) =>
         files'[handle[q].pack] = files[handle[q].pack]
  BY <1>4, <1>5 DEF OpenPacks, IInv, RecordInv
<1> QED  BY <1>3, <1>5, <1>6, <1>8, <1>11, <1>12, <1>13, <1>14, <1>15, HeldStep DEF IInv, TypeOK

LEMMA SafeStageFails ==
  ASSUME IInv, NEW p \in Procs, StageFails(p)
  PROVE  IInv'
<1>1. PICK cache \in {None} \cup (IF call[p].migrating THEN {} ELSE {call[p].cache}) : Return(p, cache)
  BY DEF StageFails
<1>2. /\ call[p] # None /\ call[p].at = "save" /\ Held(p) /\ lock /\ call[p] \in Call
      /\ CallInv(call[p])
  BY CallIsTyped DEF StageFails, At, Held, IInv, LockInv
<1>3. cache \in Record \cup {None} /\ (cache # None => RecordInv(cache))
  BY <1>1, <1>2, FetchedFacts DEF Fetched
<1>4. call' = [call EXCEPT ![p] = Returned(cache)]
  BY <1>1 DEF Return, Returned
<1>5. dir' = dir \ {call[p].pack} /\ UNCHANGED <<server, record, disk, files, lock, handle, polls, faults>>
  BY DEF StageFails
<1>6. \A r \in disk \ {None} : Named(r) => r.pack \in dir' /\ files'[r.pack] = files[r.pack]
  BY <1>2, <1>5, DiskPacks DEF CallInv
<1>7. DiskInv' /\ PollInterval'
  BY <1>5, <1>6, DirStep DEF server
<1>8. Returned(cache) \in Call /\ CallInv(Returned(cache))'
  <2>1. cache # None => RecordInv(cache)'
    BY <1>3, <1>5, RecordKept DEF server
  <2> QED  BY <1>3, <2>1, ReturnedCall
<1>9. ReclaimInv'
  <2>1. \A q \in Procs \ {p} : call'[q] = call[q]
    BY <1>4 DEF IInv, TypeOK
  <2> QED  BY <1>2, <1>5, <2>1 DEF IInv, ReclaimInv
<1> QED  BY <1>2, <1>4, <1>5, <1>7, <1>8, <1>9, HeldStep DEF IInv, TypeOK

\* The record that names a staged pack: it is a whole publication, and newer
\* than what the disk holds.
LEMMA NewRecordIs ==
  ASSUME IInv, NEW p \in Procs, At(p, "save"), NEW r, r = NewRecord(p)
  PROVE  /\ r \in Record /\ Named(r) /\ r.pack = call[p].pack /\ r.pack \in dir /\ r.pack \in Packs
         /\ Holds(r, files[r.pack]) /\ record # None
         /\ \A old \in disk \ {None} : old \in Record /\ Succeeds(r, old)
         /\ \A i \in DOMAIN polls : r.attempt >= polls[i]
         /\ call[p].migrating => r.session = record.session /\ r.attempt = record.attempt
<1>1. /\ call[p] # None /\ call[p].at = "save" /\ call[p] \in Call /\ CallInv(call[p])
      /\ call[p].pack \in dir /\ files[call[p].pack] = Wanted(call[p]) /\ dir \subseteq Packs
  BY CallIsTyped DEF At, CallInv, IInv, TypeOK
<1>2. CASE call[p].migrating
  <2>1. record # None /\ record.version = 1 /\ disk = {record} /\ record \in Record
    BY <1>1, <1>2, RecordFacts DEF CallInv, IInv, DiskInv
  <2>2. r = [record EXCEPT !.version = 2, !.objects = None, !.pack = call[p].pack]
    BY <1>2 DEF NewRecord
  <2>3. r \in Record
    BY <1>1, <2>1, <2>2 DEF Record
  <2>4. /\ r.version = 2 /\ r.session = record.session /\ r.serial = record.serial
        /\ r.snapshot = record.snapshot /\ r.attempt = record.attempt /\ r.pack = call[p].pack
    BY <2>1, <2>2 DEF Record
  <2>5. record.session # None /\ Holds(record, record.objects)
    BY <2>1, RecordFacts DEF RecordInv
  <2>6. Holds(r, files[r.pack])
    BY <1>1, <1>2, <2>4, <2>5 DEF Holds, Wanted
  <2>7. Succeeds(r, record)
    BY <2>1, <2>3, <2>4, RecordTypes, SelfSucceeds, SucceedsSame
  <2>8. \A i \in DOMAIN polls : r.attempt >= polls[i]
    BY <2>1, <2>4 DEF IInv, DiskInv
  <2> QED  BY <1>1, <2>1, <2>3, <2>4, <2>5, <2>6, <2>7, <2>8 DEF Named
<1>3. CASE ~call[p].migrating
  <2>1. Fetched(call[p])
    BY <1>1, <1>3 DEF Fetched
  <2>2. /\ record # None /\ disk = {record} /\ record \in Record /\ record.attempt = call[p].now
        /\ call[p].now \in 0 .. MaxClock
    BY <1>1, <2>1, FetchedFacts, CallIsTyped
  <2>3. PICK n : n = call[p].note
    OBVIOUS
  <2>4. /\ n \in Notification /\ n.k \in DOMAIN log /\ n.host \in Hosts
        /\ log[n.k].session \in 1 .. MaxPublications /\ log[n.k].serial \in 1 .. MaxPublications
        /\ log[n.k].session \in Nat /\ log[n.k].serial \in Nat
        /\ log[n.k].session = record.session => log[n.k].serial > record.serial
    BY <1>1, <2>1, <2>3, NotedFacts, LogTypes DEF Notification
  <2>5. r = [version |-> 2, session |-> log[n.k].session, serial |-> log[n.k].serial, snapshot |-> n.host,
             attempt |-> call[p].now, pack |-> call[p].pack, objects |-> None]
    BY <1>3, <2>3 DEF NewRecord, NoRecord
  <2>6. r \in Record
    <3>1. call[p].now \in -Minute .. MaxClock /\ log[n.k].serial \in 0 .. MaxPublications
      BY <2>2, <2>4, BoundsAssumption
    <3> QED  BY <1>1, <2>4, <2>5, <3>1 DEF Record
  <2>7. /\ Named(r) /\ r.pack = call[p].pack /\ r.session # None /\ r.attempt = record.attempt
        /\ r.session = log[n.k].session /\ r.serial = log[n.k].serial
    BY <2>2, <2>4, <2>5, NoneIsApart DEF Named
  <2>8. Holds(r, files[r.pack])
    BY <1>1, <1>3, <2>3, <2>4, <2>7 DEF Holds, Wanted
  <2>9. Succeeds(r, record)
    BY <2>2, <2>4, <2>6, <2>7, RecordTypes DEF Succeeds
  <2>10. \A i \in DOMAIN polls : r.attempt >= polls[i]
    BY <2>2, <2>7 DEF IInv, DiskInv
  <2> QED  BY <1>1, <1>3, <2>2, <2>6, <2>7, <2>8, <2>9, <2>10
<1> QED  BY <1>2, <1>3

LEMMA SafeSavePointer ==
  ASSUME IInv, NEW p \in Procs, SavePointer(p)
  PROVE  IInv' /\ Forward
<1>1. PICK r : r = NewRecord(p)
  OBVIOUS
<1>2. /\ call[p] # None /\ call[p].at = "save" /\ At(p, "save") /\ Held(p) /\ lock
      /\ call[p] \in Call /\ CallInv(call[p])
  BY CallIsTyped DEF SavePointer, At, Held, IInv, LockInv
<1>3. /\ r \in Record /\ Named(r) /\ r.version = 2 /\ r.pack = call[p].pack /\ r.pack \in dir
      /\ Holds(r, files[r.pack]) /\ record # None /\ r # None /\ r.pack \in Packs
      /\ \A old \in disk \ {None} : old \in Record /\ Succeeds(r, old)
      /\ \A i \in DOMAIN polls : r.attempt >= polls[i]
  BY <1>1, <1>2, NewRecordIs, RecordTypes DEF Named
<1>4. UNCHANGED <<server, log, files, lock, handle, polls>> /\ dir' = dir
  BY DEF SavePointer, PacksAfterUnsynced, server
<1>5. RecordInv(r)'
  BY <1>3, <1>4 DEF RecordInv, Named, Holds
<1>6. \A old \in disk \ {None} : Succeeds(r, old) /\ (Named(old) => old.pack \in dir')
  BY <1>3, <1>4, DiskPacks
<1>7. ASSUME record' = r, disk' = {r} \/ disk' = disk \cup {r}
      PROVE  /\ DiskInv' /\ Forward /\ PollInterval' /\ record' \in disk'
             /\ disk' \subseteq Record \cup {None} /\ dir' \subseteq Packs
             /\ files' \in [Packs -> Contents \cup {None}] /\ polls' \in Seq(0 .. MaxClock)
  <2>1. Succeeds(r, r) /\ (Named(r) => r.pack \in dir') /\ (r.version = 1 => disk' = {r})
    BY <1>3, <1>4, SelfSucceeds
  <2>2. DiskInv' /\ \A s \in disk' \ disk, old \in disk \ {None} : Succeeds(s, old)
    BY <1>3, <1>4, <1>5, <1>6, <1>7, <2>1, Written, Zenon
  <2> QED  BY <1>3, <1>4, <1>7, <2>2 DEF Forward, IInv, TypeOK, PollInterval
<1>8. CASE Save(r) /\ UNCHANGED faults /\ call[p].migrating /\ Opened(p, record')
  <2>1. record' = r /\ disk' = {r}
    BY <1>8 DEF Save
  <2>2. PICK c : c = OpenedCall(p, r)
    OBVIOUS
  <2>3. /\ call' = [call EXCEPT ![p] = c] /\ c \in Call /\ CallInv(c)'
        /\ c.at \in {"attempt", "unlock"}
    BY <1>2, <1>3, <1>5, <1>8, <2>1, <2>2, OpenedIs
  <2>4. ReclaimInv'
    <3>1. \A q \in Procs \ {p} : call'[q] = call[q]
      BY <2>3 DEF IInv, TypeOK
    <3>2. record.pack = None /\ None \notin dir
      BY <1>2, <1>8, RecordFacts, NoneIsApart DEF CallInv, RecordInv, IInv, TypeOK
    <3>3. \A q \in Procs \ {p} : call[q] # None => call[q].at = "lock"
      BY <1>2, Others
    <3> QED  BY <1>2, <1>3, <1>4, <1>8, <2>1, <3>1, <3>2, <3>3 DEF IInv, ReclaimInv
  <2> QED  BY <1>2, <1>4, <1>7, <1>8, <2>1, <2>3, <2>4, HeldStep DEF IInv, TypeOK
<1>9. CASE Save(r) /\ UNCHANGED faults /\ ~call[p].migrating /\ Goto(p, "reopen")
  <2>1. record' = r /\ disk' = {r}
    BY <1>9 DEF Save
  <2>2. PICK c : c = [call[p] EXCEPT !.at = "reopen"]
    OBVIOUS
  <2>3. call[p].cache = record
    BY <1>2, <1>9, FetchedFacts DEF Fetched
  <2>4. /\ call' = [call EXCEPT ![p] = c] /\ c \in Call /\ c # None /\ c.at = "reopen"
        /\ c.migrating = FALSE /\ c.cache = record
    <3>1. call \in [Procs -> Call \cup {None}] /\ call[p] \in Call
      BY <1>2 DEF IInv, TypeOK
    <3>2. c \in Call /\ c.at = "reopen" /\ c.migrating = call[p].migrating /\ c.cache = call[p].cache
      BY <2>2, <3>1 DEF Call
    <3>3. call' = [call EXCEPT ![p] = c]
      BY <1>9, <2>2, <3>1 DEF Goto
    <3> QED  BY <1>9, <2>3, <3>1, <3>2, <3>3, NoneIsApart DEF Call
  <2>5. CallInv(c)'
    BY <1>3, <2>1, <2>4 DEF CallInv, Fetched, Named
  <2>6. ReclaimInv'
    <3>1. call'[p] = c /\ \A q \in Procs \ {p} : call'[q] = call[q]
      BY <2>4 DEF IInv, TypeOK
    <3>2. \A q \in Procs \ {p} : call[q] # None => call[q].at = "lock"
      BY <1>2, Others
    <3> QED  BY <1>2, <1>3, <1>4, <1>9, <2>1, <2>4, <3>1, <3>2 DEF IInv, ReclaimInv
  <2> QED  BY <1>2, <1>4, <1>7, <1>9, <2>1, <2>4, <2>5, <2>6, HeldStep DEF IInv, TypeOK
<1>10. CASE SaveUnsynced(r) /\ Return(p, None)
  <2>1. /\ record' = r /\ disk' = disk \cup {r} /\ faults' \in 0 .. MaxFaults /\ faults' # 0
        /\ call' = [call EXCEPT ![p] = Returned(None)]
    BY <1>10, BoundsAssumption DEF SaveUnsynced, Return, Returned, IInv, TypeOK
  <2>2. Returned(None) \in Call /\ CallInv(Returned(None))'
    BY ReturnedCall
  <2>3. ReclaimInv'
    BY <2>1 DEF ReclaimInv
  <2> QED  BY <1>2, <1>4, <1>7, <2>1, <2>2, <2>3, HeldStep
<1> QED  BY <1>1, <1>8, <1>9, <1>10 DEF SavePointer

LEMMA SafeReopen ==
  ASSUME IInv, NEW p \in Procs, Reopen(p)
  PROVE  IInv'
<1>1. PICK r : r = IF Readable(record) THEN record ELSE None
  OBVIOUS
<1>2. /\ call[p] # None /\ call[p].at = "reopen" /\ Held(p) /\ lock /\ call[p] \in Call
      /\ record # None /\ Named(record) /\ disk = {record} /\ call[p].cache # None
  BY CallIsTyped DEF Reopen, At, Held, IInv, LockInv, CallInv
<1>3. r \in Record \cup {None} /\ (r # None => RecordInv(r))
  BY <1>1, <1>2, RecordFacts
<1>4. call' = [call EXCEPT ![p] = Returned(r)]
  BY <1>1 DEF Reopen, Return, Returned
<1>5. /\ dir' = dir \ ({call[p].cache.pack} \ {record.pack})
      /\ UNCHANGED <<server, record, disk, files, lock, handle, polls, faults>>
  BY DEF Reopen, OldPack
<1>6. DiskInv' /\ PollInterval'
  <2>1. \A s \in disk \ {None} : Named(s) => s.pack \in dir' /\ files'[s.pack] = files[s.pack]
    BY <1>2, <1>5, DiskPacks
  <2> QED  BY <1>5, <2>1, DirStep DEF server
<1>7. Returned(r) \in Call /\ CallInv(Returned(r))'
  <2>1. r # None => RecordInv(r)'
    BY <1>3, <1>5, RecordKept DEF server
  <2> QED  BY <1>3, <2>1, ReturnedCall
<1>8. ReclaimInv'
  <2>1. \A q \in Procs \ {p} : call[q] # None => call[q].at = "lock"
    BY <1>2, Others
  <2>2. \A k \in dir : faults = 0 => k = record.pack \/ k = call[p].cache.pack
    BY <1>2, <2>1 DEF IInv, ReclaimInv
  <2> QED  BY <1>2, <1>5, <2>2 DEF ReclaimInv
<1>9. dir' \subseteq Packs
  BY <1>5 DEF IInv, TypeOK
<1> QED  BY <1>2, <1>4, <1>5, <1>6, <1>7, <1>8, <1>9, HeldStep DEF IInv, TypeOK

\* A step that ends the call of a process, or changes its handle.
LEMMA EndStep ==
  ASSUME IInv, NEW p, UNCHANGED <<log, clock, storage, polls>>,
         call' = [call EXCEPT ![p] = None] \/ call' = call,
         handle' \in [Procs -> Record \cup {None}],
         \A q \in Procs : handle'[q] # None => RecordInv(handle'[q]),
         lock' \in BOOLEAN, \A q \in Procs : call'[q] # None /\ call'[q].at # "lock" => lock',
         faults' \in 0 .. MaxFaults,
         faults' # 0 \/ (faults' = faults /\ (call' = call \/ call[p].at \notin {"save", "reopen"}))
  PROVE  IInv'
<1>1. /\ call' \in [Procs -> Call \cup {None}]
      /\ \A q \in Procs : call'[q] = call[q] \/ call'[q] = None
      /\ \A q \in Procs \ {p} : call'[q] = call[q]
  BY DEF IInv, TypeOK
<1>2. /\ LogInv' /\ DiskInv' /\ PollInterval' /\ (\A c : CallInv(c)' <=> CallInv(c))
      /\ \A r : RecordInv(r)' <=> RecordInv(r)
  BY QuietStorage
<1>3. LockInv'
  BY <1>1 DEF IInv, LockInv, Held
<1>4. TypeOK'
  BY <1>1, <1>3, LockCountNext DEF IInv, TypeOK, OneHolds, storage
<1>5. ReclaimInv'
  BY <1>1 DEF IInv, ReclaimInv, storage
<1>6. /\ (\A q \in Procs : call[q] # None => CallInv(call[q]))'
      /\ (\A q \in Procs : handle[q] # None => RecordInv(handle[q]))'
  BY <1>1, <1>2 DEF IInv
<1> QED  BY <1>2, <1>3, <1>4, <1>5, <1>6 DEF IInv

LEMMA SafeUnlock ==
  ASSUME IInv, NEW p \in Procs, Unlock(p)
  PROVE  IInv'
<1>1. /\ call[p] # None /\ call[p].at = "unlock" /\ Held(p)
      /\ call[p].cache \in Record \cup {None} /\ (call[p].cache # None => RecordInv(call[p].cache))
  BY CallIsTyped DEF Unlock, At, Held, CallInv
<1>2. /\ handle' \in [Procs -> Record \cup {None}] /\ handle'[p] = call[p].cache
      /\ \A q \in Procs \ {p} : handle'[q] = handle[q]
  BY <1>1 DEF Unlock, IInv, TypeOK
<1>3. \A q \in Procs : handle'[q] # None => RecordInv(handle'[q])
  BY <1>1, <1>2 DEF IInv
<1>4. \A q \in Procs : call'[q] # None => call'[q].at = "lock"
  BY <1>1, Others DEF Unlock, IInv, TypeOK
<1> QED  BY <1>1, <1>2, <1>3, <1>4, EndStep DEF Unlock, server, IInv, TypeOK

LEMMA SafeClose ==
  ASSUME IInv, NEW p \in Procs, Close(p)
  PROVE  IInv'
<1>1. handle' \in [Procs -> Record \cup {None}]
      /\ \A q \in Procs : handle'[q] # None => RecordInv(handle'[q])
  BY DEF Close, IInv, TypeOK
<1>2. \A q \in Procs : call'[q] # None /\ call'[q].at # "lock" => lock'
  BY DEF Close, IInv, LockInv, Held
<1>3. lock' \in BOOLEAN
  BY DEF Close, IInv, TypeOK
<1> QED  BY <1>1, <1>2, <1>3, EndStep DEF Close, server, IInv, TypeOK

LEMMA SafeCrash ==
  ASSUME IInv, NEW p \in Procs, Crash(p)
  PROVE  IInv'
<1>1. faults' \in 0 .. MaxFaults /\ faults' # 0
  BY BoundsAssumption DEF Crash, IInv, TypeOK
<1>2. \A q \in Procs : call'[q] # None /\ call'[q].at # "lock" => lock'
  BY DEF Crash, IInv, LockInv, Held, TypeOK
<1>3. \A q \in Procs : handle'[q] # None => RecordInv(handle'[q])
  BY DEF Crash, IInv
<1> QED  BY <1>1, <1>2, <1>3, EndStep DEF Crash, server, IInv, TypeOK

LEMMA SafeRecover ==
  ASSUME IInv, Recover
  PROVE  IInv'
<1>1. \A q \in Procs : call'[q] # None => call'[q].at = "lock"
  BY DEF Recover
<1>2. \A q \in Procs : handle'[q] # None => RecordInv(handle'[q])
  BY DEF Recover, IInv
<1> QED  BY <1>1, <1>2, EndStep DEF Recover, server, IInv, TypeOK

LEMMA SafePowerFailure ==
  ASSUME IInv, PowerFailure
  PROVE  IInv'
<1>1. PICK r \in disk : record' = r /\ disk' = {r}
  BY DEF PowerFailure
<1>2. /\ UNCHANGED <<server, dir, files, lock, polls>> /\ faults' \in 0 .. MaxFaults /\ faults' # 0
      /\ call' = [q \in Procs |-> None] /\ handle' = [q \in Procs |-> None]
  BY BoundsAssumption DEF PowerFailure, IInv, TypeOK
<1>3. r # None => /\ r \in Record /\ RecordInv(r)' /\ (Named(r) => r.pack \in dir) /\ Succeeds(r, r)
  BY <1>2, DiskPacks, RecordKept, SelfSucceeds DEF server
<1>4. \A i \in DOMAIN polls : r # None /\ r.attempt >= polls[i]
  BY DEF IInv, DiskInv
<1>5. DiskInv'
  BY <1>1, <1>2, <1>3, <1>4 DEF DiskInv, Named, Succeeds
<1>6. LogInv' /\ PollInterval' /\ ReclaimInv'
  BY <1>2 DEF IInv, LogInv, PollInterval, ReclaimInv, server
<1>7. LockInv'
  BY <1>2 DEF LockInv, Held
<1>8. TypeOK'
  BY <1>1, <1>2, <1>7, LockCountNext DEF IInv, TypeOK, OneHolds, server
<1> QED  BY <1>2, <1>5, <1>6, <1>7, <1>8 DEF IInv

LEMMA SafeTick ==
  ASSUME IInv, Tick
  PROVE  IInv'
<1>1. clock' \in 0 .. MaxClock
  BY BoundsAssumption DEF Tick, IInv, TypeOK
<1>2. /\ LogInv' /\ DiskInv' /\ PollInterval' /\ (\A c : CallInv(c)' <=> CallInv(c))
      /\ \A r : RecordInv(r)' <=> RecordInv(r)
  BY QuietStorage DEF Tick
<1>3. LockInv' /\ ReclaimInv'
  BY DEF Tick, IInv, LockInv, Held, ReclaimInv, storage
<1>4. TypeOK'
  BY <1>1, <1>3, LockCountNext DEF Tick, IInv, TypeOK, OneHolds, storage
<1> QED  BY <1>2, <1>3, <1>4 DEF IInv, Tick

LEMMA SafePublish ==
  ASSUME IInv, Publish
  PROVE  IInv'
<1>1. PICK set \in SUBSET URIs, withdraw \in SUBSET URIs,
           session \in {log[Len(log)].session, log[Len(log)].session + 1} :
        log' = Append(log, [session |-> session,
                            serial |-> IF session = log[Len(log)].session THEN log[Len(log)].serial + 1 ELSE 1,
                            objects |-> [u \in URIs |-> IF u \in set THEN Len(log) + 1
                                                        ELSE IF u \in withdraw THEN 0
                                                        ELSE log[Len(log)].objects[u]]])
  BY DEF Publish
<1>2. PICK n : n = Len(log)
  OBVIOUS
<1>3. PICK e : e = [session |-> session,
                    serial |-> IF session = log[n].session THEN log[n].serial + 1 ELSE 1,
                    objects |-> [u \in URIs |-> IF u \in set THEN n + 1
                                                ELSE IF u \in withdraw THEN 0 ELSE log[n].objects[u]]]
  OBVIOUS
<1>4. /\ log \in Seq(Publication) /\ LogInv /\ n \in Nat /\ DOMAIN log = 1 .. n /\ n \in 1 .. MaxPublications
      /\ n < MaxPublications /\ n \in DOMAIN log /\ n + 1 \in 1 .. MaxPublications
  BY <1>2, BoundsAssumption, LogTypes DEF IInv, TypeOK, LogInv, Publish
<1>5. /\ log[n].session \in Nat /\ log[n].serial \in Nat /\ log[n].objects \in Contents
      /\ log[n].session >= 1 /\ log[n].serial >= 1 /\ log[n].session <= n /\ log[n].serial <= n
  BY <1>4, LogTypes, BoundsAssumption DEF LogInv
<1>6. /\ e.session \in 1 .. n + 1 /\ e.serial \in 1 .. n + 1 /\ e.objects \in Contents
  <2>1. e.objects \in Contents
    <3>1. {0, n + 1} \subseteq 0 .. MaxPublications
      BY <1>4, BoundsAssumption
    <3> QED  BY <1>3, <1>5, <3>1 DEF Contents
  <2>2. e.session \in 1 .. n + 1
    BY <1>2, <1>3, <1>4, <1>5
  <2>3. e.serial \in 1 .. n + 1
    BY <1>3, <1>4, <1>5
  <2> QED  BY <2>1, <2>2, <2>3
<1>7. e \in Publication
  <2>1. e.session \in 1 .. MaxPublications /\ e.serial \in 1 .. MaxPublications
    BY <1>4, <1>6, BoundsAssumption
  <2> QED  BY <1>3, <1>6, <2>1 DEF Publication
<1>8. log' = Append(log, e)
  BY <1>1, <1>2, <1>3
<1>9. /\ log' \in Seq(Publication) /\ Len(log') = n + 1 /\ DOMAIN log' = 1 .. n + 1 /\ log'[n + 1] = e
      /\ \A k \in DOMAIN log : k \in DOMAIN log' /\ log'[k] = log[k]
  BY <1>2, <1>4, <1>7, <1>8
<1>10. ASSUME NEW i \in DOMAIN log
       PROVE  /\ log[i].session <= e.session
              /\ log[i].session = e.session => e.serial = log[i].serial + ((n + 1) - i)
  <2>1. i \in Nat /\ i <= n /\ log[i].session \in Nat /\ log[i].serial \in Nat
    BY <1>4, LogTypes
  <2>2. /\ log[i].session <= log[n].session
        /\ log[i].session = log[n].session => log[n].serial = log[i].serial + (n - i)
    BY <1>4, <1>5, <2>1 DEF LogInv
  <2>3. \/ e.session = log[n].session /\ e.serial = log[n].serial + 1
        \/ e.session = log[n].session + 1
    BY <1>2, <1>3, <1>5
  <2>4. CASE e.session = log[n].session /\ e.serial = log[n].serial + 1
    BY <1>4, <1>5, <2>1, <2>2, <2>4
  <2>5. CASE e.session = log[n].session + 1
    BY <1>5, <2>1, <2>2, <2>5
  <2> QED  BY <2>3, <2>4, <2>5
<1>11. LogInv'
  <2>1. ASSUME NEW k \in DOMAIN log' PROVE log'[k].session <= k /\ log'[k].serial <= k
    BY <1>4, <1>6, <1>9 DEF LogInv
  <2>2. ASSUME NEW i \in DOMAIN log', NEW k \in DOMAIN log', i < k
        PROVE  /\ log'[i].session <= log'[k].session
               /\ log'[i].session = log'[k].session => log'[k].serial = log'[i].serial + (k - i)
    <3>1. i \in DOMAIN log /\ (k \in DOMAIN log \/ k = n + 1)
      BY <1>4, <1>9, <2>2
    <3> QED  BY <1>4, <1>9, <1>10, <2>2, <3>1 DEF LogInv
  <2> QED  BY <1>4, <1>9, <2>1, <2>2 DEF LogInv
<1>12. UNCHANGED <<clock, storage, lock, call, handle, polls, faults>>
  BY DEF Publish
<1>13. \A r : RecordInv(r) => RecordInv(r)'
  BY <1>9, <1>12, RecordKept DEF storage
<1>14. DiskInv' /\ PollInterval' /\ LockInv' /\ ReclaimInv'
  BY <1>12, <1>13 DEF IInv, DiskInv, PollInterval, LockInv, ReclaimInv, Held, Named, Succeeds, storage
<1>15. TypeOK'
  BY <1>9, <1>12, <1>14, LockCountNext DEF IInv, TypeOK, OneHolds, storage
<1>16. ASSUME NEW c, CallInv(c) PROVE CallInv(c)'
  <2>1. ASSUME c.note.k \in DOMAIN log
        PROVE  c.note.k \in DOMAIN log' /\ log'[c.note.k] = log[c.note.k]
    BY <1>9, <2>1
  <2>2. c.at = "delta" => DeltaInv(c)'
    <3> SUFFICES ASSUME c.at = "delta" PROVE DeltaInv(c)'
      OBVIOUS
    <3>1. DeltaInv(c) /\ c.note.k \in DOMAIN log
      BY <1>16 DEF CallInv, Fetched
    <3>2. PICK k \in DOMAIN log :
            log[k].session = record.session /\ log[k].serial = c.next - 1 /\ c.candidate = log[k].objects
      BY <3>1 DEF DeltaInv
    <3>3. k \in DOMAIN log' /\ log'[k] = log[k]
      BY <1>9
    <3> QED  BY <1>12, <2>1, <3>1, <3>2, <3>3 DEF DeltaInv, storage
  <2>3. c.at \in {"stage", "save"} => Wanted(c)' = Wanted(c)
    BY <1>12, <1>16, <2>1 DEF CallInv, Fetched, Wanted, storage
  <2>4. c.at = "unlock" /\ c.cache # None => RecordInv(c.cache)'
    BY <1>13, <1>16 DEF CallInv
  <2> QED  BY <1>12, <1>16, <2>1, <2>2, <2>3, <2>4 DEF CallInv, Fetched, Named, storage
<1> QED  BY <1>11, <1>12, <1>13, <1>14, <1>15, <1>16 DEF IInv
-----------------------------------------------------------------------------
(* The theorems *)

LEMMA QuietDisk == UNCHANGED disk => Forward
  BY DEF Forward

LEMMA InductiveStep == IInv /\ [Next]_vars => IInv' /\ Forward
<1> SUFFICES ASSUME IInv, [Next]_vars PROVE IInv' /\ Forward
  OBVIOUS
<1>1. CASE UNCHANGED vars
  <2>1. UNCHANGED <<log, clock, record, disk, dir, files, lock, call, handle, polls, faults>>
    BY <1>1 DEF vars, server, storage
  <2>2. UNCHANGED <<log, storage, polls>> /\ Forward
    BY <2>1, QuietDisk DEF storage
  <2>3. /\ LogInv' /\ DiskInv' /\ PollInterval' /\ (\A c : CallInv(c)' <=> CallInv(c))
        /\ \A r : RecordInv(r)' <=> RecordInv(r)
    BY <2>2, QuietStorage
  <2>4. LockInv' /\ ReclaimInv'
    BY <2>1 DEF IInv, LockInv, Held, ReclaimInv
  <2>5. TypeOK'
    BY <2>1, <2>4, LockCountNext DEF IInv, TypeOK, OneHolds
  <2> QED  BY <2>1, <2>2, <2>3, <2>4, <2>5 DEF IInv
<1>2. ASSUME NEW p \in Procs, Start(p) \/ RefreshStep(p) \/ Close(p) \/ Crash(p)
      PROVE  IInv' /\ Forward
  <2>1. CASE Start(p)
    BY <2>1, SafeStart, QuietDisk DEF Start, storage
  <2>2. CASE Lock(p)
    BY <2>2, SafeLock, QuietDisk DEF Lock, storage
  <2>3. CASE Read(p)
    BY <2>3, SafeRead, QuietDisk DEF Read, storage
  <2>4. CASE Migrate(p)
    BY <2>4, SafeMigrate, QuietDisk DEF Migrate, storage
  <2>5. CASE Attempt(p)
    BY <2>5, SafeAttempt
  <2>6. CASE Fetch(p)
    <3>1. At(p, "fetch") /\ UNCHANGED disk
      <4>1. call[p] # None /\ Fetched(call[p]) /\ At(p, "fetch")
        BY <2>6 DEF Fetch, At, Fetched
      <4>2. disk = {record} /\ call[p].cache = record
        BY <4>1, FetchedFacts
      <4> QED  BY <2>6, <4>1, <4>2 DEF Fetch, Save, storage
    <3> QED  BY <2>6, <3>1, SafeFetch, QuietDisk
  <2>7. CASE FetchFails(p)
    BY <2>7, SafeFetchFails, QuietDisk DEF FetchFails, storage
  <2>8. CASE DeltaStep(p)
    BY <2>8, SafeDeltaStep, QuietDisk DEF DeltaStep, Complete, Candidate, storage
  <2>9. CASE DeltaFails(p)
    BY <2>9, SafeDeltaFails, QuietDisk DEF DeltaFails, storage
  <2>10. CASE Snapshot(p)
    BY <2>10, SafeSnapshot, QuietDisk DEF Snapshot, Complete, storage
  <2>11. CASE SnapshotFails(p)
    BY <2>11, SafeSnapshotFails, QuietDisk DEF SnapshotFails, storage
  <2>12. CASE StagePack(p)
    BY <2>12, SafeStagePack, QuietDisk DEF StagePack
  <2>13. CASE StageFails(p)
    BY <2>13, SafeStageFails, QuietDisk DEF StageFails
  <2>14. CASE SavePointer(p)
    BY <2>14, SafeSavePointer
  <2>15. CASE Reopen(p)
    BY <2>15, SafeReopen, QuietDisk DEF Reopen
  <2>16. CASE Unlock(p)
    BY <2>16, SafeUnlock, QuietDisk DEF Unlock, storage
  <2>17. CASE Close(p)
    BY <2>17, SafeClose, QuietDisk DEF Close, storage
  <2>18. CASE Crash(p)
    BY <2>18, SafeCrash, QuietDisk DEF Crash, storage
  <2> QED  BY <1>2, <2>1, <2>2, <2>3, <2>4, <2>5, <2>6, <2>7, <2>8, <2>9, <2>10, <2>11, <2>12, <2>13,
              <2>14, <2>15, <2>16, <2>17, <2>18 DEF RefreshStep
<1>3. CASE PowerFailure
  BY <1>3, SafePowerFailure DEF Forward, PowerFailure
<1>4. CASE Recover
  BY <1>4, SafeRecover, QuietDisk DEF Recover, storage
<1>5. CASE Publish
  BY <1>5, SafePublish, QuietDisk DEF Publish, storage
<1>6. CASE Tick
  BY <1>6, SafeTick, QuietDisk DEF Tick, storage
<1> QED  BY <1>1, <1>2, <1>3, <1>4, <1>5, <1>6 DEF Next

\* What the disk, the calls, the handles and the lock know of one another, in
\* every reachable state.
THEOREM Inductive == Spec => []IInv
<1>1. Init => IInv
  BY SafeInit
<1>2. IInv /\ [Next]_vars => IInv'
  BY InductiveStep
<1> QED  BY <1>1, <1>2, PTL DEF Spec

\* Records, calls and packs keep to their domains, and the lock directory
\* admits one process at most between its creation and its removal.
THEOREM TypeCorrect == Spec => []TypeOK
<1>1. IInv => TypeOK
  BY DEF IInv
<1> QED  BY <1>1, Inductive, PTL

\* The record named by a session and a serial is the one publication of that name.
LEMMA HoldsIndex ==
  ASSUME log \in Seq(Publication), LogInv, NEW r, NEW objects, Holds(r, objects)
  PROVE  /\ \E k \in DOMAIN log : log[k].session = r.session /\ log[k].serial = r.serial
         /\ objects = log[Index(r.session, r.serial)].objects
<1>1. PICK k \in DOMAIN log :
        log[k].session = r.session /\ log[k].serial = r.serial /\ objects = log[k].objects
  BY DEF Holds
<1>2. Index(r.session, r.serial) = k
  BY <1>1, IndexIs
<1> QED  BY <1>1, <1>2

\* Every pointer the disk may hold names a pack with exactly one publication,
\* every open handle reads exactly one publication, and while nothing fails no
\* pack is left behind.
THEOREM GenerationsStayWhole == Spec => []GenerationsAreWhole
<1>1. IInv => GenerationsAreWhole
  <2> SUFFICES ASSUME IInv PROVE GenerationsAreWhole
    OBVIOUS
  <2>1. log \in Seq(Publication) /\ LogInv
    BY DEF IInv, TypeOK
  <2>2. ASSUME NEW r, RecordInv(r) PROVE IsGeneration(r)
    BY <2>1, <2>2, HoldsIndex DEF RecordInv, Named, IsGeneration
  <2>3. PointerNamesPublication
    BY <2>2 DEF IInv, DiskInv, PointerNamesPublication, Named
  <2>4. HandleIsOneGeneration
    BY <2>2 DEF IInv, HandleIsOneGeneration
  <2>5. PacksReclaimed
    BY DEF IInv, ReclaimInv, PacksReclaimed
  <2> QED  BY <2>3, <2>4, <2>5 DEF GenerationsAreWhole
<1> QED  BY <1>1, Inductive, PTL

\* Two attempts that reach the server are a minute apart at least, across
\* processes, crashes and power failures.
THEOREM PollsAreSpaced == Spec => []PollInterval
<1>1. IInv => PollInterval
  BY DEF IInv
<1> QED  BY <1>1, Inductive, PTL

\* What is saved may replace every record the disk may hold just then: of the
\* same session it does not have a lower serial, nor another snapshot at an
\* equal one.
THEOREM SavesReplace == Spec => SavesGoForward
<1>1. IInv /\ [Next]_vars => [\A r \in disk' \ disk, old \in disk \ {None} : Succeeds(r, old)]_vars
  BY InductiveStep DEF Forward
<1> QED  BY <1>1, Inductive, PTL DEF Spec, SavesGoForward
=============================================================================
