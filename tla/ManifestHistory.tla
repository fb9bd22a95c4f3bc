--------------------------- MODULE ManifestHistory ---------------------------
(***************************************************************************)
(* The manifest histories of a private directory, one file and one lock    *)
(* per trust anchor, as verifications and anchor migrations use them.      *)
(*                                                                         *)
(* A history remembers the latest manifest of every issuer and URI, so     *)
(* that an older one, or another one of the same number, is refused later. *)
(* Files are as in ExchangeJournal: a rename is visible at once, and only  *)
(* a sync of the directory keeps a power loss from taking it back.         *)
(*                                                                         *)
(* An operator Name_Variant is a deliberately wrong version of Name, for   *)
(* the project's mutants.                                                  *)
(***************************************************************************)
EXTENDS Integers, FiniteSets

CONSTANTS
  Procs,        \* processes sharing the directory
  Anchors,      \* trust anchors: numbers, in the order of their lock names
  Manifests,    \* issuer key and manifest URI
  Numbers,      \* manifest numbers
  Times,        \* thisUpdate, in seconds
  Hashes,       \* SHA-256 of the manifest
  MaxEntries,   \* entries of a history; 4096 in the code
  None          \* no entry, no file, no anchor

Version == [number : Numbers, time : Times, hash : Hashes]
History == [Manifests -> Version \cup {None}]
Empty == [m \in Manifests |-> None]

ASSUME NumbersAssumption ==
  Anchors \subseteq Nat /\ Numbers \subseteq Nat /\ Times \subseteq Nat /\ MaxEntries \in Nat
ASSUME NoneAssumption == None \notin Version \cup History /\ None \notin Anchors

VARIABLES
  file, fileD,  \* of each anchor, its history, and what a power loss may leave
  locks,        \* anchors whose lock directory exists
  pc,           \* each process's place
  source,       \* the previous anchor of a migration; None in a verification
  target,       \* the anchor whose history the process writes
  held,         \* the anchors whose lock it made
  seen,         \* the manifests of the path it verifies
  mem,          \* the history it is about to save
  reported,     \* history: of each anchor, the latest manifests committed for a caller
  crashed       \* history: has a process died?

files == <<file, fileD>>
locals == <<pc, source, target, held, seen, mem>>
history == <<reported, crashed>>
vars == <<files, locks, locals, history>>

Init ==
  /\ file = [a \in Anchors |-> None] /\ fileD = [a \in Anchors |-> {None}]
  /\ locks = {}
  /\ pc = [p \in Procs |-> "idle"]
  /\ source = [p \in Procs |-> None] /\ target = [p \in Procs |-> None]
  /\ held = [p \in Procs |-> {}]
  /\ seen = [p \in Procs |-> Empty] /\ mem = [p \in Procs |-> Empty]
  /\ reported = [a \in Anchors |-> Empty] /\ crashed = FALSE

Goto(p, here, there) == pc[p] = here /\ pc' = [pc EXCEPT ![p] = there]

SyncDirectory == fileD' = [a \in Anchors |-> {file[a]}]

\* os.Mkdir fails, without waiting, if the directory exists.
MakeLock_MkdirAll(p, a) == locks' = locks \cup {a} /\ held' = [held EXCEPT ![p] = @ \cup {a}]
MakeLock(p, a) ==
  a \notin locks /\ locks' = locks \cup {a} /\ held' = [held EXCEPT ![p] = @ \cup {a}]

\* A missing file reads as an empty history.
Read(a) == IF file[a] = None THEN Empty ELSE file[a]
Entries(h) == {m \in Manifests : h[m] # None}
-----------------------------------------------------------------------------
(* Taking the locks *)

\* withRPKIManifestHistory
Lock(p, a) ==
  /\ Goto(p, "idle", "locked")
  /\ MakeLock(p, a)
  /\ target' = [target EXCEPT ![p] = a] /\ source' = [source EXCEPT ![p] = None]
  /\ UNCHANGED <<files, seen, mem, history>>

\* migrateRPKIManifestHistory takes both locks, in the order of their names.
First(a, b) == IF a < b THEN a ELSE b
Second(a, b) == IF a < b THEN b ELSE a

LockFirst_AnyPair(p, a, b) ==
  /\ Goto(p, "idle", "second")
  /\ MakeLock(p, First(a, b))
  /\ source' = [source EXCEPT ![p] = a] /\ target' = [target EXCEPT ![p] = b]
  /\ UNCHANGED <<files, seen, mem, history>>
LockFirst(p, a, b) ==
  /\ a # b
  /\ Goto(p, "idle", "second")
  /\ MakeLock(p, First(a, b))
  /\ source' = [source EXCEPT ![p] = a] /\ target' = [target EXCEPT ![p] = b]
  /\ UNCHANGED <<files, seen, mem, history>>

LockSecond(p) ==
  /\ Goto(p, "second", "locked")
  /\ MakeLock(p, Second(source[p], target[p]))
  /\ UNCHANGED <<files, source, target, seen, mem, history>>

LockRefused_Return(p) ==
  /\ Goto(p, "second", "idle")
  /\ Second(source[p], target[p]) \in locks
  /\ held' = [held EXCEPT ![p] = {}]
  /\ UNCHANGED <<files, locks, source, target, seen, mem, history>>
LockRefused(p) ==
  /\ Goto(p, "second", "unlock")
  /\ Second(source[p], target[p]) \in locks
  /\ UNCHANGED <<files, locks, source, target, held, seen, mem, history>>

LockSync(p) ==
  /\ Goto(p, "locked", "read")
  /\ SyncDirectory
  /\ UNCHANGED <<file, locks, source, target, held, seen, mem, history>>
-----------------------------------------------------------------------------
(* What is written *)

\* rememberRPKIManifest
Rollback_HashOnly(old, new) == new.number < old.number \/ (new.number = old.number /\ new # old)
Rollback(old, new) ==
  \/ new.number < old.number
  \/ new.number = old.number /\ new # old
  \/ new.number > old.number /\ new.time <= old.time

Remember_AnyAccepted(p, path) ==
  LET h == Read(target[p])
      next == [m \in Manifests |-> IF path[m] # None THEN path[m] ELSE h[m]]
  IN
  /\ Goto(p, "read", "save")
  /\ source[p] = None
  /\ \E m \in Entries(path) : h[m] # None => ~Rollback(h[m], path[m])
  /\ Cardinality(Entries(next)) <= MaxEntries
  /\ seen' = [seen EXCEPT ![p] = path] /\ mem' = [mem EXCEPT ![p] = next]
  /\ UNCHANGED <<files, locks, source, target, held, history>>

\* A whole path verified and passed the caller's check: its manifests are
\* remembered together or not at all. A path of the anchor alone has none.
Remember(p, path) ==
  LET h == Read(target[p])
      next == [m \in Manifests |-> IF path[m] # None THEN path[m] ELSE h[m]]
  IN
  /\ Goto(p, "read", "save")
  /\ source[p] = None
  /\ \A m \in Entries(path) : h[m] # None => ~Rollback(h[m], path[m])
  /\ Cardinality(Entries(next)) <= MaxEntries
  /\ seen' = [seen EXCEPT ![p] = path] /\ mem' = [mem EXCEPT ![p] = next]
  /\ UNCHANGED <<files, locks, source, target, held, history>>

Conflict(in, old) ==
  \/ in.number = old.number /\ in # old
  \/ in.number < old.number /\ in.time >= old.time
  \/ in.number > old.number /\ in.time <= old.time

Merged_TakesSource(in, old) == IF in = None THEN old ELSE in
Merged(in, old) ==
  IF in = None \/ (old # None /\ in.number <= old.number) THEN old ELSE in

\* A migration needs a source file and refuses conflicting entries.
Merge(p) ==
  LET h == file[source[p]]
      old == Read(target[p])
      next == [m \in Manifests |-> Merged(h[m], old[m])]
  IN
  /\ Goto(p, "read", "save")
  /\ source[p] # None /\ h # None
  /\ \A m \in Entries(h) : old[m] # None => ~Conflict(h[m], old[m])
  /\ Cardinality(Entries(next)) <= MaxEntries
  /\ seen' = [seen EXCEPT ![p] = Empty] /\ mem' = [mem EXCEPT ![p] = next]
  /\ UNCHANGED <<files, locks, source, target, held, history>>

SaveRename(p) ==
  /\ Goto(p, "save", "sync")
  /\ file' = [file EXCEPT ![target[p]] = mem[p]]
  /\ fileD' = [fileD EXCEPT ![target[p]] = @ \cup {mem[p]}]
  /\ UNCHANGED <<locks, source, target, held, seen, mem, history>>

\* What the caller may rely on from here: the manifests of its path, or all
\* that was reported under the previous anchor.
Later(v, w) == IF v = None \/ (w # None /\ v.number <= w.number) THEN w ELSE v
Committed(p) ==
  [m \in Manifests |->
     IF source[p] # None THEN Later(reported[source[p]][m], reported[target[p]][m])
     ELSE IF seen[p][m] # None THEN seen[p][m] ELSE reported[target[p]][m]]

\* The call is over with its path and the history it read.
Forget(p) == seen' = [seen EXCEPT ![p] = Empty] /\ mem' = [mem EXCEPT ![p] = Empty]

SyncOf_Ignored == SyncDirectory \/ UNCHANGED fileD
SyncOf == SyncDirectory

SaveSync(p) ==
  /\ Goto(p, "sync", "unlock")
  /\ SyncOf
  /\ reported' = [reported EXCEPT ![target[p]] = Committed(p)]
  /\ Forget(p)
  /\ UNCHANGED <<file, locks, source, target, held, crashed>>

\* A failed sync, read, verification, check or write, or a detected rollback:
\* the call goes on to its deferred unlocking with an error.
Refuse(p) ==
  /\ pc[p] \in {"locked", "read", "save", "sync"}
  /\ pc' = [pc EXCEPT ![p] = "unlock"]
  /\ Forget(p)
  /\ UNCHANGED <<files, locks, source, target, held, history>>
-----------------------------------------------------------------------------
(* Releasing the locks *)

\* The locks are removed in the reverse order, and then synced once.
Unlock(p) ==
  /\ pc[p] = "unlock"
  /\ \E a \in held[p] :
       /\ \A b \in held[p] : b <= a
       /\ locks' = locks \ {a}
       /\ held' = [held EXCEPT ![p] = @ \ {a}]
       /\ pc' = [pc EXCEPT ![p] = IF held[p] = {a} THEN "unlockSync" ELSE "unlock"]
  /\ UNCHANGED <<files, source, target, seen, mem, history>>

Reset(P) ==
  /\ pc' = [p \in Procs |-> IF p \in P THEN "idle" ELSE pc[p]]
  /\ source' = [p \in Procs |-> IF p \in P THEN None ELSE source[p]]
  /\ target' = [p \in Procs |-> IF p \in P THEN None ELSE target[p]]
  /\ held' = [p \in Procs |-> IF p \in P THEN {} ELSE held[p]]
  /\ seen' = [p \in Procs |-> IF p \in P THEN Empty ELSE seen[p]]
  /\ mem' = [p \in Procs |-> IF p \in P THEN Empty ELSE mem[p]]

UnlockSync(p) ==
  /\ pc[p] = "unlockSync"
  /\ Reset({p})
  /\ SyncDirectory \/ UNCHANGED fileD
  /\ UNCHANGED <<file, locks, history>>
-----------------------------------------------------------------------------
(* Crashes and manual repair *)

Kill(p) ==
  /\ pc[p] # "idle"
  /\ Reset({p}) /\ crashed' = TRUE
  /\ UNCHANGED <<files, locks, reported>>

\* Each file settles on its own; any lock directory may be left or gone.
PowerLoss ==
  /\ Reset(Procs) /\ crashed' = TRUE
  /\ file' \in [Anchors -> History \cup {None}]
  /\ \A a \in Anchors : file'[a] \in fileD[a]
  /\ fileD' = [a \in Anchors |-> {file'[a]}]
  /\ locks' \in SUBSET Anchors
  /\ UNCHANGED reported

RemoveStaleLock ==
  /\ \A p \in Procs : pc[p] = "idle"
  /\ \E a \in locks : locks' = locks \ {a}
  /\ UNCHANGED <<files, locals, history>>

Step(p) ==
  \/ \E a \in Anchors : Lock(p, a)
  \/ \E a, b \in Anchors : LockFirst(p, a, b)
  \/ LockSecond(p) \/ LockRefused(p) \/ LockSync(p)
  \/ (\E path \in History : Remember(p, path)) \/ Merge(p)
  \/ SaveRename(p) \/ SaveSync(p) \/ Refuse(p)
  \/ Unlock(p) \/ UnlockSync(p) \/ Kill(p)

Next == (\E p \in Procs : Step(p)) \/ PowerLoss \/ RemoveStaleLock

Spec == Init /\ [][Next]_vars
-----------------------------------------------------------------------------
(* Properties *)

Places == {"idle", "second", "locked", "read", "save", "sync", "unlock", "unlockSync"}

\* The files, locks and locals have the shape the code gives them.
TypeOK ==
  /\ file \in [Anchors -> History \cup {None}]
  /\ fileD \in [Anchors -> SUBSET (History \cup {None})]
  /\ locks \subseteq Anchors
  /\ pc \in [Procs -> Places]
  /\ source \in [Procs -> Anchors \cup {None}] /\ target \in [Procs -> Anchors \cup {None}]
  /\ \A p \in Procs : pc[p] # "idle" => target[p] \in Anchors /\ source[p] # target[p]
  /\ held \in [Procs -> SUBSET Anchors]
  /\ seen \in [Procs -> History] /\ mem \in [Procs -> History]
  /\ reported \in [Anchors -> History] /\ crashed \in BOOLEAN

\* Version w may be accepted after version v.
Follows(v, w) ==
  v # None => w # None /\ (w = v \/ (w.number > v.number /\ w.time > v.time))

\* Whatever history a power loss leaves, it refuses all that is older than what
\* was reported under its anchor, or under one migrated to it.
NoRollback ==
  \A a \in Anchors : \A h \in fileD[a] : \A m \in Manifests :
    reported[a][m] # None => h # None /\ Follows(reported[a][m], h[m])

\* Without a crash, no lock directory outlives the call that made it.
NoLockLeaked == ~crashed => \A a \in locks : \E p \in Procs : a \in held[p]

\* No two processes hold the lock of one anchor.
MutualExclusion == \A p, q \in Procs : p # q => held[p] \cap held[q] = {}

\* The lock directories exclude verifications and migrations that share an
\* anchor, and every return gives them back.
LocksAreSound == MutualExclusion /\ NoLockLeaked

\* Verifications and migrations by several processes, through every crash,
\* report manifests as ManifestWatermarks allows.
Watermarks == INSTANCE ManifestWatermarks WITH mark <- reported
ImplementsWatermarks == Watermarks!Spec
-----------------------------------------------------------------------------
(***************************************************************************)
(* The inductive invariant: who works on an anchor has its lock, every     *)
(* history that may survive and every one about to be saved covers what    *)
(* was reported, and the manifests about to be reported follow it.         *)
(***************************************************************************)

Covers(h, r) == \A m \in Manifests : Follows(r[m], h[m])

Working == {"locked", "read", "save", "sync"}

LockInv ==
  /\ \A p \in Procs : held[p] \subseteq locks
  /\ \A p \in Procs : pc[p] \in {"idle", "unlockSync"} => held[p] = {}
  /\ \A p \in Procs : pc[p] \in Working =>
       target[p] \in held[p] /\ (source[p] # None => source[p] \in held[p])
  /\ \A p \in Procs : pc[p] = "second" =>
       source[p] # None /\ held[p] = {First(source[p], target[p])}
  /\ \A a \in Anchors : file[a] \in fileD[a]

SaveInv ==
  \A p \in Procs : pc[p] \in {"save", "sync"} =>
    /\ Covers(mem[p], reported[target[p]])
    /\ source[p] # None => Covers(mem[p], reported[source[p]])
    /\ source[p] = None =>
         \A m \in Manifests : seen[p][m] # None =>
           mem[p][m] = seen[p][m] /\ Follows(reported[target[p]][m], seen[p][m])
    /\ pc[p] = "sync" => file[target[p]] = mem[p]

IInv == TypeOK /\ LockInv /\ MutualExclusion /\ NoRollback /\ SaveInv
=============================================================================
