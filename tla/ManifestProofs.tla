--------------------------- MODULE ManifestProofs ---------------------------
(***************************************************************************)
(* Machine-checked proofs about ManifestHistory: for every set of          *)
(* processes, anchors, manifests and versions, what was reported is never  *)
(* rolled back, and the histories implement ManifestWatermarks.            *)
(***************************************************************************)
EXTENDS ManifestHistory, TLAPS

(* Versions *)

LEMMA VersionTypes ==
  ASSUME NEW v \in Version
  PROVE  v # None /\ v.number \in Nat /\ v.time \in Nat
  BY NumbersAssumption, NoneAssumption DEF Version

LEMMA FollowsTransitive ==
  ASSUME NEW u \in Version \cup {None}, NEW v \in Version \cup {None},
         NEW w \in Version \cup {None}, Follows(u, v), Follows(v, w)
  PROVE  Follows(u, w)
<1>1. CASE u = None
  BY <1>1 DEF Follows
<1>2. CASE u # None
  <2>1. u \in Version /\ v \in Version /\ w \in Version
    BY <1>2 DEF Follows
  <2> QED  BY <2>1, VersionTypes DEF Follows
<1> QED  BY <1>1, <1>2

\* What is not a rollback follows.
LEMMA RememberFollows ==
  ASSUME NEW v \in Version, NEW w \in Version, ~Rollback(v, w)
  PROVE  Follows(v, w)
  BY VersionTypes DEF Rollback, Follows

\* Without a conflict the merged entry follows both.
LEMMA MergedFollows ==
  ASSUME NEW v \in Version \cup {None}, NEW w \in Version \cup {None},
         v # None /\ w # None => ~Conflict(v, w)
  PROVE  /\ Merged(v, w) \in Version \cup {None}
         /\ Follows(v, Merged(v, w)) /\ Follows(w, Merged(v, w))
<1>1. CASE v = None \/ w = None
  BY <1>1 DEF Merged, Follows
<1>2. CASE v # None /\ w # None
  <2>1. v \in Version /\ w \in Version
    BY <1>2
  <2> QED  BY <1>2, <2>1, VersionTypes DEF Conflict, Merged, Follows
<1> QED  BY <1>1, <1>2

\* The later of two reported versions is followed by what follows both.
LEMMA LaterFollows ==
  ASSUME NEW v, NEW w, NEW x, Follows(v, x), Follows(w, x)
  PROVE  Follows(Later(v, w), x)
  BY DEF Later

LEMMA CoversTransitive ==
  ASSUME NEW r \in History, NEW h \in History, NEW k \in History, Covers(h, r), Covers(k, h)
  PROVE  Covers(k, r)
<1> SUFFICES ASSUME NEW m \in Manifests PROVE Follows(r[m], k[m])
  BY DEF Covers
<1>1. r[m] \in Version \cup {None} /\ h[m] \in Version \cup {None} /\ k[m] \in Version \cup {None}
  BY DEF History
<1>2. Follows(r[m], h[m]) /\ Follows(h[m], k[m])
  BY DEF Covers
<1> QED  BY <1>1, <1>2, FollowsTransitive

\* What is read under the lock covers what was reported.
LEMMA ReadCovers ==
  ASSUME TypeOK, LockInv, NoRollback, NEW a \in Anchors
  PROVE  Read(a) \in History /\ Covers(Read(a), reported[a])
<1>1. file[a] \in History \cup {None} /\ file[a] \in fileD[a]
  BY DEF TypeOK, LockInv
<1>2. Empty \in History
  BY DEF Empty, History
<1>3. \A m \in Manifests : reported[a][m] # None =>
        file[a] # None /\ Follows(reported[a][m], file[a][m])
  BY <1>1 DEF NoRollback
<1>4. \A m \in Manifests : Follows(reported[a][m], Read(a)[m])
  BY <1>3 DEF Read, Follows
<1> QED  BY <1>1, <1>2, <1>4 DEF Read, Covers
-----------------------------------------------------------------------------
(* Types *)

LEMMA TypeInit == Init => TypeOK
<1>1. Empty \in History
  BY DEF Empty, History
<1>2. ASSUME Init
      PROVE  /\ file \in [Anchors -> History \cup {None}]
             /\ fileD \in [Anchors -> SUBSET (History \cup {None})]
             /\ locks \subseteq Anchors
  BY <1>2 DEF Init
<1>3. ASSUME Init
      PROVE  /\ pc \in [Procs -> Places] /\ \A p \in Procs : pc[p] = "idle"
             /\ source \in [Procs -> Anchors \cup {None}] /\ target \in [Procs -> Anchors \cup {None}]
             /\ held \in [Procs -> SUBSET Anchors]
  BY <1>3 DEF Init, Places
<1>4. ASSUME Init
      PROVE  /\ seen \in [Procs -> History] /\ mem \in [Procs -> History]
             /\ reported \in [Anchors -> History] /\ crashed \in BOOLEAN
  BY <1>1, <1>4 DEF Init
<1> QED  BY <1>2, <1>3, <1>4 DEF TypeOK

\* What a process is about to save is a history.
LEMMA NextHistory ==
  ASSUME TypeOK, NEW p \in Procs, pc[p] = "read"
  PROVE  /\ \A path \in History :
              [m \in Manifests |-> IF path[m] # None THEN path[m] ELSE Read(target[p])[m]] \in History
         /\ source[p] # None /\ file[source[p]] # None =>
              [m \in Manifests |-> Merged(file[source[p]][m], Read(target[p])[m])] \in History
<1>1. target[p] \in Anchors /\ Read(target[p]) \in History
  BY DEF TypeOK, Read, Empty, History
<1>2. source[p] # None /\ file[source[p]] # None => file[source[p]] \in History
  BY DEF TypeOK
<1> QED  BY <1>1, <1>2 DEF History, Merged

LEMMA TypeStep ==
  ASSUME TypeOK, LockInv, [Next]_vars
  PROVE  TypeOK'
<1> USE DEF files, locals, history
<1>0. Empty \in History
  BY DEF Empty, History
<1>1. ASSUME NEW p \in Procs, NEW a \in Anchors, Lock(p, a) PROVE TypeOK'
  BY <1>1, NoneAssumption DEF Lock, Goto, MakeLock, TypeOK, Places
<1>2. ASSUME NEW p \in Procs, NEW a \in Anchors, NEW b \in Anchors, LockFirst(p, a, b)
      PROVE  TypeOK'
  <2>1. First(a, b) \in Anchors
    BY DEF First
  <2> QED  BY <1>2, <2>1 DEF LockFirst, Goto, MakeLock, TypeOK, Places
<1>3. ASSUME NEW p \in Procs, LockSecond(p) PROVE TypeOK'
  <2>1. target[p] \in Anchors /\ source[p] \in Anchors \cup {None}
    BY <1>3 DEF LockSecond, Goto, TypeOK
  <2>2. locks' \subseteq Anchors /\ held' \in [Procs -> SUBSET Anchors]
    <3> DEFINE a == Second(source[p], target[p])
    <3>1. locks' = locks \cup {a} /\ held' = [held EXCEPT ![p] = @ \cup {a}]
      BY <1>3 DEF LockSecond, MakeLock
    <3>2. a \in Anchors
      BY <1>3, <2>1 DEF LockSecond, Goto, LockInv, Second
    <3> QED  BY <3>1, <3>2 DEF TypeOK
  <2> QED  BY <1>3, <2>2 DEF LockSecond, Goto, TypeOK, Places
<1>4. ASSUME NEW p \in Procs, LockRefused(p) \/ Refuse(p) PROVE TypeOK'
  BY <1>0, <1>4 DEF LockRefused, Refuse, Forget, Goto, TypeOK, Places
<1>5. ASSUME NEW p \in Procs, LockSync(p) PROVE TypeOK'
  BY <1>5 DEF LockSync, SyncDirectory, Goto, TypeOK, Places
<1>6. ASSUME NEW p \in Procs, NEW path \in History, Remember(p, path) PROVE TypeOK'
  <2>1. mem' \in [Procs -> History] /\ seen' \in [Procs -> History]
    BY <1>6, NextHistory DEF Remember, Goto, TypeOK
  <2> QED  BY <1>6, <2>1 DEF Remember, Goto, TypeOK, Places
<1>7. ASSUME NEW p \in Procs, Merge(p) PROVE TypeOK'
  <2>1. mem' \in [Procs -> History] /\ seen' \in [Procs -> History]
    BY <1>0, <1>7, NextHistory DEF Merge, Goto, TypeOK
  <2> QED  BY <1>7, <2>1 DEF Merge, Goto, TypeOK, Places
<1>8. ASSUME NEW p \in Procs, SaveRename(p) PROVE TypeOK'
  <2>1. target[p] \in Anchors /\ mem[p] \in History
    BY <1>8 DEF SaveRename, Goto, TypeOK
  <2>2. file' \in [Anchors -> History \cup {None}]
        /\ fileD' \in [Anchors -> SUBSET (History \cup {None})]
    BY <1>8, <2>1 DEF SaveRename, TypeOK
  <2> QED  BY <1>8, <2>2 DEF SaveRename, Goto, TypeOK, Places
<1>9. ASSUME NEW p \in Procs, SaveSync(p) PROVE TypeOK'
  <2>1. target[p] \in Anchors /\ source[p] \in Anchors \cup {None}
    BY <1>9 DEF SaveSync, Goto, TypeOK
  <2>2. Committed(p) \in History
    BY <2>1 DEF Committed, Later, History, TypeOK
  <2>3. fileD' \in [Anchors -> SUBSET (History \cup {None})]
    BY <1>9 DEF SaveSync, SyncOf, SyncDirectory, TypeOK
  <2> QED  BY <1>0, <1>9, <2>1, <2>2, <2>3 DEF SaveSync, Forget, Goto, TypeOK, Places
<1>10. ASSUME NEW p \in Procs, Unlock(p) PROVE TypeOK'
  BY <1>10 DEF Unlock, TypeOK, Places
<1>11. ASSUME NEW P \in SUBSET Procs, Reset(P)
       PROVE  /\ pc' \in [Procs -> Places]
              /\ source' \in [Procs -> Anchors \cup {None}] /\ target' \in [Procs -> Anchors \cup {None}]
              /\ \A p \in Procs : pc'[p] # "idle" => target'[p] \in Anchors /\ source'[p] # target'[p]
              /\ held' \in [Procs -> SUBSET Anchors]
              /\ seen' \in [Procs -> History] /\ mem' \in [Procs -> History]
  BY <1>0, <1>11 DEF Reset, TypeOK, Places
<1>12. ASSUME NEW p \in Procs, UnlockSync(p) \/ Kill(p) PROVE TypeOK'
  <2>1. Reset({p})
    BY <1>12 DEF UnlockSync, Kill
  <2>2. fileD' \in [Anchors -> SUBSET (History \cup {None})]
    BY <1>12 DEF UnlockSync, Kill, SyncDirectory, TypeOK
  <2> QED  BY <1>11, <1>12, <2>1, <2>2 DEF UnlockSync, Kill, TypeOK
<1>13. CASE PowerLoss
  <2>1. Reset(Procs)
    BY <1>13 DEF PowerLoss
  <2> QED  BY <1>11, <1>13, <2>1 DEF PowerLoss, TypeOK
<1>14. CASE RemoveStaleLock
  BY <1>14 DEF RemoveStaleLock, TypeOK
<1>15. CASE UNCHANGED vars
  BY <1>15 DEF vars, TypeOK
<1> QED  BY <1>1, <1>2, <1>3, <1>4, <1>5, <1>6, <1>7, <1>8, <1>9, <1>10, <1>12, <1>13,
            <1>14, <1>15 DEF Next, Step
-----------------------------------------------------------------------------
(* The locks *)

\* A lock is made by one process and kept until that process removes it.
LEMMA LockStep ==
  ASSUME TypeOK, LockInv, MutualExclusion, [Next]_vars
  PROVE  LockInv' /\ MutualExclusion'
<1> USE DEF files, locals, history
<1>1. ASSUME NEW p \in Procs, NEW a \in Anchors, Lock(p, a) PROVE LockInv' /\ MutualExclusion'
  <2>1. /\ a \notin locks /\ locks' = locks \cup {a}
        /\ held' = [held EXCEPT ![p] = held[p] \cup {a}]
        /\ pc' = [pc EXCEPT ![p] = "locked"]
        /\ target' = [target EXCEPT ![p] = a] /\ source' = [source EXCEPT ![p] = None]
        /\ UNCHANGED <<file, fileD>>
    BY <1>1 DEF Lock, MakeLock, Goto
  <2> QED  BY <2>1 DEF LockInv, MutualExclusion, TypeOK, Working
<1>2. ASSUME NEW p \in Procs, NEW a \in Anchors, NEW b \in Anchors, LockFirst(p, a, b)
      PROVE  LockInv' /\ MutualExclusion'
  <2> DEFINE f == First(a, b)
  <2>0. pc[p] = "idle" => held[p] = {}
    BY DEF LockInv
  <2>1. /\ f \notin locks /\ locks' = locks \cup {f}
        /\ held' = [held EXCEPT ![p] = held[p] \cup {f}]
        /\ pc[p] = "idle" /\ pc' = [pc EXCEPT ![p] = "second"]
        /\ source' = [source EXCEPT ![p] = a] /\ target' = [target EXCEPT ![p] = b]
        /\ UNCHANGED <<file, fileD>>
    BY <1>2 DEF LockFirst, MakeLock, Goto
  <2>2. /\ source'[p] = a /\ target'[p] = b /\ held'[p] = {f} /\ pc'[p] = "second" /\ a # None
        /\ \A q \in Procs \ {p} : /\ source'[q] = source[q] /\ target'[q] = target[q]
                                  /\ held'[q] = held[q] /\ pc'[q] = pc[q]
    BY <2>0, <2>1, NoneAssumption DEF TypeOK
  <2> HIDE DEF f
  <2>3. f = First(a, b)
    BY DEF f
  <2> QED  BY <2>1, <2>2, <2>3 DEF LockInv, MutualExclusion, Working
<1>3. ASSUME NEW p \in Procs, LockSecond(p) PROVE LockInv' /\ MutualExclusion'
  <2> DEFINE f == Second(source[p], target[p])
  <2>1. /\ f \notin locks /\ locks' = locks \cup {f}
        /\ held' = [held EXCEPT ![p] = held[p] \cup {f}]
        /\ pc[p] = "second" /\ pc' = [pc EXCEPT ![p] = "locked"]
        /\ UNCHANGED <<file, fileD, source, target>>
    BY <1>3 DEF LockSecond, MakeLock, Goto
  <2>2. held[p] = {First(source[p], target[p])}
    BY <2>1 DEF LockInv
  <2>3. {First(source[p], target[p])} \cup {f} = {source[p], target[p]}
    BY DEF First, Second
  <2>4. held'[p] = {source[p], target[p]} /\ \A q \in Procs \ {p} : held'[q] = held[q]
    BY <2>1, <2>2, <2>3 DEF TypeOK
  <2>5. held'[p] = held[p] \cup {f}
    BY <2>1 DEF TypeOK
  <2>6. pc'[p] = "locked" /\ \A q \in Procs \ {p} : pc'[q] = pc[q]
    BY <2>1 DEF TypeOK
  <2> HIDE DEF f
  <2>7. MutualExclusion'
    BY <2>1, <2>4, <2>5 DEF LockInv, MutualExclusion
  <2> QED  BY <2>1, <2>4, <2>5, <2>6, <2>7 DEF LockInv, Working
<1>4. ASSUME NEW p \in Procs,
             \/ LockRefused(p) \/ LockSync(p) \/ Merge(p) \/ SaveSync(p) \/ Refuse(p)
             \/ \E path \in History : Remember(p, path)
      PROVE  LockInv' /\ MutualExclusion'
  <2>1. UNCHANGED <<locks, held, source, target, file>>
    BY <1>4 DEF LockRefused, LockSync, Merge, SaveSync, Refuse, Remember
  <2>2. fileD' = fileD \/ fileD' = [a \in Anchors |-> {file[a]}]
    BY <1>4 DEF LockRefused, LockSync, Merge, SaveSync, Refuse, Remember, SyncOf, SyncDirectory
  <2>3. /\ \A q \in Procs : pc'[q] \in Working => pc[q] \in Working
        /\ \A q \in Procs : pc'[q] = "second" => pc[q] = "second"
        /\ \A q \in Procs : pc'[q] \in {"idle", "unlockSync"} => pc[q] \in {"idle", "unlockSync"}
    BY <1>4 DEF LockRefused, LockSync, Merge, SaveSync, Refuse, Remember, Goto, TypeOK, Working
  <2>4. \A a \in Anchors : file'[a] \in fileD'[a]
    BY <2>1, <2>2 DEF LockInv
  <2> QED  BY <2>1, <2>3, <2>4 DEF LockInv, MutualExclusion
<1>5. ASSUME NEW p \in Procs, SaveRename(p) PROVE LockInv' /\ MutualExclusion'
  <2>1. UNCHANGED <<locks, held, source, target>> /\ target[p] \in Anchors
    BY <1>5 DEF SaveRename, Goto, TypeOK
  <2>2. \A a \in Anchors : file'[a] \in fileD'[a]
    BY <1>5, <2>1 DEF SaveRename, TypeOK, LockInv
  <2>3. /\ \A q \in Procs : pc'[q] \in Working => pc[q] \in Working
        /\ \A q \in Procs : pc'[q] = "second" => pc[q] = "second"
        /\ \A q \in Procs : pc'[q] \in {"idle", "unlockSync"} => pc[q] \in {"idle", "unlockSync"}
    BY <1>5 DEF SaveRename, Goto, TypeOK, Working
  <2> QED  BY <2>1, <2>2, <2>3 DEF LockInv, MutualExclusion
<1>6. ASSUME NEW p \in Procs, Unlock(p) PROVE LockInv' /\ MutualExclusion'
  <2>1. PICK a \in held[p] :
          /\ locks' = locks \ {a} /\ held' = [held EXCEPT ![p] = held[p] \ {a}]
          /\ pc' = [pc EXCEPT ![p] = IF held[p] = {a} THEN "unlockSync" ELSE "unlock"]
    BY <1>6 DEF Unlock
  <2>2. UNCHANGED <<source, target, file, fileD>>
    BY <1>6 DEF Unlock
  <2>3. \A q \in Procs \ {p} : a \notin held[q] /\ held'[q] = held[q] /\ pc'[q] = pc[q]
    BY <2>1 DEF MutualExclusion, TypeOK
  <2>4. held'[p] = held[p] \ {a} /\ pc'[p] \in {"unlock", "unlockSync"}
    BY <2>1 DEF TypeOK
  <2>5. pc'[p] = "unlockSync" => held'[p] = {}
    BY <2>1 DEF TypeOK
  <2> QED  BY <2>1, <2>2, <2>3, <2>4, <2>5 DEF LockInv, MutualExclusion, Working
<1>7. ASSUME NEW P \in SUBSET Procs, Reset(P)
      PROVE  \A q \in Procs :
               IF q \in P THEN pc'[q] = "idle" /\ held'[q] = {}
               ELSE /\ pc'[q] = pc[q] /\ held'[q] = held[q]
                    /\ source'[q] = source[q] /\ target'[q] = target[q]
  BY <1>7 DEF Reset
<1>8. ASSUME NEW p \in Procs, UnlockSync(p) \/ Kill(p) PROVE LockInv' /\ MutualExclusion'
  <2>1. Reset({p}) /\ UNCHANGED <<file, locks>>
    BY <1>8 DEF UnlockSync, Kill
  <2>2. \A a \in Anchors : file'[a] \in fileD'[a]
    BY <1>8 DEF UnlockSync, Kill, SyncDirectory, LockInv
  <2> QED  BY <1>7, <2>1, <2>2 DEF LockInv, MutualExclusion, Working
<1>9. CASE PowerLoss
  <2>1. Reset(Procs) /\ \A a \in Anchors : file'[a] \in fileD'[a]
    BY <1>9 DEF PowerLoss
  <2> QED  BY <1>7, <2>1 DEF LockInv, MutualExclusion, Working
<1>10. CASE RemoveStaleLock
  BY <1>10 DEF RemoveStaleLock, LockInv, MutualExclusion
<1>11. CASE UNCHANGED vars
  BY <1>11 DEF vars, LockInv, MutualExclusion
<1> QED  BY <1>1, <1>2, <1>3, <1>4, <1>5, <1>6, <1>8, <1>9, <1>10, <1>11 DEF Next, Step
-----------------------------------------------------------------------------
(* The histories *)

\* Two processes at work on histories have different targets, and the target of
\* one is not the source of the other.
LEMMA Apart ==
  ASSUME TypeOK, LockInv, MutualExclusion, NEW p \in Procs, NEW q \in Procs, p # q,
         pc[p] \in Working, pc[q] \in Working
  PROVE  target[p] # target[q] /\ target[p] # source[q]
<1>1. target[p] \in held[p] /\ target[q] \in held[q] /\ (source[q] # None => source[q] \in held[q])
  BY DEF LockInv
<1>2. held[p] \cap held[q] = {}
  BY DEF MutualExclusion
<1>3. target[p] # None
  BY NoneAssumption DEF TypeOK, Working
<1> QED  BY <1>1, <1>2, <1>3

\* What a step that reports nothing must keep.
Quiet ==
  /\ reported' = reported
  /\ \A q \in Procs : pc'[q] \in {"save", "sync"} =>
       /\ pc[q] \in {"save", "sync"} /\ (pc'[q] = "sync" => pc[q] = "sync")
       /\ source'[q] = source[q] /\ target'[q] = target[q]
       /\ seen'[q] = seen[q] /\ mem'[q] = mem[q]

LEMMA QuietStep ==
  ASSUME SaveInv, NoRollback, Quiet, file' = file,
         fileD' = fileD \/ fileD' = [a \in Anchors |-> {file[a]}], LockInv
  PROVE  NoRollback' /\ SaveInv'
<1>1. \A a \in Anchors : fileD'[a] \subseteq fileD[a]
  BY DEF LockInv
<1>2. NoRollback'
  BY <1>1 DEF NoRollback, Quiet
<1>3. SaveInv'
  BY DEF SaveInv, Quiet
<1> QED  BY <1>2, <1>3

LEMMA RememberStep ==
  ASSUME IInv, NEW p \in Procs, NEW path \in History, Remember(p, path)
  PROVE  NoRollback' /\ SaveInv'
<1> DEFINE h == Read(target[p])
           r == reported[target[p]]
           next == [m \in Manifests |-> IF path[m] # None THEN path[m] ELSE h[m]]
<1>1. /\ pc[p] = "read" /\ pc' = [pc EXCEPT ![p] = "save"]
      /\ source[p] = None /\ \A m \in Entries(path) : h[m] # None => ~Rollback(h[m], path[m])
      /\ seen' = [seen EXCEPT ![p] = path] /\ mem' = [mem EXCEPT ![p] = next]
      /\ UNCHANGED <<file, fileD, source, target, reported>>
  BY DEF Remember, Goto, files, history
<1>2. target[p] \in Anchors /\ r \in History
  BY <1>1 DEF IInv, TypeOK
<1>3. h \in History /\ Covers(h, r)
  BY <1>2, ReadCovers DEF IInv
<1>4. ASSUME NEW m \in Manifests
      PROVE  Follows(h[m], next[m]) /\ (path[m] # None => next[m] = path[m])
  <2>1. h[m] \in Version \cup {None} /\ path[m] \in Version \cup {None}
    BY <1>3 DEF History
  <2>2. CASE path[m] = None \/ h[m] = None
    BY <2>2 DEF Follows
  <2>3. CASE path[m] # None /\ h[m] # None
    BY <1>1, <2>1, <2>3, RememberFollows DEF Entries
  <2> QED  BY <2>2, <2>3
<1>5. next \in History
  BY <1>3 DEF History
<1>6. Covers(next, h)
  BY <1>4 DEF Covers
<1>7. Covers(next, r)
  BY <1>2, <1>3, <1>5, <1>6, CoversTransitive
<1>8. NoRollback'
  BY <1>1 DEF IInv, NoRollback
<1>9. mem'[p] = next /\ seen'[p] = path /\ pc'[p] = "save"
  BY <1>1 DEF IInv, TypeOK
<1>10. \A q \in Procs \ {p} : mem'[q] = mem[q] /\ seen'[q] = seen[q] /\ pc'[q] = pc[q]
  BY <1>1 DEF IInv, TypeOK
<1> HIDE DEF next, h
<1>11. \A m \in Manifests : path[m] # None => next[m] = path[m] /\ Follows(r[m], path[m])
  BY <1>4, <1>7 DEF Covers
<1> QED  BY <1>1, <1>7, <1>8, <1>9, <1>10, <1>11 DEF IInv, SaveInv

LEMMA MergeStep ==
  ASSUME IInv, NEW p \in Procs, Merge(p)
  PROVE  NoRollback' /\ SaveInv'
<1> DEFINE h == file[source[p]]
           old == Read(target[p])
           next == [m \in Manifests |-> Merged(h[m], old[m])]
<1>1. /\ pc[p] = "read" /\ pc' = [pc EXCEPT ![p] = "save"]
      /\ source[p] # None /\ h # None
      /\ \A m \in Entries(h) : old[m] # None => ~Conflict(h[m], old[m])
      /\ mem' = [mem EXCEPT ![p] = next]
      /\ UNCHANGED <<file, fileD, source, target, reported>>
  BY DEF Merge, Goto, files, history
<1>2. source[p] \in Anchors /\ target[p] \in Anchors
      /\ reported[source[p]] \in History /\ reported[target[p]] \in History
  BY <1>1 DEF IInv, TypeOK
<1>3. old \in History /\ Covers(old, reported[target[p]])
  BY <1>2, ReadCovers DEF IInv
<1>4. h \in History /\ Covers(h, reported[source[p]])
  <2>1. Read(source[p]) = h
    BY <1>1 DEF Read
  <2> QED  BY <1>2, <2>1, ReadCovers DEF IInv
<1>5. ASSUME NEW m \in Manifests
      PROVE  /\ next[m] \in Version \cup {None}
             /\ Follows(h[m], next[m]) /\ Follows(old[m], next[m])
  <2>1. h[m] \in Version \cup {None} /\ old[m] \in Version \cup {None}
    BY <1>3, <1>4 DEF History
  <2>2. h[m] # None /\ old[m] # None => ~Conflict(h[m], old[m])
    BY <1>1 DEF Entries
  <2> QED  BY <2>1, <2>2, MergedFollows
<1>6. next \in History
  BY <1>5 DEF History
<1>7. Covers(next, h) /\ Covers(next, old)
  BY <1>5 DEF Covers
<1>8. Covers(next, reported[target[p]])
  BY <1>2, <1>3, <1>6, <1>7, CoversTransitive
<1>9. Covers(next, reported[source[p]])
  BY <1>2, <1>4, <1>6, <1>7, CoversTransitive
<1>10. NoRollback'
  BY <1>1 DEF IInv, NoRollback
<1>11. mem'[p] = next /\ pc'[p] = "save"
  BY <1>1 DEF IInv, TypeOK
<1>12. \A q \in Procs \ {p} : mem'[q] = mem[q] /\ seen'[q] = seen[q] /\ pc'[q] = pc[q]
  BY DEF IInv, TypeOK, Merge, Goto
<1> HIDE DEF next
<1> QED  BY <1>1, <1>8, <1>9, <1>10, <1>11, <1>12 DEF IInv, SaveInv

LEMMA RenameStep ==
  ASSUME IInv, NEW p \in Procs, SaveRename(p)
  PROVE  NoRollback' /\ SaveInv'
<1> DEFINE b == target[p]
<1>1. /\ pc[p] = "save" /\ pc' = [pc EXCEPT ![p] = "sync"]
      /\ file' = [file EXCEPT ![b] = mem[p]] /\ fileD' = [fileD EXCEPT ![b] = fileD[b] \cup {mem[p]}]
      /\ UNCHANGED <<source, target, seen, mem, reported>>
  BY DEF SaveRename, Goto, history
<1>2. b \in Anchors /\ mem[p] \in History /\ mem[p] # None
  BY <1>1, NoneAssumption DEF IInv, TypeOK
<1>3. Covers(mem[p], reported[b])
  BY <1>1 DEF IInv, SaveInv
<1>4. \A a \in Anchors : fileD'[a] = IF a = b THEN fileD[b] \cup {mem[p]} ELSE fileD[a]
  BY <1>1, <1>2 DEF IInv, TypeOK
<1>5. NoRollback'
  <2> SUFFICES ASSUME NEW a \in Anchors, NEW h \in fileD'[a], NEW m \in Manifests,
                      reported[a][m] # None
               PROVE  h # None /\ Follows(reported[a][m], h[m])
    BY <1>1 DEF NoRollback
  <2>1. CASE h \in fileD[a]
    BY <2>1 DEF IInv, NoRollback
  <2>2. CASE h \notin fileD[a]
    <3>1. a = b /\ h = mem[p]
      BY <1>4, <2>2
    <3> QED  BY <1>2, <1>3, <3>1 DEF Covers
  <2> QED  BY <2>1, <2>2
<1>6. \A q \in Procs \ {p} : pc'[q] = pc[q] /\ (pc[q] = "sync" => target[q] # b)
  BY <1>1, Apart DEF IInv, TypeOK, Working
<1>7. /\ pc'[p] = "sync" /\ file'[b] = mem[p]
      /\ \A q \in Procs \ {p} : pc[q] = "sync" => file'[target[q]] = file[target[q]]
  BY <1>1, <1>2, <1>6 DEF IInv, TypeOK
<1> QED  BY <1>1, <1>5, <1>6, <1>7 DEF IInv, SaveInv

\* What is committed is covered by the history just saved, and follows what was
\* reported before.
LEMMA CommittedCovered ==
  ASSUME IInv, NEW p \in Procs, pc[p] = "sync"
  PROVE  Covers(mem[p], Committed(p))
<1> SUFFICES ASSUME NEW m \in Manifests PROVE Follows(Committed(p)[m], mem[p][m])
  BY DEF Covers
<1>1. /\ Follows(reported[target[p]][m], mem[p][m])
      /\ source[p] # None => Follows(reported[source[p]][m], mem[p][m])
      /\ source[p] = None /\ seen[p][m] # None => mem[p][m] = seen[p][m]
  BY DEF IInv, SaveInv, Covers
<1>2. CASE source[p] # None
  BY <1>1, <1>2, LaterFollows DEF Committed
<1>3. CASE source[p] = None
  BY <1>1, <1>3 DEF Committed, Follows
<1> QED  BY <1>2, <1>3

LEMMA SyncStep ==
  ASSUME IInv, NEW p \in Procs, SaveSync(p)
  PROVE  NoRollback' /\ SaveInv'
<1> DEFINE b == target[p]
<1>1. /\ pc[p] = "sync" /\ pc' = [pc EXCEPT ![p] = "unlock"]
      /\ fileD' = [a \in Anchors |-> {file[a]}]
      /\ reported' = [reported EXCEPT ![b] = Committed(p)]
      /\ UNCHANGED <<file, source, target>>
      /\ \A q \in Procs \ {p} : seen'[q] = seen[q] /\ mem'[q] = mem[q]
  BY DEF SaveSync, Forget, IInv, TypeOK, SyncOf, SyncDirectory, Goto
<1>2. b \in Anchors /\ mem[p] \in History /\ mem[p] # None /\ file[b] = mem[p]
  BY <1>1, NoneAssumption DEF IInv, TypeOK, SaveInv
<1>3. \A a \in Anchors : reported'[a] = IF a = b THEN Committed(p) ELSE reported[a]
  BY <1>1, <1>2 DEF IInv, TypeOK
<1>4. Covers(mem[p], Committed(p))
  BY <1>1, CommittedCovered
<1>5. NoRollback'
  <2> SUFFICES ASSUME NEW a \in Anchors, NEW m \in Manifests, reported'[a][m] # None
               PROVE  file[a] # None /\ Follows(reported'[a][m], file[a][m])
    BY <1>1 DEF NoRollback
  <2>1. CASE a = b
    BY <1>2, <1>3, <1>4, <2>1 DEF Covers
  <2>2. CASE a # b
    BY <1>3, <2>2 DEF IInv, LockInv, NoRollback
  <2> QED  BY <2>1, <2>2
<1>6. \A q \in Procs : pc'[q] \in {"save", "sync"} =>
        q # p /\ pc[q] = pc'[q] /\ target[q] # b /\ source[q] # b
  BY <1>1, Apart DEF IInv, TypeOK, Working
<1>7. \A q \in Procs : pc'[q] \in {"save", "sync"} =>
        /\ reported'[target[q]] = reported[target[q]]
        /\ source[q] # None => reported'[source[q]] = reported[source[q]]
  BY <1>3, <1>6 DEF IInv, TypeOK
<1> QED  BY <1>1, <1>5, <1>6, <1>7 DEF IInv, SaveInv

\* Every history that may survive keeps covering what was reported, and so does
\* every history about to be saved.
LEMMA SaveStep ==
  ASSUME IInv, [Next]_vars
  PROVE  NoRollback' /\ SaveInv'
<1> USE DEF files, locals, history
<1>1. ASSUME NEW p \in Procs,
             \/ (\E a \in Anchors : Lock(p, a)) \/ (\E a, b \in Anchors : LockFirst(p, a, b))
             \/ LockSecond(p) \/ LockRefused(p) \/ LockSync(p) \/ Refuse(p)
             \/ Unlock(p) \/ UnlockSync(p) \/ Kill(p)
      PROVE  NoRollback' /\ SaveInv'
  <2>1. file' = file /\ reported' = reported
    BY <1>1 DEF Lock, LockFirst, LockSecond, LockRefused, LockSync, Refuse, Unlock, UnlockSync, Kill
  <2>2. fileD' = fileD \/ fileD' = [a \in Anchors |-> {file[a]}]
    BY <1>1 DEF Lock, LockFirst, LockSecond, LockRefused, LockSync, Refuse, Unlock, UnlockSync,
                Kill, SyncDirectory
  <2>3. Quiet
    <3>1. CASE \E a \in Anchors : Lock(p, a)
      BY <3>1, <2>1 DEF Lock, Goto, Quiet, IInv, TypeOK
    <3>2. CASE \E a, b \in Anchors : LockFirst(p, a, b)
      BY <3>2, <2>1 DEF LockFirst, Goto, Quiet, IInv, TypeOK
    <3>3. CASE LockSecond(p) \/ LockRefused(p) \/ LockSync(p) \/ Refuse(p)
      BY <3>3, <2>1 DEF LockSecond, LockRefused, LockSync, Refuse, Forget, Goto, Quiet, IInv, TypeOK
    <3>4. CASE Unlock(p)
      BY <3>4, <2>1 DEF Unlock, Quiet, IInv, TypeOK
    <3>5. CASE UnlockSync(p) \/ Kill(p)
      BY <3>5, <2>1 DEF UnlockSync, Kill, Reset, Quiet, IInv, TypeOK
    <3> QED  BY <1>1, <3>1, <3>2, <3>3, <3>4, <3>5
  <2> QED  BY <2>1, <2>2, <2>3, QuietStep DEF IInv
<1>2. CASE PowerLoss
  <2>1. /\ \A q \in Procs : pc'[q] = "idle"
        /\ \A a \in Anchors : fileD'[a] \subseteq fileD[a]
        /\ reported' = reported
    BY <1>2 DEF PowerLoss, Reset
  <2> QED  BY <2>1 DEF IInv, NoRollback, SaveInv
<1>3. CASE RemoveStaleLock \/ UNCHANGED vars
  BY <1>3 DEF RemoveStaleLock, vars, IInv, NoRollback, SaveInv
<1> QED  BY <1>1, <1>2, <1>3, RememberStep, MergeStep, RenameStep, SyncStep DEF Next, Step
-----------------------------------------------------------------------------
(* The theorems *)

LEMMA Initially == Init => IInv
<1> SUFFICES ASSUME Init PROVE IInv
  OBVIOUS
<1>1. LockInv
  BY DEF Init, LockInv, Working
<1>2. MutualExclusion /\ NoRollback /\ SaveInv
  BY DEF Init, MutualExclusion, NoRollback, SaveInv, Empty
<1> QED  BY <1>1, <1>2, TypeInit DEF IInv

LEMMA Preserved == IInv /\ [Next]_vars => IInv'
  BY TypeStep, LockStep, SaveStep DEF IInv

\* The inductive invariant of the histories, their locks and their writers.
THEOREM Inductive == Spec => []IInv
  BY Initially, Preserved, PTL DEF Spec

\* Files, locks and locals keep the shape the code gives them.
THEOREM TypeCorrect == Spec => []TypeOK
<1>1. IInv => TypeOK
  BY DEF IInv
<1> QED  BY <1>1, Inductive, PTL

\* No crash brings back a history older than what was reported under its
\* anchor, or under an anchor migrated to it.
THEOREM NeverRolledBack == Spec => []NoRollback
<1>1. IInv => NoRollback
  BY DEF IInv
<1> QED  BY <1>1, Inductive, PTL

\* Two processes never work on the history of one anchor, be it the source or
\* the target of a migration.
THEOREM LocksExclude == Spec => []MutualExclusion
<1>1. IInv => MutualExclusion
  BY DEF IInv
<1> QED  BY <1>1, Inductive, PTL

\* Without a crash, whoever holds a lock keeps it until it has removed it: no
\* return, refused or not, leaves a lock directory behind.
THEOREM LocksReleased == Spec => []NoLockLeaked
<1>1. Init => NoLockLeaked
  BY DEF Init, NoLockLeaked
<1>2. IInv /\ NoLockLeaked /\ [Next]_vars => NoLockLeaked'
  <2> SUFFICES ASSUME IInv, NoLockLeaked, [Next]_vars PROVE NoLockLeaked'
    OBVIOUS
  <2> USE DEF files, locals, history
  <2>1. ASSUME NEW p \in Procs, NEW f \in Anchors, MakeLock(p, f), crashed' = crashed
        PROVE  NoLockLeaked'
    <3>1. /\ locks' = locks \cup {f} /\ f \in held'[p]
          /\ \A q \in Procs : held[q] \subseteq held'[q]
      BY <2>1 DEF MakeLock, IInv, TypeOK
    <3> QED  BY <2>1, <3>1 DEF NoLockLeaked
  <2>2. ASSUME NEW p \in Procs, NEW a \in Anchors, Lock(p, a) PROVE NoLockLeaked'
    BY <2>1, <2>2 DEF Lock
  <2>3. ASSUME NEW p \in Procs, NEW a \in Anchors, NEW b \in Anchors, LockFirst(p, a, b)
        PROVE  NoLockLeaked'
    <3>1. First(a, b) \in Anchors
      BY DEF First
    <3> QED  BY <2>1, <2>3, <3>1 DEF LockFirst
  <2>4. ASSUME NEW p \in Procs, LockSecond(p) PROVE NoLockLeaked'
    <3>1. source[p] \in Anchors /\ target[p] \in Anchors
      BY <2>4 DEF LockSecond, Goto, IInv, TypeOK, LockInv
    <3>2. Second(source[p], target[p]) \in Anchors
      BY <3>1 DEF Second
    <3> QED  BY <2>1, <2>4, <3>2 DEF LockSecond
  <2>5. ASSUME NEW p \in Procs,
               \/ LockRefused(p) \/ LockSync(p) \/ Merge(p) \/ SaveRename(p) \/ SaveSync(p)
               \/ Refuse(p) \/ \E path \in History : Remember(p, path)
        PROVE  NoLockLeaked'
    BY <2>5 DEF LockRefused, LockSync, Merge, SaveRename, SaveSync, Refuse, Remember, NoLockLeaked
  <2>6. ASSUME NEW p \in Procs, Unlock(p) PROVE NoLockLeaked'
    <3>1. PICK a \in held[p] : locks' = locks \ {a} /\ held' = [held EXCEPT ![p] = held[p] \ {a}]
      BY <2>6 DEF Unlock
    <3>2. \A q \in Procs : held'[q] = IF q = p THEN held[p] \ {a} ELSE held[q]
      BY <3>1 DEF IInv, TypeOK
    <3>3. crashed' = crashed
      BY <2>6 DEF Unlock
    <3> QED  BY <3>1, <3>2, <3>3 DEF NoLockLeaked
  <2>7. ASSUME NEW p \in Procs, UnlockSync(p) PROVE NoLockLeaked'
    <3>1. held[p] = {}
      BY <2>7 DEF UnlockSync, IInv, LockInv
    <3>2. /\ locks' = locks /\ crashed' = crashed
          /\ \A q \in Procs : held'[q] = IF q = p THEN {} ELSE held[q]
      BY <2>7 DEF UnlockSync, Reset
    <3> QED  BY <3>1, <3>2 DEF NoLockLeaked
  <2>8. ASSUME NEW p \in Procs, Kill(p) PROVE NoLockLeaked'
    BY <2>8 DEF Kill, NoLockLeaked
  <2>9. CASE PowerLoss
    BY <2>9 DEF PowerLoss, NoLockLeaked
  <2>10. CASE RemoveStaleLock \/ UNCHANGED vars
    BY <2>10 DEF RemoveStaleLock, vars, NoLockLeaked
  <2> QED  BY <2>2, <2>3, <2>4, <2>5, <2>6, <2>7, <2>8, <2>9, <2>10 DEF Next, Step
<1> QED  BY <1>1, <1>2, Inductive, PTL DEF Spec

\* Only the sync of a save commits, and it commits what the abstract Report or
\* Replace allows: every other step, every crash among them, is a stutter.
THEOREM HistoriesImplementWatermarks == Spec => ImplementsWatermarks
<1>1. Init => Watermarks!Init
  BY DEF Init, Watermarks!Init, Empty
<1>2. IInv /\ [Next]_vars => [Watermarks!Next]_reported
  <2> SUFFICES ASSUME IInv, [Next]_vars, reported' # reported
               PROVE  Watermarks!Next
    OBVIOUS
  <2>1. PICK p \in Procs : SaveSync(p)
    BY DEF Next, Step, vars, files, locals, history, Lock, LockFirst, LockSecond, LockRefused,
           LockSync, Remember, Merge, SaveRename, Refuse, Unlock, UnlockSync, Kill, PowerLoss,
           RemoveStaleLock
  <2>2. /\ pc[p] = "sync" /\ target[p] \in Anchors /\ source[p] \in Anchors \cup {None}
        /\ source[p] # target[p] /\ seen[p] \in History
        /\ reported' = [reported EXCEPT ![target[p]] = Committed(p)]
    BY <2>1 DEF SaveSync, Goto, IInv, TypeOK
  <2>3. CASE source[p] = None
    <3>1. \A m \in Manifests : seen[p][m] # None => Follows(reported[target[p]][m], seen[p][m])
      BY <2>2, <2>3 DEF IInv, SaveInv
    <3>2. Committed(p) =
            [m \in Manifests |-> IF seen[p][m] # None THEN seen[p][m] ELSE reported[target[p]][m]]
      BY <2>3 DEF Committed
    <3>3. Watermarks!Report(target[p], seen[p])
      BY <2>2, <3>1, <3>2 DEF Watermarks!Report, Watermarks!Follows, Follows
    <3> QED  BY <2>2, <3>3 DEF Watermarks!Next, History
  <2>4. CASE source[p] # None
    <3>1. Committed(p) =
            [m \in Manifests |-> Later(reported[source[p]][m], reported[target[p]][m])]
      BY <2>4 DEF Committed
    <3>2. Watermarks!Replace(source[p], target[p])
      BY <2>2, <3>1 DEF Watermarks!Replace, Watermarks!Later, Later
    <3> QED  BY <2>2, <2>4, <3>2 DEF Watermarks!Next
  <2> QED  BY <2>3, <2>4
<1> QED  BY <1>1, <1>2, Inductive, PTL DEF Spec, ImplementsWatermarks, Watermarks!Spec

\* The lock directories exclude, and every return gives them back.
THEOREM LocksWork == Spec => []LocksAreSound
BY LocksExclude, LocksReleased, PTL DEF LocksAreSound
=============================================================================
