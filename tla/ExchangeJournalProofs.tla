------------------------ MODULE ExchangeJournalProofs ------------------------
(* Theorems about ExchangeJournal for every set of processes and every bound. *)
EXTENDS ExchangeJournal, TLAPS

(***************************************************************************)
(* Type correctness                                                        *)
(***************************************************************************)
LEMMA FreshType == Fresh \in Journal
BY TimeAssumption DEF Fresh, Journal, Time

\* A directory sync or the removal of the lock keeps the files well typed.
LEMMA SyncType == FilesOK /\ SyncDirectory => FilesOK'
BY DEF FilesOK, SyncDirectory

LEMMA RemoveLockType == FilesOK /\ RemoveLock => FilesOK'
BY DEF FilesOK, RemoveLock

LEMMA LeaveType ==
  ASSUME LocalsOK, NEW P \in SUBSET Procs, NEW there \in {"idle", "closeSync"},
         Leave(P, there)
  PROVE  LocalsOK'
BY FreshType DEF LocalsOK, Leave, Places, HasRequest, HasResponse

LEMMA InitType == Init => TypeOK
<1> SUFFICES ASSUME Init PROVE TypeOK
  OBVIOUS
<1>1. FilesOK BY DEF Init, FilesOK
<1>2. LocalsOK BY FreshType DEF Init, LocalsOK, Places, HasRequest, HasResponse
<1>3. HistoryOK BY TimeAssumption DEF Init, HistoryOK, Time
<1>4. QED BY <1>1, <1>2, <1>3 DEF TypeOK

\* The steps of a save.
LEMMA SaveType ==
  ASSUME TypeOK, NEW p \in Procs, SaveRename(p) \/ SaveSync(p) \/ SaveError(p)
  PROVE  TypeOK'
<1> USE DEF TypeOK
<1>1. CASE SaveRename(p)
  <2>1. FilesOK' BY <1>1 DEF SaveRename, FilesOK, LocalsOK
  <2>2. LocalsOK'
    BY <1>1 DEF SaveRename, LocalsOK, Saving, SyncOf, Places, HasRequest, HasResponse
  <2>3. HistoryOK' BY <1>1 DEF SaveRename, history, HistoryOK
  <2>4. QED BY <2>1, <2>2, <2>3
<1>2. CASE SaveSync(p)
  <2>1. FilesOK' BY <1>2, SyncType DEF SaveSync
  <2>2. LocalsOK'
    BY <1>2 DEF SaveSync, LocalsOK, Syncing, AfterSync, Places, HasRequest, HasResponse
  <2>3. mem[p].received \in Time BY DEF LocalsOK, Journal
  <2>4. pc[p] = "decideSync" => req[p] \in Request
    BY DEF LocalsOK, HasRequest, HasResponse
  <2>5. HistoryOK' BY <1>2, <2>3, <2>4 DEF SaveSync, HistoryOK
  <2>6. QED BY <2>1, <2>2, <2>5
<1>3. CASE SaveError(p)
  <2>1. CASE OpenError(p)
    BY <2>1, RemoveLockType, LeaveType DEF OpenError, history, HistoryOK
  <2>2. CASE ~OpenError(p)
    <3>1. FilesOK' /\ HistoryOK'
      BY <1>3, <2>2 DEF SaveError, files, history, FilesOK, HistoryOK
    <3>2. LocalsOK'
      BY <1>3, <2>2 DEF SaveError, LocalsOK, Places, HasRequest, HasResponse
    <3>3. QED BY <3>1, <3>2
  <2>3. QED BY <2>1, <2>2
<1>4. QED BY <1>1, <1>2, <1>3

\* The steps of one exchange.
LEMMA ExchangeType ==
  ASSUME TypeOK, NEW p \in Procs,
         \/ \E r \in Request : BeginSigned(p, r)
         \/ RequestRename(p) \/ RequestSync(p) \/ Post(p)
         \/ \E w \in Response : Verify(p, w)
         \/ ResponseRename(p) \/ ResponseSync(p)
         \/ PruneResponse(p) \/ PruneSync(p) \/ ExchangeError(p)
  PROVE  TypeOK'
<1> USE DEF TypeOK, Goto
<1>0. /\ pc[p] \in HasRequest => req[p] \in Request
      /\ pc[p] \in HasResponse => rep[p] \in Response
      /\ mem[p] \in Journal
  BY DEF LocalsOK
<1>1. ASSUME NEW r \in Request, BeginSigned(p, r) PROVE TypeOK'
  <2>1. FilesOK' /\ HistoryOK'
    BY <1>1 DEF BeginSigned, files, history, FilesOK, HistoryOK
  <2>2. LocalsOK' BY <1>1 DEF BeginSigned, LocalsOK, Places, HasRequest, HasResponse
  <2>3. QED BY <2>1, <2>2
<1>2. CASE RequestRename(p)
  <2>0. req[p] \in Request BY <1>2, <1>0 DEF RequestRename, HasRequest
  <2>1. FilesOK' BY <1>2, <2>0 DEF RequestRename, FilesOK
  <2>2. LocalsOK' BY <1>2 DEF RequestRename, LocalsOK, Places, HasRequest, HasResponse
  <2>3. HistoryOK' BY <1>2 DEF RequestRename, history, HistoryOK
  <2>4. QED BY <2>1, <2>2, <2>3
<1>3. CASE RequestSync(p)
  <2>0. req[p] \in Request /\ req[p].time \in Time
    BY <1>3, <1>0 DEF RequestSync, HasRequest, Request, Time, SigningTime
  <2>1. BeginEntry(p) \in Journal BY <2>0, <1>0 DEF BeginEntry, Journal
  <2>2. LocalsOK'
    BY <1>3, <2>1 DEF RequestSync, LocalsOK, Places, HasRequest, HasResponse
  <2>3. FilesOK' /\ HistoryOK'
    BY <1>3, SyncType DEF RequestSync, history, HistoryOK
  <2>4. QED BY <2>2, <2>3
<1>4. CASE Post(p)
  <2>1. req[p] \in Request /\ req[p].time \in Time
    BY <1>4, <1>0 DEF Post, HasRequest, Request, Time, SigningTime
  <2>2. FilesOK' BY <1>4 DEF Post, files, FilesOK
  <2>3. LocalsOK' BY <1>4 DEF Post, LocalsOK, Places, HasRequest, HasResponse
  <2>4. HistoryOK' BY <1>4, <2>1 DEF Post, HistoryOK
  <2>5. QED BY <2>2, <2>3, <2>4
<1>5. ASSUME NEW w \in Response, Verify(p, w) PROVE TypeOK'
  <2>1. FilesOK' /\ HistoryOK' BY <1>5 DEF Verify, files, FilesOK, HistoryOK
  <2>2. LocalsOK'
    BY <1>5, <1>0 DEF Verify, LocalsOK, Places, HasRequest, HasResponse
  <2>3. QED BY <2>1, <2>2
<1>6. CASE ResponseRename(p)
  <2>1. FilesOK' BY <1>6, <1>0 DEF ResponseRename, FilesOK, HasResponse
  <2>2. LocalsOK' BY <1>6 DEF ResponseRename, LocalsOK, Places, HasRequest, HasResponse
  <2>3. HistoryOK' BY <1>6 DEF ResponseRename, history, HistoryOK
  <2>4. QED BY <2>1, <2>2, <2>3
<1>7. CASE ResponseSync(p)
  <2>1. req[p] \in Request /\ rep[p] \in Response /\ rep[p].time \in Time
    BY <1>7, <1>0 DEF ResponseSync, HasRequest, HasResponse, Response, Time, SigningTime
  <2>2. CompletedEntry(p) \in Journal
    BY <2>1, <1>0 DEF CompletedEntry, Journal, Completed
  <2>3. mem[p].last # None => mem[p].last.response \in Response
    BY <1>0 DEF Journal, Completed
  <2>4. LocalsOK'
    BY <1>7, <2>1, <2>2, <2>3
       DEF ResponseSync, LocalsOK, Places, HasRequest, HasResponse
  <2>5. FilesOK' /\ HistoryOK'
    BY <1>7, SyncType DEF ResponseSync, history, HistoryOK
  <2>6. QED BY <2>4, <2>5
<1>8. CASE PruneResponse(p)
  <2>1. FilesOK' BY <1>8 DEF PruneResponse, FilesOK
  <2>2. LocalsOK' BY <1>8 DEF PruneResponse, LocalsOK, Places, HasRequest, HasResponse
  <2>3. HistoryOK' BY <1>8 DEF PruneResponse, history, HistoryOK
  <2>4. QED BY <2>1, <2>2, <2>3
<1>9. CASE PruneSync(p)
  <2>1. FilesOK' BY <1>9, SyncType DEF PruneSync, files, FilesOK
  <2>2. LocalsOK' BY <1>9 DEF PruneSync, LocalsOK, Places, HasRequest, HasResponse
  <2>3. HistoryOK' BY <1>9 DEF PruneSync, history, HistoryOK
  <2>4. QED BY <2>1, <2>2, <2>3
<1>10. CASE ExchangeError(p)
  <2>1. FilesOK' /\ HistoryOK'
    BY <1>10 DEF ExchangeError, files, history, FilesOK, HistoryOK
  <2>2. LocalsOK' BY <1>10 DEF ExchangeError, LocalsOK, Places, HasRequest, HasResponse
  <2>3. QED BY <2>1, <2>2
<1>11. QED
  BY <1>1, <1>2, <1>3, <1>4, <1>5, <1>6, <1>7, <1>8, <1>9, <1>10

\* Opening, deciding, closing, crashing and clearing the lock.
LEMMA LeaseType ==
  ASSUME TypeOK, NEW p \in Procs,
         \/ Lock(p) \/ OpenSync(p) \/ OpenExisting(p) \/ OpenMissing(p)
         \/ OpenRefused(p)
         \/ \E r \in Request : RecoverRead(p, r)
         \/ \E r \in Request, s, t \in SigningTime : Reconcile(p, r, s, t)
         \/ Close(p) \/ CloseSync(p) \/ Kill(p)
  PROVE  TypeOK'
<1> USE DEF TypeOK, Goto
<1>1. CASE Lock(p)
  <2>1. FilesOK' BY <1>1 DEF Lock, MakeLock, FilesOK
  <2>2. LocalsOK' BY <1>1 DEF Lock, LocalsOK, Places, HasRequest, HasResponse
  <2>3. HistoryOK' BY <1>1 DEF Lock, history, HistoryOK
  <2>4. QED BY <2>1, <2>2, <2>3
<1>2. CASE OpenError(p)
  BY <1>2, RemoveLockType, LeaveType DEF OpenError, history, HistoryOK
<1>3. CASE OpenSync(p) /\ ~OpenError(p)
  <2>1. FilesOK' /\ HistoryOK' BY <1>3, SyncType DEF OpenSync, history, HistoryOK
  <2>2. LocalsOK' BY <1>3 DEF OpenSync, LocalsOK, Places, HasRequest, HasResponse
  <2>3. QED BY <2>1, <2>2
<1>4. CASE OpenExisting(p)
  <2>1. FilesOK' /\ HistoryOK'
    BY <1>4 DEF OpenExisting, files, history, FilesOK, HistoryOK
  <2>2. journal \in Journal BY <1>4 DEF OpenExisting, FilesOK
  <2>3. LocalsOK'
    BY <1>4, <2>2 DEF OpenExisting, LocalsOK, Places, HasRequest, HasResponse
  <2>4. QED BY <2>1, <2>3
<1>5. CASE OpenMissing(p)
  <2>1. FilesOK' /\ HistoryOK'
    BY <1>5 DEF OpenMissing, files, history, FilesOK, HistoryOK
  <2>2. LocalsOK'
    BY <1>5, FreshType DEF OpenMissing, LocalsOK, Places, HasRequest, HasResponse
  <2>3. QED BY <2>1, <2>2
<1>6. ASSUME NEW r \in Request, RecoverRead(p, r) PROVE TypeOK'
  <2>1. RecoveredEntry(p, r) \in Journal BY DEF LocalsOK, RecoveredEntry, Journal
  <2>2. FilesOK' /\ HistoryOK' BY <1>6 DEF RecoverRead, files, FilesOK, HistoryOK
  <2>3. LocalsOK'
    BY <1>6, <2>1 DEF RecoverRead, LocalsOK, Places, HasRequest, HasResponse
  <2>4. QED BY <2>2, <2>3
<1>7. ASSUME NEW r \in Request, NEW s \in SigningTime, NEW t \in SigningTime,
             Reconcile(p, r, s, t)
      PROVE  TypeOK'
  <2>1. s \in Time /\ t \in Time /\ r.op \in MutationOps
    BY <1>7 DEF Reconcile, ReadOnly, Request, Ops, Time, SigningTime
  <2>2. [original |-> r, sent |-> s, received |-> t] \in Receipt BY <2>1 DEF Receipt
  <2>3. ReconciledEntry(p, r, s, t) \in Journal
    <3>1. mem[p] \in Journal
      BY DEF LocalsOK
    <3>2. [mem[p].receipts EXCEPT ![r.op] = [original |-> r, sent |-> s, received |-> t]]
            \in [MutationOps -> Receipt \cup {None}]
      BY <2>1, <2>2, <3>1 DEF Journal
    <3> QED  BY <2>1, <3>1, <3>2 DEF ReconciledEntry, Journal
  <2>4. FilesOK' /\ HistoryOK' BY <1>7 DEF Reconcile, files, FilesOK, HistoryOK
  <2>5. LocalsOK'
    BY <1>7, <2>3 DEF Reconcile, LocalsOK, Places, HasRequest, HasResponse
  <2>6. QED BY <2>4, <2>5
<1>8. CASE Close(p)
  BY <1>8, RemoveLockType, LeaveType DEF Close, history, HistoryOK
<1>9. CASE CloseSync(p)
  BY <1>9, SyncType, LeaveType DEF CloseSync, files, FilesOK, history, HistoryOK
<1>10. CASE Kill(p)
  BY <1>10, LeaveType DEF Kill, files, FilesOK, history, HistoryOK
<1>11. QED
  BY <1>1, <1>2, <1>3, <1>4, <1>5, <1>6, <1>7, <1>8, <1>9, <1>10 DEF OpenRefused

\* Every reachable state of the journal is well typed, and a process holds a
\* request or a response wherever the code uses one.
THEOREM TypeCorrect == Spec => []TypeOK
<1>1. TypeOK /\ [Next]_vars => TypeOK'
  <2> SUFFICES ASSUME TypeOK, [Next]_vars PROVE TypeOK'
    OBVIOUS
  <2>1. CASE \E p \in Procs :
              LocalStep(p) \/ (\E w \in Response : Verify(p, w)) \/ Kill(p)
    BY <2>1, SaveType, ExchangeType, LeaseType DEF LocalStep
  <2>2. CASE PowerLoss
    <3>1. LocalsOK' BY <2>2, LeaveType DEF PowerLoss, TypeOK
    <3>2. FilesOK' /\ HistoryOK'
      BY <2>2 DEF PowerLoss, TypeOK, FilesOK, history, HistoryOK
    <3>3. QED BY <3>1, <3>2 DEF TypeOK
  <2>3. CASE RemoveStaleLock
    BY <2>3, RemoveLockType
       DEF RemoveStaleLock, TypeOK, locals, LocalsOK, history, HistoryOK
  <2>4. CASE UNCHANGED vars
    BY <2>4 DEF vars, files, locals, history, TypeOK, FilesOK, LocalsOK, HistoryOK
  <2>5. QED BY <2>1, <2>2, <2>3, <2>4 DEF Next
<1>2. QED BY InitType, <1>1, PTL DEF Spec

(***************************************************************************)
(* Mutual exclusion of the lock directory                                  *)
(***************************************************************************)
LEMMA LockStep == TypeOK /\ LockInv /\ [Next]_vars => LockInv'
<1> SUFFICES ASSUME TypeOK, LockInv, [Next]_vars PROVE LockInv'
  OBVIOUS
<1> USE DEF LockInv, MutualExclusion, Holds
<1>0. pc \in [Procs -> Places] BY DEF TypeOK, LocalsOK
\* A process that goes on without the lock changing hands keeps the invariant.
<1>1. ASSUME NEW p \in Procs, Holds(p), lock' = lock,
             \A q \in Procs \ {p} : pc'[q] = pc[q]
      PROVE  LockInv'
  BY <1>1
<1>2. ASSUME NEW p \in Procs, pc'[p] \in {"idle", "closeSync"},
             \A q \in Procs \ {p} : pc'[q] = pc[q], lock' = lock \/ Holds(p)
      PROVE  LockInv'
  BY <1>2
<1>3. ASSUME NEW p \in Procs, NEW there \in {"idle", "closeSync"}, Leave({p}, there)
      PROVE  pc'[p] = there /\ \A q \in Procs \ {p} : pc'[q] = pc[q]
  BY <1>3 DEF Leave
<1>4. ASSUME NEW p \in Procs, LocalStep(p) PROVE LockInv'
  <2>1. CASE Lock(p) BY <2>1, <1>0 DEF Lock, Goto, MakeLock
  <2>2. CASE OpenError(p) /\ Holds(p) BY <2>2, <1>2, <1>3 DEF OpenError
  <2>3. CASE OpenSync(p) /\ ~OpenError(p)
    BY <2>3, <1>0, <1>1 DEF OpenSync, Goto, SyncDirectory
  <2>4. CASE OpenExisting(p) \/ OpenMissing(p)
    BY <2>4, <1>0, <1>1 DEF OpenExisting, OpenMissing, Goto, files
  <2>5. CASE SaveRename(p) BY <2>5, <1>0, <1>1 DEF SaveRename, Saving
  <2>6. CASE SaveSync(p) BY <2>6, <1>0, <1>1 DEF SaveSync, Syncing, SyncDirectory
  <2>7. CASE SaveError(p) /\ ~OpenError(p)
    BY <2>7, <1>0, <1>1 DEF SaveError, Saving, Syncing, files
  <2>8. CASE \E r \in Request : BeginSigned(p, r)
    BY <2>8, <1>0, <1>1 DEF BeginSigned, Goto, files
  <2>9. CASE RequestRename(p) \/ RequestSync(p) \/ Post(p)
    BY <2>9, <1>0, <1>1 DEF RequestRename, RequestSync, Post, Goto, SyncDirectory, files
  <2>10. CASE ResponseRename(p) \/ ResponseSync(p) \/ PruneResponse(p) \/ PruneSync(p)
    BY <2>10, <1>0, <1>1 DEF ResponseRename, ResponseSync, PruneResponse, PruneSync,
       Goto, SyncDirectory, files
  <2>11. CASE ExchangeError(p) BY <2>11, <1>0, <1>1 DEF ExchangeError, files
  <2>12. CASE \E r \in Request : RecoverRead(p, r)
    BY <2>12, <1>0, <1>1 DEF RecoverRead, Goto, files
  <2>13. CASE \E r \in Request, s, t \in SigningTime : Reconcile(p, r, s, t)
    BY <2>13, <1>0, <1>1 DEF Reconcile, Goto, files
  <2>14. CASE Close(p) BY <2>14, <1>2, <1>3 DEF Close
  <2>15. CASE CloseSync(p)
    BY <2>15, <1>2, <1>3 DEF CloseSync, SyncDirectory, files
  <2>16. OpenError(p) /\ (OpenSync(p) \/ OpenRefused(p) \/ SaveError(p)) => Holds(p)
    BY DEF OpenSync, OpenRefused, SaveError, Goto, Saving, Syncing
  <2>17. OpenRefused(p) => OpenError(p) BY DEF OpenRefused
  <2>18. QED
    BY <1>4, <2>1, <2>2, <2>3, <2>4, <2>5, <2>6, <2>7, <2>8, <2>9, <2>10, <2>11, <2>12,
       <2>13, <2>14, <2>15, <2>16, <2>17 DEF LocalStep
<1>5. ASSUME NEW p \in Procs, NEW w \in Response, Verify(p, w) PROVE LockInv'
  BY <1>5, <1>0, <1>1 DEF Verify, Goto, files
<1>6. ASSUME NEW p \in Procs, Kill(p) PROVE LockInv'
  BY <1>6, <1>2, <1>3 DEF Kill, files
<1>7. CASE PowerLoss BY <1>7 DEF PowerLoss, Leave
<1>8. CASE RemoveStaleLock BY <1>8 DEF RemoveStaleLock, locals
<1>9. CASE UNCHANGED vars BY <1>9 DEF vars, files, locals
<1>10. QED BY <1>4, <1>5, <1>6, <1>7, <1>8, <1>9 DEF Next

\* Two processes never hold the lease of one peer at once, whatever crashes and
\* manual lock removals happen.
THEOREM LeaseIsExclusive == Spec => []MutualExclusion
<1>1. Init => LockInv BY DEF Init, LockInv, MutualExclusion, Holds
<1>2. LockInv => MutualExclusion BY DEF LockInv
<1>3. QED BY <1>1, <1>2, LockStep, TypeCorrect, PTL DEF Spec

(***************************************************************************)
(* The journals a power loss can leave                                     *)
(***************************************************************************)

\* A good journal stays good while files only settle and requests only close.
LEMMA GoodKept ==
  ASSUME NEW j, Good(j), requestD' \subseteq requestD, requestD' # {},
         responseMust \subseteq responseMust', unsettled' \subseteq unsettled,
         UNCHANGED <<abandoned, sentMark, receivedMark>>
  PROVE  Good(j)'
BY DEF Good, Valid, ValidReceipt, ReadOnly, Beyond

LEMMA SyncKeepsGood ==
  ASSUME TypeOK, FilesInv, SyncDirectory, UNCHANGED history, NEW j, Good(j)
  PROVE  Good(j)'
BY GoodKept DEF TypeOK, FilesOK, FilesInv, SyncDirectory, history

LEMMA SyncFilesInv ==
  ASSUME TypeOK, FilesInv, SyncDirectory, UNCHANGED history
  PROVE  FilesInv'
BY SyncKeepsGood DEF FilesInv, SyncDirectory, history, Untouched

\* Files and history stand still.
LEMMA StillGood ==
  ASSUME UNCHANGED files, UNCHANGED history, NEW j
  PROVE  Good(j)' <=> Good(j)
BY DEF files, history, Good, Valid, ValidReceipt, ReadOnly, Beyond

LEMMA StillFilesInv ==
  ASSUME FilesInv, UNCHANGED files, UNCHANGED history
  PROVE  FilesInv'
BY StillGood DEF FilesInv, files, history, Untouched

LEMMA RemoveLockFilesInv ==
  ASSUME FilesInv, RemoveLock, UNCHANGED history
  PROVE  FilesInv'
BY DEF FilesInv, RemoveLock, history, Untouched, Good, Valid, ValidReceipt, ReadOnly, Beyond

\* A process outside its lease has nothing to keep.
LEMMA IdleProcessInv ==
  ASSUME NEW q \in Procs, pc[q] \in {"idle", "closeSync", "locked", "failed"}
  PROVE  ProcessInv(q)
BY DEF ProcessInv, Settled, Begun, Saving, Syncing

LEMMA IdleProcessInvNext ==
  ASSUME NEW q \in Procs, pc'[q] \in {"idle", "closeSync", "locked", "failed"}
  PROVE  ProcessInv(q)'
BY DEF ProcessInv, Settled, Begun, Saving, Syncing

\* While p holds the lease, no other process has anything to keep.
LEMMA OnlyHolder ==
  ASSUME LockInv, NEW p \in Procs, Holds(p), \A q \in Procs \ {p} : pc'[q] = pc[q]
  PROVE  \A q \in Procs \ {p} : ProcessInv(q)'
BY IdleProcessInvNext DEF LockInv, MutualExclusion, Holds

\* What a settled process knows of the only survivable journal.
LEMMA SettledGood ==
  ASSUME TypeOK, FilesInv, NEW p \in Procs, ProcessInv(p), Settled(p)
  PROVE  /\ mem[p] \in Journal /\ mem[p] # None /\ Good(mem[p])
         /\ journalD = {mem[p]} /\ journal = mem[p]
         /\ mem[p].pending = None => unsettled = {}
<1>1. mem[p] \in Journal /\ mem[p] # None
  BY NoneAssumption DEF TypeOK, LocalsOK
<1>2. journalD = {mem[p]} /\ journal = mem[p] /\ Good(mem[p])
  BY <1>1 DEF ProcessInv, FilesInv
<1>3. mem[p].pending = None => unsettled = {}
  BY <1>2, NoneAssumption DEF Good, TypeOK, HistoryOK
<1>4. QED BY <1>1, <1>2, <1>3

(***************************************************************************)
(* Each step keeps the inductive invariant                                 *)
(***************************************************************************)
Kept == FilesInv' /\ \A q \in Procs : ProcessInv(q)'

LEMMA HolderStep ==
  ASSUME IInv, NEW p \in Procs, Holds(p), \A q \in Procs \ {p} : pc'[q] = pc[q],
         FilesInv', ProcessInv(p)'
  PROVE  Kept
BY OnlyHolder DEF IInv, Kept

\* Requests only close: nothing that survives stops being good.
LEMMA ClosingFilesInv ==
  ASSUME FilesInv, UNCHANGED files, unsettled' \subseteq unsettled,
         UNCHANGED <<abandoned, sentMark, receivedMark>>
  PROVE  FilesInv'
BY GoodKept DEF FilesInv, files, Untouched

LEMMA OpenKept ==
  ASSUME IInv, NEW p \in Procs,
         \/ Lock(p) \/ (OpenError(p) /\ Holds(p))
         \/ (OpenSync(p) /\ ~OpenError(p))
         \/ OpenExisting(p) \/ OpenMissing(p)
  PROVE  Kept
<1> USE DEF IInv
<1>0. pc \in [Procs -> Places] /\ mem \in [Procs -> Journal]
  BY DEF TypeOK, LocalsOK
<1>1. CASE Lock(p)
  <2>1. FilesInv'
    BY <1>1 DEF Lock, FilesInv, history, Untouched, Good, Valid, ValidReceipt, ReadOnly,
       Beyond
  <2>2. \A q \in Procs : pc'[q] \in {"idle", "closeSync", "locked"}
    BY <1>0, <1>1 DEF Lock, Goto, MakeLock, LockInv, Holds
  <2>3. QED BY <2>1, <2>2, IdleProcessInvNext DEF Kept
<1>2. CASE OpenError(p) /\ Holds(p)
  <2>1. FilesInv' BY <1>2, RemoveLockFilesInv DEF OpenError
  <2>2. pc'[p] = "idle" /\ \A q \in Procs \ {p} : pc'[q] = pc[q]
    BY <1>2 DEF OpenError, Leave
  <2>3. QED BY <1>2, <2>1, <2>2, IdleProcessInvNext, HolderStep
<1>3. CASE OpenSync(p) /\ ~OpenError(p)
  <2>1. pc'[p] = "read" /\ Holds(p) /\ \A q \in Procs \ {p} : pc'[q] = pc[q]
    BY <1>0, <1>3 DEF OpenSync, Goto, Holds
  <2>2. FilesInv' BY <1>3, SyncFilesInv DEF OpenSync
  <2>3. ProcessInv(p)'
    BY <1>3, <2>1 DEF OpenSync, SyncDirectory, ProcessInv, Settled, Begun, Saving, Syncing
  <2>4. QED BY <2>1, <2>2, <2>3, HolderStep
<1>4. CASE OpenExisting(p)
  <2>1. /\ pc'[p] = "open" /\ Holds(p) /\ \A q \in Procs \ {p} : pc'[q] = pc[q]
        /\ mem'[p] = journal
    BY <1>0, <1>4 DEF OpenExisting, Goto, Holds
  <2>2. FilesInv' BY <1>4, StillFilesInv DEF OpenExisting
  <2>3. journalD' = {mem'[p]}
    BY <1>4, <2>1 DEF OpenExisting, Goto, ProcessInv, files
  <2>4. ProcessInv(p)' BY <2>1, <2>3 DEF ProcessInv, Settled, Begun, Saving, Syncing
  <2>5. QED BY <2>1, <2>2, <2>4, HolderStep
<1>5. CASE OpenMissing(p)
  <2>1. /\ pc'[p] = "create" /\ Holds(p) /\ \A q \in Procs \ {p} : pc'[q] = pc[q]
        /\ mem'[p] = Fresh
    BY <1>0, <1>5 DEF OpenMissing, Goto, Holds
  <2>2. FilesInv' BY <1>5, StillFilesInv DEF OpenMissing
  <2>3. journalD = {None} BY <1>5 DEF OpenMissing, Goto, ProcessInv
  <2>4. Untouched BY <2>3 DEF FilesInv
  <2>5. Good(Fresh)
    BY <2>4 DEF Good, Fresh, Valid, ValidReceipt, Untouched
  <2>6. Good(Fresh)' BY <1>5, <2>5, StillGood DEF OpenMissing
  <2>7. ProcessInv(p)'
    BY <1>5, <2>1, <2>3, <2>6 DEF OpenMissing, files, ProcessInv, Settled, Begun, Saving,
       Syncing
  <2>8. QED BY <2>1, <2>2, <2>7, HolderStep
<1>6. QED BY <1>1, <1>2, <1>3, <1>4, <1>5

LEMMA SaveKept ==
  ASSUME IInv, NEW p \in Procs,
         SaveRename(p) \/ SaveSync(p) \/ (SaveError(p) /\ ~OpenError(p))
  PROVE  Kept
<1> USE DEF IInv
<1>0. /\ pc \in [Procs -> Places] /\ mem[p] \in Journal /\ mem[p] # None
      /\ ProcessInv(p)
  BY NoneAssumption DEF TypeOK, LocalsOK
<1>1. CASE SaveRename(p)
  <2>1. /\ pc'[p] = SyncOf(pc[p]) /\ pc[p] \in Saving /\ Holds(p)
        /\ \A q \in Procs \ {p} : pc'[q] = pc[q]
    BY <1>0, <1>1 DEF SaveRename, Saving, Holds
  <2>2. journal' = mem[p] /\ journalD' = journalD \cup {mem[p]} /\ mem' = mem
        /\ rep' = rep /\ req' = req /\ old' = old
    BY <1>1 DEF SaveRename
  <2>3. \A j : Good(j)' <=> Good(j)
    BY <1>1 DEF SaveRename, history, Good, Valid, ValidReceipt, ReadOnly, Beyond
  <2>4. Good(mem[p]) BY <1>0, <2>1 DEF ProcessInv
  <2>5. FilesInv'
    BY <1>0, <1>1, <2>2, <2>3, <2>4 DEF SaveRename, FilesInv, history, Untouched
  <2>6. Good(mem[p])'
    BY <1>1, <2>2, <2>4
       DEF SaveRename, history, Good, Valid, ValidReceipt, ReadOnly, Beyond
  <2>7. ProcessInv(p)'
    BY <1>0, <2>1, <2>2, <2>6 DEF ProcessInv, Settled, Begun, Saving, Syncing, SyncOf, Beyond
  <2>8. QED BY <2>1, <2>5, <2>7, HolderStep
<1>2. CASE SaveSync(p)
  <2>1. /\ pc'[p] = AfterSync(p) /\ pc[p] \in Syncing /\ Holds(p)
        /\ \A q \in Procs \ {p} : pc'[q] = pc[q]
    BY <1>0, <1>2 DEF SaveSync, Syncing, Holds
  <2>2. /\ journal = mem[p] /\ Good(mem[p])
        /\ pc[p] = "decideSync" => Beyond(mem[p], req[p])
    BY <1>0, <2>1 DEF ProcessInv, Syncing
  <2>3. /\ journal' = mem[p] /\ journalD' = {mem[p]} /\ request' \in requestD'
        /\ UNCHANGED <<mem, req, rep, old>>
    BY <1>2, <2>2 DEF SaveSync, SyncDirectory
  <2>4. Good(mem[p])'
    <3>1. responseMust \subseteq responseMust' /\ requestD' = {request}
      BY <1>2 DEF SaveSync, SyncDirectory, TypeOK, FilesOK
    <3>2. \A u \in unsettled' : mem[p].pending = u
      BY <1>2, <2>2 DEF SaveSync, Good
    <3>3. \A a \in abandoned' : Beyond(mem[p], a)
      BY <1>2, <2>2 DEF SaveSync, Good
    <3>4. mem[p].sent >= sentMark' /\ mem[p].received >= receivedMark'
      BY <1>0, <1>2, <2>2 DEF SaveSync, Good, Journal, Time
    <3>5. QED
      BY <2>2, <2>3, <3>1, <3>2, <3>3, <3>4
         DEF FilesInv, Good, Valid, ValidReceipt, ReadOnly, Beyond
  <2>5. FilesInv' BY <1>0, <2>3, <2>4 DEF FilesInv, Good, Valid, ValidReceipt, ReadOnly, Beyond
  <2>6. ProcessInv(p)'
    BY <1>0, <2>1, <2>3 DEF ProcessInv, Settled, Begun, Saving, Syncing, AfterSync
  <2>7. QED BY <2>1, <2>5, <2>6, HolderStep
<1>3. CASE SaveError(p) /\ ~OpenError(p)
  <2>1. /\ pc'[p] = "failed" /\ Holds(p)
        /\ \A q \in Procs \ {p} : pc'[q] = pc[q]
    BY <1>0, <1>3 DEF SaveError, Saving, Syncing, Holds
  <2>2. FilesInv' BY <1>3, StillFilesInv DEF SaveError
  <2>3. QED BY <2>1, <2>2, IdleProcessInvNext, HolderStep
<1>4. QED BY <1>1, <1>2, <1>3

\* The request side of an exchange, up to the POST.
LEMMA BeginKept ==
  ASSUME IInv, NEW p \in Procs,
         \/ \E r \in Request : BeginSigned(p, r)
         \/ RequestRename(p) \/ RequestSync(p) \/ Post(p)
  PROVE  Kept
<1> USE DEF IInv
<1>0. /\ pc \in [Procs -> Places] /\ req \in [Procs -> Request \cup {None}]
      /\ mem \in [Procs -> Journal] /\ ProcessInv(p)
  BY DEF TypeOK, LocalsOK
<1>1. ASSUME NEW r \in Request, BeginSigned(p, r) PROVE Kept
  <2>1. /\ pc'[p] = "saveRequest" /\ req'[p] = r /\ Holds(p) /\ Settled(p)
        /\ \A q \in Procs \ {p} : pc'[q] = pc[q]
        /\ mem' = mem /\ journalD' = journalD /\ CanBegin(mem[p], r)
    BY <1>0, <1>1 DEF BeginSigned, Goto, Holds, Settled, files
  <2>2. FilesInv' BY <1>1, StillFilesInv DEF BeginSigned
  <2>3. journalD' = {mem'[p]} BY <1>0, <2>1 DEF ProcessInv
  <2>4. ProcessInv(p)'
    BY <2>1, <2>3 DEF ProcessInv, Settled, Begun, Saving, Syncing, CanBegin
  <2>5. QED BY <2>1, <2>2, <2>4, HolderStep
<1>2. CASE RequestRename(p)
  <2>1. /\ pc[p] = "saveRequest" /\ pc'[p] = "requestSync" /\ Holds(p) /\ Settled(p)
        /\ \A q \in Procs \ {p} : pc'[q] = pc[q]
        /\ request' = req[p] /\ requestD' = requestD \cup {req[p]}
        /\ UNCHANGED <<mem, req, journal, journalD, responseMust, history>>
    BY <1>0, <1>2 DEF RequestRename, Goto, Holds, Settled
  <2>2. journalD = {mem[p]} /\ journal = mem[p] /\ mem[p] # None /\ Good(mem[p])
    BY <1>0, <2>1, SettledGood
  <2>3. CanBegin(mem[p], req[p]) /\ mem[p].pending = None
    BY <1>0, <2>1 DEF ProcessInv, CanBegin
  <2>4. FilesInv'
    BY <2>1, <2>2, <2>3
       DEF FilesInv, Good, Valid, ValidReceipt, ReadOnly, Beyond, history
  <2>5. ProcessInv(p)'
    BY <2>1, <2>2, <2>3 DEF ProcessInv, Settled, Begun, Saving, Syncing, CanBegin
  <2>6. QED BY <2>1, <2>4, <2>5, HolderStep
<1>3. CASE RequestSync(p)
  <2>1. /\ pc[p] = "requestSync" /\ pc'[p] = "begin" /\ Holds(p) /\ Settled(p)
        /\ \A q \in Procs \ {p} : pc'[q] = pc[q]
        /\ mem'[p] = BeginEntry(p) /\ req' = req
    BY <1>0, <1>3 DEF RequestSync, Goto, Holds, Settled
  <2>2. /\ journalD = {mem[p]} /\ journal = mem[p] /\ mem[p] # None /\ Good(mem[p])
        /\ mem[p].pending = None /\ unsettled = {}
        /\ CanBegin(mem[p], req[p]) /\ request = req[p]
    BY <1>0, <2>1, SettledGood DEF ProcessInv, CanBegin
  <2>3. /\ journalD' = {journal} /\ requestD' = {req[p]} /\ responseMust \subseteq responseMust'
        /\ UNCHANGED <<unsettled, abandoned, sentMark, receivedMark>>
    BY <1>3, <2>2 DEF RequestSync, SyncDirectory, history, TypeOK, FilesOK
  <2>4. /\ req[p] \in Request /\ req[p].time \in SigningTime /\ mem[p] \in Journal
        /\ BeginEntry(p).sent = req[p].time /\ BeginEntry(p).pending = req[p]
        /\ BeginEntry(p).received = mem[p].received
        /\ BeginEntry(p).last = mem[p].last
        /\ BeginEntry(p).recovered = mem[p].recovered
        /\ BeginEntry(p).receipts = mem[p].receipts
    BY <1>0, <2>1 DEF BeginEntry, Journal, Request, TypeOK, LocalsOK, HasRequest
  <2>5. Good(mem[p])'
    <3>1. Valid(BeginEntry(p))
      <4>1. mem[p].last # None => mem[p].last.request.time \in Time
        BY <2>4 DEF Journal, Completed, Request, Time, SigningTime
      <4>2. mem[p].recovered # None => mem[p].recovered.time \in Time
        BY <2>4 DEF Journal, Request, Time, SigningTime
      <4>3. \A m \in MutationOps :
              mem[p].receipts[m] # None => mem[p].receipts[m].sent \in Time
        BY <2>4 DEF Journal, Receipt
      <4>4. mem[p].sent \in Time /\ mem[p].sent <= req[p].time
        BY <2>2, <2>4 DEF Journal, CanBegin, Time, SigningTime
      <4>5. QED
        BY <2>2, <2>4, <4>1, <4>2, <4>3, <4>4, NoneAssumption
           DEF Good, Valid, ValidReceipt, CanBegin, Time, SigningTime
    <3>2. \A a \in abandoned : Beyond(BeginEntry(p), a)
      <4>1. \A a \in abandoned : a.time \in Time
        BY DEF TypeOK, HistoryOK, Request, Time, SigningTime
      <4>2. QED
        BY <2>2, <2>4, <4>1 DEF Good, Beyond, CanBegin, Journal, Time, SigningTime
    <3>3. BeginEntry(p).sent >= sentMark /\ BeginEntry(p).received >= receivedMark
      BY <2>2, <2>4 DEF Good, CanBegin, Journal, TypeOK, HistoryOK, Time, SigningTime
    <3>4. QED
      BY <2>1, <2>2, <2>3, <2>4, <3>1, <3>2, <3>3
         DEF Good, Valid, ValidReceipt, ReadOnly, Beyond
  <2>6. FilesInv' BY <1>3, SyncFilesInv DEF RequestSync
  <2>7. ProcessInv(p)'
    BY <2>1, <2>2, <2>3, <2>4, <2>5 DEF ProcessInv, Settled, Begun, Saving, Syncing
  <2>8. QED BY <2>1, <2>6, <2>7, HolderStep
<1>4. CASE Post(p)
  <2>1. /\ pc[p] = "ready" /\ pc'[p] = "waiting" /\ Holds(p) /\ Settled(p)
        /\ \A q \in Procs \ {p} : pc'[q] = pc[q]
        /\ unsettled' = unsettled \cup {req[p]}
        /\ UNCHANGED <<files, mem, req, abandoned, receivedMark>>
    BY <1>0, <1>4 DEF Post, Goto, Holds, Settled
  <2>2. /\ journalD = {mem[p]} /\ journal = mem[p] /\ mem[p] # None /\ Good(mem[p])
        /\ mem[p].pending = req[p] /\ mem[p] \in Journal
    BY <1>0, <2>1, SettledGood DEF ProcessInv, Begun
  <2>3. mem[p].sent >= sentMark'
    <3>1. req[p] \in Request BY <2>1 DEF TypeOK, LocalsOK, HasRequest
    <3>2. mem[p].sent = req[p].time
      BY <2>2, <3>1, NoneAssumption DEF Good, Valid
    <3>3. QED BY <1>4, <2>2, <3>2 DEF Post, Good, Journal, TypeOK, HistoryOK, Time
  <2>4. FilesInv'
    BY <2>1, <2>2, <2>3
       DEF FilesInv, files, Good, Valid, ValidReceipt, ReadOnly, Beyond
  <2>5. ProcessInv(p)'
    BY <2>1, <2>2 DEF files, ProcessInv, Settled, Begun, Saving, Syncing
  <2>6. QED BY <2>1, <2>4, <2>5, HolderStep
<1>5. QED BY <1>1, <1>2, <1>3, <1>4

\* The response side of an exchange, and its failures.
LEMMA CompleteKept ==
  ASSUME IInv, NEW p \in Procs,
         \/ \E w \in Response : Verify(p, w)
         \/ ResponseRename(p) \/ ResponseSync(p)
         \/ PruneResponse(p) \/ PruneSync(p) \/ ExchangeError(p)
  PROVE  Kept
<1> USE DEF IInv
<1>0. /\ pc \in [Procs -> Places] /\ rep \in [Procs -> Response \cup {None}]
      /\ mem \in [Procs -> Journal] /\ old \in [Procs -> Response \cup {None}]
      /\ ProcessInv(p)
  BY DEF TypeOK, LocalsOK
<1>1. ASSUME NEW w \in Response, Verify(p, w) PROVE Kept
  <2>1. /\ pc[p] = "waiting" /\ pc'[p] = "saveResponse" /\ Holds(p) /\ Settled(p)
        /\ \A q \in Procs \ {p} : pc'[q] = pc[q]
        /\ rep'[p] = w /\ w.time >= mem[p].received
        /\ unsettled' = unsettled \ {req[p]}
        /\ UNCHANGED <<files, mem, req, abandoned, sentMark, receivedMark>>
    BY <1>0, <1>1 DEF Verify, Goto, Holds, Settled, CanComplete
  <2>2. FilesInv' BY <2>1, ClosingFilesInv
  <2>3. journalD = {mem[p]} /\ mem[p].pending = req[p] /\ Good(mem[p])
    BY <1>0, <2>1, SettledGood DEF ProcessInv, Begun
  <2>4. unsettled' = {} BY <2>1, <2>3 DEF Good
  <2>5. ProcessInv(p)'
    BY <2>1, <2>3, <2>4 DEF files, ProcessInv, Settled, Begun, Saving, Syncing
  <2>6. QED BY <2>1, <2>2, <2>5, HolderStep
<1>2. CASE ResponseRename(p)
  <2>1. /\ pc[p] = "saveResponse" /\ pc'[p] = "responseSync" /\ Holds(p) /\ Settled(p)
        /\ \A q \in Procs \ {p} : pc'[q] = pc[q]
        /\ response' = response \cup {rep[p]}
        /\ UNCHANGED <<mem, req, rep, journal, journalD, request, requestD,
                       responseMust, history>>
    BY <1>0, <1>2 DEF ResponseRename, Goto, Holds, Settled
  <2>2. FilesInv'
    BY <2>1
       DEF FilesInv, Good, Valid, ValidReceipt, ReadOnly, Beyond, Untouched, history
  <2>3. ProcessInv(p)'
    BY <1>0, <2>1 DEF ProcessInv, Settled, Begun, Saving, Syncing, history
  <2>4. QED BY <2>1, <2>2, <2>3, HolderStep
<1>3. CASE ResponseSync(p)
  <2>1. /\ pc[p] = "responseSync" /\ pc'[p] = "complete" /\ Holds(p) /\ Settled(p)
        /\ \A q \in Procs \ {p} : pc'[q] = pc[q]
        /\ mem'[p] = CompletedEntry(p) /\ UNCHANGED <<req, rep>>
    BY <1>0, <1>3 DEF ResponseSync, Goto, Holds, Settled
  <2>2. /\ journalD = {mem[p]} /\ journal = mem[p] /\ mem[p] # None /\ Good(mem[p])
        /\ mem[p].pending = req[p] /\ unsettled = {} /\ rep[p] \in response
        /\ rep[p].time >= mem[p].received
    BY <1>0, <2>1, SettledGood DEF ProcessInv, Begun
  <2>3. /\ journalD' = {journal} /\ rep[p] \in responseMust'
        /\ UNCHANGED <<unsettled, abandoned, sentMark, receivedMark>>
    BY <1>3, <2>2 DEF ResponseSync, SyncDirectory, history
  <2>4. /\ req[p] \in Request /\ rep[p] \in Response /\ mem[p] \in Journal
        /\ req[p].time \in SigningTime /\ rep[p].time \in SigningTime
        /\ req[p] # None /\ CompletedEntry(p).sent = mem[p].sent
        /\ CompletedEntry(p).pending = None
        /\ CompletedEntry(p).received = rep[p].time
        /\ CompletedEntry(p).last # None
        /\ CompletedEntry(p).last.request = req[p]
        /\ CompletedEntry(p).last.response = rep[p]
        /\ CompletedEntry(p).recovered = mem[p].recovered
        /\ CompletedEntry(p).receipts = mem[p].receipts
    <3>1. req[p] \in Request /\ rep[p] \in Response /\ mem[p] \in Journal
      BY <1>0, <2>1 DEF TypeOK, LocalsOK, HasRequest, HasResponse
    <3>2. [request |-> req[p], response |-> rep[p]] # None
      BY <3>1, NoneAssumption DEF Completed
    <3>3. QED
      BY <3>1, <3>2, NoneAssumption DEF CompletedEntry, Journal, Request, Response
  <2>5. Good(mem[p])'
    <3>1. mem[p].sent = req[p].time
      BY <2>2, <2>4 DEF Good, Valid
    <3>2. Valid(CompletedEntry(p))
      <4>1. \A m \in MutationOps :
              mem[p].receipts[m] # None => mem[p].receipts[m].received \in Time
        BY <2>4 DEF Journal, Receipt
      <4>2. mem[p].received \in Time BY <2>4 DEF Journal
      <4>3. QED
        BY <2>2, <2>4, <3>1, <4>1, <4>2
           DEF Good, Valid, ValidReceipt, Time, SigningTime
    <3>3. \A a \in abandoned : Beyond(CompletedEntry(p), a)
      BY <2>2, <2>4 DEF Good, Beyond
    <3>4. CompletedEntry(p).sent >= sentMark /\ CompletedEntry(p).received >= receivedMark
      BY <2>2, <2>4 DEF Good, Journal, TypeOK, HistoryOK, Time, SigningTime
    <3>5. QED
      BY <2>1, <2>2, <2>3, <2>4, <3>2, <3>3, <3>4
         DEF Good, Valid, ValidReceipt, ReadOnly, Beyond
  <2>6. FilesInv' BY <1>3, SyncFilesInv DEF ResponseSync
  <2>7. ProcessInv(p)'
    BY <2>1, <2>3, <2>4, <2>5 DEF ProcessInv, Settled, Begun, Saving, Syncing
  <2>8. QED BY <2>1, <2>6, <2>7, HolderStep
<1>4. CASE PruneResponse(p)
  <2>1. /\ pc[p] = "prune" /\ pc'[p] = "pruneSync" /\ Holds(p) /\ Settled(p)
        /\ \A q \in Procs \ {p} : pc'[q] = pc[q]
        /\ responseMust' = responseMust \ {old[p]}
        /\ UNCHANGED <<mem, req, rep, old, journal, journalD, request, requestD, history>>
    BY <1>0, <1>4 DEF PruneResponse, Goto, Holds, Settled
  <2>2. /\ journalD = {mem[p]} /\ mem[p] # None /\ Good(mem[p])
        /\ mem[p].last # None /\ mem[p].last.response = rep[p] /\ old[p] # rep[p]
    BY <1>0, <2>1, SettledGood DEF ProcessInv
  <2>3. FilesInv'
    BY <2>1, <2>2
       DEF FilesInv, Good, Valid, ValidReceipt, ReadOnly, Beyond, history
  <2>4. ProcessInv(p)'
    BY <2>1, <2>2 DEF ProcessInv, Settled, Begun, Saving, Syncing
  <2>5. QED BY <2>1, <2>3, <2>4, HolderStep
<1>5. CASE PruneSync(p)
  <2>1. /\ pc[p] = "pruneSync" /\ pc'[p] = "done" /\ Holds(p) /\ Settled(p)
        /\ \A q \in Procs \ {p} : pc'[q] = pc[q]
        /\ UNCHANGED <<mem, history>> /\ (SyncDirectory \/ UNCHANGED files)
    BY <1>0, <1>5 DEF PruneSync, Goto, Holds, Settled
  <2>2. FilesInv' BY <2>1, SyncFilesInv, StillFilesInv
  <2>3. journalD' = {mem'[p]}
    BY <1>0, <2>1, SettledGood DEF SyncDirectory, files
  <2>4. ProcessInv(p)' BY <2>1, <2>3 DEF ProcessInv, Settled, Begun, Saving, Syncing
  <2>5. QED BY <2>1, <2>2, <2>4, HolderStep
<1>6. CASE ExchangeError(p)
  <2>1. pc'[p] = "failed" /\ Holds(p) /\ \A q \in Procs \ {p} : pc'[q] = pc[q]
    BY <1>0, <1>6 DEF ExchangeError, Holds
  <2>2. FilesInv' BY <1>6, StillFilesInv DEF ExchangeError
  <2>3. QED BY <2>1, <2>2, IdleProcessInvNext, HolderStep
<1>7. QED BY <1>1, <1>2, <1>3, <1>4, <1>5, <1>6

\* The operator's decisions about a pending request.
LEMMA DecideKept ==
  ASSUME IInv, NEW p \in Procs, NEW r \in Request,
         RecoverRead(p, r) \/ \E s, t \in SigningTime : Reconcile(p, r, s, t)
  PROVE  Kept
<1> USE DEF IInv
<1>0. /\ pc \in [Procs -> Places] /\ mem \in [Procs -> Journal]
      /\ req \in [Procs -> Request \cup {None}] /\ ProcessInv(p)
      /\ mem[p].pending = r /\ r # None /\ r.time \in SigningTime
  BY NoneAssumption DEF TypeOK, LocalsOK, RecoverRead, Reconcile, Request
<1>1. /\ pc[p] = "open" /\ pc'[p] = "decide" /\ Holds(p) /\ Settled(p)
      /\ \A q \in Procs \ {p} : pc'[q] = pc[q]
      /\ req'[p] = r /\ UNCHANGED <<files, abandoned, sentMark, receivedMark>>
      /\ unsettled' \subseteq unsettled
  BY <1>0 DEF RecoverRead, Reconcile, Goto, Holds, Settled
<1>2. FilesInv' BY <1>1, ClosingFilesInv
<1>3. /\ journalD = {mem[p]} /\ mem[p] # None /\ Good(mem[p])
      /\ mem[p] \in Journal /\ mem[p].sent = r.time
  BY <1>0, <1>1, SettledGood DEF Good, Valid
<1>4. unsettled' = {}
  <2>1. \A u \in unsettled : u = r BY <1>0, <1>3 DEF Good
  <2>2. QED BY <2>1, OpsAssumption DEF RecoverRead, Reconcile, ReadOnly
<1>5. \A a \in abandoned : a.time \in Time
  BY DEF TypeOK, HistoryOK, Request, Time, SigningTime
<1> DEFINE Decided(j) ==
      /\ mem'[p] = j /\ j \in Journal /\ Valid(j)
      /\ j.pending = None /\ j.last = mem[p].last
      /\ j.sent >= mem[p].sent /\ j.received >= mem[p].received
      /\ Beyond(j, r) /\ \A a \in abandoned : Beyond(j, a)
<1>6. \E j : Decided(j)
  <2>1. CASE RecoverRead(p, r)
    <3> DEFINE j == RecoveredEntry(p, r)
    <3>1. /\ mem'[p] = j /\ j \in Journal /\ j.pending = None /\ j.last = mem[p].last
          /\ j.recovered = r /\ j.sent = mem[p].sent /\ j.received = mem[p].received
          /\ j.receipts = mem[p].receipts
      BY <1>0, <1>3, <2>1 DEF RecoverRead, RecoveredEntry, Journal
    <3> HIDE DEF j
    <3>2. Valid(j)
      BY <1>0, <1>3, <2>1, <3>1
         DEF RecoverRead, Good, Valid, ValidReceipt, Time, SigningTime, Journal
    <3>3. mem[p].recovered # None => mem[p].recovered.time \in Time /\ r.time > mem[p].recovered.time
      BY <1>0, <1>3 DEF Good, Valid, Journal, Request, Time, SigningTime
    <3>4. Beyond(j, r) /\ \A a \in abandoned : Beyond(j, a)
      BY <1>0, <1>3, <1>5, <3>1, <3>3 DEF Good, Beyond, Time, SigningTime
    <3>5. QED BY <1>3, <3>1, <3>2, <3>4 DEF Journal, Time
  <2>2. ASSUME NEW s \in SigningTime, NEW t \in SigningTime, Reconcile(p, r, s, t)
        PROVE  \E j : Decided(j)
    <3> DEFINE receipt == [original |-> r, sent |-> s, received |-> t]
               j == ReconciledEntry(p, r, s, t)
    <3>1. /\ s > mem[p].sent /\ t >= mem[p].received /\ r.op \in MutationOps
          /\ s \in Time /\ t \in Time
      BY <2>2 DEF Reconcile, Newer, ReadOnly, Request, Ops, Time, SigningTime
    <3>2. receipt \in Receipt /\ receipt # None
      BY <3>1, NoneAssumption DEF Receipt
    <3>3. /\ mem'[p] = j /\ j \in Journal /\ j.pending = None /\ j.last = mem[p].last
          /\ j.recovered = mem[p].recovered /\ j.sent = s /\ j.received = t
          /\ j.receipts = [mem[p].receipts EXCEPT ![r.op] = receipt]
      BY <1>0, <1>3, <2>2, <3>1, <3>2 DEF Reconcile, ReconciledEntry, Journal
    <3> HIDE DEF j
    <3>4. \A m \in MutationOps : ValidReceipt(j, m)
      <4>1. \A m \in MutationOps : ValidReceipt(mem[p], m)
        BY <1>3 DEF Good, Valid
      <4>2. \A m \in MutationOps \ {r.op} : j.receipts[m] = mem[p].receipts[m]
        BY <1>3, <3>3 DEF Journal
      <4>3. j.receipts[r.op] = receipt BY <1>3, <3>1, <3>3 DEF Journal
      <4>4. ValidReceipt(j, r.op)
        BY <1>0, <1>3, <3>1, <3>3, <4>3 DEF ValidReceipt, Time, SigningTime, Journal
      <4>5. ASSUME NEW m \in MutationOps \ {r.op} PROVE ValidReceipt(j, m)
        <5>1. mem[p].receipts[m] # None =>
                mem[p].receipts[m].sent \in Time /\ mem[p].receipts[m].received \in Time
          BY <1>3 DEF Journal, Receipt
        <5>2. QED
          BY <1>3, <3>1, <3>3, <4>1, <4>2, <5>1 DEF ValidReceipt, Journal, Time
      <4>6. QED BY <4>4, <4>5
    <3>5. Valid(j)
      <4>1. mem[p].last # None =>
              /\ mem[p].last.request.time \in Time /\ mem[p].last.response.time \in Time
        BY <1>3 DEF Journal, Completed, Request, Response, Time, SigningTime
      <4>2. mem[p].recovered # None => mem[p].recovered.time \in Time
        BY <1>3 DEF Journal, Request, Time, SigningTime
      <4>3. QED
        BY <1>3, <3>1, <3>3, <3>4, <4>1, <4>2
           DEF Good, Valid, ReadOnly, Journal, Time, SigningTime
    <3>6. Beyond(j, r) /\ \A a \in abandoned : Beyond(j, a)
      BY <1>3, <1>5, <3>1, <3>3 DEF Good, Beyond, Journal, Time
    <3>7. QED BY <1>3, <3>1, <3>3, <3>5, <3>6 DEF Journal, Time
  <2>3. QED BY <2>1, <2>2
<1>7. PICK j : Decided(j)
  BY <1>6
<1>8. Good(mem[p])'
  <2>1. j.sent >= sentMark /\ j.received >= receivedMark
    BY <1>3, <1>7 DEF Good, Journal, TypeOK, HistoryOK, Time
  <2>2. QED
    BY <1>1, <1>3, <1>4, <1>7, <2>1
       DEF files, Good, Valid, ValidReceipt, ReadOnly, Beyond
<1>9. ProcessInv(p)'
  BY <1>1, <1>7, <1>8 DEF ProcessInv, Settled, Begun, Saving, Syncing, Beyond
<1>10. QED BY <1>1, <1>2, <1>9, HolderStep

\* Closing, crashing and clearing a crash lock.
LEMMA LeaveKept ==
  ASSUME IInv, NEW p \in Procs, Close(p) \/ CloseSync(p) \/ Kill(p)
  PROVE  Kept
<1> USE DEF IInv
<1>1. /\ pc'[p] \in {"idle", "closeSync"} /\ UNCHANGED history
      /\ \A q \in Procs \ {p} :
           /\ pc'[q] = pc[q] /\ mem'[q] = mem[q] /\ req'[q] = req[q]
           /\ rep'[q] = rep[q] /\ old'[q] = old[q]
  BY DEF Close, CloseSync, Kill, Leave
<1>2. CASE Close(p)
  BY <1>1, <1>2, RemoveLockFilesInv, IdleProcessInvNext, HolderStep DEF Close, Holds
<1>3. CASE SyncDirectory
  <2>1. FilesInv' BY <1>1, <1>3, SyncFilesInv
  <2>2. ASSUME NEW q \in Procs \ {p} PROVE ProcessInv(q)'
    <3>1. /\ mem'[q] = mem[q] /\ requestD' = {request} /\ request \in requestD
          /\ responseMust \subseteq responseMust' /\ UNCHANGED history
      BY <1>1, <1>3 DEF SyncDirectory, FilesInv, TypeOK, FilesOK
    <3>2. Good(mem[q]) => Good(mem[q])'
      BY <3>1 DEF history, Good, Valid, ValidReceipt, ReadOnly, Beyond
    <3>3. /\ journal' = journal /\ request' = request /\ response' = response
          /\ journalD' = {journal} /\ journal \in journalD
      BY <1>3 DEF SyncDirectory, FilesInv
    <3>4. QED
      BY <1>1, <3>2, <3>3 DEF history, ProcessInv, Settled, Begun, Saving, Syncing,
         CanBegin, Beyond
  <2>3. QED BY <1>1, <2>1, <2>2, IdleProcessInvNext DEF Kept
<1>4. CASE UNCHANGED files
  <2>1. FilesInv' BY <1>1, <1>4, StillFilesInv
  <2>2. ASSUME NEW q \in Procs \ {p} PROVE ProcessInv(q)'
    <3>1. Good(mem[q]) => Good(mem[q])'
      BY <1>1, <1>4 DEF files, history, Good, Valid, ValidReceipt, ReadOnly, Beyond
    <3>2. QED
      BY <1>1, <1>4, <3>1 DEF files, history, ProcessInv, Settled, Begun, Saving, Syncing,
         CanBegin, Beyond
  <2>3. QED BY <1>1, <2>1, <2>2, IdleProcessInvNext DEF Kept
<1>5. QED BY <1>2, <1>3, <1>4 DEF CloseSync, Kill

LEMMA PowerLossKept == IInv /\ PowerLoss => Kept
<1> SUFFICES ASSUME IInv, PowerLoss PROVE Kept
  OBVIOUS
<1>1. \A q \in Procs : pc'[q] = "idle" BY DEF PowerLoss, Leave
<1>2. ASSUME NEW j, Good(j) PROVE Good(j)'
  <2>1. requestD' \subseteq requestD /\ requestD' # {} /\ responseMust \subseteq responseMust'
    BY DEF PowerLoss
  <2>2. QED BY <1>2, <2>1, GoodKept DEF PowerLoss, history
<1>3. FilesInv' BY <1>2 DEF IInv, FilesInv, PowerLoss, history, Untouched
<1>4. QED BY <1>1, <1>3, IdleProcessInvNext DEF Kept

(***************************************************************************)
(* The safety theorems                                                     *)
(***************************************************************************)
LEMMA InitInv == Init => IInv
<1> SUFFICES ASSUME Init PROVE IInv
  OBVIOUS
<1>1. LockInv BY DEF Init, LockInv, MutualExclusion, Holds
<1>2. FilesInv BY DEF Init, FilesInv, Untouched
<1>3. \A p \in Procs : ProcessInv(p) BY IdleProcessInv DEF Init
<1>4. QED BY <1>1, <1>2, <1>3, InitType DEF IInv

LEMMA NextInv == IInv /\ [Next]_vars => FilesInv' /\ \A p \in Procs : ProcessInv(p)'
<1> SUFFICES ASSUME IInv, [Next]_vars PROVE Kept
  BY DEF Kept
<1>1. ASSUME NEW p \in Procs, LocalStep(p) PROVE Kept
  <2>1. CASE OpenSync(p) \/ OpenRefused(p) \/ SaveError(p)
    <3>1. Holds(p) BY <2>1 DEF OpenSync, OpenRefused, SaveError, Goto, Holds, Saving, Syncing
    <3>2. QED BY <2>1, <3>1, OpenKept, SaveKept DEF OpenRefused
  <2>2. CASE \/ \E r \in Request : RecoverRead(p, r)
             \/ \E r \in Request, s, t \in SigningTime : Reconcile(p, r, s, t)
    BY <2>2, DecideKept
  <2>3. CASE Lock(p) \/ OpenExisting(p) \/ OpenMissing(p)
    <3>1. \/ Lock(p) \/ (OpenError(p) /\ Holds(p))
          \/ (OpenSync(p) /\ ~OpenError(p))
          \/ OpenExisting(p) \/ OpenMissing(p)
      BY <2>3
    <3>2. QED BY <3>1, OpenKept
  <2>4. CASE SaveRename(p) \/ SaveSync(p)
    <3>1. SaveRename(p) \/ SaveSync(p) \/ (SaveError(p) /\ ~OpenError(p))
      BY <2>4
    <3>2. QED BY <3>1, SaveKept
  <2>5. QED
    BY <1>1, <2>1, <2>2, <2>3, <2>4, BeginKept, CompleteKept, LeaveKept DEF LocalStep
<1>2. ASSUME NEW p \in Procs, NEW w \in Response, Verify(p, w) PROVE Kept
  BY <1>2, CompleteKept
<1>3. ASSUME NEW p \in Procs, Kill(p) PROVE Kept
  BY <1>3, LeaveKept
<1>4. CASE PowerLoss BY <1>4, PowerLossKept
<1>5. CASE RemoveStaleLock
  <2>1. FilesInv' BY <1>5, RemoveLockFilesInv DEF RemoveStaleLock, IInv
  <2>2. \A q \in Procs : pc'[q] = "idle" BY <1>5 DEF RemoveStaleLock, locals
  <2>3. QED BY <2>1, <2>2, IdleProcessInvNext DEF Kept
<1>6. CASE UNCHANGED vars
  <2>1. FilesInv' BY <1>6, StillFilesInv DEF IInv, vars
  <2>2. \A q \in Procs : ProcessInv(q)'
    BY <1>6 DEF vars, files, locals, history, IInv, ProcessInv, Settled, Begun, CanBegin,
       Good, Valid, ValidReceipt, ReadOnly, Beyond
  <2>3. QED BY <2>1, <2>2 DEF Kept
<1>7. QED BY <1>1, <1>2, <1>3, <1>4, <1>5, <1>6 DEF Next

\* The inductive invariant holds in every reachable state.
THEOREM Inductive == Spec => []IInv
<1>1. IInv /\ TypeOK' /\ [Next]_vars => IInv'
  BY LockStep, NextInv DEF IInv
<1>2. QED BY InitInv, <1>1, TypeCorrect, PTL DEF Spec

\* A dispatched request that nobody answered or decided survives every power
\* loss as the pending entry, so it blocks a second request.
THEOREM UnsettledSurvives == Spec => []UnsettledIsPending
<1>1. IInv => UnsettledIsPending
  BY DEF IInv, FilesInv, UnsettledIsPending, Untouched, Good
<1>2. QED BY Inductive, <1>1, PTL

\* The signed bytes of a pending request survive with it.
THEOREM PendingEvidenceSurvives == Spec => []PendingHasEvidence
<1>1. IInv => PendingHasEvidence BY DEF IInv, FilesInv, PendingHasEvidence, Good
<1>2. QED BY Inductive, <1>1, PTL

\* The response a journal names survives with it.
THEOREM CompletedEvidenceSurvives == Spec => []CompletedHasEvidence
<1>1. IInv => CompletedHasEvidence BY DEF IInv, FilesInv, CompletedHasEvidence, Good
<1>2. QED BY Inductive, <1>1, PTL

\* Open accepts whatever an interrupted sequence of legal calls left behind.
THEOREM JournalReopens == Spec => []ReopensAfterCrash
<1>1. IInv => ReopensAfterCrash BY DEF IInv, FilesInv, ReopensAfterCrash, Good
<1>2. QED BY Inductive, <1>1, PTL

\* A reported decision is never undone and its digest never pending again.
THEOREM DecisionsAreFinal == Spec => []NoRevival
<1>1. IInv => NoRevival
  <2> SUFFICES ASSUME IInv, NEW j \in journalD, j # None, j.pending \in abandoned
               PROVE  FALSE
    BY DEF NoRevival
  <2>1. j \in Journal /\ Good(j) BY DEF IInv, FilesInv, TypeOK, FilesOK
  <2>2. j.pending \in Request /\ j.pending # None
    BY NoneAssumption DEF IInv, TypeOK, HistoryOK
  <2>3. j.pending.time = j.sent BY <2>1, <2>2 DEF Good, Valid
  <2>4. j.recovered # None => j.recovered.time \in Time /\ j.pending.time > j.recovered.time
    BY <2>1, <2>2 DEF Good, Valid, Journal, Request, Time, SigningTime
  <2>5. Beyond(j, j.pending) BY <2>1 DEF Good
  <2>6. QED BY <2>1, <2>3, <2>4, <2>5 DEF Beyond, Journal, Time
<1>2. QED BY Inductive, <1>1, PTL

\* No power loss takes a watermark back behind what was dispatched or reported.
THEOREM WatermarksNeverRegress == Spec => []WatermarksSurvive
<1>1. IInv => WatermarksSurvive
  BY DEF IInv, FilesInv, WatermarksSurvive, Untouched, Good
<1>2. QED BY Inductive, <1>1, PTL

\* A lease holder acts only on a state no power loss can take back.
THEOREM HolderStateIsDurable == Spec => []DecidesOnDurableState
<1>1. IInv => DecidesOnDurableState BY DEF IInv, ProcessInv, DecidesOnDurableState
<1>2. QED BY Inductive, <1>1, PTL

\* The lease excludes, and whoever holds it acts on a durable state.
THEOREM LeaseProtects == Spec => []LeaseIsSound
BY LeaseIsExclusive, HolderStateIsDurable, PTL DEF LeaseIsSound

\* Whatever a power loss leaves opens again, with its outstanding request, its
\* evidence and its watermarks, and without a request that was decided.
THEOREM JournalSurvives == Spec => []SurvivesCrash
BY UnsettledSurvives, PendingEvidenceSurvives, CompletedEvidenceSurvives, JournalReopens,
   DecisionsAreFinal, WatermarksNeverRegress, PTL DEF SurvivesCrash

(***************************************************************************)
(* The journal implements the promise of PendingSlot                       *)
(***************************************************************************)

\* The abstract slot holds the outstanding request, if there is one.
LEMMA OutstandingIs ==
  /\ unsettled = {} => Outstanding = None
  /\ \A r : unsettled = {r} => Outstanding = r
  /\ unsettled' = {} => Outstanding' = None
  /\ \A r : unsettled' = {r} => Outstanding' = r
<1>1. \A r : (CHOOSE u \in {r} : TRUE) = r
  OBVIOUS
<1> QED  BY <1>1 DEF Outstanding

\* A lease holder that settled knows what is outstanding: its pending entry, if
\* anything.
LEMMA OutstandingIsPending ==
  ASSUME IInv, NEW p \in Procs, Settled(p)
  PROVE  /\ mem[p].pending = None => unsettled = {}
         /\ unsettled = {} \/ (unsettled = {mem[p].pending} /\ mem[p].pending \in Request)
         /\ mem[p].sent >= sentMark
         /\ Valid(mem[p]) /\ mem[p] \in Journal
<1>1. Good(mem[p]) /\ mem[p] \in Journal
  BY SettledGood DEF IInv
<1>2. \A u \in unsettled : mem[p].pending = u /\ u \in Request /\ u # None
  BY <1>1, NoneAssumption DEF Good, IInv, TypeOK, HistoryOK
<1> QED  BY <1>1, <1>2 DEF Good

\* Only four steps change what is outstanding or the mark.
LEMMA SlotFrame ==
  ASSUME Next,
         ~(\E p \in Procs : \/ Post(p) \/ \E w \in Response : Verify(p, w)
                            \/ \E r \in Request : RecoverRead(p, r)
                            \/ \E r \in Request, s, t \in SigningTime : Reconcile(p, r, s, t))
  PROVE  UNCHANGED <<unsettled, sentMark>>
<1>1. ASSUME NEW p \in Procs, LocalStep(p) PROVE UNCHANGED <<unsettled, sentMark>>
  <2>1. CASE Lock(p) \/ OpenExisting(p) \/ OpenMissing(p) \/ SaveRename(p) \/ SaveSync(p)
    BY <2>1 DEF Lock, OpenExisting, OpenMissing, SaveRename, SaveSync, history
  <2>2. CASE OpenSync(p) \/ OpenRefused(p) \/ SaveError(p)
    BY <2>2 DEF OpenSync, OpenRefused, SaveError, OpenError, history
  <2>3. CASE (\E r \in Request : BeginSigned(p, r)) \/ RequestRename(p) \/ RequestSync(p)
    BY <2>3 DEF BeginSigned, RequestRename, RequestSync, history
  <2>4. CASE ResponseRename(p) \/ ResponseSync(p) \/ PruneResponse(p) \/ PruneSync(p)
    BY <2>4 DEF ResponseRename, ResponseSync, PruneResponse, PruneSync, history
  <2>5. CASE ExchangeError(p) \/ Close(p) \/ CloseSync(p)
    BY <2>5 DEF ExchangeError, Close, CloseSync, history
  <2>6. QED BY <1>1, <2>1, <2>2, <2>3, <2>4, <2>5 DEF LocalStep
<1>2. QED BY <1>1 DEF Next, Kill, PowerLoss, RemoveStaleLock, history

\* What the step of a journal is to the slot.
SlotStep == MarkInv' /\ [Slot!Next]_<<Outstanding, sentMark>>

\* Post hands a request out into an empty slot, no earlier than the last one.
LEMMA PostTakesSlot ==
  ASSUME IInv, MarkInv, NEW p \in Procs, Post(p) PROVE SlotStep
<1> DEFINE r == req[p]
<1>1. /\ Settled(p) /\ r \in Request /\ r = mem[p].pending /\ r # None
      /\ sentMark \in Time /\ unsettled \subseteq Request
  BY NoneAssumption DEF Post, Goto, Settled, IInv, TypeOK, LocalsOK, HistoryOK, HasRequest,
     ProcessInv, Begun
<1>2. /\ unsettled' = unsettled \cup {r}
      /\ sentMark' = IF r.time > sentMark THEN r.time ELSE sentMark
  BY DEF Post
<1>3. r.time = mem[p].sent /\ r.time >= sentMark /\ r.time \in Nat
  BY <1>1, OutstandingIsPending DEF Valid, Request, SigningTime
<1>4. unsettled = {} \/ unsettled = {r}
  BY <1>1, OutstandingIsPending
<1>5. sentMark' = r.time /\ unsettled' = {r}
  BY <1>1, <1>2, <1>3, <1>4 DEF Time
<1>6. MarkInv'
  BY <1>3, <1>5 DEF MarkInv
<1>7. CASE unsettled = {}
  <2>1. Slot!Dispatch(r)
    BY <1>3, <1>5, <1>7, OutstandingIs DEF Slot!Dispatch
  <2>2. r \in Slot!Request
    BY <1>1 DEF Slot!Request, Request, Ops, SigningTime
  <2> QED  BY <1>6, <2>1, <2>2 DEF SlotStep, Slot!Next
<1>8. CASE unsettled = {r}
  BY <1>1, <1>3, <1>5, <1>6, <1>8, OutstandingIs DEF SlotStep, MarkInv, Time
<1> QED  BY <1>4, <1>7, <1>8

\* Taking the pending entry away empties the slot, or finds it empty.
LEMMA SlotEmptied ==
  ASSUME IInv, MarkInv, NEW p \in Procs, Settled(p), NEW r, mem[p].pending = r,
         unsettled' = unsettled \ {r}, sentMark' = sentMark
  PROVE  /\ MarkInv' /\ Outstanding' = None
         /\ Outstanding = None \/ (Outstanding = r /\ r \in Request /\ r # None)
<1>1. unsettled = {} \/ (unsettled = {r} /\ r \in Request)
  BY OutstandingIsPending
<1>2. unsettled' = {} /\ MarkInv'
  BY <1>1 DEF MarkInv
<1> QED  BY <1>1, <1>2, OutstandingIs, NoneAssumption

LEMMA VerifyEmptiesSlot ==
  ASSUME IInv, MarkInv, NEW p \in Procs, NEW w \in Response, Verify(p, w) PROVE SlotStep
<1>1. Settled(p) /\ mem[p].pending = req[p]
  BY DEF Verify, Goto, Settled, CanComplete
<1>2. unsettled' = unsettled \ {req[p]} /\ sentMark' = sentMark
  BY DEF Verify
<1> QED  BY <1>1, <1>2, SlotEmptied DEF SlotStep, Slot!Next, Slot!Answer

LEMMA RecoverReadEmptiesSlot ==
  ASSUME IInv, MarkInv, NEW p \in Procs, NEW r \in Request, RecoverRead(p, r)
  PROVE  SlotStep
<1>1. Settled(p) /\ mem[p].pending = r /\ r.op \in ReadOps
  BY DEF RecoverRead, Goto, Settled, ReadOnly
<1>2. sentMark' = sentMark /\ unsettled' = {u \in unsettled : u # r \/ u.op \in MutationOps}
  BY DEF RecoverRead
<1>3. unsettled' = unsettled \ {r}
  BY <1>1, <1>2, OpsAssumption
<1> QED  BY <1>1, <1>2, <1>3, SlotEmptied DEF SlotStep, Slot!Next, Slot!AbandonRead

LEMMA ReconcileEmptiesSlot ==
  ASSUME IInv, MarkInv, NEW p \in Procs, NEW r \in Request, NEW s \in SigningTime,
         NEW t \in SigningTime, Reconcile(p, r, s, t)
  PROVE  SlotStep
<1>1. Settled(p) /\ mem[p].pending = r /\ r.op \in MutationOps
  BY DEF Reconcile, Goto, Settled, ReadOnly, Request, Ops
<1>2. unsettled' = unsettled \ {r} /\ sentMark' = sentMark
  BY DEF Reconcile
<1>3. sentMark \in sentMark .. MaxTime
  BY TimeAssumption DEF IInv, TypeOK, HistoryOK, Time
<1> QED  BY <1>1, <1>2, <1>3, SlotEmptied DEF SlotStep, Slot!Next, Slot!Reconcile

\* Every step of the journal, crashes and manual repairs included, is a step of
\* the slot or leaves it alone.
LEMMA StepImplementsSlot == IInv /\ MarkInv /\ [Next]_vars => SlotStep
<1> SUFFICES ASSUME IInv, MarkInv, [Next]_vars PROVE SlotStep
  OBVIOUS
<1>1. CASE \E p \in Procs : \/ Post(p) \/ \E w \in Response : Verify(p, w)
                            \/ \E r \in Request : RecoverRead(p, r)
                            \/ \E r \in Request, s, t \in SigningTime : Reconcile(p, r, s, t)
  BY <1>1, PostTakesSlot, VerifyEmptiesSlot, RecoverReadEmptiesSlot, ReconcileEmptiesSlot
<1>2. CASE UNCHANGED <<unsettled, sentMark>>
  BY <1>2 DEF SlotStep, MarkInv, Outstanding
<1>3. UNCHANGED vars => UNCHANGED <<unsettled, sentMark>>
  BY DEF vars, history
<1> QED  BY <1>1, <1>2, <1>3, SlotFrame

\* The journal keeps the promise of PendingSlot through every crash, restart and
\* failed save: one outstanding request, no signing time behind an earlier one.
THEOREM JournalImplementsSlot == Spec => ImplementsSlot
<1>1. Init => MarkInv /\ Slot!Init
  BY OutstandingIs DEF Init, MarkInv, Slot!Init
<1>2. IInv /\ MarkInv /\ [Next]_vars => MarkInv' /\ [Slot!Next]_<<Outstanding, sentMark>>
  BY StepImplementsSlot DEF SlotStep
<1> QED  BY <1>1, <1>2, Inductive, PTL DEF Spec, ImplementsSlot, Slot!Spec
=============================================================================
