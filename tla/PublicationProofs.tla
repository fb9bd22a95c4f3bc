------------------------- MODULE PublicationProofs -------------------------
(***************************************************************************)
(* Machine-checked proofs about PublicationBundle, for every set of        *)
(* objects and hashes, every set of configurations and every bound.        *)
(***************************************************************************)
EXTENDS PublicationBundle, TLAPS

\* The types of the constants and of what the helpers return.
LEMMA ConstantTypes ==
  /\ Empty \in Bundle /\ NoBatch \in Job /\ NewJournal \in Journal
  /\ Success \in Answer /\ Rejected \in Answer /\ 0 \in Time
  BY BoundsAssumption
  DEF Bundle, Empty, NoBatch, Job, NewJournal, Journal, Time, Success, Rejected, Answer

LEMMA BundleTypes ==
  ASSUME NEW d \in Bundle, NEW q \in Bundle
  PROVE  /\ PlanOf(d, q) \in Plan
         /\ Owned(d, q) \in Bundle
         /\ [objects |-> d, hashes |-> q] \in State
         /\ Inventory(d) \in Answer
  BY DEF Bundle, PlanOf, Plan, Owned, State, Inventory, Answer

LEMMA BatchTypes ==
  ASSUME NEW p \in Plan, NEW t \in SigningTime
  PROVE  /\ [op |-> "publication-batch", body |-> p, time |-> t] \in Request
         /\ IsBatch([op |-> "publication-batch", body |-> p, time |-> t])
  BY NoneAssumption DEF Request, Batch, IsBatch

LEMMA ListTypes ==
  ASSUME NEW t \in SigningTime
  PROVE  ListRequest(t) \in Request /\ IsList(ListRequest(t)) /\ ListRequest(t).time = t
  BY NoneAssumption DEF Request, List, ListRequest, IsList

LEMMA RequestFields ==
  ASSUME NEW r \in Request
  PROVE  /\ r # None /\ r.time \in SigningTime
         /\ IsBatch(r) => r.body \in Plan
         /\ IsBatch(r) <=> ~IsList(r)
  BY NoneAssumption DEF Request, Batch, List, IsBatch, IsList

LEMMA JournalTypes ==
  ASSUME NEW j \in Journal, NEW r \in Request, NEW p \in Journal
  PROVE  /\ Begun(j, r) \in Journal /\ Completed(j) \in Journal
         /\ Begun(j, r).pending = r /\ Begun(j, r).sent = r.time
         /\ Completed(j).pending = None /\ Completed(j).sent = j.sent
         /\ Reconciled(j, p) \in Journal
         /\ Reconciled(j, p).pending = None /\ Reconciled(j, p).sent = p.sent
         /\ j.pending # None => Recovered(j) \in Journal
         /\ Recovered(j).pending = None /\ Recovered(j).sent = j.sent
         /\ j.sent \in Time
<1>1. r.time \in Time
  BY RequestFields DEF Time, SigningTime
<1>2. j.pending # None => j.pending.time \in Time
  BY RequestFields DEF Journal, Time, SigningTime
<1>3. Begun(j, r) \in Journal /\ Begun(j, r).pending = r /\ Begun(j, r).sent = r.time
  BY <1>1 DEF Journal, Begun
<1>4. /\ Completed(j) \in Journal
      /\ Completed(j).pending = None /\ Completed(j).sent = j.sent
  BY DEF Journal, Completed
<1>5. /\ Reconciled(j, p) \in Journal
      /\ Reconciled(j, p).pending = None /\ Reconciled(j, p).sent = p.sent
  BY DEF Journal, Reconciled
<1>6. /\ j.pending # None => Recovered(j) \in Journal
      /\ Recovered(j).pending = None /\ Recovered(j).sent = j.sent
  BY <1>2 DEF Journal, Recovered
<1>7. j.sent \in Time
  BY DEF Journal
<1> QED  BY <1>3, <1>4, <1>5, <1>6, <1>7
-----------------------------------------------------------------------------
(* Type correctness *)

LEMMA SendTypes ==
  ASSUME net \subseteq Request, NEW r \in Request, Send(r)
  PROVE  net' \subseteq Request /\ net' \subseteq net \cup {r}
  BY DEF Send

LEMMA TypeInit == Init => TypeOK
<1> SUFFICES ASSUME Init PROVE TypeOK
  OBVIOUS
<1>1. edits \in 0 .. MaxEdits
  BY BoundsAssumption DEF Init
<1>2. landed \in BOOLEAN /\ fresh \in BOOLEAN
  BY DEF Init
<1> QED  BY <1>1, <1>2, ConstantTypes DEF Init, TypeOK, Waiting, Probing, Recovering

\* Whether a call waits or probes depends on job, inventory and the journals.
LEMMA ApplyTypes ==
  ASSUME TypeOK, NEW op \in {"create", "update", "delete"}, NEW d \in Bundle,
         NEW q \in Bundle, NEW t \in SigningTime, Apply(op, d, q, t)
  PROVE  TypeOK'
<1> DEFINE r == [op |-> "publication-batch", body |-> PlanOf(d, q), time |-> t]
<1>1. r \in Request /\ IsBatch(r)
  BY BundleTypes, BatchTypes
<1>2. original' = Begun(original, r) /\ Send(r)
  BY DEF Apply
<1>3. original' \in Journal /\ original'.pending # None
  BY <1>1, <1>2, JournalTypes, RequestFields DEF TypeOK
<1>4. net' \subseteq Request
  BY <1>1, <1>2, SendTypes DEF TypeOK
<1>5. job' \in Job /\ job'.op # "recover" /\ job'.op # "refresh" /\ job' # None
  BY NoneAssumption DEF Apply, Start, Job
<1>6. probe' \in Journal
  BY ConstantTypes DEF Apply
<1> HIDE DEF r
<1> QED  BY <1>3, <1>4, <1>5, <1>6 DEF TypeOK, Apply, server, Waiting, Probing, Recovering

LEMMA ReadInventoryTypes ==
  ASSUME TypeOK, NEW op \in {"refresh", "import"}, NEW d \in Bundle,
         NEW t \in SigningTime, op = "refresh" => state # None, ReadInventory(op, d, t)
  PROVE  TypeOK'
<1>1. ListRequest(t) \in Request
  BY ListTypes
<1>2. original' \in Journal /\ original'.pending # None
  BY <1>1, JournalTypes, RequestFields DEF TypeOK, ReadInventory
<1>3. net' \subseteq Request
  BY <1>1, SendTypes DEF TypeOK, ReadInventory
<1>4. job' \in Job /\ job'.op # "recover" /\ job'.op = op
  BY DEF ReadInventory, Start, Job
<1> QED
  BY <1>2, <1>3, <1>4
  DEF TypeOK, ReadInventory, server, history, Waiting, Probing, Recovering

LEMMA ReceiveTypes ==
  ASSUME TypeOK, NEW r \in Request, NEW a \in Answer, Answers(r, a)
  PROVE  answer' \in Answer \cup {None}
  BY DEF TypeOK, Answers

LEMMA TypeStep == TypeOK /\ [Next]_vars => TypeOK'
<1> SUFFICES ASSUME TypeOK, [Next]_vars PROVE TypeOK'
  OBVIOUS
<1> USE DEF server, call, history
<1>1. ASSUME NEW c \in Configs, ApplyUnchanged(c) PROVE TypeOK'
  BY <1>1, ConfigsAssumption, BundleTypes
  DEF TypeOK, ApplyUnchanged, Waiting, Probing, Recovering
<1>2. CASE DeleteUnchanged
  BY <1>2 DEF TypeOK, DeleteUnchanged, Waiting, Probing, Recovering
<1>3. ASSUME NEW c \in Configs, NEW t \in SigningTime, Create(c, t) PROVE TypeOK'
  BY <1>3, ConfigsAssumption, ApplyTypes, ConstantTypes DEF Create
<1>4. ASSUME NEW c \in Configs, NEW t \in SigningTime, Update(c, t) PROVE TypeOK'
  BY <1>4, ConfigsAssumption, ApplyTypes DEF Update, TypeOK, State
<1>5. ASSUME NEW t \in SigningTime, Delete(t) PROVE TypeOK'
  BY <1>5, ApplyTypes, ConstantTypes DEF Delete, TypeOK, State
<1>6. ASSUME NEW c \in Configs, NEW t \in SigningTime, ImportState(c, t) PROVE TypeOK'
  BY <1>6, ConfigsAssumption, ReadInventoryTypes DEF ImportState
<1>7. ASSUME NEW t \in SigningTime, Read(t) PROVE TypeOK'
  BY <1>7, ReadInventoryTypes, ConstantTypes DEF Read
<1>8. CASE Complete
  <2>1. original' \in Journal /\ goal' \in Job
    BY <1>8, ConstantTypes DEF TypeOK, Complete, Journal, Completed
  <2>2. state' \in State \cup {None}
    BY <1>8 DEF TypeOK, Complete, State, Job, Waiting
  <2> QED  BY <1>8, <2>1, <2>2 DEF TypeOK, Complete, Return, Waiting, Probing, Recovering
<1>9. CASE CompleteList
  <2>1. original' \in Journal
    BY <1>9 DEF TypeOK, CompleteList, Journal, Completed
  <2>2. answer.objects \in Bundle
    BY <1>9, NoneAssumption DEF TypeOK, CompleteList, Answer
  <2>3. state' \in State \cup {None}
    <3>1. CASE job.op = "refresh"
      <4>1. state \in State
        BY <1>9, <3>1 DEF TypeOK, CompleteList
      <4>2. Owned(state.objects, answer.objects) \in Bundle
        BY <2>2, <4>1, BundleTypes DEF State
      <4> QED  BY <1>9, <3>1, <4>1, <4>2 DEF CompleteList, State
    <3>2. CASE job.op # "refresh"
      <4>1. job.objects \in Bundle
        BY <1>9 DEF TypeOK, CompleteList, Waiting, Job
      <4> QED  BY <1>9, <3>2, <4>1 DEF CompleteList, State, TypeOK
    <3> QED  BY <3>1, <3>2
  <2>4. fresh' \in BOOLEAN
    BY <1>9 DEF CompleteList
  <2> QED
    BY <1>9, <2>1, <2>3, <2>4 DEF TypeOK, CompleteList, Return, Waiting, Probing, Recovering
<1>10. CASE Fail
  BY <1>10 DEF TypeOK, Fail, Return, Waiting, Probing, Recovering
<1>11. CASE RecoverRead
  <2>1. original.pending \in Request
    BY <1>11 DEF TypeOK, RecoverRead, IsList, Journal
  <2>2. original' \in Journal
    BY <1>11, <2>1, RequestFields, JournalTypes DEF TypeOK, RecoverRead
  <2> QED  BY <1>11, <2>2 DEF TypeOK, RecoverRead, Waiting, Probing, Recovering
<1>12. CASE RecoverProbe
  <2>1. probe.pending \in Request
    BY <1>12 DEF TypeOK, RecoverProbe, IsList, Journal
  <2>2. probe' \in Journal
    BY <1>12, <2>1, RequestFields, JournalTypes DEF TypeOK, RecoverProbe
  <2> QED  BY <1>12, <2>2 DEF TypeOK, RecoverProbe, Waiting, Probing, Recovering
<1>13. ASSUME NEW t \in SigningTime, ReadPending(t) PROVE TypeOK'
  <2>1. ListRequest(t) \in Request /\ IsList(ListRequest(t))
    BY ListTypes
  <2>2. probe' \in Journal /\ probe'.pending = ListRequest(t)
    BY <1>13, <2>1, JournalTypes DEF TypeOK, ReadPending
  <2>3. net' \subseteq Request
    BY <1>13, <2>1, SendTypes DEF TypeOK, ReadPending
  <2>4. job' \in Job /\ job'.op = "recover"
    BY <1>13, ConstantTypes DEF ReadPending, Start, Job
  <2> QED
    BY <1>13, <2>1, <2>2, <2>3, <2>4
    DEF TypeOK, ReadPending, Waiting, Probing, Recovering, IsBatch, IsList
<1>14. CASE ProbeComplete
  <2>1. probe' \in Journal
    BY <1>14 DEF TypeOK, ProbeComplete, Journal, Completed
  <2>2. inventory' \in Bundle /\ inventory' # None
    BY <1>14, NoneAssumption DEF TypeOK, ProbeComplete, Answer
  <2> QED
    BY <1>14, <2>1, <2>2 DEF TypeOK, ProbeComplete, Waiting, Probing, Recovering
<1>15. CASE ProbeRejected
  <2>1. probe' \in Journal
    BY <1>15 DEF TypeOK, ProbeRejected, Journal, Completed
  <2> QED
    BY <1>15, <2>1 DEF TypeOK, ProbeRejected, Return, Waiting, Probing, Recovering
<1>16. CASE Reconcile
  <2>1. original' \in Journal
    BY <1>16 DEF TypeOK, Reconcile, Journal, Reconciled
  <2> QED  BY <1>16, <2>1 DEF TypeOK, Reconcile, Return, Waiting, Probing, Recovering
<1>17. ASSUME NEW r \in net, Refuse(r) PROVE TypeOK'
  BY <1>17 DEF TypeOK, Refuse, Waiting, Probing, Recovering
<1>18. ASSUME NEW r \in net, ReceiveBatch(r) PROVE TypeOK'
  <2>1. r \in Request /\ r.body \in Plan /\ r.time \in Time
    BY <1>18, RequestFields DEF TypeOK, ReceiveBatch, Time, SigningTime
  <2>2. repo' \in Bundle /\ landed' \in BOOLEAN
    BY <1>18, <2>1 DEF TypeOK, ReceiveBatch, Applied, Plan, Bundle
  <2>3. answer' \in Answer \cup {None}
    BY <1>18, <2>1, ReceiveTypes, ConstantTypes DEF ReceiveBatch, TypeOK
  <2> QED
    BY <1>18, <2>1, <2>2, <2>3 DEF TypeOK, ReceiveBatch, Waiting, Probing, Recovering
<1>19. ASSUME NEW r \in net, ReceiveList(r) PROVE TypeOK'
  <2>1. r \in Request /\ r.time \in Time
    BY <1>19, RequestFields DEF TypeOK, Time, SigningTime
  <2>2. answer' \in Answer \cup {None}
    BY <1>19, <2>1, ReceiveTypes, ConstantTypes, BundleTypes DEF ReceiveList, TypeOK
  <2> QED
    BY <1>19, <2>1, <2>2 DEF TypeOK, ReceiveList, Waiting, Probing, Recovering
<1>20. ASSUME NEW u \in URIs, NEW h \in Hashes \cup {Absent}, Edit(u, h) PROVE TypeOK'
  <2>1. repo' \in Bundle
    BY <1>20 DEF TypeOK, Edit, Bundle
  <2>2. edits' = edits + 1 /\ edits < MaxEdits /\ edits \in 0 .. MaxEdits
    BY <1>20 DEF TypeOK, Edit
  <2>3. edits' \in 0 .. MaxEdits
    BY <2>2, BoundsAssumption
  <2>4. fresh' \in BOOLEAN
    BY <1>20 DEF Edit
  <2> QED  BY <1>20, <2>1, <2>3, <2>4 DEF TypeOK, Edit, Waiting, Probing, Recovering
<1>21. CASE UNCHANGED vars
  BY <1>21 DEF TypeOK, vars, Waiting, Probing, Recovering
<1> QED
  BY <1>1, <1>2, <1>3, <1>4, <1>5, <1>6, <1>7, <1>8, <1>9, <1>10, <1>11, <1>12, <1>13,
     <1>14, <1>15, <1>16, <1>17, <1>18, <1>19, <1>20, <1>21
  DEF Next, Resource, Recovery, Server

\* TypeOK is an invariant of every publication peer.
THEOREM TypeCorrect == Spec => []TypeOK
  BY TypeInit, TypeStep, PTL DEF Spec
-----------------------------------------------------------------------------
(* The inductive invariant *)

Safe == JournalInv /\ CallInv /\ HorizonInv /\ Fenced

\* Signing times and watermarks are integers.
LEMMA Times ==
  ASSUME TypeOK
  PROVE  /\ accepted \in Int /\ original.sent \in Int /\ probe.sent \in Int
         /\ original.sent >= 0 /\ probe.sent >= 0
         /\ \A r \in net : r # None /\ r.time \in Int
         /\ original.pending \in Request \cup {None}
         /\ probe.pending \in Request \cup {None}
         /\ original \in Journal /\ probe \in Journal /\ net \subseteq Request
  BY RequestFields, BoundsAssumption DEF TypeOK, Journal, Time, SigningTime

LEMMA SafeInit == Init => Safe
  BY NoneAssumption
  DEF Init, Safe, JournalInv, CallInv, HorizonInv, Fenced, NewJournal, Horizon, IsBatch,
      Waiting, Recovering

\* While nothing is pending no batch under way can still take effect.
LEMMA NothingUnderWay ==
  ASSUME TypeOK, Safe, original.pending = None, NEW r \in net, IsBatch(r)
  PROVE  r.time < accepted
  BY Times DEF Safe, Fenced

LEMMA ApplySafe ==
  ASSUME TypeOK, Safe, NEW op \in {"create", "update", "delete"}, NEW d \in Bundle,
         NEW q \in Bundle, NEW t \in SigningTime, Apply(op, d, q, t)
  PROVE  Safe'
<1> DEFINE r == [op |-> "publication-batch", body |-> PlanOf(d, q), time |-> t]
<1>1. r \in Request /\ IsBatch(r) /\ r # None /\ r.time = t /\ r.body.after = d
  BY BundleTypes, BatchTypes, RequestFields DEF PlanOf
<1>2. /\ original' = Begun(original, r) /\ Send(r)
      /\ original.pending = None /\ t >= original.sent
  BY DEF Apply, CanBegin
<1>3. original'.pending = r /\ original'.sent = t
  BY <1>1, <1>2, JournalTypes, Times
<1>4. net' \subseteq net \cup {r}
  BY <1>2 DEF Send
<1>5. /\ job' # None /\ job'.op # "recover" /\ job'.objects = d /\ goal' = job'
      /\ probe' = NewJournal /\ accepted' = accepted /\ job = None
      /\ answer' = answer /\ inventory' = inventory
  BY NoneAssumption DEF Apply, Start, server, Job
<1>6. answer = None /\ inventory = None
  BY <1>5 DEF Safe, CallInv
<1>7. t \in Int /\ t >= 1
  BY BoundsAssumption DEF SigningTime
<1> HIDE DEF r
<1>8. JournalInv'
  BY <1>1, <1>3, <1>5 DEF JournalInv, NewJournal
<1>9. CallInv'
  BY <1>1, <1>3, <1>5, <1>6 DEF CallInv, NewJournal, Waiting, Recovering
<1>10. HorizonInv'
  <2>1. Horizon' = t
    BY <1>1, <1>3, <1>5, <1>7 DEF Horizon, Later, NewJournal
  <2>2. Horizon = original.sent
    BY <1>2 DEF Horizon, IsBatch
  <2> QED  BY <1>1, <1>2, <1>4, <1>5, <1>7, <2>1, <2>2, Times DEF Safe, HorizonInv
<1>11. Fenced'
  <2> SUFFICES ASSUME NEW s \in net', IsBatch(s), s.time >= accepted, s # r PROVE FALSE
    BY <1>3, <1>5 DEF Fenced
  <2>1. s \in net
    BY <1>4
  <2>2. s.time < accepted
    BY <1>2, <2>1, NothingUnderWay
  <2> QED  BY <2>1, <2>2, Times
<1> QED  BY <1>8, <1>9, <1>10, <1>11 DEF Safe

LEMMA ReadInventorySafe ==
  ASSUME TypeOK, Safe, NEW op \in {"refresh", "import"}, NEW d \in Bundle,
         NEW t \in SigningTime, ReadInventory(op, d, t)
  PROVE  Safe'
<1> DEFINE r == ListRequest(t)
<1>1. r \in Request /\ IsList(r) /\ ~IsBatch(r) /\ r # None /\ r.time = t
  BY ListTypes, RequestFields
<1>2. /\ original' = Begun(original, r) /\ Send(r)
      /\ original.pending = None /\ t >= original.sent
  BY DEF ReadInventory, CanBegin
<1>3. original'.pending = r /\ original'.sent = t
  BY <1>1, <1>2, JournalTypes, Times
<1>4. net' \subseteq net \cup {r}
  BY <1>2 DEF Send
<1>5. /\ job' # None /\ job'.op # "recover" /\ goal' = goal /\ job = None
      /\ probe' = probe /\ accepted' = accepted
      /\ answer' = answer /\ inventory' = inventory
  BY NoneAssumption DEF ReadInventory, Start, server, history, Job
<1>6. answer = None /\ inventory = None
  BY <1>5 DEF Safe, CallInv
<1>7. t \in Int /\ t >= 1
  BY BoundsAssumption DEF SigningTime
<1> HIDE DEF r
<1>8. JournalInv'
  BY <1>1, <1>3, <1>5 DEF Safe, JournalInv
<1>9. CallInv'
  BY <1>1, <1>3, <1>5, <1>6 DEF CallInv, Waiting, Recovering
<1>10. HorizonInv'
  <2>1. Horizon' = t
    BY <1>1, <1>3 DEF Horizon
  <2>2. Horizon = original.sent
    BY <1>2 DEF Horizon, IsBatch
  <2> QED  BY <1>1, <1>2, <1>4, <1>5, <1>7, <2>1, <2>2, Times DEF Safe, HorizonInv
<1>11. Fenced'
  <2> SUFFICES ASSUME NEW s \in net', IsBatch(s), s.time >= accepted PROVE FALSE
    BY <1>5 DEF Fenced
  <2>1. s \in net
    BY <1>1, <1>4
  <2>2. s.time < accepted
    BY <1>2, <2>1, NothingUnderWay
  <2> QED  BY <2>1, <2>2, Times
<1> QED  BY <1>8, <1>9, <1>10, <1>11 DEF Safe

\* What the server does with a request it accepts.
LEMMA ReceiveSafe ==
  ASSUME TypeOK, Safe, NEW r \in net, r.time >= accepted,
         net' = net \ {r}, accepted' = r.time,
         UNCHANGED <<original, probe, job, inventory, goal>>,
         NEW a \in Answer, Answers(r, a)
  PROVE  Safe'
<1>1. r.time \in Int /\ accepted \in Int /\ original.sent \in Int /\ r \in Request
  BY Times
<1>2. JournalInv'
  BY DEF Safe, JournalInv
<1>3. CallInv'
  <2>1. answer' # answer => Current(r) /\ inventory = None
    BY DEF Answers
  <2>2. Current(r) => job # None /\ r = IF Recovering THEN probe.pending ELSE original.pending
    BY DEF Current
  <2>3. Recovering /\ (answer' # None \/ inventory # None) => r.time > original.sent
    <3>1. CASE answer' # answer
      <4>1. Recovering => r.time = probe.sent /\ probe.sent > original.sent
        BY <2>1, <2>2, <3>1, <1>1, Times DEF Safe, CallInv, JournalInv
      <4> QED  BY <4>1
    <3>2. CASE answer' = answer
      <4>1. Recovering /\ (answer # None \/ inventory # None) => accepted > original.sent
        BY DEF Safe, CallInv
      <4> QED  BY <1>1, <3>2, <4>1
    <3> QED  BY <3>1, <3>2
  <2>4. Waiting /\ answer' # None => original.pending \notin net \ {r}
    BY <2>1, <2>2 DEF Safe, CallInv, Waiting
  <2>5. /\ job = None => answer' = None /\ inventory = None
        /\ inventory # None => Recovering /\ answer' = None
    BY <2>1, <2>2 DEF Safe, CallInv
  <2> QED  BY <2>3, <2>4, <2>5 DEF Safe, CallInv, Waiting, Recovering
<1>4. HorizonInv'
  BY DEF Safe, HorizonInv, Horizon
<1>5. Fenced'
  BY <1>1, Times DEF Safe, Fenced
<1> QED  BY <1>2, <1>3, <1>4, <1>5 DEF Safe

LEMMA ReadPendingSafe ==
  ASSUME TypeOK, Safe, NEW t \in SigningTime, ReadPending(t)
  PROVE  Safe'
<1> DEFINE r == ListRequest(t)
<1>1. r \in Request /\ ~IsBatch(r) /\ r # None /\ r.time = t
  BY ListTypes, RequestFields
<1>2. /\ probe' = Begun(probe, r) /\ Send(r)
      /\ t >= probe.sent /\ t >= original.sent + 1
      /\ IsBatch(original.pending)
  BY DEF ReadPending, CanBegin, MinimumSent
<1>3. probe'.pending = r /\ probe'.sent = t
  BY <1>1, <1>2, JournalTypes, Times
<1>4. net' \subseteq net \cup {r}
  BY <1>2 DEF Send
<1>5. /\ job' # None /\ job'.op = "recover" /\ goal' = goal /\ job = None
      /\ original' = original /\ accepted' = accepted
      /\ answer' = answer /\ inventory' = inventory
  BY ConstantTypes, NoneAssumption DEF ReadPending, Start, server, history, Job
<1>6. answer = None /\ inventory = None
  BY <1>5 DEF Safe, CallInv
<1>7. t \in Int /\ t >= 1
  BY BoundsAssumption DEF SigningTime
<1> HIDE DEF r
<1>8. JournalInv'
  BY <1>1, <1>3, <1>5 DEF Safe, JournalInv
<1>9. CallInv'
  BY <1>2, <1>3, <1>5, <1>6, <1>7, Times DEF CallInv, Waiting, Recovering
<1>10. HorizonInv'
  <2>1. Horizon' = t
    BY <1>2, <1>3, <1>5, <1>7, Times DEF Horizon, Later
  <2>2. Horizon <= t
    BY <1>2, <1>7, Times DEF Horizon, Later
  <2>3. Horizon \in Int
    BY Times DEF Horizon, Later
  <2> QED  BY <1>1, <1>4, <1>5, <1>7, <2>1, <2>2, <2>3, Times DEF Safe, HorizonInv
<1>11. Fenced'
  BY <1>1, <1>4, <1>5 DEF Safe, Fenced
<1> QED  BY <1>8, <1>9, <1>10, <1>11 DEF Safe

\* The steps that end a pending entry of the original journal: the entry is no
\* longer under way, or too old for the server.
LEMMA SettledSafe ==
  ASSUME TypeOK, Safe, NEW s \in Int,
         original'.pending = None, original'.sent = s, Horizon = s,
         UNCHANGED <<accepted, net, probe>>,
         job' = None, answer' = None, inventory' = None,
         original.pending \notin net \/ ~IsBatch(original.pending)
           \/ original.pending.time < accepted
  PROVE  Safe'
<1>1. JournalInv'
  BY DEF Safe, JournalInv, IsBatch
<1>2. CallInv'
  BY DEF CallInv, Waiting, Recovering
<1>3. HorizonInv'
  <2>1. Horizon' = s
    BY DEF Horizon, IsBatch
  <2> QED  BY <2>1 DEF Safe, HorizonInv
<1>4. Fenced'
  <2> SUFFICES ASSUME NEW r \in net, IsBatch(r), r.time >= accepted PROVE FALSE
    BY DEF Fenced
  <2>1. r = original.pending
    BY DEF Safe, Fenced
  <2> QED  BY <2>1, Times
<1> QED  BY <1>1, <1>2, <1>3, <1>4 DEF Safe

LEMMA SafeStep == TypeOK /\ Safe /\ [Next]_vars => Safe'
<1> SUFFICES ASSUME TypeOK, Safe, [Next]_vars PROVE Safe'
  OBVIOUS
<1> USE DEF server, call, history
<1> DEFINE Same ==
      UNCHANGED <<accepted, net, original, probe, job, answer, inventory, goal>>
<1>0. ASSUME Same PROVE Safe'
  BY <1>0
  DEF Safe, JournalInv, CallInv, HorizonInv, Horizon, Fenced, Waiting, Recovering
<1>1. ASSUME NEW c \in Configs, ApplyUnchanged(c) PROVE Safe'
  BY <1>0, <1>1 DEF ApplyUnchanged
<1>2. CASE DeleteUnchanged
  BY <1>0, <1>2 DEF DeleteUnchanged
<1>3. ASSUME NEW c \in Configs, NEW t \in SigningTime, Create(c, t) PROVE Safe'
  BY <1>3, ConfigsAssumption, ApplySafe, ConstantTypes DEF Create
<1>4. ASSUME NEW c \in Configs, NEW t \in SigningTime, Update(c, t) PROVE Safe'
  BY <1>4, ConfigsAssumption, ApplySafe DEF Update, TypeOK, State
<1>5. ASSUME NEW t \in SigningTime, Delete(t) PROVE Safe'
  BY <1>5, ApplySafe, ConstantTypes DEF Delete, TypeOK, State
<1>6. ASSUME NEW c \in Configs, NEW t \in SigningTime, ImportState(c, t) PROVE Safe'
  BY <1>6, ConfigsAssumption, ReadInventorySafe DEF ImportState
<1>7. ASSUME NEW t \in SigningTime, Read(t) PROVE Safe'
  BY <1>7, ReadInventorySafe, ConstantTypes DEF Read
<1>8. ASSUME Complete \/ CompleteList PROVE Safe'
  <2>1. /\ Waiting /\ answer # None
        /\ original' = Completed(original)
        /\ UNCHANGED <<accepted, net, probe>>
        /\ job' = None /\ answer' = None /\ inventory' = None
    BY <1>8, NoneAssumption, ConstantTypes DEF Complete, CompleteList, Return
  <2>2. original.pending \notin net
    BY <2>1 DEF Safe, CallInv
  <2>3. original'.pending = None /\ original'.sent = original.sent
    BY <2>1, Times DEF Completed, Journal
  <2>4. Horizon = original.sent
    BY <2>1, Times DEF Safe, CallInv, Horizon, Later
  <2> QED  BY <2>1, <2>2, <2>3, <2>4, Times, SettledSafe
<1>9. CASE Fail
  <2>1. /\ UNCHANGED <<accepted, net, original, probe, goal>>
        /\ job' = None /\ answer' = None /\ inventory' = None
    BY <1>9 DEF Fail, Return
  <2> QED
    BY <2>1 DEF Safe, JournalInv, CallInv, HorizonInv, Horizon, Fenced, Waiting, Recovering
<1>10. CASE RecoverRead
  <2>1. /\ ~IsBatch(original.pending) /\ original' = Recovered(original)
        /\ UNCHANGED <<accepted, net, probe>>
        /\ job = None /\ UNCHANGED <<job, answer, inventory>>
    BY <1>10 DEF RecoverRead, IsBatch, IsList
  <2>2. job' = None /\ answer' = None /\ inventory' = None
    BY <2>1 DEF Safe, CallInv
  <2>3. original'.pending = None /\ original'.sent = original.sent
    BY <2>1, Times DEF Recovered, Journal
  <2>4. Horizon = original.sent
    BY <2>1 DEF Horizon
  <2> QED  BY <2>1, <2>2, <2>3, <2>4, Times, SettledSafe
<1>11. CASE RecoverProbe
  <2>1. /\ probe'.pending = None /\ probe'.sent = probe.sent /\ ~Recovering
        /\ UNCHANGED <<accepted, net, original, job, answer, inventory, goal>>
    BY <1>11, Times DEF RecoverProbe, Recovered, Journal
  <2> QED
    BY <2>1 DEF Safe, JournalInv, CallInv, HorizonInv, Horizon, Fenced, Waiting, Recovering
<1>12. ASSUME NEW t \in SigningTime, ReadPending(t) PROVE Safe'
  BY <1>12, ReadPendingSafe
<1>13. CASE ProbeComplete
  <2>1. /\ Recovering /\ answer # None
        /\ probe'.pending = None /\ probe'.sent = probe.sent /\ answer' = None
        /\ UNCHANGED <<accepted, net, original, job, goal>>
    BY <1>13, Times DEF ProbeComplete, Probing, Completed, Journal
  <2> QED
    BY <2>1 DEF Safe, JournalInv, CallInv, HorizonInv, Horizon, Fenced, Waiting, Recovering
<1>14. CASE ProbeRejected
  <2>1. /\ probe'.pending = None /\ probe'.sent = probe.sent
        /\ job' = None /\ answer' = None /\ inventory' = None
        /\ UNCHANGED <<accepted, net, original, goal>>
    BY <1>14, Times DEF ProbeRejected, Return, Completed, Journal
  <2> QED
    BY <2>1 DEF Safe, JournalInv, CallInv, HorizonInv, Horizon, Fenced, Waiting, Recovering
<1>15. CASE Reconcile
  <2>1. /\ Recovering /\ inventory # None
        /\ original' = Reconciled(original, probe)
        /\ UNCHANGED <<accepted, net, probe>>
        /\ job' = None /\ answer' = None /\ inventory' = None
    BY <1>15 DEF Reconcile, Return
  <2>2. /\ IsBatch(original.pending) /\ probe.sent > original.sent
        /\ accepted > original.sent
    BY <2>1 DEF Safe, CallInv
  <2>3. original.pending.time < accepted
    BY <2>2, Times DEF Safe, JournalInv, IsBatch
  <2>4. original'.pending = None /\ original'.sent = probe.sent
    BY <2>1, Times DEF Reconciled, Journal
  <2>5. Horizon = probe.sent
    BY <2>2, Times DEF Horizon, Later
  <2> QED  BY <2>1, <2>3, <2>4, <2>5, Times, SettledSafe
<1>16. ASSUME NEW r \in net, Refuse(r) PROVE Safe'
  <2>1. /\ net' \subseteq net
        /\ UNCHANGED <<accepted, original, probe, job, answer, inventory, goal>>
    BY <1>16 DEF Refuse
  <2> QED
    BY <2>1 DEF Safe, JournalInv, CallInv, HorizonInv, Horizon, Fenced, Waiting, Recovering
<1>17. ASSUME NEW r \in net, ReceiveBatch(r) PROVE Safe'
  <2>1. PICK a \in Answer : Answers(r, a)
    BY <1>17, ConstantTypes DEF ReceiveBatch
  <2> QED  BY <1>17, <2>1, ReceiveSafe DEF ReceiveBatch
<1>18. ASSUME NEW r \in net, ReceiveList(r) PROVE Safe'
  <2>1. PICK a \in Answer : Answers(r, a)
    BY <1>18, ConstantTypes, BundleTypes DEF ReceiveList, TypeOK
  <2> QED  BY <1>18, <2>1, ReceiveSafe DEF ReceiveList
<1>19. ASSUME NEW u \in URIs, NEW h \in Hashes \cup {Absent}, Edit(u, h) PROVE Safe'
  BY <1>0, <1>19 DEF Edit
<1>20. CASE UNCHANGED vars
  BY <1>0, <1>20 DEF vars
<1> QED
  BY <1>1, <1>2, <1>3, <1>4, <1>5, <1>6, <1>7, <1>8, <1>9, <1>10, <1>11, <1>12, <1>13,
     <1>14, <1>15, <1>16, <1>17, <1>18, <1>19, <1>20
  DEF Next, Resource, Recovery, Server

\* The strengthened invariant holds of every publication peer.
THEOREM Inductive == Spec => []IInv
<1>1. Init => IInv
  BY TypeInit, SafeInit DEF IInv, Safe
<1>2. IInv /\ [Next]_vars => IInv'
  BY TypeStep, SafeStep DEF IInv, Safe
<1> QED  BY <1>1, <1>2, PTL DEF Spec
-----------------------------------------------------------------------------
(* What follows from it *)

\* A batch that was answered or decided can never take effect any more, however
\* late it arrives.
THEOREM DecisionsAreFinal == Spec => []Fenced
<1>1. IInv => Fenced
  BY DEF IInv
<1> QED  BY <1>1, Inductive, PTL

\* A peer with nothing pending never signs earlier than what its server has seen.
THEOREM PeerIsNotLockedOut == Spec => []NotLockedOut
<1>1. IInv => NotLockedOut
  BY NoneAssumption DEF IInv, HorizonInv, Horizon, IsBatch, NotLockedOut
<1> QED  BY <1>1, Inductive, PTL

\* A member of the bundle a pending batch brings about is one of its changes.
LEMMA GoalIsPlanned ==
  ASSUME IInv, IsBatch(original.pending), NEW u \in Members(goal.objects)
  PROVE  /\ u \in Touched(original.pending.body)
         /\ original.pending.body.after[u] = goal.objects[u]
  BY DEF IInv, JournalInv, Members, Touched

\* Recovery reports matches_after only of a complete bundle.
THEOREM AfterMeansComplete == Spec => []AfterIsComplete
<1>1. IInv => AfterIsComplete
  <2> SUFFICES ASSUME IInv, inventory # None,
                      Classify(original.pending.body, inventory) = "matches_after",
                      NEW u \in Members(goal.objects)
               PROVE  inventory[u] = goal.objects[u]
    BY DEF AfterIsComplete
  <2> DEFINE p == original.pending.body
  <2>1. IsBatch(original.pending)
    BY DEF IInv, CallInv
  <2>2. Observed(inventory, p, p.after)
    BY DEF Classify
  <2> QED  BY <2>1, <2>2, GoalIsPlanned DEF Observed
<1> QED  BY <1>1, Inductive, PTL

\* A batch takes effect only as a whole bundle.
THEOREM BundlesAreWhole == Spec => NoHalfBundle
<1>1. IInv /\ [Next]_vars =>
        [~landed /\ landed' =>
           \A u \in Members(goal.objects) : repo'[u] = goal.objects[u]]_vars
  <2> SUFFICES ASSUME IInv, [Next]_vars, ~landed, landed', NEW u \in Members(goal.objects)
               PROVE  repo'[u] = goal.objects[u]
    OBVIOUS
  <2>1. PICK r \in net : ReceiveBatch(r)
    BY DEF Next, Resource, Recovery, Server, ApplyUnchanged, DeleteUnchanged, Create,
       Update, Delete, Apply, Read, ImportState, ReadInventory, Complete, CompleteList,
       Fail, RecoverRead, RecoverProbe, ReadPending, ProbeComplete, ProbeRejected,
       Reconcile, Refuse, ReceiveList, Edit, history, vars
  <2>2. r = original.pending /\ IsBatch(original.pending)
    BY <2>1 DEF IInv, Fenced, ReceiveBatch
  <2>3. repo' = Applied(r.body)
    BY <2>1 DEF ReceiveBatch
  <2>4. u \in URIs
    BY DEF Members
  <2> QED  BY <2>2, <2>3, <2>4, GoalIsPlanned DEF Applied
<1> QED  BY <1>1, Inductive, PTL DEF Spec, NoHalfBundle

\* The publication peer keeps the promise of the exchange journal: recovery by a
\* second journal never lets two requests be outstanding nor time go back.
THEOREM PeerImplementsSlot == Spec => ImplementsSlot
<1>1. Init => Slot!Init
  BY DEF Init, NewJournal, Slot!Init
<1>2. IInv /\ [Next]_vars => [Slot!Next]_<<original.pending, original.sent>>
  <2> SUFFICES ASSUME IInv, [Next]_vars, ~UNCHANGED <<original.pending, original.sent>>
               PROVE  Slot!Next
    OBVIOUS
  <2> USE DEF server, call, history
  <2>0. TypeOK /\ original \in Journal
    BY DEF IInv, TypeOK
  <2>1. \A r \in Request, t \in SigningTime :
          CanBegin(original, t) /\ original' = Begun(original, r) /\ r.time = t => Slot!Next
    <3> SUFFICES ASSUME NEW r \in Request, CanBegin(original, r.time),
                        original' = Begun(original, r)
                 PROVE  Slot!Next
      OBVIOUS
    <3>1. r \in Slot!Request
      BY DEF Request, Batch, List, Slot!Request, SigningTime
    <3>2. Slot!Dispatch(r)
      BY <2>0, JournalTypes DEF CanBegin, Slot!Dispatch
    <3> QED  BY <3>1, <3>2 DEF Slot!Next
  <2>2. ASSUME NEW op, NEW d \in Bundle, NEW q \in Bundle, NEW t \in SigningTime,
               Apply(op, d, q, t)
        PROVE  Slot!Next
    BY <2>1, <2>2, BundleTypes, BatchTypes DEF Apply
  <2>3. ASSUME NEW op, NEW d, NEW t \in SigningTime, ReadInventory(op, d, t)
        PROVE  Slot!Next
    BY <2>1, <2>3, ListTypes DEF ReadInventory
  <2>4. ASSUME NEW c \in Configs, NEW t \in SigningTime,
               Create(c, t) \/ Update(c, t) \/ ImportState(c, t)
        PROVE  Slot!Next
    BY <2>0, <2>2, <2>3, <2>4, ConfigsAssumption, ConstantTypes
    DEF Create, Update, ImportState, TypeOK, State
  <2>5. ASSUME NEW t \in SigningTime, Delete(t) \/ Read(t) PROVE Slot!Next
    BY <2>0, <2>2, <2>3, <2>5, ConstantTypes DEF Delete, Read, TypeOK, State
  <2>6. CASE Complete \/ CompleteList
    <3>1. original.pending # None /\ original' = Completed(original)
      BY <2>0, <2>6 DEF Complete, CompleteList, TypeOK
    <3>2. Slot!Answer
      BY <2>0, <3>1 DEF Slot!Answer, Completed, Journal
    <3> QED  BY <3>2 DEF Slot!Next
  <2>7. CASE RecoverRead
    <3>1. Slot!AbandonRead
      BY <2>0, <2>7 DEF Slot!AbandonRead, RecoverRead, IsList, Recovered, Journal
    <3> QED  BY <3>1 DEF Slot!Next
  <2>8. CASE Reconcile
    <3>1. IsBatch(original.pending) /\ probe.sent > original.sent
      BY <2>8 DEF Reconcile, IInv, CallInv
    <3>2. probe.sent \in original.sent .. MaxTime
      BY <2>0, <3>1, BoundsAssumption DEF TypeOK, Journal, Time
    <3>3. original'.pending = None /\ original'.sent = probe.sent
      BY <2>0, <2>8 DEF Reconcile, Reconciled, Journal
    <3>4. Slot!Reconcile
      BY <3>1, <3>2, <3>3 DEF Slot!Reconcile, IsBatch
    <3> QED  BY <3>4 DEF Slot!Next
  <2> QED
    BY <2>4, <2>5, <2>6, <2>7, <2>8
    DEF Next, Resource, Recovery, Server, ApplyUnchanged, DeleteUnchanged, Fail,
        RecoverProbe, ReadPending, ProbeComplete, ProbeRejected, Refuse, ReceiveBatch,
        ReceiveList, Edit, vars
<1> QED  BY <1>1, <1>2, Inductive, PTL DEF Spec, ImplementsSlot, Slot!Spec

\* A decision about an uncertain batch holds: the batch is fenced, its peer can
\* sign on, and matches_after was the whole truth.
THEOREM RecoveryDecides == Spec => []DecisionsHold
BY DecisionsAreFinal, PeerIsNotLockedOut, AfterMeansComplete, PTL DEF DecisionsHold
-----------------------------------------------------------------------------
(* What a recovery is shown of a batch that took effect *)

\* Nothing that LandedInv speaks of is learnt or changed.
LEMMA LandedKept ==
  ASSUME LandedInv, UNCHANGED <<original, landed, repo, edits>>,
         original.pending \notin net => original.pending \notin net',
         \/ UNCHANGED <<job, answer, inventory>>
         \/ answer' = None /\ inventory' = None
         \/ answer' = None /\ inventory' = inventory
         \/ answer' # None /\ answer'.kind # "inventory" /\ inventory' = inventory
  PROVE  LandedInv'
  BY DEF LandedInv, Shows, Waiting, Recovering

\* Nothing is pending, or a request that cannot land.
LEMMA NothingLanded ==
  ASSUME IInv, LandedInv, ~IsBatch(original.pending), landed' = landed \/ landed' = FALSE,
         answer' = None,
         IsBatch(original'.pending) =>
           landed' = FALSE /\ Changes(original'.pending.body.after, original'.pending.body.before)
  PROVE  LandedInv'
<1>1. ~landed'
  BY DEF LandedInv
<1> QED  BY <1>1 DEF LandedInv, Waiting

LEMMA ApplyLands ==
  ASSUME IInv, LandedInv, NEW op \in {"create", "update", "delete"}, NEW d \in Bundle,
         NEW q \in Bundle, NEW t \in SigningTime, Apply(op, d, q, t)
  PROVE  LandedInv'
<1>1. PICK r \in Request : /\ r = [op |-> "publication-batch", body |-> PlanOf(d, q), time |-> t]
                           /\ original' = Begun(original, r)
  BY BundleTypes, BatchTypes DEF Apply
<1>2. original'.pending = r /\ TypeOK
  BY <1>1, JournalTypes, Times DEF IInv
<1>3. r.body.after = d /\ r.body.before = q /\ Changes(d, q)
  BY <1>1 DEF PlanOf, Apply
<1>4. /\ ~IsBatch(original.pending) /\ landed' = FALSE /\ answer' = None
  BY DEF Apply, CanBegin, IsBatch, Start, IInv, CallInv
<1> QED  BY <1>2, <1>3, <1>4, NothingLanded

LEMMA ReadInventoryLands ==
  ASSUME IInv, LandedInv, NEW op, NEW d, NEW t \in SigningTime, ReadInventory(op, d, t)
  PROVE  LandedInv'
<1>1. ListRequest(t) \in Request /\ ~IsBatch(ListRequest(t))
  BY ListTypes, RequestFields
<1>2. original' = Begun(original, ListRequest(t)) /\ TypeOK
  BY DEF ReadInventory, IInv
<1>3. original'.pending = ListRequest(t)
  BY <1>1, <1>2, JournalTypes, Times
<1>4. /\ ~IsBatch(original.pending) /\ landed' = landed /\ answer' = None
  BY DEF ReadInventory, CanBegin, IsBatch, Start, IInv, CallInv, history
<1> QED  BY <1>1, <1>3, <1>4, NothingLanded

\* The pending batch cannot land any more once a probe was answered.
LEMMA BatchLands ==
  ASSUME IInv, LandedInv, NEW r \in net, ReceiveBatch(r)
  PROVE  LandedInv'
<1>1. /\ r = original.pending /\ IsBatch(original.pending) /\ r.time >= accepted /\ net' = net \ {r}
      /\ UNCHANGED <<original, job, inventory, edits>> /\ ~landed
  BY DEF ReceiveBatch, IInv, Fenced, LandedInv, history
<1>2. Recovering => answer = None /\ inventory = None
  <2>1. r.time = original.sent /\ r # None
    BY <1>1, Times DEF IInv, JournalInv
  <2> QED  BY <1>1, <2>1, Times DEF IInv, CallInv
<1>3. inventory = None
  BY <1>2 DEF IInv, CallInv
<1>4. answer' # None => answer'.kind # "inventory"
  <2>1. answer' \in {answer, Success, Rejected}
    BY DEF ReceiveBatch, Answers
  <2>2. answer # None => answer.kind # "inventory"
    BY <1>1, <1>2 DEF IInv, CallInv, LandedInv, Waiting
  <2> QED  BY <2>1, <2>2 DEF Success, Rejected
<1>5. CASE repo' = Applied(r.body) /\ landed' = TRUE
  <2>1. \A u \in Touched(r.body) : u \in URIs
    BY DEF Touched, Members
  <2>2. Observed(repo', r.body, r.body.after)
    BY <1>5, <2>1 DEF Observed, Applied
  <2> QED  BY <1>1, <1>3, <1>4, <1>5, <2>2 DEF LandedInv, Shows, Waiting, Recovering
<1>6. CASE UNCHANGED <<repo, landed>>
  BY <1>1, <1>3, <1>4, <1>6 DEF LandedInv, Waiting
<1> QED  BY <1>5, <1>6 DEF ReceiveBatch

\* A list shows the repository as it is.
LEMMA ListShows ==
  ASSUME IInv, LandedInv, NEW r \in net, ReceiveList(r)
  PROVE  LandedInv'
<1>1. /\ IsList(r) /\ net' = net \ {r} /\ UNCHANGED <<repo, original, job, inventory, landed, edits>>
      /\ ~IsBatch(r)
  BY RequestFields DEF ReceiveList, history, IInv, TypeOK
<1>2. CASE answer' = answer
  BY <1>1, <1>2, LandedKept
<1>3. CASE Current(r) /\ inventory = None /\ answer' \in {Inventory(repo), Rejected}
  <2>1. answer'.kind = "inventory" => answer'.objects = repo
    BY <1>3 DEF Inventory, Rejected
  <2>2. Waiting => ~IsBatch(original.pending)
    BY <1>1, <1>3 DEF Current, Waiting
  <2>3. inventory' = None
    BY <1>1, <1>3
  <2> QED  BY <1>1, <2>1, <2>2, <2>3 DEF LandedInv, Shows, Waiting, Recovering
<1> QED  BY <1>2, <1>3 DEF ReceiveList, Answers

LEMMA LandedStep == IInv /\ LandedInv /\ [Next]_vars => LandedInv'
<1> SUFFICES ASSUME IInv, LandedInv, [Next]_vars PROVE LandedInv'
  OBVIOUS
<1>0. TypeOK /\ (job = None => answer = None /\ inventory = None)
  BY DEF IInv, CallInv
<1>1. ASSUME NEW c \in Configs, ApplyUnchanged(c) PROVE LandedInv'
  BY <1>1, LandedKept DEF ApplyUnchanged, server, call, history
<1>2. CASE DeleteUnchanged
  BY <1>2, LandedKept DEF DeleteUnchanged, server, call, history
<1>3. ASSUME NEW c \in Configs, NEW t \in SigningTime, Create(c, t) PROVE LandedInv'
  BY <1>3, ConfigsAssumption, ApplyLands, ConstantTypes DEF Create
<1>4. ASSUME NEW c \in Configs, NEW t \in SigningTime, Update(c, t) PROVE LandedInv'
  BY <1>0, <1>4, ConfigsAssumption, ApplyLands DEF Update, TypeOK, State
<1>5. ASSUME NEW t \in SigningTime, Delete(t) PROVE LandedInv'
  BY <1>0, <1>5, ApplyLands, ConstantTypes DEF Delete, TypeOK, State
<1>6. ASSUME NEW c \in Configs, NEW t \in SigningTime, ImportState(c, t) \/ Read(t) PROVE LandedInv'
  BY <1>6, ReadInventoryLands DEF ImportState, Read
<1>7. ASSUME NEW t \in SigningTime, Read(t) PROVE LandedInv'
  BY <1>7, ReadInventoryLands DEF Read
<1>8. CASE Complete
  <2>1. original'.pending = None /\ landed' = FALSE /\ answer' = None
    BY <1>0, <1>8, Times DEF Complete, Return, Completed, Journal
  <2> QED  BY <2>1 DEF LandedInv, IsBatch, Waiting
<1>9. CASE CompleteList
  <2>1. /\ original'.pending = None /\ landed' = landed /\ answer' = None
        /\ ~IsBatch(original.pending)
    BY <1>0, <1>9, Times DEF CompleteList, Return, Completed, Journal, LandedInv
  <2> QED  BY <2>1, NothingLanded DEF IsBatch
<1>10. CASE Fail
  BY <1>10, LandedKept DEF Fail, Return, server, history
<1>11. CASE RecoverRead
  <2>1. /\ original'.pending = None /\ landed' = landed /\ answer' = None /\ ~IsBatch(original.pending)
    BY <1>0, <1>11, Times DEF RecoverRead, Recovered, Journal, IsList, IsBatch, call, history
  <2> QED  BY <2>1, NothingLanded DEF IsBatch
<1>12. CASE RecoverProbe
  BY <1>12, LandedKept DEF RecoverProbe, server, call, history
<1>13. ASSUME NEW t \in SigningTime, ReadPending(t) PROVE LandedInv'
  <2>1. /\ ListRequest(t) \in Request /\ ~IsBatch(ListRequest(t)) /\ IsBatch(original.pending)
        /\ net' \subseteq net \cup {ListRequest(t)}
    BY <1>13, ListTypes, RequestFields DEF ReadPending, Send
  <2>2. answer' = None /\ inventory' = None /\ UNCHANGED <<original, landed, repo, edits>>
    BY <1>0, <1>13 DEF ReadPending, Start, server, history
  <2> QED  BY <2>1, <2>2, LandedKept
<1>14. CASE ProbeComplete
  <2>1. /\ Recovering /\ answer # None /\ answer.kind = "inventory"
        /\ inventory' = answer.objects /\ answer' = None
        /\ UNCHANGED <<original, landed, repo, edits, net>>
    BY <1>14 DEF ProbeComplete, Probing, server, history
  <2> QED  BY <2>1 DEF LandedInv, Shows, Waiting
<1>15. CASE ProbeRejected
  BY <1>15, LandedKept DEF ProbeRejected, Return, server, history
<1>16. CASE Reconcile
  <2>1. original'.pending = None /\ landed' = FALSE /\ answer' = None
    BY <1>0, <1>16, Times DEF Reconcile, Return, Reconciled, Journal
  <2> QED  BY <2>1 DEF LandedInv, IsBatch, Waiting
<1>17. ASSUME NEW r \in net, Refuse(r) PROVE LandedInv'
  BY <1>17, LandedKept DEF Refuse, server, call, history
<1>18. ASSUME NEW r \in net, ReceiveBatch(r) PROVE LandedInv'
  BY <1>18, BatchLands
<1>19. ASSUME NEW r \in net, ReceiveList(r) PROVE LandedInv'
  BY <1>19, ListShows
<1>20. ASSUME NEW u \in URIs, NEW h \in Hashes \cup {Absent}, Edit(u, h) PROVE LandedInv'
  <2>1. edits' # 0 /\ UNCHANGED <<original, landed, job, answer, net>>
    BY <1>0, <1>20, BoundsAssumption DEF Edit, call, TypeOK
  <2> QED  BY <2>1 DEF LandedInv, Waiting, Recovering
<1>21. CASE UNCHANGED vars
  BY <1>21, LandedKept DEF vars, server, call, history
<1> QED
  BY <1>1, <1>2, <1>3, <1>4, <1>5, <1>6, <1>7, <1>8, <1>9, <1>10, <1>11, <1>12, <1>13,
     <1>14, <1>15, <1>16, <1>17, <1>18, <1>19, <1>20, <1>21
  DEF Next, Resource, Recovery, Server

\* While nobody else publishes, recovery never reports matches_before nor a
\* conflict of a batch that took effect: the desired and the prior bundle differ
\* at a member that the batch names.
THEOREM LandedIsReported == Spec => []LandedIsSeen
<1>1. Init => LandedInv
  BY DEF Init, LandedInv, NewJournal, IsBatch
<1>2. IInv /\ LandedInv => LandedIsSeen
  <2> SUFFICES ASSUME IInv, LandedInv, landed, edits = 0, inventory # None
               PROVE  Classify(original.pending.body, inventory) = "matches_after"
    BY DEF LandedIsSeen
  <2>1. PICK p : p = original.pending.body
    OBVIOUS
  <2>2. Observed(inventory, p, p.after) /\ p.after # p.before /\ IsBatch(original.pending)
    BY <2>1 DEF LandedInv, Shows, Changes
  <2>3. p \in Plan
    BY <2>1, <2>2, RequestFields, Times DEF IInv, IsBatch
  <2>4. PICK u \in URIs : p.after[u] # p.before[u]
    BY <2>2, <2>3 DEF Plan, Bundle
  <2>5. u \in Touched(p)
    BY <2>4 DEF Touched, Members
  <2>6. ~Observed(inventory, p, p.before)
    BY <2>2, <2>4, <2>5 DEF Observed
  <2> QED  BY <2>1, <2>2, <2>6 DEF Classify
<1>3. Spec => []LandedInv
  BY <1>1, LandedStep, Inductive, PTL DEF Spec
<1> QED  BY <1>2, <1>3, Inductive, PTL
=============================================================================
