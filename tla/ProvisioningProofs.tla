------------------------- MODULE ProvisioningProofs -------------------------
(***************************************************************************)
(* Machine-checked proofs about Provisioning, for every set of keys and    *)
(* requested resources, and every bound on times, serials and              *)
(* publications.                                                           *)
(***************************************************************************)
EXTENDS Provisioning, TLAPS

local == <<original, probe, mark, state, job, history>>
-----------------------------------------------------------------------------
(* Types *)

LEMMA NoneIsApart ==
  /\ None \notin Config /\ None \notin Certificate /\ None \notin Inventory /\ None \notin Request
  /\ None \notin Evidence /\ None \notin State /\ None \notin Job /\ None \notin Answer
  BY NoneAssumption

LEMMA RequestTypes ==
  ASSUME NEW r \in Request
  PROVE  /\ r # None /\ r.time \in 1 .. MaxTime /\ r.time \in Nat
         /\ r.op \in {"updown-issue", "updown-revoke", "updown-list"}
         /\ IsMutation(r) <=> r.op \in {"updown-issue", "updown-revoke"}
         /\ IsMutation(r) <=> r.op # "updown-list"
         /\ Issue(r) <=> r.op = "updown-issue"
         /\ IsMutation(r) => r.body \in Config
         /\ r.op # "updown-list" => r.body \in Config
<1>1. r # None
  BY NoneIsApart
<1>2. r.op \in {"updown-issue", "updown-revoke", "updown-list"} /\ r.time \in 1 .. MaxTime
  BY DEF Request, Mutations
<1>3. r.op # "updown-list" => r.body \in Config
  BY DEF Request
<1>4. r.time \in Nat
  BY <1>2, BoundsAssumption
<1> QED  BY <1>1, <1>2, <1>3, <1>4 DEF IsMutation, Mutations, Issue

LEMMA NoneIsNoMutation == ~IsMutation(None) /\ ~Issue(None)
  BY DEF IsMutation, Issue

LEMMA CertificateTypes ==
  ASSUME NEW c \in Certificate
  PROVE  c # None /\ c.key \in Keys /\ c.want \in Wants /\ c.serial \in 1 .. MaxSerial /\ c.serial \in Nat
  BY NoneIsApart, BoundsAssumption DEF Certificate

LEMMA ConfigTypes ==
  ASSUME NEW c \in Config
  PROVE  c # None /\ c.key \in Keys /\ c.want \in Wants
  BY NoneIsApart DEF Config

LEMMA JournalTypes ==
  ASSUME NEW j \in Journal
  PROVE  /\ j.pending \in Request \cup {None} /\ j.sent \in 0 .. MaxTime /\ j.sent \in Nat
         /\ j.recovered \in 0 .. MaxTime /\ j.recovered \in Nat /\ j.list \in Evidence \cup {None}
<1>1. j.pending \in Request \cup {None} /\ j.sent \in 0 .. MaxTime
      /\ j.recovered \in 0 .. MaxTime /\ j.list \in Evidence \cup {None}
  BY DEF Journal
<1>2. 0 .. MaxTime \subseteq Nat
  BY BoundsAssumption
<1> QED  BY <1>1, <1>2

LEMMA JournalSteps ==
  ASSUME NEW j \in Journal
  PROVE  /\ NewJournal \in Journal
         /\ Completed(j) \in Journal
         /\ j.pending # None => Abandoned(j) \in Journal
         /\ \A r \in Request : Begun(j, r) \in Journal
         /\ \A p \in Journal : Reconciled(j, p) \in Journal
         /\ j.pending # None => \A certs \in SUBSET Certificate : CompletedList(j, certs) \in Journal
<1>1. \A r \in Request : r.time \in 1 .. MaxTime /\ 1 .. MaxTime \subseteq 0 .. MaxTime /\ 0 \in 0 .. MaxTime
  BY RequestTypes, BoundsAssumption
<1>2. 0 \in 0 .. MaxTime
  BY BoundsAssumption
<1>3. NewJournal \in Journal /\ Completed(j) \in Journal
  BY <1>2 DEF NewJournal, Completed, Journal
<1>4. j.pending # None => Abandoned(j) \in Journal
  BY <1>1, JournalTypes DEF Abandoned, Journal
<1>5. \A r \in Request : Begun(j, r) \in Journal
  BY <1>1 DEF Begun, Journal
<1>6. \A p \in Journal : Reconciled(j, p) \in Journal
  BY DEF Reconciled, Journal
<1>7. j.pending # None => \A certs \in SUBSET Certificate : CompletedList(j, certs) \in Journal
  BY <1>1, JournalTypes DEF CompletedList, Journal, Evidence
<1> QED  BY <1>3, <1>4, <1>5, <1>6, <1>7

LEMMA JobTypes ==
  ASSUME NEW j \in Job
  PROVE  /\ j # None /\ j.op \in Calls /\ j.at \in {"answer", "path", "commit"}
         /\ j.config \in Config \cup {None} /\ j.cert \in Certificate \cup {None}
         /\ j.found \in Inventory \cup {None}
  BY NoneIsApart DEF Job

LEMMA JobSteps ==
  ASSUME NEW config \in Config
  PROVE  \A op \in Calls : NewJob(op, config) \in Job
  BY DEF NewJob, Job

LEMMA AnswerTypes ==
  ASSUME NEW a \in Answer
  PROVE  /\ a # None /\ a.kind \in {"issued", "revoked", "rejected", "list"}
         /\ a.kind = "issued" => a.cert \in Certificate
         /\ a.kind = "list" => a.inventory \in Inventory /\ a.inventory.certs \subseteq Certificate
<1>1. a # None /\ a.kind \in {"issued", "revoked", "rejected", "list"}
  BY NoneIsApart DEF Answer
<1>2. a.kind = "issued" => a.cert \in Certificate
  BY DEF Answer
<1>3. a.kind = "list" => a.inventory \in Inventory
  BY DEF Answer
<1> QED  BY <1>1, <1>2, <1>3 DEF Inventory

\* What is typed in a state of the right types.
LEMMA StateTypes ==
  ASSUME TypeOK
  PROVE  /\ listed.certs \subseteq Certificate /\ listed.class \in BOOLEAN
         /\ serial \in Nat /\ accepted \in Nat /\ mark \in Nat /\ mark >= 1 /\ mark <= Len(pubs)
         /\ Len(pubs) \in Nat /\ DOMAIN pubs = 1 .. Len(pubs)
         /\ \A i \in DOMAIN pubs : i \in Nat /\ pubs[i] \in Publication /\ pubs[i].certs \subseteq Certificate
         /\ original.sent \in Nat /\ probe.sent \in Nat
         /\ original.pending \in Request \cup {None} /\ probe.pending \in Request \cup {None}
<1>1. listed.certs \subseteq Certificate /\ listed.class \in BOOLEAN
  BY DEF TypeOK, Inventory
<1>2. serial \in Nat /\ accepted \in Nat
  BY BoundsAssumption DEF TypeOK
<1>3. Len(pubs) \in Nat /\ DOMAIN pubs = 1 .. Len(pubs)
  BY DEF TypeOK
<1>4. \A i \in DOMAIN pubs : pubs[i] \in Publication
  BY <1>3 DEF TypeOK
<1>5. \A i \in DOMAIN pubs : i \in Nat /\ pubs[i].certs \subseteq Certificate
  BY <1>3, <1>4 DEF Publication
<1>6. mark \in Nat /\ mark >= 1 /\ mark <= Len(pubs)
  BY <1>3 DEF TypeOK
<1>7. original \in Journal /\ probe \in Journal
  BY DEF TypeOK
<1> QED  BY <1>1, <1>2, <1>3, <1>4, <1>5, <1>6, <1>7, JournalTypes

\* What must be typed again after a step that leaves the parent alone, and
\* after one that leaves the peer alone.
PeerTypes ==
  /\ original \in Journal /\ probe \in Journal /\ mark \in DOMAIN pubs /\ relied \in DOMAIN pubs
  /\ recovered \in BOOLEAN /\ state \in State \cup {None} /\ job \in Job \cup {None}
  /\ answer \in Answer \cup {None}
Asked ==
  /\ (job # None /\ job.at = "answer") =>
       (IF Recovering THEN probe ELSE original).pending # None
  /\ Recovering => IsMutation(original.pending)

LEMMA PeerStepTypes ==
  ASSUME TypeOK, UNCHANGED parent, net' \subseteq net \cup Request, PeerTypes', Asked'
  PROVE  TypeOK'
  BY DEF TypeOK, parent, PeerTypes, Asked, Recovering

LEMMA StateConfig ==
  ASSUME TypeOK, state # None
  PROVE  state.config \in Config
  BY DEF TypeOK, State

LEMMA BeginTypes ==
  ASSUME TypeOK, NEW op \in Calls \ {"recover"}, NEW config \in Config, NEW r \in Request,
         Begin(op, config, r), probe' \in Journal
  PROVE  TypeOK'
<1>1. original' = Begun(original, r) /\ original' \in Journal /\ original'.pending = r
  BY JournalSteps, JournalTypes DEF Begin, TypeOK, Begun, Journal
<1>2. job' \in Job /\ job'.op # "recover"
  BY JobSteps DEF Begin, NewJob
<1>3. ~Recovering' /\ original'.pending # None
  BY <1>1, <1>2, RequestTypes DEF Recovering
<1>4. Asked'
  BY <1>3 DEF Asked
<1>5. PeerTypes'
  BY <1>1, <1>2 DEF PeerTypes, TypeOK, Begin, parent, history
<1>6. net' \subseteq net \cup Request /\ UNCHANGED parent
  BY DEF Begin, Send
<1> QED  BY <1>4, <1>5, <1>6, PeerStepTypes

\* The requests a call sends are requests.
LEMMA Requests ==
  /\ \A config \in Config, t \in 1 .. MaxTime, op \in Mutations :
       [op |-> op, body |-> config, time |-> t] \in Request
  /\ \A t \in 1 .. MaxTime : [op |-> "updown-list", body |-> None, time |-> t] \in Request
  BY DEF Request

\* A call of the resource begins with an issuance, a revocation or a list.
Begins(op, config, r) ==
  /\ Begin(op, config, r)
  /\ \/ /\ op \in {"create", "update"} /\ r.op = "updown-issue" /\ r.body = config /\ probe' = NewJournal
     \/ /\ op = "delete" /\ r.op = "updown-revoke" /\ r.body = config /\ probe' = NewJournal
        /\ state # None /\ config = state.config
     \/ /\ op = "refresh" /\ r.op = "updown-list" /\ probe' = probe /\ state # None /\ config = state.config
     \/ /\ op = "import" /\ r.op = "updown-list" /\ probe' = probe /\ state = None

LEMMA BeginCases ==
  ASSUME TypeOK, NEW t \in 1 .. MaxTime, NEW config \in Config,
         Create(config, t) \/ Update(config, t) \/ ImportState(config, t) \/ Delete(t) \/ Read(t)
  PROVE  \E op \in Calls \ {"recover"}, c \in Config, r \in Request : Begins(op, c, r)
<1>1. state # None => state.config \in Config
  BY DEF TypeOK, State
<1>2. CASE Create(config, t)
  BY <1>2, Requests DEF Create, Mutate, Begins, Calls, Mutations
<1>3. CASE Update(config, t)
  BY <1>3, Requests DEF Update, Mutate, Begins, Calls, Mutations
<1>4. CASE ImportState(config, t)
  BY <1>4, Requests DEF ImportState, List, Begins, Calls
<1>5. CASE Delete(t)
  BY <1>1, <1>5, Requests DEF Delete, Mutate, Begins, Calls, Mutations
<1>6. CASE Read(t)
  BY <1>1, <1>6, Requests DEF Read, List, Begins, Calls
<1> QED  BY <1>2, <1>3, <1>4, <1>5, <1>6

\* A call that ends with the journals typed leaves everything typed.
LEMMA EndTypes ==
  ASSUME TypeOK, UNCHANGED <<parent, net>>, Return, original' \in Journal, probe' \in Journal,
         mark' = mark, relied' = relied, recovered' \in BOOLEAN, state' \in State \cup {None}
  PROVE  TypeOK'
<1>1. Asked'
  BY DEF Return, Asked, Recovering
<1>2. PeerTypes'
  BY DEF PeerTypes, TypeOK, parent, Return
<1> QED  BY <1>1, <1>2, PeerStepTypes

\* So does one that goes on to a later stage.
LEMMA GotoTypes ==
  ASSUME TypeOK, UNCHANGED <<parent, net>>, job # None,
         NEW at \in {"path", "commit"}, NEW cert \in Certificate \cup {None}, NEW found \in Inventory \cup {None},
         job' = [job EXCEPT !.at = at, !.cert = cert, !.found = found], answer' \in Answer \cup {None},
         original' \in Journal, probe' \in Journal, mark' \in DOMAIN pubs, relied' \in DOMAIN pubs,
         UNCHANGED <<recovered, state>>, Recovering => original' = original
  PROVE  TypeOK'
<1>1. job \in Job
  BY DEF TypeOK
<1>2. job' \in Job /\ job'.op = job.op /\ job'.at = at
  BY <1>1 DEF Job
<1>3. Asked'
  BY <1>2, JobTypes DEF Asked, TypeOK, Recovering
<1>4. PeerTypes'
  BY <1>2 DEF PeerTypes, TypeOK, parent
<1> QED  BY <1>3, <1>4, PeerStepTypes

LEMMA CompletedTypes ==
  ASSUME TypeOK
  PROVE  /\ Completed(original) \in Journal /\ Completed(probe) \in Journal
         /\ original.pending # None => \A certs \in SUBSET Certificate : CompletedList(original, certs) \in Journal
         /\ probe.pending # None => \A certs \in SUBSET Certificate : CompletedList(probe, certs) \in Journal
         /\ original.pending # None => Abandoned(original) \in Journal
         /\ probe.pending # None => Abandoned(probe) \in Journal
         /\ Reconciled(original, probe) \in Journal
  BY JournalSteps DEF TypeOK

LEMMA ResourceTypes ==
  ASSUME TypeOK, Rejected \/ Issued \/ Revoked \/ Listed \/ VerifyPath \/ Fail
  PROVE  TypeOK'
<1>1. /\ original \in Journal /\ probe \in Journal
      /\ state \in State \cup {None} /\ recovered \in BOOLEAN /\ relied \in DOMAIN pubs
      /\ mark \in DOMAIN pubs /\ job \in Job \cup {None} /\ answer \in Answer \cup {None}
  BY DEF TypeOK
<1>2. CASE Rejected
  BY <1>1, <1>2, EndTypes, CompletedTypes DEF Rejected, parent
<1>3. CASE Issued
  <2>1. answer.cert \in Certificate /\ job # None
    BY <1>1, <1>3, AnswerTypes DEF Issued, Waiting
  <2> QED  BY <1>1, <1>3, <2>1, GotoTypes DEF Issued, Goto, journals, history
<1>4. CASE Revoked
  BY <1>1, <1>4, EndTypes, CompletedTypes DEF Revoked, parent
<1>5. CASE Listed
  <2>1. answer.inventory.certs \subseteq Certificate /\ job # None /\ ~Recovering /\ job.at = "answer"
    BY <1>1, <1>5, AnswerTypes DEF Listed, Waiting
  <2>2. original.pending # None
    BY <2>1 DEF TypeOK
  <2>3. original' \in Journal
    BY <1>5, <2>1, <2>2, CompletedTypes DEF Listed
  <2>4. CASE Return
    BY <1>1, <1>5, <2>3, <2>4, EndTypes DEF Listed, history
  <2>5. ASSUME NEW c \in answer.inventory.certs, Goto("path", c, None), UNCHANGED state
        PROVE  TypeOK'
    BY <1>1, <1>5, <2>1, <2>3, <2>5, GotoTypes DEF Listed, Goto, history
  <2> QED  BY <1>5, <2>4, <2>5 DEF Listed, Selected, OfKey
<1>6. CASE VerifyPath
  <2>1. PICK i \in DOMAIN pubs : mark' = i /\ relied' = i
    BY <1>6 DEF VerifyPath, Remember
  <2>2. job # None /\ job \in Job
    BY <1>1, <1>6 DEF VerifyPath
  <2>3. job' = [job EXCEPT !.at = "commit", !.cert = job.cert, !.found = job.found]
    BY <1>6, <2>2 DEF VerifyPath, Job
  <2> QED  BY <1>1, <1>6, <2>1, <2>2, <2>3, JobTypes, GotoTypes DEF VerifyPath, journals
<1>7. CASE Fail
  BY <1>1, <1>7, EndTypes DEF Fail, journals, history
<1> QED  BY <1>2, <1>3, <1>4, <1>5, <1>6, <1>7

LEMMA CommitTypes ==
  ASSUME TypeOK, Commit, job.config \in Config, job.cert \in Certificate
  PROVE  TypeOK'
<1>1. state' \in State
  BY DEF Commit, State
<1>2. /\ original \in Journal /\ probe \in Journal /\ recovered' \in BOOLEAN
  BY DEF TypeOK, Commit
<1> QED  BY <1>1, <1>2, EndTypes, CompletedTypes DEF Commit

LEMMA RecoveryTypes ==
  ASSUME TypeOK, RecoverRead \/ (\E t \in 1 .. MaxTime : ReadPending(t)) \/ ProbeRejected
                   \/ ProbeIssuance \/ ProbeRevocation \/ VerifyRetirement \/ Reconcile
  PROVE  TypeOK'
<1>1. /\ original \in Journal /\ probe \in Journal
      /\ state \in State \cup {None} /\ recovered \in BOOLEAN /\ relied \in DOMAIN pubs
      /\ mark \in DOMAIN pubs /\ job \in Job \cup {None} /\ answer \in Answer \cup {None}
  BY DEF TypeOK
<1>2. CASE RecoverRead
  <2>1. original' \in Journal /\ probe' \in Journal /\ job = None
    BY <1>1, <1>2, CompletedTypes DEF RecoverRead
  <2>2. PeerTypes' /\ Asked'
    BY <1>1, <1>2, <2>1 DEF RecoverRead, PeerTypes, Asked, Recovering, parent, history
  <2> QED  BY <1>2, <2>2, PeerStepTypes DEF RecoverRead
<1>3. ASSUME NEW t \in 1 .. MaxTime, ReadPending(t) PROVE TypeOK'
  <2>1. PICK r \in Request : r = [op |-> "updown-list", body |-> None, time |-> t]
    BY Requests
  <2>2. probe' = Begun(probe, r) /\ Send(r)
    BY <1>3, <2>1 DEF ReadPending
  <2>3. probe' \in Journal /\ probe'.pending = r
    BY <1>1, <2>2, JournalSteps DEF Begun, Journal
  <2>4. original.pending.body \in Config
    BY <1>1, <1>3, JournalTypes, RequestTypes, NoneIsNoMutation DEF ReadPending
  <2>5. job' \in Job /\ job'.op = "recover"
    BY <1>3, <2>4, JobSteps DEF ReadPending, NewJob, Calls
  <2>6. Asked'
    BY <1>3, <2>3, <2>5, RequestTypes DEF Asked, Recovering, ReadPending, IsMutation
  <2>7. PeerTypes'
    BY <1>1, <1>3, <2>3, <2>5 DEF PeerTypes, ReadPending, parent, history
  <2>8. net' \subseteq net \cup Request /\ UNCHANGED parent
    BY <1>3, <2>2 DEF ReadPending, Send
  <2> QED  BY <2>6, <2>7, <2>8, PeerStepTypes
<1>4. CASE ProbeRejected
  BY <1>1, <1>4, EndTypes, CompletedTypes DEF ProbeRejected, history
<1>5. ASSUME Waiting, Recovering, answer.kind = "list", probe' = CompletedList(probe, answer.inventory.certs)
      PROVE  /\ probe' \in Journal /\ answer.inventory.certs \subseteq Certificate
             /\ answer.inventory \in Inventory /\ job # None
  <2>1. answer.inventory \in Inventory /\ answer.inventory.certs \subseteq Certificate /\ job # None /\ job.at = "answer"
    BY <1>1, <1>5, AnswerTypes DEF Waiting
  <2>2. probe.pending # None
    BY <1>5, <2>1 DEF TypeOK
  <2> QED  BY <1>5, <2>1, <2>2, CompletedTypes
<1>6. CASE ProbeIssuance
  <2>1. CASE Return
    BY <1>1, <1>5, <1>6, <2>1, EndTypes DEF ProbeIssuance, Issuance, history
  <2>2. ASSUME NEW c \in answer.inventory.certs, Goto("path", c, None) PROVE TypeOK'
    BY <1>1, <1>5, <1>6, <2>2, GotoTypes DEF ProbeIssuance, Issuance, Goto, history
  <2> QED  BY <1>6, <2>1, <2>2 DEF ProbeIssuance, Selected, OfKey
<1>7. CASE ProbeRevocation
  BY <1>1, <1>5, <1>7, GotoTypes DEF ProbeRevocation, Revocation, Goto, history
<1>8. CASE VerifyRetirement
  <2>1. PICK i \in DOMAIN pubs : mark' = i /\ relied' = i
    BY <1>8 DEF VerifyRetirement, Remember
  <2>2. job # None /\ job \in Job
    BY <1>1, <1>8 DEF VerifyRetirement
  <2>3. job' = [job EXCEPT !.at = "commit", !.cert = job.cert, !.found = None]
    BY <1>8, <2>2 DEF VerifyRetirement, Job
  <2> QED  BY <1>1, <1>8, <2>1, <2>2, <2>3, JobTypes, GotoTypes DEF VerifyRetirement, journals
<1>9. CASE Reconcile
  <2>1. recovered' \in BOOLEAN
    BY <1>9 DEF Reconcile, Issuance, Recovering
  <2> QED  BY <1>1, <1>9, <2>1, EndTypes, CompletedTypes DEF Reconcile
<1> QED  BY <1>2, <1>3, <1>4, <1>6, <1>7, <1>8, <1>9

\* The parent's inventory and counters keep their domains when it executes a
\* request, and its answers are answers.
LEMMA ExecuteTypes ==
  ASSUME TypeOK, NEW r \in Request, IsMutation(r), Execute(r)
  PROVE  listed' \in Inventory /\ revoked' \subseteq 1 .. MaxSerial /\ serial' \in 0 .. MaxSerial
<1>1. listed.certs \subseteq Certificate /\ listed \in Inventory /\ serial \in 0 .. MaxSerial
      /\ revoked \subseteq 1 .. MaxSerial /\ MaxSerial \in Nat
  BY BoundsAssumption DEF TypeOK, Inventory
<1>2. revoked' \subseteq 1 .. MaxSerial
  BY <1>1, CertificateTypes DEF Execute, OfKey
<1>3. r.body.key \in Keys /\ r.body.want \in Wants
  BY RequestTypes, ConfigTypes
<1>4. CASE r.op = "updown-issue"
  <2>1. serial < MaxSerial /\ serial' = serial + 1
    BY <1>4 DEF Execute
  <2>2. serial + 1 \in 1 .. MaxSerial /\ serial' \in 0 .. MaxSerial
    BY <1>1, <2>1
  <2>3. [key |-> r.body.key, want |-> r.body.want, serial |-> serial + 1] \in Certificate
    BY <1>3, <2>2 DEF Certificate
  <2>4. PICK certs \in SUBSET Certificate : listed' = [class |-> TRUE, certs |-> certs]
    BY <1>1, <1>4, <2>3 DEF Execute
  <2>5. listed' \in Inventory
    BY <2>4 DEF Inventory
  <2> QED  BY <1>2, <2>2, <2>5
<1>5. CASE r.op # "updown-issue"
  <2>1. serial' = serial /\ listed' = [listed EXCEPT !.certs = @ \ OfKey(listed.certs, r.body.key)]
    BY <1>5 DEF Execute
  <2>2. listed' \in Inventory
    BY <1>1, <2>1 DEF Inventory
  <2> QED  BY <1>1, <1>2, <2>1, <2>2
<1> QED  BY <1>4, <1>5

LEMMA OutcomeTypes ==
  ASSUME TypeOK, NEW r \in Request, IsMutation(r), Execute(r)
  PROVE  Outcome(r) \in Answer
<1>1. r.body.key \in Keys /\ r.body.want \in Wants
  BY RequestTypes, ConfigTypes
<1>2. CASE r.op = "updown-issue"
  <2>1. serial < MaxSerial /\ serial \in Nat /\ MaxSerial \in Nat
    BY <1>2, StateTypes, BoundsAssumption DEF Execute
  <2>2. [key |-> r.body.key, want |-> r.body.want, serial |-> serial + 1] \in Certificate
    BY <1>1, <2>1 DEF Certificate
  <2> QED  BY <1>2, <2>2 DEF Outcome, Answer
<1>3. CASE r.op # "updown-issue"
  BY <1>3 DEF Outcome, Kind, Answer
<1> QED  BY <1>2, <1>3

\* What must be typed again after a step that leaves the peer alone.
ParentTypes ==
  /\ listed \in Inventory /\ revoked \cup expired \subseteq 1 .. MaxSerial
  /\ scheduled \in Request \cup {None} /\ serial \in 0 .. MaxSerial /\ accepted \in 0 .. MaxTime
  /\ pubs \in Seq(Publication) /\ Len(pubs) \in 1 .. MaxPubs
  /\ mark \in DOMAIN pubs /\ relied \in DOMAIN pubs /\ answer \in Answer \cup {None}

LEMMA ParentStepTypes ==
  ASSUME TypeOK, UNCHANGED local, net' \subseteq net, ParentTypes'
  PROVE  TypeOK'
<1>1. net' \subseteq Request
  BY DEF TypeOK
<1> QED  BY <1>1 DEF TypeOK, local, history, ParentTypes, Recovering

LEMMA ToldTypes ==
  ASSUME TypeOK, NEW r, NEW a \in Answer, Told(r, a)
  PROVE  answer' \in Answer \cup {None}
  BY DEF TypeOK, Told

LEMMA ParentTypesKept ==
  ASSUME TypeOK, NEW r \in net, Drop(r) \/ ServeMutation(r) \/ ServeList(r)
  PROVE  TypeOK'
<1>1. ParentTypes /\ r \in Request /\ net' \subseteq net /\ UNCHANGED <<expired, pubs, journals, mark, state, job, history>>
  BY DEF TypeOK, ParentTypes, Receive, Drop, ServeMutation, ServeList
<1>2. UNCHANGED local
  BY <1>1 DEF local, journals, history
<1>3. Kind("rejected") \in Answer /\ r.time \in 0 .. MaxTime
  BY <1>1, RequestTypes, BoundsAssumption DEF Kind, Answer
<1>4. CASE Drop(r)
  BY <1>1, <1>2, <1>4, ParentStepTypes DEF Drop, ParentTypes, history
<1>5. CASE ServeMutation(r)
  <2>1. IsMutation(r) /\ accepted' = r.time
    BY <1>5 DEF ServeMutation
  <2>2. CASE Execute(r) /\ Told(r, Outcome(r)) /\ UNCHANGED scheduled
    <3>1. answer' \in Answer \cup {None}
      BY <1>1, <2>1, <2>2, OutcomeTypes, ToldTypes
    <3>2. listed' \in Inventory /\ revoked' \subseteq 1 .. MaxSerial /\ serial' \in 0 .. MaxSerial
      BY <1>1, <2>1, <2>2, ExecuteTypes
    <3> QED  BY <1>1, <1>2, <1>3, <2>1, <2>2, <3>1, <3>2, ParentStepTypes DEF ParentTypes, history
  <2>3. CASE scheduled' = r /\ UNCHANGED <<listed, revoked, serial, answer>>
    BY <1>1, <1>2, <1>3, <2>1, <2>3, ParentStepTypes DEF ParentTypes, history
  <2>4. CASE Told(r, Kind("rejected")) /\ UNCHANGED <<listed, revoked, scheduled, serial>>
    <3>1. answer' \in Answer \cup {None}
      BY <1>3, <2>4, ToldTypes
    <3> QED  BY <1>1, <1>2, <1>3, <2>1, <2>4, <3>1, ParentStepTypes DEF ParentTypes, history
  <2>5. CASE UNCHANGED <<listed, revoked, scheduled, serial, answer>>
    BY <1>1, <1>2, <1>3, <2>1, <2>5, ParentStepTypes DEF ParentTypes, history
  <2> QED  BY <1>5, <2>2, <2>3, <2>4, <2>5 DEF ServeMutation
<1>6. CASE ServeList(r)
  <2>1. [kind |-> "list", inventory |-> listed] \in Answer
    BY DEF TypeOK, Answer
  <2>2. answer' \in Answer \cup {None}
    BY <1>3, <1>6, <2>1, ToldTypes DEF ServeList
  <2> QED  BY <1>1, <1>2, <1>3, <1>6, <2>2, ParentStepTypes DEF ServeList, ParentTypes, history
<1> QED  BY <1>4, <1>5, <1>6

LEMMA RepositoryTypes ==
  ASSUME TypeOK, ScheduledInv, ExecuteScheduled \/ Withdraw \/ Expire \/ Publish
  PROVE  TypeOK'
<1>1. ParentTypes /\ listed.certs \subseteq Certificate
  BY DEF TypeOK, ParentTypes, Inventory
<1>2. UNCHANGED local /\ UNCHANGED <<net, accepted, answer>>
  BY DEF local, journals, history, ExecuteScheduled, Withdraw, Expire, Publish
<1>3. CASE ExecuteScheduled
  <2>1. scheduled \in Request /\ IsMutation(scheduled) /\ Execute(scheduled) /\ scheduled' = None
    BY <1>1, <1>3 DEF ExecuteScheduled, ParentTypes, ScheduledInv
  <2>2. listed' \in Inventory /\ revoked' \subseteq 1 .. MaxSerial /\ serial' \in 0 .. MaxSerial
    BY <2>1, ExecuteTypes
  <2>3. UNCHANGED <<expired, pubs, mark, relied>>
    BY <1>3 DEF ExecuteScheduled, history
  <2> QED  BY <1>1, <1>2, <2>1, <2>2, <2>3, ParentStepTypes DEF ParentTypes
<1>4. CASE Withdraw
  <2>1. listed' \in Inventory /\ revoked' \subseteq 1 .. MaxSerial
    BY <1>1, <1>4, CertificateTypes DEF Withdraw, Inventory, ParentTypes
  <2>2. UNCHANGED <<expired, serial, pubs, mark, relied>> /\ scheduled' = None
    BY <1>4 DEF Withdraw, history
  <2> QED  BY <1>1, <1>2, <2>1, <2>2, ParentStepTypes DEF ParentTypes
<1>5. CASE Expire
  <2>1. PICK c \in listed.certs :
          expired' = expired \cup {c.serial} /\ listed' = [listed EXCEPT !.certs = @ \ {c}]
    BY <1>5 DEF Expire
  <2>2. listed' \in Inventory /\ expired' \subseteq 1 .. MaxSerial
    BY <1>1, <2>1, CertificateTypes DEF Inventory, ParentTypes
  <2>3. UNCHANGED <<revoked, serial, scheduled, pubs, mark, relied>>
    BY <1>5 DEF Expire, history
  <2> QED  BY <1>1, <1>2, <2>2, <2>3, ParentStepTypes DEF ParentTypes
<1>6. CASE Publish
  <2> DEFINE next == [certs |-> listed.certs, crl |-> revoked]
  <2>1. next \in Publication /\ pubs' = Append(pubs, next) /\ Len(pubs) < MaxPubs
    BY <1>1, <1>6 DEF Publish, Publication, ParentTypes
  <2> HIDE DEF next
  <2>2. pubs \in Seq(Publication) /\ Len(pubs) \in 1 .. MaxPubs /\ MaxPubs \in Nat
    BY <1>1, BoundsAssumption DEF ParentTypes
  <2>3. pubs' \in Seq(Publication) /\ Len(pubs') = Len(pubs) + 1 /\ DOMAIN pubs' = 1 .. (Len(pubs) + 1)
        /\ DOMAIN pubs = 1 .. Len(pubs)
    BY <2>1, <2>2
  <2>4. Len(pubs') \in 1 .. MaxPubs /\ DOMAIN pubs \subseteq DOMAIN pubs'
    BY <2>1, <2>2, <2>3
  <2>5. UNCHANGED <<listed, revoked, expired, serial, scheduled, mark, relied>>
    BY <1>6 DEF Publish, history
  <2> QED  BY <1>1, <1>2, <2>3, <2>4, <2>5, ParentStepTypes DEF ParentTypes
<1> QED  BY <1>3, <1>4, <1>5, <1>6
-----------------------------------------------------------------------------
(* The inventory and the publications *)

LEMMA RepositoryKept ==
  ASSUME TypeOK, RepositoryInv, UNCHANGED pubs, serial' \in Nat, serial <= serial',
         revoked \subseteq revoked', expired \subseteq expired',
         \A c \in listed'.certs : c.serial <= serial' /\ (c \in listed.certs \/ c.serial > serial),
         \A c \in listed.certs : c \in listed'.certs \/ c.serial \in revoked' \cup expired'
  PROVE  RepositoryInv'
<1>1. ASSUME NEW m \in DOMAIN pubs, NEW c \in pubs[m].certs
      PROVE  /\ c.serial <= serial' /\ (c \in listed'.certs \/ c.serial \in revoked' \cup expired')
             /\ \A i \in m .. Len(pubs) :
                  /\ c \in listed'.certs => c \in pubs[i].certs
                  /\ c \in pubs[i].certs \/ c.serial \in pubs[i].crl \cup expired'
  <2>1. c.serial <= serial /\ c.serial \in Nat /\ serial \in Nat
    BY StateTypes, CertificateTypes DEF RepositoryInv
  <2>2. c.serial <= serial' /\ (c \in listed'.certs => c \in listed.certs)
    BY <2>1
  <2>3. c \in listed'.certs \/ c.serial \in revoked' \cup expired'
    BY DEF RepositoryInv
  <2>4. \A i \in m .. Len(pubs) :
          /\ c \in listed'.certs => c \in pubs[i].certs
          /\ c \in pubs[i].certs \/ c.serial \in pubs[i].crl \cup expired'
    BY <2>2 DEF RepositoryInv
  <2> QED  BY <2>2, <2>3, <2>4
<1> QED  BY <1>1 DEF RepositoryInv

LEMMA ExecuteRepository ==
  ASSUME TypeOK, RepositoryInv, NEW r \in Request, IsMutation(r), Execute(r), UNCHANGED <<pubs, expired>>
  PROVE  RepositoryInv'
<1>1. serial \in Nat /\ listed.certs \subseteq Certificate
  BY StateTypes
<1> DEFINE old == OfKey(listed.certs, r.body.key)
<1>2. revoked \subseteq revoked' /\ \A c \in old : c.serial \in revoked'
  BY DEF Execute
<1>3. \A c \in listed.certs : c.serial <= serial /\ c.serial \in Nat
  BY <1>1, CertificateTypes DEF RepositoryInv
<1>4. CASE r.op = "updown-issue"
  <2> DEFINE new == [key |-> r.body.key, want |-> r.body.want, serial |-> serial + 1]
  <2>1. serial' = serial + 1 /\ listed'.certs = (listed.certs \ old) \cup {new}
    BY <1>4 DEF Execute
  <2>2. new.serial = serial + 1
    OBVIOUS
  <2>3. \A c \in listed'.certs : c.serial <= serial' /\ (c \in listed.certs \/ c.serial > serial)
    BY <1>1, <1>3, <2>1, <2>2
  <2> QED  BY <1>1, <1>2, <2>1, <2>3, RepositoryKept
<1>5. CASE r.op # "updown-issue"
  <2>1. serial' = serial /\ listed'.certs = listed.certs \ old
    <3>1. listed \in Inventory
      BY DEF TypeOK
    <3> QED  BY <1>5, <3>1 DEF Execute, Inventory
  <2> QED  BY <1>1, <1>2, <1>3, <2>1, RepositoryKept
<1> QED  BY <1>4, <1>5

\* A key stays gone while no certificate of it is issued or scheduled.
LEMMA NoReturnKept ==
  ASSUME NEW k, NEW m, NoReturn(k, m), UNCHANGED pubs, Missing(k) => Missing(k)'
  PROVE  NoReturn(k, m)'
  BY DEF NoReturn, Gone

LEMMA NoReturnLater ==
  ASSUME TypeOK, NEW k, NEW m \in DOMAIN pubs, NEW n \in DOMAIN pubs, m <= n, NoReturn(k, m)
  PROVE  NoReturn(k, n)
<1>1. \A i \in n .. Len(pubs) : i \in m .. Len(pubs)
  BY StateTypes
<1> QED  BY <1>1 DEF NoReturn

LEMMA SolidKept ==
  ASSUME NEW c, Solid(c), UNCHANGED pubs, Missing(c.key) => Missing(c.key)'
  PROVE  Solid(c)'
  BY DEF Solid, NoReturn, Gone

\* The next publication of the inventory brings no key back either, unless the
\* parent has scheduled an issuance of a key it has no certificate of.
LEMMA NextPublication ==
  ASSUME TypeOK, Publish
  PROVE  /\ Len(pubs') = Len(pubs) + 1 /\ \A i \in DOMAIN pubs : pubs'[i] = pubs[i]
         /\ pubs'[Len(pubs) + 1] = [certs |-> listed.certs, crl |-> revoked]
         /\ DOMAIN pubs' = 1 .. (Len(pubs) + 1)
<1>1. PICK next : next = [certs |-> listed.certs, crl |-> revoked] /\ pubs' = Append(pubs, next)
  BY DEF Publish
<1>2. pubs \in Seq(Publication)
  BY DEF TypeOK
<1>3. Len(pubs') = Len(pubs) + 1 /\ \A i \in DOMAIN pubs : pubs'[i] = pubs[i]
  BY <1>1, <1>2
<1>4. pubs'[Len(pubs) + 1] = next /\ DOMAIN pubs' = 1 .. (Len(pubs) + 1)
  BY <1>1, <1>2
<1> QED  BY <1>1, <1>3, <1>4

LEMMA PublishNoReturn ==
  ASSUME TypeOK, Publish, NEW k, NEW m \in DOMAIN pubs, NoReturn(k, m), SchedulesListed(k)
  PROVE  NoReturn(k, m)'
<1>1. Len(pubs) \in Nat /\ m \in Nat /\ m <= Len(pubs) /\ DOMAIN pubs = 1 .. Len(pubs) /\ m >= 1
  BY StateTypes
<1>2. /\ Len(pubs') = Len(pubs) + 1 /\ \A i \in DOMAIN pubs : pubs'[i] = pubs[i]
      /\ pubs'[Len(pubs) + 1].certs = listed.certs
  BY NextPublication
<1>3. Missing(k)' <=> Missing(k)
  BY DEF Publish, Missing
<1>4. \A i \in m .. Len(pubs) : i \in DOMAIN pubs
  BY <1>1
<1>5. \A i \in m .. Len(pubs) : (OfKey(pubs'[i].certs, k) = {}) <=> Gone(k, i)
  BY <1>2, <1>4 DEF Gone
<1>6. OfKey(listed.certs, k) = {} => Missing(k)
  BY DEF SchedulesListed, Missing
<1>7. ASSUME NEW i \in m .. Len(pubs'), OfKey(pubs'[i].certs, k) = {}
      PROVE  Missing(k) /\ \A j \in i .. Len(pubs') : OfKey(pubs'[j].certs, k) = {}
  <2>1. CASE i = Len(pubs) + 1
    <3>1. \A j \in i .. Len(pubs') : j = i
      BY <1>1, <1>2, <2>1
    <3> QED  BY <1>2, <1>6, <1>7, <2>1, <3>1
  <2>2. CASE i # Len(pubs) + 1
    <3>1. i \in m .. Len(pubs)
      BY <1>1, <1>2, <2>2
    <3>2. Missing(k) /\ \A j \in i .. Len(pubs) : Gone(k, j)
      BY <1>5, <1>7, <3>1 DEF NoReturn
    <3>3. \A j \in i .. Len(pubs') : j \in i .. Len(pubs) \/ j = Len(pubs) + 1
      BY <1>1, <1>2, <3>1
    <3>4. \A j \in i .. Len(pubs) : j \in m .. Len(pubs)
      BY <1>1, <3>1
    <3>5. OfKey(listed.certs, k) = {}
      BY <3>2 DEF Missing
    <3> QED  BY <1>2, <1>5, <3>2, <3>3, <3>4, <3>5
  <2> QED  BY <2>1, <2>2
<1> QED  BY <1>3, <1>7 DEF NoReturn, Gone

LEMMA PublishSolid ==
  ASSUME TypeOK, Publish, NEW c, Solid(c), SchedulesListed(c.key)
  PROVE  Solid(c)'
<1>1. Len(pubs) \in Nat /\ DOMAIN pubs = 1 .. Len(pubs)
  BY StateTypes
<1>2. /\ Len(pubs') = Len(pubs) + 1 /\ DOMAIN pubs' = 1 .. (Len(pubs) + 1)
      /\ \A i \in DOMAIN pubs : pubs'[i] = pubs[i]
      /\ pubs'[Len(pubs) + 1].certs = listed.certs
  BY NextPublication
<1>3. ASSUME NEW m \in DOMAIN pubs', c \in pubs'[m].certs
      PROVE  NoReturn(c.key, m)'
  <2>1. CASE m = Len(pubs) + 1
    <3>1. \A i \in m .. Len(pubs') : i = m
      BY <1>1, <1>2, <2>1
    <3>2. \A i \in m .. Len(pubs') : OfKey(pubs'[i].certs, c.key) # {}
      BY <1>3, <3>1 DEF OfKey
    <3> QED  BY <3>2 DEF NoReturn, Gone
  <2>2. CASE m # Len(pubs) + 1
    <3>1. m \in DOMAIN pubs /\ c \in pubs[m].certs
      BY <1>1, <1>2, <1>3, <2>2
    <3>2. NoReturn(c.key, m)
      BY <3>1 DEF Solid
    <3> QED  BY <3>1, <3>2, PublishNoReturn
  <2> QED  BY <2>1, <2>2
<1> QED  BY <1>3 DEF Solid

\* A certificate of the inventory is in all publications since its first, and
\* one that is just issued is in none.
LEMMA ListedIsSolid ==
  ASSUME TypeOK, RepositoryInv, NEW c \in listed.certs
  PROVE  Solid(c)
<1>1. ASSUME NEW m \in DOMAIN pubs, c \in pubs[m].certs, NEW i \in m .. Len(pubs), Gone(c.key, i)
      PROVE  FALSE
  BY <1>1 DEF RepositoryInv, Gone, OfKey
<1> QED  BY <1>1 DEF Solid, NoReturn

LEMMA IssuedIsSolid ==
  ASSUME TypeOK, RepositoryInv, UNCHANGED pubs, NEW c, c.serial = serial + 1
  PROVE  Solid(c)'
<1>1. ASSUME NEW m \in DOMAIN pubs, c \in pubs[m].certs
      PROVE  FALSE
  BY <1>1, StateTypes DEF RepositoryInv
<1> QED  BY <1>1 DEF Solid

\* Neither receiving a list nor executing what was scheduled brings a key back
\* that neither is listed nor scheduled, nor takes the inventory from under the
\* schedule.
LEMMA MissingKept ==
  ASSUME TypeOK, ScheduledInv,
         \/ UNCHANGED <<listed, scheduled>> \/ ExecuteScheduled \/ Withdraw \/ Expire,
         NEW k
  PROVE  (Missing(k) => Missing(k)') /\ (SchedulesListed(k) => SchedulesListed(k)')
<1>1. CASE UNCHANGED <<listed, scheduled>>
  BY <1>1 DEF Missing, SchedulesListed
<1>2. CASE ExecuteScheduled
  <2>1. scheduled # None /\ Execute(scheduled) /\ scheduled' = None /\ ~Issue(scheduled')
    BY <1>2, NoneIsNoMutation DEF ExecuteScheduled
  <2>2. listed \in Inventory
    BY DEF TypeOK
  <2>3. CASE scheduled.op = "updown-issue"
    BY <2>1, <2>3 DEF Execute, Missing, SchedulesListed, OfKey, Issue
  <2>4. CASE scheduled.op # "updown-issue"
    <3>1. listed'.certs \subseteq listed.certs
      BY <2>1, <2>2, <2>4 DEF Execute, Inventory
    <3> QED  BY <2>1, <3>1 DEF Missing, SchedulesListed, OfKey
  <2> QED  BY <2>3, <2>4
<1>3. CASE Withdraw
  <2>1. listed'.certs = {} /\ ~Issue(scheduled')
    BY <1>3, NoneIsNoMutation DEF Withdraw
  <2> QED  BY <2>1 DEF Missing, SchedulesListed, OfKey
<1>4. CASE Expire
  <2>1. ~Issue(scheduled') /\ listed \in Inventory
    BY <1>4, NoneIsNoMutation DEF Expire, TypeOK
  <2>2. listed'.certs \subseteq listed.certs
    BY <1>4, <2>1 DEF Expire, Inventory
  <2> QED  BY <2>1, <2>2 DEF Missing, SchedulesListed, OfKey
<1> QED  BY <1>1, <1>2, <1>3, <1>4

\* Only an issuance that is still in doubt is scheduled for a key the parent
\* has no certificate of.
LEMMA InDoubt ==
  ASSUME IInv, NEW k, ~SchedulesListed(k)
  PROVE  /\ Issue(original.pending) /\ original.pending.body.key = k /\ original.pending \notin net
         /\ Learnt => Recovering /\ job.config.key = k
<1>1. Issue(scheduled) /\ scheduled.body.key = k /\ OfKey(listed.certs, k) = {}
  BY DEF SchedulesListed
<1>2. scheduled # None
  BY <1>1 DEF Issue
<1>3. /\ scheduled = original.pending /\ scheduled \notin net
      /\ job # None /\ ~Recovering => job.at = "answer" /\ answer = None
  BY <1>1, <1>2 DEF IInv, ScheduledInv
<1>4. Learnt => job # None
  BY DEF IInv, CallInv, Learnt
<1>5. Recovering => job.config = original.pending.body
  BY DEF IInv, CallInv
<1> QED  BY <1>1, <1>3, <1>4, <1>5 DEF Learnt

\* The steps of the parent that answer nobody keep what the peer knows.
KeyKept(k) ==
  /\ (Missing(k) => Missing(k)') /\ (SchedulesListed(k) => SchedulesListed(k)')
  /\ SchedulesListed(k) => \A m \in DOMAIN pubs : NoReturn(k, m) => NoReturn(k, m)'
SolidsKept == \A c : SchedulesListed(c.key) /\ Solid(c) => Solid(c)'

\* The fields of a job, and of an answer, name what they name.
LEMMA JobConfig ==
  ASSUME IInv, job # None
  PROVE  job \in Job /\ job.config \in Config /\ job.config.key \in Keys
  BY ConfigTypes, JobTypes DEF IInv, TypeOK, CallInv

LEMMA KeptKeyInv ==
  ASSUME IInv, UNCHANGED <<original, mark>>, net' \subseteq net, \A k \in Keys : KeyKept(k)
  PROVE  KeyInv'
<1>1. PICK m : m = mark
  OBVIOUS
<1>2. m \in DOMAIN pubs /\ mark' = m
  BY <1>1 DEF IInv, TypeOK
<1>3. ASSUME NEW k \in Keys
      PROVE  \/ Issue(original.pending) /\ original.pending.body.key = k /\ original.pending \notin net'
             \/ NoReturn(k, m)'
  <2>1. CASE SchedulesListed(k) /\ NoReturn(k, m)
    BY <1>2, <2>1 DEF KeyKept
  <2>2. CASE ~(SchedulesListed(k) /\ NoReturn(k, m))
    BY <1>1, <2>2, InDoubt DEF IInv, KeyInv
  <2> QED  BY <2>1, <2>2
<1> QED  BY <1>2, <1>3 DEF KeyInv

LEMMA KeptAnswerInv ==
  ASSUME IInv, UNCHANGED <<original, probe, mark, job, answer>>,
         \A k \in Keys : KeyKept(k), SolidsKept
  PROVE  AnswerInv'
<1> SUFFICES ASSUME answer # None PROVE AnswerInv'
  BY DEF AnswerInv
<1>1. /\ Learnt /\ job # None /\ AnswerInv
  BY DEF IInv, CallInv, Learnt
<1>2. PICK m, a, k : m = mark /\ a = answer /\ k = job.config.key
  OBVIOUS
<1>3. /\ m \in DOMAIN pubs /\ mark' = m /\ answer' = a /\ job'.config.key = k /\ k \in Keys /\ a \in Answer
  BY <1>1, <1>2, JobConfig DEF IInv, TypeOK
<1>4. /\ KeyKept(k)
      /\ ~Recovering => \A n : SchedulesListed(n)
      /\ \A n : SchedulesListed(n) \/ n = k
  BY <1>1, <1>2, <1>3, InDoubt
<1>5. Recovering' = Recovering
  BY DEF Recovering
<1>6. a.kind = "issued" =>
        ~Recovering /\ Issue(original.pending) /\ a.cert.key = k /\ Solid(a.cert)'
  BY <1>1, <1>2, <1>4 DEF AnswerInv, SolidsKept
<1>7. a.kind = "revoked" => ~Recovering /\ job.op = "delete" /\ Missing(k)'
  BY <1>1, <1>2, <1>4 DEF AnswerInv, KeyKept
<1>8. a.kind = "rejected" /\ ~Recovering /\ Issue(original.pending) => NoReturn(k, m)'
  BY <1>1, <1>2, <1>3, <1>4 DEF AnswerInv, KeyKept
<1>9. ASSUME a.kind = "list"
      PROVE  /\ ~Recovering => /\ job.op \in {"refresh", "import"}
                               /\ \A n \in Keys : OfKey(a.inventory.certs, n) = {} => Missing(n)'
             /\ \A c \in a.inventory.certs : Solid(c)'
             /\ Recovering /\ OfKey(a.inventory.certs, k) # {} => SchedulesListed(k)'
  <2>1. ~Recovering => /\ job.op \in {"refresh", "import"}
                       /\ \A n \in Keys : OfKey(a.inventory.certs, n) = {} => Missing(n)'
    BY <1>1, <1>2, <1>9 DEF AnswerInv, KeyKept
  <2>2. Recovering /\ OfKey(a.inventory.certs, k) # {} => SchedulesListed(k) /\ SchedulesListed(k)'
    BY <1>1, <1>2, <1>4, <1>9 DEF AnswerInv, KeyKept
  <2>3. ASSUME NEW c \in a.inventory.certs PROVE Solid(c)'
    <3>1. Solid(c)
      BY <1>1, <1>2, <1>9 DEF AnswerInv
    <3>2. c.key = k => OfKey(a.inventory.certs, k) # {}
      BY DEF OfKey
    <3>3. SchedulesListed(c.key)
      BY <1>4, <2>2, <3>2
    <3> QED  BY <3>1, <3>3 DEF SolidsKept
  <2> QED  BY <2>1, <2>2, <2>3
<1> QED  BY <1>3, <1>5, <1>6, <1>7, <1>8, <1>9 DEF AnswerInv

LEMMA KeptFoundInv ==
  ASSUME IInv, UNCHANGED <<original, probe, mark, job>>, \A i \in DOMAIN pubs : pubs'[i] = pubs[i],
         \A k \in Keys : KeyKept(k), SolidsKept
  PROVE  FoundInv'
<1> SUFFICES ASSUME job # None, job.at # "answer" PROVE FoundInv'
  BY DEF FoundInv
<1>1. FoundInv /\ Learnt
  BY DEF IInv, Learnt
<1>2. PICK m, j, k : m = mark /\ j = job /\ k = job.config.key
  OBVIOUS
<1>3. m \in DOMAIN pubs /\ mark' = m /\ job' = j /\ k \in Keys /\ pubs'[m] = pubs[m]
  BY <1>2, JobConfig DEF IInv, TypeOK
<1>4. /\ Recovering' = Recovering /\ Revocation' = Revocation
  BY DEF Recovering, Revocation
<1>5. CASE Revocation
  BY <1>1, <1>2, <1>3, <1>4, <1>5 DEF FoundInv, Gone
<1>6. CASE ~Revocation
  <2>1. /\ j.cert # None /\ j.found = None /\ j.cert.key = k /\ Solid(j.cert)
        /\ j.at = "commit" => j.cert \in pubs[m].certs
        /\ Recovering => SchedulesListed(k)
    BY <1>1, <1>2, <1>6 DEF FoundInv
  <2>2. SchedulesListed(k)
    BY <1>1, <1>2, <2>1, InDoubt
  <2>3. Solid(j.cert)' /\ SchedulesListed(k)'
    BY <1>3, <2>1, <2>2 DEF SolidsKept, KeyKept
  <2> QED  BY <1>2, <1>3, <1>4, <1>6, <2>1, <2>3 DEF FoundInv
<1> QED  BY <1>5, <1>6

LEMMA NetTypes ==
  ASSUME TypeOK, NEW r \in net
  PROVE  r \in Request /\ r.time \in Nat /\ r # None
  BY RequestTypes DEF TypeOK

LEMMA KeptHistoryInv ==
  ASSUME IInv, UNCHANGED <<mark, state, relied>>, \A i \in DOMAIN pubs : pubs'[i] = pubs[i]
  PROVE  HistoryInv'
<1>1. \A i \in 1 .. mark : i \in DOMAIN pubs
  BY StateTypes DEF IInv
<1> QED  BY <1>1 DEF IInv, HistoryInv, StateIsCovered

\* Time goes on at the parent, and nothing is sent.
LEMMA KeptTimes ==
  ASSUME IInv, UNCHANGED <<original, probe, job>>, net' \subseteq net,
         accepted' \in Nat, accepted <= accepted', accepted' <= Horizon
  PROVE  JournalInv' /\ Fenced' /\ (Quiet => Quiet')
<1>1. accepted \in Nat /\ \A r \in net : r.time \in Nat
  BY StateTypes, NetTypes DEF IInv
<1>2. Horizon' = Horizon
  BY DEF Horizon
<1>3. JournalInv'
  BY <1>2 DEF IInv, JournalInv
<1>4. Fenced' /\ (Quiet => Quiet')
  BY <1>1 DEF IInv, Fenced, Quiet
<1> QED  BY <1>3, <1>4

LEMMA KeptCallInv ==
  ASSUME IInv, UNCHANGED <<original, probe, job, state>>, Learnt' => Quiet',
         answer' # None => Waiting' /\ (Recovering => accepted' > original.sent),
         accepted \in Nat, accepted' \in Nat, accepted <= accepted'
  PROVE  CallInv'
<1>1. CallInv /\ Recovering' = Recovering
  BY DEF IInv, Recovering
<1>2. Learnt' => Learnt \/ answer' # None
  BY DEF Learnt
<1>3. original.sent \in Nat
  BY StateTypes DEF IInv
<1>4. Recovering /\ Learnt' => accepted' > original.sent
  BY <1>1, <1>2, <1>3 DEF CallInv
<1> QED  BY <1>1, <1>4 DEF CallInv, Waiting

LEMMA QuietParent ==
  ASSUME IInv, UNCHANGED local, UNCHANGED answer, net' \subseteq net, accepted' \in Nat,
         accepted <= accepted', accepted' <= Horizon,
         TypeOK', RepositoryInv', ScheduledInv', \A i \in DOMAIN pubs : pubs'[i] = pubs[i],
         \A k \in Keys : KeyKept(k), SolidsKept
  PROVE  IInv'
<1>1. UNCHANGED <<original, probe, mark, state, job, relied, recovered>>
  BY DEF local, history
<1>2. JournalInv' /\ Fenced' /\ (Quiet => Quiet')
  BY <1>1, KeptTimes
<1>3. accepted \in Nat /\ original.sent \in Nat
  BY StateTypes DEF IInv
<1>4. Learnt' = Learnt
  BY <1>1 DEF Learnt
<1>5. answer' # None => Waiting' /\ (Recovering => accepted' > original.sent)
  BY <1>1, <1>3 DEF IInv, CallInv, Waiting, Learnt
<1>6. CallInv'
  BY <1>1, <1>2, <1>3, <1>4, <1>5, KeptCallInv DEF IInv, CallInv
<1>7. KeyInv' /\ AnswerInv' /\ FoundInv' /\ HistoryInv'
  BY <1>1, KeptKeyInv, KeptAnswerInv, KeptFoundInv, KeptHistoryInv
<1> QED  BY <1>2, <1>6, <1>7 DEF IInv

\* An executed or dropped schedule leaves the parent free, and what is
\* scheduled for a listed key stays so.
LEMMA KeptScheduledInv ==
  ASSUME IInv, UNCHANGED <<original, job>>, net' \subseteq net,
         \/ scheduled' = None
         \/ UNCHANGED <<scheduled, listed>> /\ (answer' = answer \/ scheduled.time < original.sent)
  PROVE  ScheduledInv'
<1>1. Recovering' = Recovering
  BY DEF Recovering
<1>2. CASE scheduled' = None
  BY <1>2 DEF ScheduledInv
<1>3. CASE UNCHANGED <<scheduled, listed>> /\ answer' = answer
  BY <1>1, <1>3 DEF IInv, ScheduledInv
<1>4. CASE UNCHANGED <<scheduled, listed>> /\ scheduled # None /\ scheduled.time < original.sent
  <2>1. /\ original.sent \in Nat
        /\ original.pending # None => original.pending.time = original.sent
    BY StateTypes DEF IInv, JournalInv
  <2>2. scheduled # original.pending
    BY <1>4, <2>1
  <2> QED  BY <1>4, <2>2 DEF IInv, ScheduledInv
<1> QED  BY <1>2, <1>3, <1>4 DEF ScheduledInv

-----------------------------------------------------------------------------
(* The steps of the parent *)

LEMMA SamePublications ==
  ASSUME IInv, UNCHANGED pubs, NEW k, (Missing(k) => Missing(k)') /\ (SchedulesListed(k) => SchedulesListed(k)')
  PROVE  KeyKept(k)
  BY NoReturnKept DEF KeyKept

LEMMA SameSolids ==
  ASSUME UNCHANGED pubs, \A k : Missing(k) => Missing(k)'
  PROVE  SolidsKept
<1>1. ASSUME NEW c, Solid(c) PROVE Solid(c)'
  BY <1>1, SolidKept
<1> QED  BY <1>1 DEF SolidsKept

LEMMA SafeRepository ==
  ASSUME IInv, ExecuteScheduled \/ Withdraw \/ Expire
  PROVE  IInv'
<1>1. TypeOK /\ TypeOK' /\ ScheduledInv /\ JournalInv /\ accepted \in Nat
  BY RepositoryTypes, StateTypes DEF IInv
<1>2. UNCHANGED local /\ UNCHANGED <<answer, net, accepted, pubs, original, job>>
  BY DEF ExecuteScheduled, Withdraw, Expire, local, journals, history
<1>3. \A k \in Keys : KeyKept(k)
  BY <1>1, <1>2, MissingKept, SamePublications
<1>4. SolidsKept
  BY <1>1, <1>2, MissingKept, SameSolids
<1>5. scheduled' = None
  BY DEF ExecuteScheduled, Withdraw, Expire
<1>6. ScheduledInv'
  BY <1>2, <1>5, KeptScheduledInv
<1>7. RepositoryInv'
  <2>1. RepositoryInv /\ listed.certs \subseteq Certificate /\ serial \in Nat /\ listed \in Inventory
    BY StateTypes DEF IInv, TypeOK
  <2>2. \A c \in listed.certs : c.serial <= serial
    BY <2>1 DEF RepositoryInv
  <2>3. CASE ExecuteScheduled
    <3>1. scheduled \in Request /\ IsMutation(scheduled) /\ Execute(scheduled) /\ UNCHANGED <<pubs, expired>>
      BY <1>1, <2>3 DEF ExecuteScheduled, ScheduledInv, TypeOK
    <3> QED  BY <1>1, <2>1, <3>1, ExecuteRepository
  <2>4. CASE Withdraw
    <3>1. listed'.certs = {} /\ serial' = serial /\ expired' = expired
          /\ revoked' = revoked \cup {c.serial : c \in listed.certs}
      BY <2>4 DEF Withdraw
    <3>2. revoked \subseteq revoked' /\ \A c \in listed.certs : c.serial \in revoked'
      BY <3>1
    <3> QED  BY <1>1, <1>2, <2>1, <3>1, <3>2, RepositoryKept
  <2>5. CASE Expire
    <3>1. PICK c \in listed.certs :
            expired' = expired \cup {c.serial} /\ listed' = [listed EXCEPT !.certs = @ \ {c}]
      BY <2>5 DEF Expire
    <3>2. listed'.certs = listed.certs \ {c} /\ serial' = serial /\ revoked' = revoked
      BY <2>1, <2>5, <3>1 DEF Expire, Inventory
    <3> QED  BY <1>1, <1>2, <2>1, <2>2, <3>1, <3>2, RepositoryKept
  <2> QED  BY <2>3, <2>4, <2>5
<1>8. net' \subseteq net /\ accepted <= accepted' /\ accepted' <= Horizon /\ pubs' = pubs
  BY <1>1, <1>2 DEF JournalInv
<1> QED  BY <1>1, <1>2, <1>3, <1>4, <1>6, <1>7, <1>8, QuietParent

LEMMA SafePublish ==
  ASSUME IInv, Publish
  PROVE  IInv'
<1>1. TypeOK /\ TypeOK' /\ ScheduledInv /\ RepositoryInv /\ accepted \in Nat
  BY RepositoryTypes, StateTypes DEF IInv
<1>2. UNCHANGED local /\ UNCHANGED <<answer, net, accepted, listed, scheduled, revoked, expired, serial, original, job>>
  BY DEF Publish, local, journals, history
<1>3. /\ Len(pubs') = Len(pubs) + 1 /\ DOMAIN pubs' = 1 .. (Len(pubs) + 1)
      /\ \A i \in DOMAIN pubs : pubs'[i] = pubs[i]
      /\ pubs'[Len(pubs) + 1].certs = listed.certs /\ pubs'[Len(pubs) + 1].crl = revoked
  BY <1>1, NextPublication
<1>4. Len(pubs) \in Nat /\ DOMAIN pubs = 1 .. Len(pubs)
  BY <1>1, StateTypes
<1>5. ASSUME NEW k \in Keys PROVE KeyKept(k)
  <2>1. (Missing(k) => Missing(k)') /\ (SchedulesListed(k) => SchedulesListed(k)')
    BY <1>2 DEF Missing, SchedulesListed
  <2> QED  BY <1>1, <2>1, PublishNoReturn DEF KeyKept
<1>6. SolidsKept
  BY <1>1, PublishSolid DEF SolidsKept
<1>7. RepositoryInv'
  <2>1. ASSUME NEW m \in DOMAIN pubs', NEW c \in pubs'[m].certs
        PROVE  /\ c.serial <= serial /\ (c \in listed.certs \/ c.serial \in revoked \cup expired)
               /\ \A i \in m .. Len(pubs') :
                    /\ c \in listed.certs => c \in pubs'[i].certs
                    /\ c \in pubs'[i].certs \/ c.serial \in pubs'[i].crl \cup expired
    <3>1. CASE m = Len(pubs) + 1
      <4>1. \A i \in m .. Len(pubs') : i = m
        BY <1>3, <1>4, <3>1
      <4> QED  BY <1>1, <1>3, <2>1, <3>1, <4>1 DEF RepositoryInv
    <3>2. CASE m # Len(pubs) + 1
      <4>1. m \in DOMAIN pubs /\ c \in pubs[m].certs
        BY <1>3, <1>4, <2>1, <3>2
      <4>2. c.serial <= serial /\ (c \in listed.certs \/ c.serial \in revoked \cup expired)
        BY <1>1, <4>1 DEF RepositoryInv
      <4>3. ASSUME NEW i \in m .. Len(pubs')
            PROVE  /\ c \in listed.certs => c \in pubs'[i].certs
                   /\ c \in pubs'[i].certs \/ c.serial \in pubs'[i].crl \cup expired
        <5>1. CASE i = Len(pubs) + 1
          BY <1>3, <4>2, <5>1
        <5>2. CASE i # Len(pubs) + 1
          <6>1. i \in m .. Len(pubs) /\ i \in DOMAIN pubs
            BY <1>3, <1>4, <4>1, <5>2
          <6> QED  BY <1>1, <1>3, <4>1, <6>1 DEF RepositoryInv
        <5> QED  BY <5>1, <5>2
      <4> QED  BY <4>2, <4>3
    <3> QED  BY <3>1, <3>2
  <2> QED  BY <1>1, <1>2, <2>1 DEF RepositoryInv
<1>8. ScheduledInv'
  BY <1>2, KeptScheduledInv
<1>9. net' \subseteq net /\ accepted <= accepted' /\ accepted' <= Horizon
  BY <1>1, <1>2 DEF IInv, JournalInv
<1> QED  BY <1>1, <1>2, <1>3, <1>5, <1>6, <1>7, <1>8, <1>9, QuietParent

\* A request that is received has a time the journals know, and only the
\* pending mutation is ever executed, refused or scheduled, while the call that
\* waits for it has learnt nothing.
LEMMA ReceivedTimes ==
  ASSUME IInv, NEW r \in net, r.time >= accepted, accepted' = r.time
  PROVE  accepted \in Nat /\ accepted' \in Nat /\ accepted <= accepted' /\ accepted' <= Horizon
  BY StateTypes, NetTypes DEF IInv, JournalInv

LEMMA OnlyPending ==
  ASSUME IInv, NEW r \in net, IsMutation(r), r.time >= accepted
  PROVE  /\ r = original.pending /\ ~Learnt /\ answer = None /\ (job # None => job.at = "answer")
         /\ Issue(r) => \A k \in Keys : k = r.body.key => NoReturn(k, mark)
<1>1. r = original.pending
  BY DEF IInv, Fenced
<1>2. ~Quiet
  BY StateTypes, NetTypes DEF Quiet, IInv
<1>3. ~Learnt
  BY <1>2 DEF IInv, CallInv
<1> QED  BY <1>1, <1>3 DEF Learnt, IInv, KeyInv

LEMMA AnsweredTimes ==
  ASSUME IInv, NEW r \in net, Current(r), r.time >= accepted, accepted' = r.time, net' = net \ {r}
  PROVE  /\ Quiet' /\ (Recovering => accepted' > original.sent /\ ~IsMutation(r))
         /\ ~Learnt /\ job # None /\ job.at = "answer" /\ (~Recovering => r = original.pending)
<1>1. /\ job # None /\ job.at = "answer" /\ ~Learnt
      /\ r = IF Recovering THEN probe.pending ELSE original.pending
  BY DEF Current, Learnt
<1>2. /\ accepted \in Nat /\ r.time \in Nat /\ r # None /\ original.sent \in Nat /\ probe.sent \in Nat
  BY StateTypes, NetTypes DEF IInv
<1>3. Recovering => probe.sent > original.sent /\ r.time = probe.sent /\ ~IsMutation(r)
  BY <1>1, <1>2 DEF IInv, CallInv, JournalInv
<1>4. original.pending # None => original.pending.time = original.sent
  BY DEF IInv, JournalInv
<1>5. ASSUME NEW q \in net', IsMutation(q), ~(q.time < accepted')
      PROVE  FALSE
  <2>1. q \in net /\ q # r /\ q.time \in Nat /\ q # None
    BY NetTypes DEF IInv
  <2>2. q = original.pending
    BY <1>2, <1>5, <2>1 DEF IInv, Fenced
  <2> QED  BY <1>1, <1>2, <1>3, <1>4, <1>5, <2>1, <2>2
<1> QED  BY <1>1, <1>2, <1>3, <1>5 DEF Quiet

LEMMA ServedParent ==
  ASSUME IInv, UNCHANGED local, UNCHANGED pubs, ~Learnt, Learnt' => Quiet',
         answer' # None => Waiting' /\ (Recovering => accepted' > original.sent),
         net' \subseteq net, accepted \in Nat, accepted' \in Nat, accepted <= accepted', accepted' <= Horizon,
         TypeOK', RepositoryInv', ScheduledInv', KeyInv', AnswerInv'
  PROVE  IInv'
<1>1. UNCHANGED <<original, probe, mark, state, job, relied, recovered>>
  BY DEF local, history
<1>2. JournalInv' /\ Fenced' /\ CallInv'
  BY <1>1, KeptTimes, KeptCallInv
<1>3. HistoryInv'
  BY <1>1, KeptHistoryInv
<1>4. FoundInv'
  BY <1>1 DEF FoundInv, Learnt
<1> QED  BY <1>2, <1>3, <1>4 DEF IInv

LEMMA ReceiveLocal ==
  ASSUME NEW r, Receive(r)
  PROVE  /\ UNCHANGED local /\ net' = net \ {r} /\ net' \subseteq net
         /\ UNCHANGED <<expired, pubs, original, probe, mark, state, job>>
  BY DEF Receive, local, journals, history

LEMMA SameRepository ==
  ASSUME IInv, UNCHANGED <<listed, revoked, expired, serial, pubs>>
  PROVE  RepositoryInv' /\ \A i \in DOMAIN pubs : pubs'[i] = pubs[i]
  BY DEF IInv, RepositoryInv

\* The parent tells nobody anything: the answer that is there stays.
LEMMA SafeUnanswered ==
  ASSUME IInv, TypeOK', NEW r \in net, Receive(r), accepted' = accepted \/ (r.time >= accepted /\ accepted' = r.time),
         UNCHANGED <<listed, revoked, scheduled, serial, answer>>
  PROVE  IInv'
<1>1. /\ UNCHANGED local /\ net' \subseteq net
      /\ UNCHANGED <<expired, pubs, original, probe, mark, state, job>>
  BY ReceiveLocal
<1>2. accepted \in Nat /\ accepted' \in Nat /\ accepted <= accepted' /\ accepted' <= Horizon
  BY ReceivedTimes, StateTypes DEF IInv, JournalInv
<1>3. RepositoryInv' /\ (\A i \in DOMAIN pubs : pubs'[i] = pubs[i]) /\ ScheduledInv'
  BY <1>1, SameRepository, KeptScheduledInv
<1>4. \A k \in Keys : KeyKept(k)
  BY <1>1, MissingKept, SamePublications DEF IInv
<1>5. SolidsKept
  BY <1>1, MissingKept, SameSolids DEF IInv
<1> QED  BY <1>1, <1>2, <1>3, <1>4, <1>5, QuietParent

\* The answer to the current request of a call: what the call may conclude.
LEMMA SafeServeList ==
  ASSUME IInv, NEW r \in net, ServeList(r)
  PROVE  IInv'
<1>1. /\ ~IsMutation(r) /\ r.time >= accepted /\ accepted' = r.time /\ Receive(r)
      /\ UNCHANGED <<listed, revoked, scheduled, serial>> /\ TypeOK'
      /\ Told(r, [kind |-> "list", inventory |-> listed]) \/ Told(r, Kind("rejected"))
  BY ParentTypesKept DEF ServeList, IInv
<1>2. CASE ~Current(r)
  BY <1>1, <1>2, SafeUnanswered DEF Told
<1>3. CASE Current(r)
  <2>1. PICK a : /\ answer' = a
                 /\ a = [kind |-> "list", inventory |-> listed] \/ a = [kind |-> "rejected"]
    BY <1>1, <1>3 DEF Told, Kind
  <2>2. /\ UNCHANGED local /\ net' = net \ {r} /\ net' \subseteq net
        /\ UNCHANGED <<expired, pubs, original, probe, mark, state, job>>
    BY <1>1, ReceiveLocal
  <2>3. /\ accepted \in Nat /\ accepted' \in Nat /\ accepted <= accepted' /\ accepted' <= Horizon
    BY <1>1, ReceivedTimes
  <2>4. /\ Quiet' /\ (Recovering => accepted' > original.sent)
        /\ ~Learnt /\ job # None /\ job.at = "answer" /\ (~Recovering => r = original.pending)
    BY <1>1, <1>3, <2>2, AnsweredTimes
  <2>5. Recovering' = Recovering /\ Waiting'
    <3>1. listed \in Inventory
      BY DEF IInv, TypeOK
    <3>2. a \in Answer
      BY <2>1, <3>1 DEF Answer
    <3> QED  BY <2>1, <2>2, <2>4, <3>2, NoneIsApart DEF Recovering, Waiting
  <2>6. RepositoryInv'
    BY <1>1, <2>2, SameRepository
  <2>7. \A k : (Missing(k) => Missing(k)') /\ (SchedulesListed(k) => SchedulesListed(k)')
    BY <1>1, <2>2, MissingKept DEF IInv
  <2>8. KeyInv'
    BY <2>2, <2>7, KeptKeyInv, SamePublications
  <2>9. \A c \in listed.certs : Solid(c)'
    BY <2>2, <2>7, ListedIsSolid, SolidKept DEF IInv
  <2>10. ~Recovering => job.op \in {"refresh", "import"} /\ ~Issue(original.pending)
    <3>1. ~Recovering => ~Issue(original.pending) /\ original.pending # None /\ ~IsMutation(original.pending)
      BY <1>1, <2>4, NetTypes, RequestTypes DEF IInv
    <3>2. job.op \in Calls
      BY <2>4, JobTypes DEF IInv, TypeOK
    <3> QED  BY <2>4, <3>1, <3>2 DEF IInv, CallInv, Calls, Recovering, Issue, IsMutation, Mutations
  <2>11. \A k : OfKey(listed.certs, k) # {} => SchedulesListed(k)'
    BY <2>7 DEF SchedulesListed
  <2>12. \A k : ~Issue(original.pending) /\ ~Recovering /\ OfKey(listed.certs, k) = {} => Missing(k)'
    BY <2>4, <2>7, InDoubt DEF Missing, SchedulesListed
  <2>13. AnswerInv'
    <3>1. PICK l, j : l = listed.certs /\ j = job
      OBVIOUS
    <3>2. CASE a = [kind |-> "list", inventory |-> listed]
      <4>1. a.kind = "list" /\ a.inventory.certs = l
        BY <3>1, <3>2
      <4> QED  BY <2>1, <2>2, <2>5, <2>9, <2>10, <2>11, <2>12, <3>1, <4>1 DEF AnswerInv
    <3>3. CASE a = [kind |-> "rejected"]
      BY <2>1, <2>2, <2>5, <2>10, <3>3 DEF AnswerInv
    <3> QED  BY <2>1, <3>2, <3>3
  <2>14. ScheduledInv'
    <3>1. CASE Recovering
      BY <1>1, <2>2, <2>5, <3>1 DEF IInv, ScheduledInv
    <3>2. CASE ~Recovering
      BY <1>1, <2>2, <2>4, <3>2, KeptScheduledInv DEF IInv, ScheduledInv
    <3> QED  BY <3>1, <3>2
  <2> QED  BY <1>1, <2>2, <2>3, <2>4, <2>5, <2>6, <2>8, <2>13, <2>14, ServedParent
<1> QED  BY <1>2, <1>3

\* The pending mutation is executed at once: its answer says so.
LEMMA SafeExecute ==
  ASSUME IInv, TypeOK', NEW r \in net, IsMutation(r), r.time >= accepted, accepted' = r.time, Receive(r),
         scheduled = None, scheduled' = None, Execute(r), Told(r, Outcome(r))
  PROVE  IInv'
<1>1. /\ UNCHANGED local /\ net' = net \ {r} /\ net' \subseteq net
      /\ UNCHANGED <<expired, pubs, original, probe, mark, state, job>>
  BY ReceiveLocal
<1>2. /\ accepted \in Nat /\ accepted' \in Nat /\ accepted <= accepted' /\ accepted' <= Horizon
  BY ReceivedTimes
<1>3. /\ r = original.pending /\ ~Learnt /\ answer = None /\ (job # None => job.at = "answer")
      /\ r \in Request /\ r.body \in Config /\ r.body.key \in Keys /\ r.op \in {"updown-issue", "updown-revoke"}
  BY OnlyPending, NetTypes, RequestTypes, ConfigTypes DEF IInv
<1>4. RepositoryInv' /\ Recovering' = Recovering
  BY <1>1, <1>3, ExecuteRepository DEF IInv, Recovering
<1>5. ScheduledInv' /\ ~Issue(scheduled')
  BY NoneIsNoMutation DEF ScheduledInv
<1>6. listed \in Inventory /\ Issue(r) = (r.op = "updown-issue") /\ r # None
  BY <1>3, NoneIsApart DEF IInv, TypeOK, Issue
<1>7. ASSUME NEW k, k # r.body.key \/ ~Issue(r)
      PROVE  Missing(k) => Missing(k)'
  <2>1. CASE Issue(r)
    <3> DEFINE new == [key |-> r.body.key, want |-> r.body.want, serial |-> serial + 1]
    <3>0. listed' = [class |-> TRUE, certs |-> (listed.certs \ OfKey(listed.certs, r.body.key)) \cup {new}]
      BY <1>6, <2>1 DEF Execute
    <3>1. new.key = r.body.key /\ listed'.certs \subseteq listed.certs \cup {new}
      BY <3>0
    <3> HIDE DEF new
    <3>2. k # r.body.key
      BY <1>7, <2>1
    <3> QED  BY <1>5, <3>1, <3>2 DEF Missing, OfKey
  <2>2. CASE ~Issue(r)
    <3>1. listed'.certs \subseteq listed.certs
      BY <1>6, <2>2 DEF Execute, Inventory
    <3> QED  BY <1>5, <3>1 DEF Missing, OfKey
  <2> QED  BY <2>1, <2>2
<1>8. PICK m : m = mark /\ mark' = m
  BY <1>1
<1>9. ASSUME NEW k \in Keys
      PROVE  \/ Issue(r) /\ r.body.key = k /\ r \notin net'
             \/ NoReturn(k, m)'
  <2>1. CASE k # r.body.key \/ ~Issue(r)
    <3>1. NoReturn(k, m)
      BY <1>3, <1>8, <2>1 DEF IInv, KeyInv
    <3> QED  BY <1>1, <1>7, <2>1, <3>1, NoReturnKept
  <2> QED  BY <1>1, <2>1
<1>10. KeyInv'
  BY <1>1, <1>3, <1>8, <1>9 DEF KeyInv
<1>11. AnswerInv' /\ (Learnt' => Quiet') /\ (answer' # None => Waiting' /\ (Recovering => accepted' > original.sent))
  <2>1. CASE ~Current(r)
    BY <1>1, <1>3, <2>1 DEF Told, AnswerInv, Learnt
  <2>2. CASE Current(r)
    <3>1. Quiet' /\ ~Recovering /\ job # None /\ job.at = "answer" /\ job.op \in Calls
      BY <1>1, <2>2, AnsweredTimes, JobTypes DEF IInv, TypeOK
    <3>2. PICK a : answer' = a /\ a = Outcome(r)
      BY <2>2 DEF Told
    <3>3. r.op = "updown-issue" => job.op \in {"create", "update"} /\ r.body = job.config
      BY <1>3, <3>1, NetTypes DEF IInv, CallInv, Calls, Recovering, IsMutation, Mutations, Issue
    <3>4. r.op = "updown-revoke" => job.op = "delete" /\ r.body = job.config
      BY <1>3, <3>1, NetTypes DEF IInv, CallInv, Calls, Recovering, IsMutation, Mutations, Issue
    <3>5. CASE r.op = "updown-issue"
      <4>1. a.kind = "issued" /\ a.cert.key = r.body.key /\ a.cert.serial = serial + 1
        BY <3>2, <3>5 DEF Outcome
      <4>2. Solid(a.cert)'
        BY <1>1, <4>1, IssuedIsSolid DEF IInv
      <4> QED  BY <1>1, <1>3, <1>4, <1>6, <3>1, <3>2, <3>3, <3>5, <4>1, <4>2 DEF AnswerInv, Waiting
    <3>6. CASE r.op = "updown-revoke"
      <4>1. a.kind = "revoked"
        BY <3>2, <3>6 DEF Outcome, Kind
      <4>2. OfKey(listed'.certs, r.body.key) = {}
        BY <1>6, <3>6 DEF Execute, OfKey, Inventory
      <4>3. PICK k : k = r.body.key
        OBVIOUS
      <4>4. Missing(k)'
        BY <1>5, <4>2, <4>3 DEF Missing
      <4> QED  BY <1>1, <1>4, <3>1, <3>2, <3>4, <3>6, <4>1, <4>3, <4>4 DEF AnswerInv, Waiting
    <3> QED  BY <1>3, <3>5, <3>6
  <2> QED  BY <2>1, <2>2
<1> QED  BY <1>1, <1>2, <1>3, <1>4, <1>5, <1>10, <1>11, ServedParent

\* The pending mutation is scheduled: nobody is told.
LEMMA SafeSchedule ==
  ASSUME IInv, TypeOK', NEW r \in net, IsMutation(r), r.time >= accepted, accepted' = r.time, Receive(r),
         scheduled = None, scheduled' = r, UNCHANGED <<listed, revoked, serial, answer>>
  PROVE  IInv'
<1>1. /\ UNCHANGED local /\ net' = net \ {r} /\ net' \subseteq net
      /\ UNCHANGED <<expired, pubs, original, probe, mark, state, job>>
  BY ReceiveLocal
<1>2. /\ accepted \in Nat /\ accepted' \in Nat /\ accepted <= accepted' /\ accepted' <= Horizon
  BY ReceivedTimes
<1>3. r = original.pending /\ ~Learnt /\ answer = None /\ (job # None => job.at = "answer")
  BY OnlyPending
<1>4. RepositoryInv' /\ Recovering' = Recovering
  BY <1>1, SameRepository DEF Recovering
<1>5. ScheduledInv'
  BY <1>1, <1>3, <1>4 DEF ScheduledInv
<1>6. PICK m : m = mark /\ mark' = m
  BY <1>1
<1>7. ASSUME NEW k \in Keys
      PROVE  \/ Issue(r) /\ r.body.key = k /\ r \notin net'
             \/ NoReturn(k, m)'
  <2>1. CASE k # r.body.key \/ ~Issue(r)
    <3>1. NoReturn(k, m)
      BY <1>3, <1>6, <2>1 DEF IInv, KeyInv
    <3>2. Missing(k) => Missing(k)'
      BY <2>1 DEF Missing
    <3> QED  BY <1>1, <3>1, <3>2, NoReturnKept
  <2> QED  BY <1>1, <2>1
<1>8. KeyInv' /\ AnswerInv' /\ (Learnt' => Quiet')
  BY <1>1, <1>3, <1>6, <1>7 DEF KeyInv, AnswerInv, Learnt
<1> QED  BY <1>1, <1>2, <1>3, <1>4, <1>5, <1>8, ServedParent

\* The pending mutation is refused: what it would have changed is as it was.
LEMMA SafeRefuse ==
  ASSUME IInv, TypeOK', NEW r \in net, IsMutation(r), r.time >= accepted, accepted' = r.time, Receive(r),
         Told(r, Kind("rejected")), UNCHANGED <<listed, revoked, scheduled, serial>>
  PROVE  IInv'
<1>1. /\ UNCHANGED local /\ net' = net \ {r} /\ net' \subseteq net
      /\ UNCHANGED <<expired, pubs, original, probe, mark, state, job>>
  BY ReceiveLocal
<1>2. CASE ~Current(r)
  BY <1>2, SafeUnanswered DEF Told
<1>3. CASE Current(r)
  <2>1. /\ accepted \in Nat /\ accepted' \in Nat /\ accepted <= accepted' /\ accepted' <= Horizon
    BY ReceivedTimes
  <2>2. /\ r = original.pending /\ ~Learnt /\ r \in Request /\ Quiet' /\ ~Recovering
        /\ job # None /\ job.at = "answer" /\ job.op \in Calls
    BY <1>1, <1>3, OnlyPending, AnsweredTimes, NetTypes, JobTypes DEF IInv, TypeOK
  <2>3. PICK a : answer' = a /\ a = [kind |-> "rejected"]
    BY <1>3 DEF Told, Kind
  <2>4. a.kind = "rejected" /\ a # None
    BY <2>3, NoneIsApart DEF Answer
  <2>5. RepositoryInv' /\ Recovering' = Recovering /\ Waiting'
    BY <1>1, <2>2, <2>3, <2>4, SameRepository DEF Recovering, Waiting
  <2>6. ScheduledInv'
    BY <1>1, <2>2, KeptScheduledInv DEF IInv, ScheduledInv
  <2>7. \A k \in Keys : KeyKept(k)
    BY <1>1, MissingKept, SamePublications DEF IInv
  <2>8. KeyInv'
    BY <1>1, <2>7, KeptKeyInv
  <2>9. AnswerInv'
    <3>1. PICK m, k : m = mark /\ mark' = m /\ k = job.config.key
      BY <1>1
    <3>2. Issue(original.pending) => original.pending.body = job.config /\ k \in Keys
      BY <2>2, <3>1, JobConfig DEF IInv, CallInv, Calls, Recovering, Issue, IsMutation, Mutations
    <3>3. Issue(original.pending) => NoReturn(k, m)
      BY <2>2, <3>1, <3>2 DEF IInv, KeyInv
    <3>4. Missing(k) => Missing(k)'
      BY <1>1, MissingKept DEF IInv
    <3>5. Issue(original.pending) => NoReturn(k, m)'
      BY <1>1, <3>3, <3>4, NoReturnKept
    <3> QED  BY <1>1, <2>3, <2>4, <2>5, <3>1, <3>5 DEF AnswerInv
  <2> QED  BY <1>1, <2>1, <2>2, <2>5, <2>6, <2>8, <2>9, ServedParent
<1> QED  BY <1>2, <1>3

LEMMA SafeReceive ==
  ASSUME IInv, NEW r \in net, Drop(r) \/ ServeMutation(r) \/ ServeList(r)
  PROVE  IInv'
<1>1. TypeOK'
  BY ParentTypesKept DEF IInv
<1>2. CASE Drop(r)
  BY <1>1, <1>2, SafeUnanswered DEF Drop
<1>3. CASE ServeMutation(r)
  <2>1. IsMutation(r) /\ r.time >= accepted /\ accepted' = r.time /\ Receive(r)
    BY <1>3 DEF ServeMutation
  <2>2. CASE scheduled = None /\ Execute(r) /\ Told(r, Outcome(r)) /\ UNCHANGED scheduled
    BY <1>1, <2>1, <2>2, SafeExecute
  <2>3. CASE scheduled = None /\ scheduled' = r /\ UNCHANGED <<listed, revoked, serial, answer>>
    BY <1>1, <2>1, <2>3, SafeSchedule
  <2>4. CASE Told(r, Kind("rejected")) /\ UNCHANGED <<listed, revoked, scheduled, serial>>
    BY <1>1, <2>1, <2>4, SafeRefuse
  <2>5. CASE UNCHANGED <<listed, revoked, scheduled, serial, answer>>
    BY <1>1, <2>1, <2>5, SafeUnanswered
  <2> QED  BY <1>3, <2>2, <2>3, <2>4, <2>5 DEF ServeMutation
<1>4. CASE ServeList(r)
  BY <1>4, SafeServeList
<1> QED  BY <1>2, <1>3, <1>4
-----------------------------------------------------------------------------
(* The steps of the peer leave the parent alone *)

LEMMA SameParent ==
  ASSUME UNCHANGED parent, NEW k, NEW m, NEW c
  PROVE  /\ Missing(k)' <=> Missing(k)
         /\ NoReturn(k, m)' <=> NoReturn(k, m)
         /\ Solid(c)' <=> Solid(c)
         /\ SchedulesListed(k)' <=> SchedulesListed(k)
         /\ Gone(k, m)' <=> Gone(k, m)
  BY DEF parent, Missing, NoReturn, Solid, SchedulesListed, Gone

LEMMA ParentUnchanged ==
  ASSUME IInv, UNCHANGED parent
  PROVE  /\ RepositoryInv' /\ UNCHANGED <<listed, revoked, expired, scheduled, serial, accepted, pubs>>
  BY DEF IInv, RepositoryInv, parent

\* Everything the peer signed lies at or before the time of the journal that
\* the call uses.
LEMMA HorizonIs ==
  ASSUME IInv
  PROVE  /\ Horizon \in Nat /\ original.sent \in Nat /\ probe.sent \in Nat /\ original.sent <= Horizon
         /\ Recovering => Horizon = probe.sent /\ original.sent < probe.sent
         /\ ~IsMutation(original.pending) => Horizon = original.sent
         /\ job # None /\ ~Recovering => Horizon = original.sent
<1>1. original.sent \in Nat /\ probe.sent \in Nat
  BY StateTypes DEF IInv
<1>2. Recovering => IsMutation(original.pending) /\ original.sent < probe.sent
  BY <1>1 DEF IInv, TypeOK, CallInv
<1>3. job # None /\ ~Recovering /\ IsMutation(original.pending) => probe.sent = 0
  BY DEF IInv, CallInv
<1> QED  BY <1>1, <1>2, <1>3 DEF Horizon, Later

LEMMA SettledJournal ==
  ASSUME IInv, UNCHANGED <<accepted, net>>, Quiet \/ ~IsMutation(original.pending),
         original'.pending = None, original'.sent \in Nat, Horizon <= original'.sent,
         probe'.sent = probe.sent, probe'.pending \in {None, probe.pending}
  PROVE  JournalInv' /\ Fenced'
<1>1. Horizon' = original'.sent
  BY NoneIsNoMutation DEF Horizon
<1>2. accepted \in Nat /\ \A r \in net : r.time \in Nat
  BY StateTypes, NetTypes DEF IInv
<1>3. JournalInv'
  BY <1>1, <1>2, HorizonIs DEF IInv, JournalInv
<1>4. ASSUME NEW r \in net, IsMutation(r), r.time >= accepted PROVE FALSE
  <2>1. r = original.pending
    BY <1>4 DEF IInv, Fenced
  <2> QED  BY <1>2, <1>4, <2>1 DEF Quiet
<1>5. Fenced'
  BY <1>4 DEF Fenced
<1> QED  BY <1>3, <1>5

LEMMA SettledSchedule ==
  ASSUME IInv, UNCHANGED <<listed, scheduled>>,
         original'.pending = None, original'.sent \in Nat, original.sent <= original'.sent,
         \/ ~IsMutation(original.pending)
         \/ job # None /\ ~Recovering /\ Learnt
         \/ /\ original.sent < original'.sent
            /\ Issue(original.pending) => SchedulesListed(original.pending.body.key)
  PROVE  ScheduledInv'
<1> SUFFICES ASSUME scheduled # None
             PROVE  /\ IsMutation(scheduled) /\ scheduled.time < original'.sent
                    /\ Issue(scheduled) => OfKey(listed.certs, scheduled.body.key) # {}
  BY DEF ScheduledInv
<1>1. /\ IsMutation(scheduled) /\ scheduled \in Request /\ scheduled.time \in Nat
      /\ original.sent \in Nat
      /\ original.pending # None => original.pending.time = original.sent
  BY RequestTypes, StateTypes DEF IInv, ScheduledInv, TypeOK, JournalInv
<1>2. CASE scheduled.time < original.sent /\ (Issue(scheduled) => OfKey(listed.certs, scheduled.body.key) # {})
  BY <1>1, <1>2
<1>3. CASE /\ scheduled = original.pending
           /\ job # None /\ ~Recovering => job.at = "answer" /\ answer = None
  <2>1. /\ original.sent < original'.sent
        /\ Issue(original.pending) => SchedulesListed(original.pending.body.key)
    BY <1>1, <1>3 DEF Learnt
  <2> QED  BY <1>1, <1>3, <2>1 DEF SchedulesListed
<1> QED  BY <1>2, <1>3 DEF IInv, ScheduledInv

LEMMA SettledKeys ==
  ASSUME IInv, UNCHANGED parent, mark' = mark, original'.pending = None,
         Issue(original.pending) => NoReturn(original.pending.body.key, mark)
  PROVE  KeyInv'
<1>1. PICK m : m = mark /\ mark' = m
  OBVIOUS
<1>2. ASSUME NEW k \in Keys PROVE NoReturn(k, m)'
  <2>1. NoReturn(k, m)
    BY <1>1 DEF IInv, KeyInv
  <2> QED  BY <2>1, SameParent
<1> QED  BY <1>1, <1>2 DEF KeyInv

LEMMA ReturnedCall ==
  ASSUME Return
  PROVE  CallInv' /\ AnswerInv' /\ FoundInv' /\ ~Learnt' /\ ~Recovering'
  BY DEF Return, CallInv, AnswerInv, FoundInv, Learnt, Recovering

\* A call ends and its journal is settled.
LEMMA SafeSettled ==
  ASSUME IInv, TypeOK', UNCHANGED <<parent, net, mark, relied>>, Return,
         original'.pending = None, Horizon <= original'.sent,
         probe'.sent = probe.sent, probe'.pending \in {None, probe.pending},
         \/ ~IsMutation(original.pending)
         \/ /\ job # None /\ Learnt
            /\ Issue(original.pending) => NoReturn(original.pending.body.key, mark)
            /\ Recovering => /\ original.sent < original'.sent
                             /\ Issue(original.pending) => SchedulesListed(original.pending.body.key),
         StateIsCovered'
  PROVE  IInv'
<1>1. RepositoryInv' /\ UNCHANGED <<accepted, net, listed, scheduled>>
  BY ParentUnchanged
<1>2. original'.sent \in Nat /\ Horizon \in Nat /\ original.sent \in Nat /\ original.sent <= Horizon
  BY HorizonIs, StateTypes, JournalTypes DEF TypeOK
<1>3. Quiet \/ ~IsMutation(original.pending)
  BY DEF IInv, CallInv
<1>4. JournalInv' /\ Fenced'
  BY <1>1, <1>2, <1>3, SettledJournal
<1>5. ScheduledInv'
  BY <1>1, <1>2, SettledSchedule
<1>6. ~IsMutation(original.pending) => ~Issue(original.pending)
  BY DEF IsMutation, Issue, Mutations
<1>7. KeyInv'
  BY <1>6, SettledKeys
<1>8. HistoryInv'
  BY DEF IInv, HistoryInv
<1> QED  BY <1>1, <1>4, <1>5, <1>7, <1>8, ReturnedCall DEF IInv

LEMMA SameKeys ==
  ASSUME IInv, UNCHANGED <<parent, original, mark>>, original.pending \notin net => original.pending \notin net'
  PROVE  KeyInv'
<1>1. PICK m : m = mark /\ mark' = m
  OBVIOUS
<1>2. ASSUME NEW k \in Keys
      PROVE  \/ Issue(original.pending) /\ original.pending.body.key = k /\ original.pending \notin net'
             \/ NoReturn(k, m)'
  BY <1>1, SameParent DEF IInv, KeyInv
<1> QED  BY <1>1, <1>2 DEF KeyInv

LEMMA SameHistory ==
  ASSUME IInv, UNCHANGED <<mark, relied, state, parent>>
  PROVE  HistoryInv' /\ StateIsCovered'
  BY DEF IInv, HistoryInv, StateIsCovered, parent

\* A call ends and its journal stays as it is.
LEMMA SafeEnded ==
  ASSUME IInv, TypeOK', UNCHANGED <<parent, net, original, mark, relied, state>>, Return,
         probe'.sent = probe.sent, probe'.pending \in {None, probe.pending}
  PROVE  IInv'
<1>1. RepositoryInv' /\ UNCHANGED <<accepted, net, listed, scheduled>>
  BY ParentUnchanged
<1>2. Horizon' = Horizon
  BY DEF Horizon
<1>3. JournalInv' /\ Fenced'
  BY <1>1, <1>2 DEF IInv, JournalInv, Fenced
<1>4. ScheduledInv'
  BY <1>1 DEF IInv, ScheduledInv, Return
<1>5. KeyInv' /\ HistoryInv'
  BY SameKeys, SameHistory
<1> QED  BY <1>1, <1>3, <1>4, <1>5, ReturnedCall DEF IInv

\* The journals after a settlement.
LEMMA SettledFields ==
  ASSUME IInv
  PROVE  /\ Completed(original).pending = None /\ Completed(original).sent = original.sent
         /\ Completed(probe).pending = None /\ Completed(probe).sent = probe.sent
         /\ Abandoned(original).pending = None /\ Abandoned(original).sent = original.sent
         /\ Abandoned(probe).pending = None /\ Abandoned(probe).sent = probe.sent
         /\ Reconciled(original, probe).pending = None /\ Reconciled(original, probe).sent = probe.sent
         /\ \A certs : /\ CompletedList(original, certs).pending = None
                       /\ CompletedList(original, certs).sent = original.sent
                       /\ CompletedList(probe, certs).pending = None
                       /\ CompletedList(probe, certs).sent = probe.sent
<1>1. original \in Journal /\ probe \in Journal
  BY DEF IInv, TypeOK
<1> QED  BY <1>1 DEF Completed, Abandoned, Reconciled, CompletedList, Journal

\* What a call that is no recovery has pending.
LEMMA PendingOf ==
  ASSUME IInv, job # None, ~Recovering
  PROVE  /\ job.op \in {"create", "update"} =>
              Issue(original.pending) /\ original.pending.body = job.config
         /\ Issue(original.pending) => job.op \in {"create", "update"} /\ original.pending.body = job.config
         /\ job.op = "delete" => /\ original.pending # None /\ original.pending.op = "updown-revoke"
                                 /\ original.pending.body = job.config
         /\ job.op \in {"refresh", "import"} => ~IsMutation(original.pending)
         /\ job.op \in {"create", "update", "delete", "refresh", "import"}
<1>1. job.op \in Calls /\ job.op # "recover"
  BY JobTypes DEF IInv, TypeOK, Recovering
<1>2. job.op \in {"refresh", "import"} => ~Issue(original.pending)
  BY DEF IInv, CallInv, Issue, IsMutation, Mutations
<1> QED  BY <1>1, <1>2 DEF IInv, CallInv, Calls, Issue

LEMMA SafeRejected ==
  ASSUME IInv, Rejected
  PROVE  IInv'
<1>1. /\ TypeOK' /\ job # None /\ Learnt /\ ~Recovering /\ answer # None /\ answer.kind = "rejected"
      /\ Return /\ original' = Completed(original) /\ UNCHANGED <<parent, net, probe, mark, state, relied>>
  BY ResourceTypes DEF IInv, Rejected, Waiting, Learnt
<1>2. original'.pending = None /\ Horizon <= original'.sent
  BY <1>1, SettledFields, HorizonIs
<1>3. Issue(original.pending) => NoReturn(original.pending.body.key, mark)
  BY <1>1, PendingOf DEF IInv, AnswerInv
<1>4. StateIsCovered'
  BY <1>1, SameHistory
<1> QED  BY <1>1, <1>2, <1>3, <1>4, SafeSettled

LEMMA SafeRevoked ==
  ASSUME IInv, Revoked
  PROVE  IInv'
<1>1. /\ TypeOK' /\ job # None /\ Learnt /\ answer # None /\ answer.kind = "revoked"
      /\ Return /\ original' = Completed(original) /\ state' = None /\ UNCHANGED <<parent, net, probe, mark, relied>>
  BY ResourceTypes DEF IInv, Revoked, Waiting, Learnt
<1>2. ~Recovering /\ job.op = "delete"
  BY <1>1 DEF IInv, AnswerInv
<1>3. original'.pending = None /\ Horizon <= original'.sent
  BY <1>1, <1>2, SettledFields, HorizonIs
<1>4. ~Issue(original.pending)
  BY <1>1, <1>2, PendingOf
<1>5. StateIsCovered'
  BY <1>1 DEF StateIsCovered
<1> QED  BY <1>1, <1>2, <1>3, <1>4, <1>5, SafeSettled

\* The certificate a call commits.
LEMMA CommittedCert ==
  ASSUME IInv, job # None, job.at = "commit", ~Revocation
  PROVE  /\ job.cert \in Certificate /\ job.config \in Config /\ Learnt
         /\ job.cert \in pubs[mark].certs /\ NoReturn(job.config.key, mark)
         /\ Recovering => SchedulesListed(job.config.key)
<1>1. /\ job.cert # None /\ job.cert.key = job.config.key /\ Solid(job.cert) /\ job.cert \in pubs[mark].certs
      /\ Recovering => SchedulesListed(job.config.key)
  BY DEF IInv, FoundInv
<1>2. mark \in DOMAIN pubs /\ job.cert \in Certificate
  BY <1>1, JobTypes DEF IInv, TypeOK
<1>3. NoReturn(job.config.key, mark)
  BY <1>1, <1>2 DEF Solid
<1> QED  BY <1>1, <1>2, <1>3, JobConfig DEF Learnt

LEMMA SafeCommit ==
  ASSUME IInv, Commit
  PROVE  IInv'
<1>1. job # None /\ job.at = "commit" /\ ~Recovering /\ ~Revocation
  BY DEF Commit, Revocation
<1>2. /\ job.cert \in Certificate /\ job.config \in Config /\ Learnt
      /\ job.cert \in pubs[mark].certs /\ NoReturn(job.config.key, mark)
  BY <1>1, CommittedCert
<1>3. TypeOK' /\ Return /\ UNCHANGED <<parent, net, probe, mark, relied>>
  BY <1>2, CommitTypes DEF IInv, Commit
<1>4. PICK i : i = mark /\ i \in 1 .. mark /\ i \in DOMAIN pubs
  BY StateTypes DEF IInv
<1>5. state'.cert = job.cert /\ pubs' = pubs
  BY <1>3 DEF Commit, parent
<1>6. StateIsCovered'
  BY <1>2, <1>3, <1>4, <1>5 DEF StateIsCovered
<1>7. CASE job.op \in {"create", "update"}
  <2>1. original' = Completed(original)
    BY <1>7 DEF Commit
  <2>2. original'.pending = None /\ Horizon <= original'.sent
    BY <1>1, <2>1, SettledFields, HorizonIs
  <2>3. Issue(original.pending) => NoReturn(original.pending.body.key, mark)
    BY <1>1, <1>2, PendingOf
  <2> QED  BY <1>1, <1>2, <1>3, <1>6, <2>2, <2>3, SafeSettled
<1>8. CASE job.op \notin {"create", "update"}
  <2>1. original' = original
    BY <1>8 DEF Commit
  <2>2. JournalInv' /\ Fenced' /\ ScheduledInv' /\ RepositoryInv' /\ KeyInv'
    <3>1. RepositoryInv' /\ UNCHANGED <<accepted, net, listed, scheduled>>
      BY <1>3, ParentUnchanged
    <3>2. Horizon' = Horizon
      BY <1>3, <2>1 DEF Horizon
    <3> QED  BY <1>3, <2>1, <3>1, <3>2, SameKeys DEF IInv, JournalInv, Fenced, ScheduledInv, Return
  <2>3. HistoryInv'
    BY <1>3, <1>6 DEF IInv, HistoryInv
  <2> QED  BY <1>3, <2>2, <2>3, ReturnedCall DEF IInv
<1> QED  BY <1>7, <1>8

LEMMA SafeFail ==
  ASSUME IInv, Fail
  PROVE  IInv'
<1>1. TypeOK' /\ Return /\ UNCHANGED <<parent, net, original, probe, mark, state, relied>>
  BY ResourceTypes DEF IInv, Fail, journals, history
<1> QED  BY <1>1, SafeEnded

LEMMA SafeRecoverRead ==
  ASSUME IInv, RecoverRead
  PROVE  IInv'
<1>1. /\ TypeOK' /\ job = None /\ answer = None /\ UNCHANGED <<parent, net, mark, state, job, answer, relied>>
      /\ \/ /\ original.pending # None /\ ~IsMutation(original.pending)
            /\ original' = Abandoned(original) /\ UNCHANGED probe
         \/ probe' = Abandoned(probe) /\ UNCHANGED original
  BY RecoveryTypes DEF IInv, CallInv, RecoverRead, history
<1>2. Return /\ StateIsCovered'
  BY <1>1, SameHistory DEF Return
<1>3. CASE original' = Abandoned(original) /\ UNCHANGED probe /\ ~IsMutation(original.pending)
  BY <1>1, <1>2, <1>3, SettledFields, HorizonIs, SafeSettled
<1>4. CASE probe' = Abandoned(probe) /\ UNCHANGED original
  BY <1>1, <1>2, <1>4, SettledFields, SafeEnded
<1> QED  BY <1>1, <1>3, <1>4

LEMMA SafeProbeRejected ==
  ASSUME IInv, ProbeRejected
  PROVE  IInv'
<1>1. TypeOK' /\ Return /\ UNCHANGED <<parent, net, original, mark, state, relied>> /\ probe' = Completed(probe)
  BY RecoveryTypes DEF IInv, ProbeRejected, history
<1> QED  BY <1>1, SettledFields, SafeEnded

LEMMA SafeReconcile ==
  ASSUME IInv, Reconcile
  PROVE  IInv'
<1>1. /\ TypeOK' /\ Recovering /\ job # None /\ job.at = "commit" /\ Learnt /\ Return
      /\ original' = Reconciled(original, probe) /\ UNCHANGED <<parent, net, probe, mark, state, relied>>
  BY RecoveryTypes DEF IInv, Reconcile, Recovering, Learnt
<1>2. original'.pending = None /\ Horizon <= original'.sent /\ original.sent < original'.sent
  BY <1>1, SettledFields, HorizonIs
<1>3. Issue(original.pending) =>
        NoReturn(original.pending.body.key, mark) /\ SchedulesListed(original.pending.body.key)
  <2>1. Issue(original.pending) => ~Revocation
    BY DEF Issue, Revocation
  <2>2. job.config = original.pending.body
    BY <1>1 DEF IInv, CallInv
  <2> QED  BY <1>1, <2>1, <2>2, CommittedCert
<1>4. StateIsCovered'
  BY <1>1, SameHistory
<1> QED  BY <1>1, <1>2, <1>3, <1>4, SafeSettled

\* A call goes on with what it has learnt.
LEMMA AdvancedCall ==
  ASSUME IInv, UNCHANGED <<accepted, net, state>>, job # None, Learnt, job' # None, answer' = None,
         job'.op = job.op, job'.config = job.config, job.op # "delete",
         probe'.sent = probe.sent, original' = original \/ job.op \in {"refresh", "import"},
         ~IsMutation(original'.pending) \/ original' = original
  PROVE  CallInv' /\ AnswerInv'
<1>1. CallInv /\ Quiet /\ (Recovering' <=> Recovering)
  BY DEF IInv, CallInv, Recovering
<1>2. Quiet'
  BY <1>1 DEF Quiet
<1>3. job.op \in {"refresh", "import"} => ~Recovering
  BY DEF Recovering
<1>4. AnswerInv'
  BY DEF AnswerInv
<1>5. job'.config # None /\ (Recovering /\ Learnt => accepted' > original.sent)
  BY <1>1 DEF CallInv
<1>6. Recovering => /\ original' = original /\ original.pending # None /\ job'.config = original.pending.body
                    /\ probe'.sent > original.sent
  BY <1>1, <1>3 DEF CallInv
<1>7. ASSUME ~Recovering
      PROVE  /\ IsMutation(original'.pending) => probe'.sent = 0
             /\ job'.op \in {"create", "update"} => Issue(original'.pending) /\ original'.pending.body = job'.config
             /\ job'.op # "delete"
             /\ job'.op \in {"refresh", "import"} => ~IsMutation(original'.pending)
             /\ job'.op = "refresh" => state' # None /\ job'.config = state'.config
             /\ job'.op = "import" => state' = None
  <2>1. IsMutation(original'.pending) => probe'.sent = 0
    BY <1>1, <1>7 DEF CallInv
  <2>2. job'.op \in {"create", "update"} => Issue(original'.pending) /\ original'.pending.body = job'.config
    BY <1>1, <1>7 DEF CallInv
  <2>3. job'.op \in {"refresh", "import"} => ~IsMutation(original'.pending)
    BY <1>1, <1>7 DEF CallInv
  <2>4. job'.op = "refresh" => state' # None /\ job'.config = state'.config
    BY <1>1, <1>7 DEF CallInv
  <2>5. job'.op = "import" => state' = None
    BY <1>1, <1>7 DEF CallInv
  <2> QED  BY <2>1, <2>2, <2>3, <2>4, <2>5
<1>8. CallInv'
  <2> SUFFICES
        /\ Recovering => /\ original'.pending # None /\ job'.config = original'.pending.body
                          /\ probe'.sent > original'.sent /\ (Learnt' => accepted' > original'.sent)
        /\ ~Recovering =>
              /\ IsMutation(original'.pending) => probe'.sent = 0
              /\ job'.op \in {"create", "update"} => Issue(original'.pending) /\ original'.pending.body = job'.config
              /\ job'.op # "delete"
              /\ job'.op \in {"refresh", "import"} => ~IsMutation(original'.pending)
              /\ job'.op = "refresh" => state' # None /\ job'.config = state'.config
              /\ job'.op = "import" => state' = None
    BY <1>1, <1>2, <1>5 DEF CallInv
  <2> QED  BY <1>5, <1>6, <1>7
<1> QED  BY <1>4, <1>8

LEMMA SafeAdvance ==
  ASSUME IInv, TypeOK', UNCHANGED <<parent, net, state, original>>, job # None, Learnt, job' # None,
         answer' = None, job'.op = job.op, job'.config = job.config, job.op # "delete",
         probe'.sent = probe.sent, probe'.pending \in {None, probe.pending},
         KeyInv', HistoryInv', FoundInv'
  PROVE  IInv'
<1>1. RepositoryInv' /\ UNCHANGED <<accepted, net, listed, scheduled>>
  BY ParentUnchanged
<1>2. CallInv' /\ AnswerInv'
  BY <1>1, AdvancedCall
<1>3. Horizon' = Horizon /\ Recovering' = Recovering
  BY DEF Horizon, Recovering
<1>4. JournalInv' /\ Fenced'
  BY <1>1, <1>3 DEF IInv, JournalInv, Fenced
<1>5. ScheduledInv'
  BY <1>1, <1>3 DEF IInv, ScheduledInv, Learnt
<1> QED  BY <1>1, <1>2, <1>4, <1>5 DEF IInv

LEMMA GoneTo ==
  ASSUME IInv, job # None, NEW at, NEW cert, NEW found, Goto(at, cert, found)
  PROVE  /\ job' # None => job'.op = job.op /\ job'.config = job.config
         /\ job'.op = job.op /\ job'.config = job.config /\ job'.at = at /\ job'.cert = cert /\ job'.found = found
         /\ answer' = None
<1>1. job \in Job
  BY DEF IInv, TypeOK
<1> QED  BY <1>1 DEF Goto, Job

LEMMA FoundCert ==
  ASSUME IInv, UNCHANGED parent, job # None, NEW c \in Certificate, Solid(c), c.key = job.config.key,
         Goto("path", c, None), ~Revocation', Recovering' => SchedulesListed(job.config.key)
  PROVE  FoundInv'
<1>1. job'.config = job.config /\ job'.at = "path" /\ job'.cert = c /\ job'.found = None
  BY GoneTo
<1>2. PICK k : k = job.config.key
  OBVIOUS
<1>3. Solid(c)' /\ (Recovering' => SchedulesListed(k)')
  BY <1>2, SameParent
<1>4. c # None
  BY CertificateTypes
<1> QED  BY <1>1, <1>2, <1>3, <1>4 DEF FoundInv

LEMMA SafeIssued ==
  ASSUME IInv, Issued
  PROVE  IInv'
<1>1. /\ TypeOK' /\ job # None /\ Learnt /\ answer # None /\ answer.kind = "issued"
      /\ Goto("path", answer.cert, None)
      /\ UNCHANGED <<parent, net, original, probe, mark, state, relied>>
  BY ResourceTypes DEF IInv, Issued, Waiting, Learnt, journals, history
<1>2. /\ ~Recovering /\ Issue(original.pending) /\ answer.cert.key = job.config.key /\ Solid(answer.cert)
      /\ answer.cert \in Certificate
  BY <1>1, AnswerTypes DEF IInv, AnswerInv, TypeOK
<1>3. job.op # "delete"
  BY <1>1, <1>2, PendingOf
<1>4. job \in Job /\ job' = [job EXCEPT !.at = "path", !.cert = answer.cert, !.found = None] /\ job' # None
  <2>1. job \in Job
    BY <1>1 DEF IInv, TypeOK
  <2>2. job' \in Job
    BY <1>1, <1>2, <2>1 DEF Goto, Job
  <2> QED  BY <1>1, <2>1, <2>2, JobTypes DEF Goto
<1>5. job'.op = job.op /\ job'.config = job.config /\ answer' = None
  BY <1>1, GoneTo
<1>6. ~Recovering' /\ ~Revocation'
  BY <1>1, <1>2, <1>5 DEF Recovering, Revocation
<1>7. FoundInv'
  BY <1>1, <1>2, <1>6, FoundCert
<1>8. KeyInv' /\ HistoryInv'
  BY <1>1, SameKeys, SameHistory
<1> QED  BY <1>1, <1>3, <1>4, <1>5, <1>7, <1>8, SafeAdvance

\* Going on leaves a call.
LEMMA StillCall ==
  ASSUME IInv, job # None, NEW at \in {"path", "commit"}, NEW cert \in Certificate \cup {None},
         NEW found \in Inventory \cup {None}, job' = [job EXCEPT !.at = at, !.cert = cert, !.found = found]
  PROVE  job' # None
<1>1. job \in Job
  BY DEF IInv, TypeOK
<1>2. job' \in Job
  BY <1>1 DEF Job
<1> QED  BY <1>2, JobTypes

LEMMA SafeListed ==
  ASSUME IInv, Listed
  PROVE  IInv'
<1>1. /\ TypeOK' /\ job # None /\ Learnt /\ ~Recovering /\ answer # None /\ answer.kind = "list"
      /\ original' = CompletedList(original, answer.inventory.certs)
      /\ UNCHANGED <<parent, net, probe, mark, relied, recovered>>
  BY ResourceTypes DEF IInv, Listed, Waiting, Learnt, history
<1>2. /\ job.op \in {"refresh", "import"} /\ \A c \in answer.inventory.certs : Solid(c)
      /\ answer.inventory.certs \subseteq Certificate
  BY <1>1, AnswerTypes DEF IInv, AnswerInv, TypeOK
<1>3. ~IsMutation(original.pending)
  BY <1>1, <1>2, PendingOf
<1>4. original'.pending = None /\ original'.sent = original.sent /\ Horizon = original.sent
  BY <1>1, <1>3, SettledFields, HorizonIs
<1>5. original.sent \in Nat /\ ~IsMutation(None) /\ ~Issue(original.pending)
  BY <1>3, HorizonIs, NoneIsNoMutation DEF IInv, Issue, IsMutation, Mutations
<1>6. CASE Return /\ (state' = None \/ UNCHANGED state)
  <2>1. StateIsCovered'
    <3>1. CASE state' = None
      BY <3>1 DEF StateIsCovered
    <3>2. CASE UNCHANGED state
      BY <1>1, <3>2, SameHistory
    <3> QED  BY <1>6, <3>1, <3>2
  <2> QED  BY <1>1, <1>3, <1>4, <1>5, <1>6, <2>1, SafeSettled
<1>7. ASSUME NEW c \in OfKey(answer.inventory.certs, job.config.key), Goto("path", c, None), UNCHANGED state
      PROVE  IInv'
  <2>1. c \in Certificate /\ c.key = job.config.key /\ Solid(c)
    BY <1>2 DEF OfKey
  <2>2. /\ job'.op = job.op /\ job'.config = job.config /\ answer' = None
    BY <1>1, <1>7, GoneTo
  <2>3. job' # None
    BY <1>1, <1>7, <2>1, StillCall DEF Goto
  <2>4. ~Recovering' /\ ~Revocation'
    BY <1>2, <2>2 DEF Recovering, Revocation
  <2>5. FoundInv'
    BY <1>1, <1>7, <2>1, <2>4, FoundCert
  <2>6. RepositoryInv' /\ UNCHANGED <<accepted, net, listed, scheduled>>
    BY <1>1, ParentUnchanged
  <2>7. CallInv' /\ AnswerInv'
    BY <1>1, <1>2, <1>4, <1>5, <1>7, <2>2, <2>3, <2>6, AdvancedCall
  <2>8. JournalInv' /\ Fenced'
    BY <1>1, <1>3, <1>4, <1>5, <2>6, SettledJournal
  <2>9. ScheduledInv'
    BY <1>3, <1>4, <1>5, <2>6, SettledSchedule
  <2>10. KeyInv' /\ HistoryInv'
    BY <1>1, <1>4, <1>5, <1>7, SettledKeys, SameHistory
  <2> QED  BY <1>1, <2>5, <2>6, <2>7, <2>8, <2>9, <2>10 DEF IInv
<1>8. \/ Return /\ (state' = None \/ UNCHANGED state)
      \/ \E c \in OfKey(answer.inventory.certs, job.config.key) : Goto("path", c, None) /\ UNCHANGED state
  BY DEF Listed, Selected
<1> QED  BY <1>6, <1>7, <1>8

LEMMA SafeProbeIssuance ==
  ASSUME IInv, ProbeIssuance
  PROVE  IInv'
<1>1. /\ TypeOK' /\ job # None /\ Learnt /\ Recovering /\ ~Revocation /\ answer # None /\ answer.kind = "list"
      /\ probe' = CompletedList(probe, answer.inventory.certs)
      /\ UNCHANGED <<parent, net, original, mark, state, relied>>
  BY RecoveryTypes DEF IInv, ProbeIssuance, Waiting, Learnt, history, Issuance, Revocation
<1>2. /\ \A c \in answer.inventory.certs : Solid(c)
      /\ OfKey(answer.inventory.certs, job.config.key) # {} => SchedulesListed(job.config.key)
      /\ answer.inventory.certs \subseteq Certificate
  BY <1>1, AnswerTypes DEF IInv, AnswerInv, TypeOK
<1>3. probe'.pending = None /\ probe'.sent = probe.sent
  BY <1>1, SettledFields
<1>4. CASE Return
  BY <1>1, <1>3, <1>4, SafeEnded
<1>5. ASSUME NEW c \in OfKey(answer.inventory.certs, job.config.key), Goto("path", c, None)
      PROVE  IInv'
  <2>1. c \in Certificate /\ c.key = job.config.key /\ Solid(c) /\ SchedulesListed(job.config.key)
    BY <1>2 DEF OfKey
  <2>2. job'.op = job.op /\ job'.config = job.config /\ answer' = None /\ job.op # "delete"
    BY <1>1, <1>5, GoneTo DEF Recovering
  <2>3. job' # None
    BY <1>1, <1>5, <2>1, StillCall DEF Goto
  <2>4. ~Revocation'
    BY <1>1, <2>2 DEF Recovering, Revocation
  <2>5. FoundInv'
    BY <1>1, <1>5, <2>1, <2>4, FoundCert
  <2>6. KeyInv' /\ HistoryInv'
    BY <1>1, SameKeys, SameHistory
  <2> QED  BY <1>1, <1>3, <2>2, <2>3, <2>5, <2>6, SafeAdvance
<1>6. Return \/ \E c \in OfKey(answer.inventory.certs, job.config.key) : Goto("path", c, None)
  BY DEF ProbeIssuance, Selected
<1> QED  BY <1>4, <1>5, <1>6

LEMMA SafeProbeRevocation ==
  ASSUME IInv, ProbeRevocation
  PROVE  IInv'
<1>1. /\ TypeOK' /\ job # None /\ Learnt /\ Recovering /\ Revocation /\ answer # None /\ answer.kind = "list"
      /\ probe' = CompletedList(probe, answer.inventory.certs)
      /\ Goto("path", None, answer.inventory)
      /\ UNCHANGED <<parent, net, original, mark, state, relied>>
  BY RecoveryTypes DEF IInv, ProbeRevocation, Waiting, Learnt, history, Revocation
<1>2. probe'.pending = None /\ probe'.sent = probe.sent /\ answer.inventory \in Inventory
  BY <1>1, SettledFields, AnswerTypes DEF IInv, TypeOK
<1>3. /\ job'.op = job.op /\ job'.config = job.config /\ answer' = None /\ job.op # "delete"
      /\ job'.at = "path" /\ job'.cert = None
  BY <1>1, GoneTo DEF Recovering
<1>4. job' # None
  BY <1>1, <1>2, StillCall DEF Goto
<1>5. Revocation'
  BY <1>1, <1>3, <1>4 DEF Recovering, Revocation
<1>6. FoundInv'
  BY <1>3, <1>5 DEF FoundInv
<1>7. KeyInv' /\ HistoryInv'
  BY <1>1, SameKeys, SameHistory
<1> QED  BY <1>1, <1>2, <1>3, <1>4, <1>6, <1>7, SafeAdvance

\* A decision moves the mark on, and what was gone since the earlier mark is
\* gone since the later one.
LEMMA LaterMark ==
  ASSUME IInv, UNCHANGED <<parent, net, original, state>>, NEW i \in DOMAIN pubs, NotBehind(i), Remember(i)
  PROVE  KeyInv' /\ HistoryInv'
<1>1. PICK m : m = mark /\ m \in DOMAIN pubs /\ m <= i /\ mark' = i /\ relied' = i /\ TypeOK /\ pubs' = pubs
  BY DEF IInv, TypeOK, NotBehind, Remember, parent
<1>2. ASSUME NEW k \in Keys
      PROVE  \/ Issue(original.pending) /\ original.pending.body.key = k /\ original.pending \notin net
             \/ NoReturn(k, i)'
  <2>1. CASE NoReturn(k, m)
    <3>1. NoReturn(k, i)
      BY <1>1, <2>1, NoReturnLater
    <3> QED  BY <3>1, SameParent
  <2> QED  BY <1>1, <2>1 DEF IInv, KeyInv
<1>3. KeyInv'
  BY <1>1, <1>2 DEF KeyInv
<1>4. m \in Nat /\ i \in Nat
  BY <1>1, StateTypes
<1>5. \A n \in 1 .. m : n \in 1 .. i
  BY <1>1, <1>4
<1>6. HistoryInv'
  BY <1>1, <1>5 DEF IInv, HistoryInv, StateIsCovered
<1> QED  BY <1>3, <1>6

LEMMA SafeVerifyPath ==
  ASSUME IInv, VerifyPath
  PROVE  IInv'
<1>1. /\ TypeOK' /\ job # None /\ job.at = "path" /\ job.cert # None /\ Learnt
      /\ job' = [job EXCEPT !.at = "commit"]
      /\ UNCHANGED <<parent, net, original, probe, state, answer>>
  BY ResourceTypes DEF IInv, VerifyPath, Learnt, journals
<1>2. PICK i \in DOMAIN pubs : NotBehind(i) /\ job.cert \in pubs[i].certs /\ Remember(i)
  BY DEF VerifyPath, Verifies
<1>3. ~Revocation /\ answer = None /\ job.op # "delete"
  BY <1>1 DEF IInv, FoundInv, CallInv, Recovering
<1>4. /\ job \in Job /\ job' \in Job /\ job' # None /\ job'.op = job.op /\ job'.config = job.config
      /\ job'.at = "commit" /\ job'.cert = job.cert /\ job'.found = job.found
  <2>1. job \in Job
    BY <1>1 DEF IInv, TypeOK
  <2>2. job' \in Job
    BY <1>1, <2>1 DEF Job
  <2> QED  BY <1>1, <2>1, <2>2, JobTypes DEF Job
<1>5. (Recovering' <=> Recovering) /\ ~Revocation'
  BY <1>1, <1>3, <1>4 DEF Recovering, Revocation
<1>6. FoundInv'
  <2>1. PICK c, k : c = job.cert /\ k = job.config.key
    OBVIOUS
  <2>2. /\ c # None /\ job.found = None /\ c.key = k /\ Solid(c) /\ (Recovering => SchedulesListed(k))
    BY <1>1, <1>3, <2>1 DEF IInv, FoundInv
  <2>3. Solid(c)' /\ (Recovering => SchedulesListed(k)')
    BY <1>1, <2>2, SameParent
  <2>4. mark' = i /\ pubs' = pubs /\ c \in pubs[i].certs
    BY <1>1, <1>2, <2>1 DEF Remember, parent
  <2> QED  BY <1>4, <1>5, <2>1, <2>2, <2>3, <2>4 DEF FoundInv
<1>7. KeyInv' /\ HistoryInv'
  BY <1>1, <1>2, LaterMark
<1> QED  BY <1>1, <1>3, <1>4, <1>6, <1>7, SafeAdvance

LEMMA SafeVerifyRetirement ==
  ASSUME IInv, VerifyRetirement
  PROVE  IInv'
<1>1. /\ TypeOK' /\ job # None /\ job.at = "path" /\ job.found # None /\ Learnt
      /\ job' = [job EXCEPT !.at = "commit", !.found = None]
      /\ UNCHANGED <<parent, net, original, probe, state, answer>>
  BY RecoveryTypes DEF IInv, VerifyRetirement, Learnt, journals
<1>2. PICK prior, i :
        i \in DOMAIN pubs /\ prior.key = job.config.key /\ Retired(prior, i) /\ NotBehind(i) /\ Remember(i)
  BY DEF VerifyRetirement, OfKey
<1>3. Revocation /\ job.cert = None /\ answer = None /\ job.op # "delete"
  BY <1>1 DEF IInv, FoundInv, CallInv, Revocation, Recovering
<1>4. /\ job \in Job /\ job' \in Job /\ job' # None /\ job'.op = job.op /\ job'.config = job.config
      /\ job'.at = "commit" /\ job'.cert = job.cert
  <2>1. job \in Job
    BY <1>1 DEF IInv, TypeOK
  <2>2. job' \in Job
    BY <1>1, <2>1 DEF Job
  <2> QED  BY <1>1, <2>1, <2>2, JobTypes DEF Job
<1>5. Revocation'
  BY <1>1, <1>3, <1>4 DEF Recovering, Revocation
<1>6. OfKey(pubs'[mark'].certs, job'.config.key) = {}
  BY <1>1, <1>2, <1>4 DEF Retired, Remember, parent
<1>7. FoundInv'
  BY <1>3, <1>4, <1>5, <1>6 DEF FoundInv, Gone
<1>8. KeyInv' /\ HistoryInv'
  BY <1>1, <1>2, LaterMark
<1> QED  BY <1>1, <1>3, <1>4, <1>7, <1>8, SafeAdvance

LEMMA SafeReadPending ==
  ASSUME IInv, NEW t \in 1 .. MaxTime, ReadPending(t)
  PROVE  IInv'
<1>1. PICK r : r = [op |-> "updown-list", body |-> None, time |-> t]
  OBVIOUS
<1>2. /\ TypeOK' /\ job = None /\ answer = None /\ IsMutation(original.pending)
      /\ t >= probe.sent /\ t >= original.sent + 1
      /\ probe' = Begun(probe, r) /\ Send(r) /\ job' = NewJob("recover", original.pending.body)
      /\ UNCHANGED <<parent, original, mark, state, answer, relied>>
  BY <1>1, RecoveryTypes DEF IInv, CallInv, ReadPending, CanBegin, MinimumSent, history
<1>3. /\ r \in Request /\ r.time = t /\ t \in Nat /\ ~IsMutation(r)
  BY <1>1, Requests, RequestTypes
<1>4. /\ probe'.pending = r /\ probe'.sent = t
  <2>1. probe \in Journal
    BY DEF IInv, TypeOK
  <2> QED  BY <1>2, <1>3, <2>1 DEF Begun, Journal
<1>5. /\ original.sent \in Nat /\ probe.sent \in Nat /\ original.pending # None
      /\ accepted \in Nat /\ \A q \in net : q.time \in Nat
  BY <1>2, StateTypes, NetTypes, NoneIsNoMutation DEF IInv
<1>6. Horizon <= t /\ Horizon \in Nat /\ Horizon' = t
  BY <1>2, <1>4, <1>5 DEF Horizon, Later
<1>7. net' \subseteq net \cup {r} /\ UNCHANGED <<accepted, listed, scheduled>> /\ RepositoryInv'
  BY <1>2, ParentUnchanged DEF Send
<1>8. JournalInv'
  BY <1>2, <1>3, <1>4, <1>5, <1>6, <1>7 DEF IInv, JournalInv
<1>9. Fenced'
  BY <1>2, <1>3, <1>7 DEF IInv, Fenced
<1>10. /\ job'.op = "recover" /\ job'.at = "answer" /\ job'.config = original.pending.body
  BY <1>2 DEF NewJob
<1>11. original.pending.body \in Config
  BY <1>2, <1>5, StateTypes, RequestTypes DEF IInv
<1>12. job' # None /\ Recovering' /\ ~Learnt'
  BY <1>2, <1>10, <1>11, JobSteps, JobTypes DEF Recovering, Learnt, NewJob, Calls
<1>13. ScheduledInv'
  <2>1. scheduled # None => IsMutation(scheduled)
    BY DEF IInv, ScheduledInv
  <2>2. IsMutation(scheduled) => scheduled # r
    BY <1>3
  <2> QED  BY <1>2, <1>7, <1>12, <2>1, <2>2 DEF IInv, ScheduledInv
<1>14. KeyInv' /\ HistoryInv'
  BY <1>2, <1>3, <1>7, SameKeys, SameHistory
<1>15. CallInv'
  BY <1>2, <1>4, <1>5, <1>10, <1>11, <1>12, ConfigTypes DEF CallInv
<1>16. AnswerInv' /\ FoundInv'
  BY <1>2, <1>10 DEF AnswerInv, FoundInv
<1> QED  BY <1>2, <1>7, <1>8, <1>9, <1>13, <1>14, <1>15, <1>16 DEF IInv

LEMMA SafeBegin ==
  ASSUME IInv, NEW op \in Calls \ {"recover"}, NEW config \in Config, NEW r \in Request, Begins(op, config, r)
  PROVE  IInv'
<1>1. /\ job = None /\ answer = None /\ original.pending = None /\ r.time >= original.sent
      /\ original' = Begun(original, r) /\ Send(r) /\ job' = NewJob(op, config)
      /\ UNCHANGED <<parent, mark, state, answer, relied>>
  BY DEF IInv, CallInv, Begins, Begin, CanBegin, history
<1>2. /\ r.time \in Nat /\ r # None
      /\ IsMutation(r) <=> r.op # "updown-list"
      /\ Issue(r) <=> r.op = "updown-issue"
  BY RequestTypes
<1>3. /\ original'.pending = r /\ original'.sent = r.time
  <2>1. original \in Journal
    BY DEF IInv, TypeOK
  <2> QED  BY <1>1, <2>1 DEF Begun, Journal
<1>4. /\ original.sent \in Nat /\ probe.sent \in Nat /\ accepted \in Nat /\ Horizon = original.sent
      /\ \A q \in net : q.time \in Nat
  BY <1>1, HorizonIs, StateTypes, NetTypes, NoneIsNoMutation DEF IInv
<1>5. probe' = NewJournal \/ (probe' = probe /\ ~IsMutation(r))
  BY <1>2 DEF Begins
<1>6. /\ NewJournal.sent = 0 /\ NewJournal.pending = None
      /\ IsMutation(r) => probe'.sent = 0
  BY <1>2, <1>5 DEF NewJournal
<1>7. TypeOK'
  <2>1. probe' \in Journal /\ Begin(op, config, r) /\ TypeOK
    BY <1>5, JournalSteps DEF IInv, TypeOK, Begins
  <2> QED  BY <2>1, BeginTypes
<1>8. Horizon' = r.time
  BY <1>2, <1>3, <1>6 DEF Horizon, Later
<1>9. net' \subseteq net \cup {r} /\ UNCHANGED <<accepted, listed, scheduled>> /\ RepositoryInv'
  BY <1>1, ParentUnchanged DEF Send
<1>10. JournalInv'
  <2>1. probe'.pending # None => probe'.pending.time = probe'.sent /\ ~IsMutation(probe'.pending)
    BY <1>5, <1>6 DEF IInv, JournalInv
  <2>2. accepted <= r.time /\ \A q \in net : q.time <= r.time
    BY <1>1, <1>2, <1>4 DEF IInv, JournalInv
  <2> QED  BY <1>2, <1>3, <1>8, <1>9, <2>1, <2>2 DEF JournalInv
<1>11. Fenced'
  <2>1. \A q \in net : IsMutation(q) => ~(q.time >= accepted)
    BY <1>1, NetTypes DEF IInv, Fenced
  <2> QED  BY <1>3, <1>9, <2>1 DEF Fenced
<1>12. /\ job'.op = op /\ job'.at = "answer" /\ job'.config = config /\ config # None
  BY <1>1, ConfigTypes DEF NewJob
<1>13. job' # None /\ ~Recovering' /\ ~Learnt'
  BY <1>1, <1>12, JobSteps, JobTypes DEF Recovering, Learnt
<1>14. ScheduledInv'
  <2>1. scheduled # None => /\ IsMutation(scheduled) /\ scheduled.time < original.sent
                            /\ Issue(scheduled) => OfKey(listed.certs, scheduled.body.key) # {}
    BY <1>1 DEF IInv, ScheduledInv
  <2>2. scheduled # None => scheduled.time \in Nat
    BY RequestTypes DEF IInv, TypeOK
  <2>3. scheduled # None => scheduled.time < original'.sent
    BY <1>1, <1>2, <1>3, <1>4, <2>1, <2>2
  <2> QED  BY <1>9, <2>1, <2>3 DEF ScheduledInv
<1>15. KeyInv'
  <2>1. PICK m : m = mark /\ mark' = m
    BY <1>1
  <2>2. ASSUME NEW k \in Keys PROVE NoReturn(k, m)'
    BY <1>1, <2>1, NoneIsNoMutation, SameParent DEF IInv, KeyInv
  <2> QED  BY <2>1, <2>2 DEF KeyInv
<1>16. HistoryInv' /\ AnswerInv' /\ FoundInv'
  BY <1>1, <1>12, SameHistory DEF AnswerInv, FoundInv
<1>17. CallInv'
  <2>1. /\ op \in {"create", "update"} => Issue(r) /\ r.body = config
        /\ op = "delete" => /\ r.op = "updown-revoke" /\ r.body = config
                            /\ state # None /\ config = state.config
        /\ op \in {"refresh", "import"} => ~IsMutation(r)
        /\ op = "refresh" => state # None /\ config = state.config
        /\ op = "import" => state = None
    BY <1>2 DEF Begins
  <2> QED  BY <1>1, <1>2, <1>3, <1>6, <1>12, <1>13, <2>1 DEF CallInv
<1> QED  BY <1>7, <1>9, <1>10, <1>11, <1>14, <1>15, <1>16, <1>17 DEF IInv

LEMMA SafeStutter ==
  ASSUME IInv, UNCHANGED vars
  PROVE  IInv'
<1>1. UNCHANGED <<listed, revoked, expired, scheduled, serial, accepted, pubs, net, original, probe, mark,
                  state, job, answer, relied, recovered>>
  BY DEF vars, parent, journals, history
<1>2. TypeOK' /\ JournalInv' /\ Fenced' /\ HistoryInv'
  BY <1>1 DEF IInv, TypeOK, Recovering, JournalInv, Horizon, Fenced, HistoryInv, StateIsCovered
<1>3. ScheduledInv' /\ CallInv'
  BY <1>1 DEF IInv, ScheduledInv, CallInv, Recovering, Learnt, Quiet
<1>4. UNCHANGED local /\ UNCHANGED parent /\ net' \subseteq net
  BY <1>1 DEF local, parent, history
<1>5. RepositoryInv' /\ KeyInv'
  BY <1>1, <1>4, ParentUnchanged, SameKeys
<1>6. \A k \in Keys : KeyKept(k)
  BY <1>1, MissingKept, SamePublications DEF IInv
<1>7. SolidsKept
  BY <1>1, MissingKept, SameSolids DEF IInv
<1>8. AnswerInv' /\ FoundInv'
  BY <1>1, <1>6, <1>7, KeptAnswerInv, KeptFoundInv
<1> QED  BY <1>2, <1>3, <1>5, <1>8 DEF IInv

LEMMA SafeInit == Init => IInv
<1> SUFFICES ASSUME Init PROVE IInv
  OBVIOUS
<1>1. /\ listed = [class |-> TRUE, certs |-> {}] /\ revoked = {} /\ expired = {}
      /\ scheduled = None /\ serial = 0 /\ accepted = 0
      /\ pubs = <<[certs |-> {}, crl |-> {}]>> /\ net = {}
      /\ original = NewJournal /\ probe = NewJournal /\ mark = 1
      /\ state = None /\ job = None /\ answer = None /\ relied = 1 /\ recovered = FALSE
  BY DEF Init
<1>2. listed.certs = {} /\ listed \in Inventory
  BY <1>1 DEF Inventory
<1>3. [certs |-> {}, crl |-> {}] \in Publication
  BY DEF Publication
<1>4. pubs \in Seq(Publication) /\ Len(pubs) = 1 /\ DOMAIN pubs = {1} /\ pubs[1].certs = {}
  BY <1>1, <1>3
<1>5. Len(pubs) \in 1 .. MaxPubs /\ 0 \in 0 .. MaxSerial /\ 0 \in 0 .. MaxTime
  BY <1>4, BoundsAssumption
<1>6. NewJournal \in Journal /\ NewJournal.pending = None /\ NewJournal.sent = 0
  BY <1>5 DEF NewJournal, Journal
<1>7. ~Recovering /\ ~Learnt /\ ~IsMutation(original.pending) /\ ~Issue(scheduled) /\ Horizon = 0
  BY <1>1, <1>6, NoneIsNoMutation DEF Recovering, Learnt, Horizon
<1>8. TypeOK
  BY <1>1, <1>2, <1>4, <1>5, <1>6, <1>7 DEF TypeOK
<1>9. JournalInv /\ Fenced /\ ScheduledInv /\ CallInv /\ AnswerInv /\ FoundInv /\ HistoryInv
  BY <1>1, <1>6, <1>7 DEF JournalInv, Fenced, ScheduledInv, CallInv, AnswerInv, FoundInv, HistoryInv, StateIsCovered
<1>10. RepositoryInv
  BY <1>2, <1>4 DEF RepositoryInv
<1>11. \A k : Missing(k)
  BY <1>2, <1>7 DEF Missing, OfKey
<1>12. \A i \in 1 .. 1 : i = 1
  OBVIOUS
<1>13. \A k : NoReturn(k, mark)
  BY <1>1, <1>4, <1>11, <1>12 DEF NoReturn, Gone, OfKey
<1> QED  BY <1>8, <1>9, <1>10, <1>13 DEF IInv, KeyInv

LEMMA InductiveStep == IInv /\ [Next]_vars => IInv'
<1> SUFFICES ASSUME IInv, [Next]_vars PROVE IInv'
  OBVIOUS
<1>1. CASE ResourceStep
  <2>1. ASSUME NEW t \in 1 .. MaxTime, NEW config \in Config,
               Create(config, t) \/ Update(config, t) \/ ImportState(config, t) \/ Delete(t) \/ Read(t)
        PROVE  IInv'
    BY <2>1, BeginCases, SafeBegin DEF IInv
  <2>2. ASSUME NEW t \in 1 .. MaxTime, Delete(t) \/ Read(t) PROVE IInv'
    <3>1. PICK config : config \in Config
      BY <2>2, StateConfig DEF IInv, Delete, Read
    <3> QED  BY <2>1, <2>2, <3>1
  <2>3. CASE Rejected
    BY <2>3, SafeRejected
  <2>4. CASE Issued
    BY <2>4, SafeIssued
  <2>5. CASE Revoked
    BY <2>5, SafeRevoked
  <2>6. CASE Listed
    BY <2>6, SafeListed
  <2>7. CASE VerifyPath
    BY <2>7, SafeVerifyPath
  <2>8. CASE Commit
    BY <2>8, SafeCommit
  <2>9. CASE Fail
    BY <2>9, SafeFail
  <2> QED  BY <1>1, <2>1, <2>2, <2>3, <2>4, <2>5, <2>6, <2>7, <2>8, <2>9 DEF ResourceStep
<1>2. CASE RecoveryStep
  <2>1. CASE RecoverRead
    BY <2>1, SafeRecoverRead
  <2>2. ASSUME NEW t \in 1 .. MaxTime, ReadPending(t) PROVE IInv'
    BY <2>2, SafeReadPending
  <2>3. CASE ProbeRejected
    BY <2>3, SafeProbeRejected
  <2>4. CASE ProbeIssuance
    BY <2>4, SafeProbeIssuance
  <2>5. CASE ProbeRevocation
    BY <2>5, SafeProbeRevocation
  <2>6. CASE VerifyRetirement
    BY <2>6, SafeVerifyRetirement
  <2>7. CASE Reconcile
    BY <2>7, SafeReconcile
  <2> QED  BY <1>2, <2>1, <2>2, <2>3, <2>4, <2>5, <2>6, <2>7 DEF RecoveryStep
<1>3. CASE ParentStep
  <2>1. ASSUME NEW r \in net, Drop(r) \/ ServeMutation(r) \/ ServeList(r) PROVE IInv'
    BY <2>1, SafeReceive
  <2>2. CASE ExecuteScheduled \/ Withdraw \/ Expire
    BY <2>2, SafeRepository
  <2>3. CASE Publish
    BY <2>3, SafePublish
  <2> QED  BY <1>3, <2>1, <2>2, <2>3 DEF ParentStep
<1>4. CASE UNCHANGED vars
  BY <1>4, SafeStutter
<1> QED  BY <1>1, <1>2, <1>3, <1>4 DEF Next

\* In every reachable state: what the journals, the parent, its repository, the
\* manifest history and the call under way know of one another.
THEOREM Inductive == Spec => []IInv
<1> QED  BY SafeInit, InductiveStep, PTL DEF Spec

\* Every field keeps to its domain, and a call that waits for its answer has its
\* request pending in the journal it uses.
THEOREM TypeCorrect == Spec => []TypeOK
<1>1. IInv => TypeOK
  BY DEF IInv
<1> QED  BY <1>1, Inductive, PTL

\* Whatever is lost, late, scheduled or interrupted: no mutation but the pending
\* one can still be accepted by the parent.
THEOREM SettledIsFinal == Spec => []Fenced
<1>1. IInv => Fenced
  BY DEF IInv
<1> QED  BY <1>1, Inductive, PTL

\* Only the two verifications rely on a publication, and only a confirmed
\* revocation or a list gives the resource up.
LEMMA WhoRelies ==
  ASSUME Next
  PROVE  /\ relied' = relied \/ VerifyPath \/ VerifyRetirement
         /\ state' = state \/ Revoked \/ Listed \/ Commit
<1>1. CASE ResourceStep
  <2>1. ASSUME NEW t \in 1 .. MaxTime, NEW config, Create(config, t) \/ Update(config, t) \/ ImportState(config, t)
        PROVE  UNCHANGED <<state, relied>>
    BY <2>1 DEF Create, Update, ImportState, Mutate, List, Begin, history
  <2>2. ASSUME NEW t \in 1 .. MaxTime, Delete(t) \/ Read(t)
        PROVE  UNCHANGED <<state, relied>>
    BY <2>2 DEF Delete, Read, Mutate, List, Begin, history
  <2>3. CASE Rejected \/ Issued \/ Fail \/ Revoked \/ Listed \/ VerifyPath \/ Commit
    BY <2>3 DEF Rejected, Issued, Fail, Revoked, Listed, VerifyPath, Commit, history
  <2> QED  BY <1>1, <2>1, <2>2, <2>3 DEF ResourceStep
<1>2. CASE RecoveryStep
  BY <1>2 DEF RecoveryStep, RecoverRead, ReadPending, ProbeRejected, ProbeIssuance, ProbeRevocation,
              VerifyRetirement, Reconcile, history
<1>3. CASE ParentStep
  BY <1>3 DEF ParentStep, Drop, ServeMutation, ServeList, Receive, ExecuteScheduled, Withdraw, Expire, Publish, history
<1> QED  BY <1>1, <1>2, <1>3 DEF Next

\* Every decision relies on a publication at least as new as the last decision
\* did, and what is in the state lies under the mark.
THEOREM EvidenceOnlyAdvances == Spec => EvidenceIsCurrent
<1>1. IInv /\ [Next]_vars => [relied' >= relied /\ StateIsCovered']_vars
  <2> SUFFICES ASSUME IInv, Next PROVE relied' >= relied /\ StateIsCovered'
    OBVIOUS
  <2>1. StateIsCovered'
    BY InductiveStep DEF IInv, HistoryInv
  <2>2. relied = mark /\ relied \in Nat
    BY StateTypes DEF IInv, HistoryInv
  <2>3. CASE relied' = relied
    BY <2>1, <2>2, <2>3
  <2>4. CASE VerifyPath \/ VerifyRetirement
    <3>1. PICK i \in DOMAIN pubs : NotBehind(i) /\ relied' = i
      BY <2>4 DEF VerifyPath, VerifyRetirement, Verifies, Remember
    <3> QED  BY <2>1, <2>2, <3>1 DEF NotBehind
  <2> QED  BY <2>3, <2>4, WhoRelies
<1> QED  BY <1>1, Inductive, PTL DEF Spec, EvidenceIsCurrent

\* Once its answer is there no issuance of the key can be accepted any more.
LEMMA NoLateIssue ==
  ASSUME IInv, Learnt, NEW k, Missing(k), UNCHANGED <<net, scheduled, accepted>>, NEW r \in net' \cup ({scheduled'} \ {None}),
         r.op = "updown-issue", r.time >= accepted' \/ r = scheduled'
  PROVE  r.body.key # k
<1>1. CASE r = scheduled'
  <2>1. r # None /\ r = scheduled
    BY <1>1, NetTypes DEF IInv
  <2> QED  BY <2>1 DEF Missing, Issue
<1>2. CASE r \in net /\ r.time >= accepted
  <2>1. IsMutation(r) /\ r.time \in Nat /\ accepted \in Nat
    BY <1>2, NetTypes, RequestTypes, StateTypes DEF IInv
  <2> QED  BY <1>2, <2>1 DEF IInv, CallInv, Quiet
<1> QED  BY <1>1, <1>2

LEMMA NeverForgets == IInv /\ [Next]_vars =>
  [state # None /\ state' = None =>
       /\ OfKey(listed'.certs, state.config.key) = {}
       /\ \A r \in net' \cup ({scheduled'} \ {None}) :
            (r.op = "updown-issue" /\ (r.time >= accepted' \/ r = scheduled')) =>
              r.body.key # state.config.key]_vars
<1> SUFFICES ASSUME IInv, Next, state # None, state' = None
             PROVE  /\ OfKey(listed'.certs, state.config.key) = {}
                    /\ \A r \in net' \cup ({scheduled'} \ {None}) :
                         (r.op = "updown-issue" /\ (r.time >= accepted' \/ r = scheduled')) =>
                           r.body.key # state.config.key
  OBVIOUS
<1>1. CASE Commit
  <2>1. job # None /\ job.at = "commit" /\ ~Revocation
    BY <1>1 DEF Commit, Revocation
  <2>2. state' \in State
    BY <1>1, <2>1, CommittedCert DEF Commit, State
  <2> QED  BY <2>2, NoneIsApart
<1>2. CASE Revoked \/ Listed
  <2>1. /\ job # None /\ Learnt /\ answer # None /\ UNCHANGED <<listed, scheduled, accepted, net>>
    BY <1>2 DEF Revoked, Listed, Waiting, Learnt, parent
  <2>2. Missing(state.config.key)
    <3>1. CASE Revoked
      <4>1. job.op = "delete" /\ ~Recovering /\ Missing(job.config.key)
        BY <2>1, <3>1 DEF Revoked, IInv, AnswerInv
      <4> QED  BY <2>1, <4>1 DEF IInv, CallInv
    <3>2. CASE Listed
      <4>1. /\ ~Recovering /\ answer.kind = "list" /\ OfKey(answer.inventory.certs, job.config.key) = {}
        BY <3>2 DEF Listed, Selected
      <4>2. job.op \in {"refresh", "import"} /\ Missing(job.config.key)
        BY <2>1, <4>1, JobConfig DEF IInv, AnswerInv
      <4> QED  BY <2>1, <4>1, <4>2 DEF IInv, CallInv
    <3> QED  BY <1>2, <3>1, <3>2
  <2>3. OfKey(listed'.certs, state.config.key) = {}
    BY <2>1, <2>2 DEF Missing
  <2> QED  BY <2>1, <2>2, <2>3, NoLateIssue
<1> QED  BY <1>1, <1>2, WhoRelies

LEMMA PublishedRevocation == IInv /\ [Next]_vars =>
  [Reconcile /\ Revocation =>
       LET last == pubs[Len(pubs)] IN
       /\ OfKey(last.certs, job.config.key) = {}
       /\ \A i \in DOMAIN pubs : \A c \in OfKey(pubs[i].certs, job.config.key) :
            c.serial \in last.crl \cup expired]_vars
<1> SUFFICES ASSUME IInv, Reconcile, Revocation
             PROVE  /\ OfKey(pubs[Len(pubs)].certs, job.config.key) = {}
                    /\ \A i \in DOMAIN pubs : \A c \in OfKey(pubs[i].certs, job.config.key) :
                         c.serial \in pubs[Len(pubs)].crl \cup expired
  OBVIOUS
<1>1. PICK k \in Keys : k = job.config.key /\ job # None /\ job.at = "commit"
  BY JobConfig DEF Reconcile, Recovering
<1>2. Gone(k, mark) /\ ~Issue(original.pending)
  BY <1>1 DEF IInv, FoundInv, Revocation, Issue
<1>3. NoReturn(k, mark)
  BY <1>2 DEF IInv, KeyInv
<1>4. /\ mark \in mark .. Len(pubs) /\ Len(pubs) \in mark .. Len(pubs)
      /\ \A i \in DOMAIN pubs : Len(pubs) \in i .. Len(pubs)
  BY StateTypes DEF IInv
<1>5. Gone(k, Len(pubs))
  BY <1>2, <1>3, <1>4 DEF NoReturn
<1>6. ASSUME NEW i \in DOMAIN pubs, NEW c \in OfKey(pubs[i].certs, k)
      PROVE  c.serial \in pubs[Len(pubs)].crl \cup expired
  <2>1. c \in pubs[i].certs /\ c.key = k
    BY DEF OfKey
  <2>2. c \notin pubs[Len(pubs)].certs
    BY <1>5, <2>1 DEF Gone, OfKey
  <2> QED  BY <1>4, <2>1, <2>2 DEF IInv, RepositoryInv
<1> QED  BY <1>1, <1>5, <1>6 DEF Gone

\* The resource is given up only when nothing of its key is left at the parent
\* or under way, and a recovered revocation is a fact of the repository.
THEOREM NothingLeftBehind == Spec => NothingUnmanaged
<1> QED  BY NeverForgets, PublishedRevocation, Inductive, PTL
         DEF Spec, NothingUnmanaged, NotForgotten, RevocationIsPublished
=============================================================================
