-------------------------- MODULE PublicationBundle --------------------------
(***************************************************************************)
(* One arin_rpki_publication_bundle resource, its publication server and   *)
(* the recovery of a mutation whose answer was lost.                       *)
(*                                                                         *)
(* The provider and the journal tool hold the lease of the peer's original *)
(* journal for a whole call, so one call runs at a time.  A recovery keeps *)
(* that lease and sends a list request through a probe journal of its own, *)
(* named after the digest of the pending mutation.  Both journals are      *)
(* taken as ExchangeJournal promises them: durable and atomic.  A request  *)
(* on the network may arrive at any later time, or never.                  *)
(***************************************************************************)
EXTENDS Integers

CONSTANTS
  URIs,         \* rsync object URLs
  Hashes,       \* SHA-256 hashes of object contents
  Configs,      \* the values the configuration's objects attribute takes
  MaxTime,      \* bound: signing times are whole seconds 1..MaxTime
  MaxEdits,     \* bound: changes made by another publisher
  Absent,       \* "", no object
  None          \* nil, and the absence of Terraform state

Bundle == [URIs -> Hashes \cup {Absent}]
Empty == [u \in URIs |-> Absent]
Time == 0 .. MaxTime
SigningTime == 1 .. MaxTime

ASSUME ConfigsAssumption == Configs \subseteq Bundle
ASSUME BoundsAssumption == MaxTime \in Nat /\ MaxEdits \in Nat

\* A batch's hash preconditions and its results; "" stands for no object.
Plan == [before : Bundle, after : Bundle]
Batch == [op : {"publication-batch"}, body : Plan, time : SigningTime]
List == [op : {"publication-list"}, body : {None}, time : SigningTime]
Request == Batch \cup List
Journal == [pending : Request \cup {None}, sent : Time, recovered : Time]
State == [objects : Bundle, hashes : Bundle]
Job == [op : {"create", "update", "delete", "import", "refresh", "recover"}, objects : Bundle]

\* Only the answer to a list carries an inventory.
Answer == [kind : {"success", "rejected", "inventory"}, objects : Bundle]
Success == [kind |-> "success", objects |-> Empty]
Rejected == [kind |-> "rejected", objects |-> Empty]
Inventory(objects) == [kind |-> "inventory", objects |-> objects]

ASSUME NoneAssumption == None \notin Request \cup State \cup Bundle \cup Job \cup Answer
ASSUME AbsentAssumption == Absent \notin Hashes

VARIABLES
  repo,         \* the server's objects
  accepted,     \* the latest signing time the server accepted from this client
  net,          \* requests sent and not yet received
  original,     \* the peer's journal
  probe,        \* the recovery journal of original's pending mutation
  state,        \* the resource's Terraform state
  job,          \* the call that holds the lease, or None
  answer,       \* the server's answer on the call's connection, or None
  inventory,    \* what a completed probe observed, or None
  goal,         \* history: the call whose batch is pending or was reconciled
  landed,       \* history: did the pending batch take effect?
  fresh,        \* history: does the last refresh's inventory still hold?
  edits         \* bound: changes by another publisher so far

server == <<repo, accepted>>
call == <<job, answer, inventory>>
history == <<goal, landed, fresh, edits>>
vars == <<server, net, original, probe, state, call, history>>

NoBatch == [op |-> "refresh", objects |-> Empty]
NewJournal == [pending |-> None, sent |-> 0, recovered |-> 0]

Init ==
  /\ repo = Empty /\ accepted = 0 /\ net = {}
  /\ original = NewJournal /\ probe = NewJournal
  /\ state = None
  /\ job = None /\ answer = None /\ inventory = None
  /\ goal = NoBatch /\ landed = FALSE /\ fresh = FALSE /\ edits = 0
-----------------------------------------------------------------------------
(* The journals, as their callers see them *)

CanBegin_WhilePending(j, t) == t >= j.sent /\ (j.recovered # 0 => t > j.recovered)
CanBegin(j, t) == j.pending = None /\ t >= j.sent /\ (j.recovered # 0 => t > j.recovered)
Begun_NotSaved(j, r) == [j EXCEPT !.sent = r.time]
Begun(j, r) == [j EXCEPT !.pending = r, !.sent = r.time]
Completed(j) == [j EXCEPT !.pending = None]
Recovered(j) == [j EXCEPT !.pending = None, !.recovered = j.pending.time]

Reconciled_OriginalTime(j, p) == [j EXCEPT !.pending = None]
Reconciled(j, p) == [j EXCEPT !.pending = None, !.sent = p.sent]

\* A request is saved as pending and then sent, unless the process fails between.
Send(r) == net' = net \cup {r} \/ UNCHANGED net

IsBatch(r) == r # None /\ r.op = "publication-batch"
IsList(r) == r # None /\ r.op = "publication-list"
ListRequest(t) == [op |-> "publication-list", body |-> None, time |-> t]
-----------------------------------------------------------------------------
(* Planning and comparing *)

Members(b) == {u \in URIs : b[u] # Absent}
Touched(p) == Members(p.before) \cup Members(p.after)

\* planRPKIPublicationBundle guards every member of the desired and the prior
\* bundle with its last observed hash, also the members that do not change.
PlanOf_OnlyChanges(desired, prior) ==
  LET same(u) == desired[u] = prior[u] IN
  [before |-> [u \in URIs |-> IF same(u) THEN Absent ELSE prior[u]],
   after |-> [u \in URIs |-> IF same(u) THEN Absent ELSE desired[u]]]
PlanOf(desired, prior) == [before |-> prior, after |-> desired]
Changes(desired, prior) == desired # prior

Observed(inv, p, b) == \A u \in Touched(p) : inv[u] = b[u]
Classify_AnyMember(p, inv) ==
  IF \E u \in Touched(p) : inv[u] = p.after[u] THEN "matches_after"
  ELSE IF Observed(inv, p, p.before) THEN "matches_before" ELSE "conflict"
Classify(p, inv) ==
  LET before == Observed(inv, p, p.before)  after == Observed(inv, p, p.after) IN
  CASE before /\ after -> "ambiguous"
    [] after /\ ~before -> "matches_after"
    [] before /\ ~after -> "matches_before"
    [] OTHER -> "conflict"

Applied(p) == [u \in URIs |-> IF u \in Touched(p) THEN p.after[u] ELSE repo[u]]
-----------------------------------------------------------------------------
(* The resource's operations *)

Start(op, objects) ==
  job = None /\ job' = [op |-> op, objects |-> objects]

\* An unchanged bundle needs no exchange.
ApplyUnchanged(objects) ==
  /\ job = None
  /\ IF state = None THEN objects = Empty ELSE ~Changes(objects, state.hashes)
  /\ state' = [objects |-> objects, hashes |-> objects]
  /\ UNCHANGED <<server, net, original, probe, call, history>>

DeleteUnchanged ==
  /\ job = None /\ state # None /\ state.hashes = Empty
  /\ state' = None
  /\ UNCHANGED <<server, net, original, probe, call, history>>

Apply(op, desired, prior, t) ==
  /\ Start(op, desired)
  /\ Changes(desired, prior) /\ CanBegin(original, t)
  /\ LET r == [op |-> "publication-batch", body |-> PlanOf(desired, prior), time |-> t]
     IN original' = Begun(original, r) /\ Send(r)
  /\ probe' = NewJournal                    \* a new digest names a new journal
  /\ goal' = job' /\ landed' = FALSE /\ fresh' = FALSE
  /\ UNCHANGED <<server, state, answer, inventory, edits>>

Create(objects, t) == state = None /\ Apply("create", objects, Empty, t)
Update(objects, t) == state # None /\ Apply("update", objects, state.hashes, t)
Delete(t) == state # None /\ Apply("delete", Empty, state.hashes, t)

ReadInventory(op, objects, t) ==
  /\ Start(op, objects)
  /\ CanBegin(original, t)
  /\ original' = Begun(original, ListRequest(t)) /\ Send(ListRequest(t))
  /\ UNCHANGED <<server, probe, state, answer, inventory, history>>

Read(t) == state # None /\ ReadInventory("refresh", Empty, t)
ImportState(objects, t) ==
  state = None /\ objects # Empty /\ ReadInventory("import", objects, t)

Return == job' = None /\ answer' = None /\ inventory' = None

Recovering == job # None /\ job.op = "recover"
Waiting == job # None /\ ~Recovering

\* An authenticated answer to a batch completes the exchange, a rejection too.
Complete ==
  /\ Waiting /\ answer \in {Success, Rejected}
  /\ Return
  /\ original' = Completed(original)
  /\ state' = CASE answer = Rejected -> state
                [] answer = Success /\ job.op = "delete" -> None
                [] OTHER -> [objects |-> job.objects, hashes |-> job.objects]
  /\ goal' = NoBatch /\ landed' = FALSE
  /\ UNCHANGED <<server, net, probe, fresh, edits>>

Owned(objects, inv) == [u \in URIs |-> IF objects[u] # Absent THEN inv[u] ELSE Absent]

CompleteList ==
  /\ Waiting /\ answer # None /\ answer.kind = "inventory"
  /\ Return
  /\ original' = Completed(original)
  /\ state' = IF job.op = "refresh"
              THEN [state EXCEPT !.hashes = Owned(state.objects, answer.objects)]
              ELSE IF Owned(job.objects, answer.objects) = job.objects
              THEN [objects |-> job.objects, hashes |-> job.objects]
              ELSE state
  /\ fresh' = (job.op = "refresh" /\ answer.objects = repo)
  /\ UNCHANGED <<server, net, probe, goal, landed, edits>>

\* A failed send, a lost or refused answer, a timeout or a crash: the pending
\* entries stay in their journals.
Fail ==
  /\ job # None
  /\ Return
  /\ UNCHANGED <<server, net, original, probe, state, history>>
-----------------------------------------------------------------------------
(* Recovery *)

\* rpki-journal -recover-read on either journal, when no call holds its lease.
RecoverRead ==
  /\ job = None /\ IsList(original.pending)
  /\ original' = Recovered(original)
  /\ UNCHANGED <<server, net, probe, state, call, history>>

RecoverProbe ==
  /\ IsList(probe.pending) /\ ~Recovering
  /\ probe' = Recovered(probe)
  /\ UNCHANGED <<server, net, original, state, call, history>>

MinimumSent_SameSecond(j) == j.sent
MinimumSent(j) == j.sent + 1

\* readPendingPublication: the original lease stays held from here on.
ReadPending(t) ==
  /\ IsBatch(original.pending)
  /\ Start("recover", Empty)
  /\ CanBegin(probe, t) /\ t >= MinimumSent(original)
  /\ probe' = Begun(probe, ListRequest(t)) /\ Send(ListRequest(t))
  /\ UNCHANGED <<server, original, state, answer, inventory, history>>

Probing == Recovering /\ inventory = None

ProbeComplete ==
  /\ Probing /\ answer # None /\ answer.kind = "inventory"
  /\ probe' = Completed(probe)
  /\ inventory' = answer.objects /\ answer' = None
  /\ UNCHANGED <<server, net, original, state, job, history>>

ProbeRejected ==
  /\ Probing /\ answer = Rejected
  /\ Return
  /\ probe' = Completed(probe)
  /\ UNCHANGED <<server, net, original, state, history>>

\* The operator asked for the outcome that was observed.
Reconcile ==
  /\ Recovering /\ inventory # None
  /\ probe.pending = None /\ probe.sent >= MinimumSent(original)
  /\ Classify(original.pending.body, inventory) \in {"matches_before", "matches_after"}
  /\ original' = Reconciled(original, probe)
  /\ Return
  /\ landed' = FALSE
  /\ UNCHANGED <<server, net, probe, state, goal, fresh, edits>>
-----------------------------------------------------------------------------
(* The publication server and other publishers *)

Current(r) ==
  job # None /\ r = IF Recovering THEN probe.pending ELSE original.pending

Answers(r, a) ==
  answer' = IF Current(r) /\ inventory = None THEN a ELSE answer

\* A signing time older than the last accepted one is refused without an answer.
Refuse(r) ==
  /\ r.time < accepted
  /\ net' = net \ {r}
  /\ UNCHANGED <<server, original, probe, state, call, history>>

ReceiveBatch(r) ==
  /\ IsBatch(r) /\ r.time >= accepted
  /\ net' = net \ {r} /\ accepted' = r.time
  /\ \/ /\ Observed(repo, r.body, r.body.before)
        /\ repo' = Applied(r.body) /\ landed' = TRUE
        /\ Answers(r, Success)
     \/ /\ UNCHANGED <<repo, landed>>
        /\ Answers(r, Rejected)
  /\ UNCHANGED <<original, probe, state, job, inventory, goal, fresh, edits>>

ReceiveList(r) ==
  /\ IsList(r) /\ r.time >= accepted
  /\ net' = net \ {r} /\ accepted' = r.time
  /\ Answers(r, Inventory(repo)) \/ Answers(r, Rejected)
  /\ UNCHANGED <<repo, original, probe, state, job, inventory, history>>

Edit(u, h) ==
  /\ edits < MaxEdits /\ repo[u] # h
  /\ repo' = [repo EXCEPT ![u] = h]
  /\ edits' = edits + 1 /\ fresh' = FALSE
  /\ UNCHANGED <<accepted, net, original, probe, state, call, goal, landed>>

Resource ==
  \/ \E c \in Configs : ApplyUnchanged(c)
  \/ \E c \in Configs, t \in SigningTime : Create(c, t) \/ Update(c, t) \/ ImportState(c, t)
  \/ \E t \in SigningTime : Delete(t) \/ Read(t)
  \/ DeleteUnchanged \/ Complete \/ CompleteList \/ Fail

Recovery ==
  \/ RecoverRead \/ RecoverProbe
  \/ \E t \in SigningTime : ReadPending(t)
  \/ ProbeComplete \/ ProbeRejected \/ Reconcile

Server ==
  \/ \E r \in net : Refuse(r) \/ ReceiveBatch(r) \/ ReceiveList(r)
  \/ \E u \in URIs, h \in Hashes \cup {Absent} : Edit(u, h)

Next == Resource \/ Recovery \/ Server

Spec == Init /\ [][Next]_vars
-----------------------------------------------------------------------------
(* Properties *)

\* Every variable has the shape the code gives it; a call that waits for an
\* answer has its request pending in the journal it uses.
TypeOK ==
  /\ repo \in Bundle /\ accepted \in Time /\ net \subseteq Request
  /\ original \in Journal /\ probe \in Journal
  /\ state \in State \cup {None} /\ job \in Job \cup {None}
  /\ answer \in Answer \cup {None}
  /\ inventory \in Bundle \cup {None}
  /\ goal \in Job /\ landed \in BOOLEAN /\ fresh \in BOOLEAN
  /\ edits \in 0 .. MaxEdits
  /\ Waiting => original.pending # None /\ (job.op = "refresh" => state # None)
  /\ Probing => IsList(probe.pending) /\ IsBatch(original.pending)

\* A batch that the operator decided can never take effect afterwards, however
\* late it arrives: of all batches under way only the pending one is not older
\* than what the server has accepted (the probe is signed a second later, and
\* the original journal inherits the probe's time).
Fenced == \A r \in net : IsBatch(r) /\ r.time >= accepted => r = original.pending

\* With nothing pending, the next request the journal allows is not refused
\* for its signing time: a decision must not leave the peer signing earlier
\* than the probe the server has already seen.
NotLockedOut == original.pending = None => accepted <= original.sent

\* A batch that took effect is reported as matches_after unless another
\* publisher interfered: the inventory cannot be older than the effect of a
\* batch that arrives during or after the probe.
LandedIsSeen ==
  landed /\ edits = 0 /\ inventory # None =>
    Classify(original.pending.body, inventory) = "matches_after"

\* When recovery reports matches_after the whole bundle is there, also the
\* members the batch did not mean to change.
AfterIsComplete ==
  inventory # None /\ Classify(original.pending.body, inventory) = "matches_after" =>
    \A u \in Members(goal.objects) : inventory[u] = goal.objects[u]

\* A decision about an uncertain batch holds: the batch cannot take effect
\* after it, the peer can go on signing, and matches_after was the whole truth.
DecisionsHold == Fenced /\ NotLockedOut /\ AfterIsComplete

\* When a batch takes effect the repository holds the whole desired bundle:
\* an edit of a member that was not to change makes the server reject it.
NoHalfBundle ==
  [][~landed /\ landed' =>
       \A u \in Members(goal.objects) : repo'[u] = goal.objects[u]]_vars

\* The original journal, with a recovery that reads through another journal,
\* keeps the promise that ExchangeJournal keeps.
Slot == INSTANCE PendingSlot WITH
  ReadOps <- {"publication-list"}, MutationOps <- {"publication-batch"},
  Bodies <- Plan \cup {None}, slot <- original.pending, mark <- original.sent
ImplementsSlot == Slot!Spec

\* The reference documentation says that after a recovery updates "use the next
\* refreshed inventory as usual": the update that follows a reconciled update
\* and a refresh that still holds should have the repository's hashes as its
\* preconditions (Read keeps only the hashes of objects already in the state).
Dispatches(op) == job = None /\ job' # None /\ job'.op = op
RefreshedUpdateFits ==
  [][fresh /\ goal.op = "update" /\ Dispatches("update") =>
       LET p == original'.pending.body IN Observed(repo, p, p.before)]_vars
-----------------------------------------------------------------------------
(***************************************************************************)
(* The inductive invariant.  Everything the peer has signed lies at or     *)
(* before Horizon: the original journal's watermark or, while a batch is   *)
(* pending, its probe's.  A probe that was answered has raised the         *)
(* server's accepted time past the pending batch.                          *)
(***************************************************************************)

Later(s, t) == IF s < t THEN t ELSE s
Horizon == IF IsBatch(original.pending) THEN Later(original.sent, probe.sent) ELSE original.sent

JournalInv ==
  /\ original.pending # None => original.pending.time = original.sent
  /\ probe.pending # None => probe.pending.time = probe.sent
  /\ IsBatch(original.pending) => original.pending.body.after = goal.objects

CallInv ==
  /\ job = None => answer = None /\ inventory = None
  /\ inventory # None => Recovering /\ answer = None
  /\ Waiting /\ IsBatch(original.pending) => probe.sent = 0
  /\ Waiting /\ answer # None => original.pending \notin net
  /\ Recovering => IsBatch(original.pending) /\ probe.sent > original.sent
  /\ Recovering /\ (answer # None \/ inventory # None) => accepted > original.sent

HorizonInv == accepted <= Horizon /\ \A r \in net : r.time <= Horizon

IInv == TypeOK /\ JournalInv /\ CallInv /\ HorizonInv /\ Fenced

\* A batch that took effect has left the network, and the server shows its
\* results to every probe until another publisher interferes.
Shows(objects) == Observed(objects, original.pending.body, original.pending.body.after)
LandedInv ==
  /\ IsBatch(original.pending) => Changes(original.pending.body.after, original.pending.body.before)
  /\ Waiting /\ answer # None /\ answer.kind = "inventory" => ~IsBatch(original.pending)
  /\ landed => IsBatch(original.pending) /\ original.pending \notin net
  /\ landed /\ edits = 0 =>
       /\ Shows(repo)
       /\ inventory # None => Shows(inventory)
       /\ Recovering /\ answer # None /\ answer.kind = "inventory" => Shows(answer.objects)
=============================================================================
