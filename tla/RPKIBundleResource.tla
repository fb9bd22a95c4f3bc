------------------------ MODULE RPKIBundleResource ------------------------
(***************************************************************************)
(* One arin_rpki_bundle resource: labelled ROAs and ASPAs that change in   *)
(* one transaction, planned from the members' recorded ownership and the   *)
(* inventories, and reconciled against a receipt when the outcome is not   *)
(* confirmed.  Reading the inventories takes two requests.                 *)
(***************************************************************************)
EXTENDS RPKIService

CONSTANTS
  Labels,       \* the ROA labels of the configuration
  Configs,      \* the members a configuration may list
  MaxCrashes    \* bound: calls lost with the provider process

Desired == [roas : [Labels -> Objects \cup {None}], aspas : ASPAs]
Nothing == [roas |-> [l \in Labels |-> None], aspas |-> [c \in Customers |-> None]]

\* RPKIBundleDesired.Validate: labels do not repeat an origin and prefix.
ValidConfigs ==
  \A d \in Configs : \A l, k \in Labels :
    l # k /\ d.roas[l] # None /\ d.roas[k] # None => Key[d.roas[l]] # Key[d.roas[k]]
Ownership == [roas : [Labels -> Handles \cup {None}], aspas : SUBSET Customers]
NoOwnership == [roas |-> [l \in Labels |-> None], aspas |-> {}]
Plan == [desired : Desired, prior : Ownership, tx : Tx, baseline : SUBSET Handles,
         retained : [Labels -> Handles \cup {None}]]
Journal == [plan : Plan, returned : Receipt]
State == [owned : Ownership, recovery : Journal \cup {None}]
Call == [op : {"write", "read", "import"}, at : {"list", "aspas", "post", "answer", "verify", "after", "afterASPAs"},
         desired : Desired, prior : State \cup {None}, seen : ROAs, plan : Plan \cup {None},
         n : 0 .. MaxSubmits, answer : Answer \cup {None}]

Assumption ==
  /\ ServiceAssumption /\ MaxCrashes \in Nat
  /\ Configs \subseteq Desired \ {Nothing} /\ ValidConfigs
  /\ None \notin Answer \cup Plan \cup Journal \cup State \cup Call

VARIABLES
  state,        \* the resource's Terraform state, or None
  call,         \* the running call, or None
  lost,         \* history: did a crash lose the outcome of a transaction?
  imported,     \* history: the ROAs whose ownership was imported
  late,         \* history: the ROAs another channel made during a write or before its effect
  relabelled,   \* history: did a plan replace a ROA by an equal one?
  crashes       \* bound: crashes so far

history == <<lost, imported, late, relabelled>>
vars == <<service, state, call, history, crashes>>

Init ==
  /\ ServiceInit
  /\ state = None /\ call = None /\ lost = FALSE /\ imported = {} /\ late = {} /\ relabelled = FALSE /\ crashes = 0
-----------------------------------------------------------------------------
(* PlanRPKIBundle *)

Owned(own) == {own.roas[l] : l \in Labels} \ {None}

Retained_Adopts(prior, desired, R) ==
  [l \in Labels |->
     LET equal == {h \in Handles : desired.roas[l] # None /\ R[h] = desired.roas[l]} IN
     IF equal # {} THEN CHOOSE h \in equal : TRUE ELSE None]
Retained(prior, desired, R) ==
  [l \in Labels |->
     IF prior.roas[l] # None /\ desired.roas[l] # None /\ R[prior.roas[l]] = desired.roas[l]
     THEN prior.roas[l] ELSE None]
AddedLabels(p) == {l \in Labels : p.desired.roas[l] # None /\ p.retained[l] = None}

Transaction(prior, desired, retained, R, S) ==
  [deleteROAs |-> {prior.roas[l] : l \in {k \in Labels : prior.roas[k] # None /\ retained[k] = None}}
                  \cap Live(R),
   addROAs |-> {desired.roas[l] : l \in {k \in Labels : desired.roas[k] # None /\ retained[k] = None}},
   deleteASPAs |-> {c \in prior.aspas : S[c] # None /\ S[c] # desired.aspas[c]},
   addASPAs |-> [c \in Customers |-> IF S[c] # desired.aspas[c] THEN desired.aspas[c] ELSE None]]

PlanRPKIBundle(prior, desired, R, S) ==
  LET retained == Retained(prior, desired, R) IN
  [desired |-> desired, prior |-> prior, baseline |-> Live(R), retained |-> retained,
   tx |-> Transaction(prior, desired, retained, R, S)]

\* Only identities that prior owns are deleted or replaced.
Conflict(p, R, S) ==
  \/ \E l \in AddedLabels(p), h \in Live(R) \ p.tx.deleteROAs :
       Key[R[h]] = Key[p.desired.roas[l]]
  \/ \E c \in Customers : S[c] # None /\ p.desired.aspas[c] # None /\ c \notin p.prior.aspas
-----------------------------------------------------------------------------
(* ReconcileRPKIBundle, and reconcileBundle with the returned receipt *)

\* An object that was there before the write is not a new member, unless the
\* plan replaces it.
Candidates(p, l, R) ==
  {h \in Live(R) : R[h] = p.desired.roas[l] /\ (h \in p.baseline => h \in p.tx.deleteROAs)}

Reconciled(p, R) ==
  [l \in Labels |-> IF p.retained[l] # None THEN p.retained[l]
                    ELSE IF p.desired.roas[l] # None THEN CHOOSE h \in Candidates(p, l, R) : TRUE
                    ELSE None]

ROAsConfirmed(p, R) ==
  /\ \A l \in Labels : p.retained[l] # None => R[p.retained[l]] = p.desired.roas[l]
  /\ \A l \in AddedLabels(p) : \E h \in Handles : Candidates(p, l, R) = {h}
  /\ \A h \in Owned(p.prior) : R[h] # None => \E l \in Labels : Reconciled(p, R)[l] = h
ASPAsConfirmed(p, S) ==
  /\ \A c \in Customers : p.desired.aspas[c] # None => S[c] = p.desired.aspas[c]
  /\ \A c \in p.prior.aspas : p.desired.aspas[c] = None => S[c] = None

\* A different matching handle must not replace a returned one.
ReturnedConfirmed(j, R) ==
  \A o \in DOMAIN j.returned : \A l \in Labels :
    j.plan.desired.roas[l] = o => Reconciled(j.plan, R)[l] = j.returned[o]

Confirmed_ROAsOnly(j, R, S) == ROAsConfirmed(j.plan, R) /\ ReturnedConfirmed(j, R)
Confirmed(j, R, S) ==
  ROAsConfirmed(j.plan, R) /\ ASPAsConfirmed(j.plan, S) /\ ReturnedConfirmed(j, R)

Settled(roaHandles, customers) ==
  [owned |-> [roas |-> roaHandles, aspas |-> customers], recovery |-> None]
SettledFrom(p, R) ==
  IF p.desired = Nothing THEN None
  ELSE Settled(Reconciled(p, R), {c \in Customers : p.desired.aspas[c] # None})

\* An unconfirmed write keeps the prior ownership, or none, and its journal.
Before(prior) == IF prior = None THEN NoOwnership ELSE prior.owned
Pending_NoPrior(prior, plan, returned) ==
  [owned |-> IF prior = None THEN None ELSE prior.owned,
   recovery |-> [plan |-> plan, returned |-> returned]]
Pending(prior, plan, returned) ==
  [owned |-> Before(prior), recovery |-> [plan |-> plan, returned |-> returned]]
-----------------------------------------------------------------------------
(* Calls *)

Start(op, desired, prior) ==
  /\ call = None
  /\ call' = [op |-> op, at |-> "list", desired |-> desired, prior |-> prior, seen |-> roas,
              plan |-> None, n |-> 0, answer |-> None]
  /\ UNCHANGED <<service, state, history, crashes>>

\* write refuses a resource that still has a recovery journal.
MayWrite_Unreconciled(s) == TRUE
MayWrite(s) == s # None => s.recovery = None
StartWrite(desired) == MayWrite(state) /\ Start("write", desired, state)
StartDelete == state # None /\ MayWrite(state) /\ Start("write", Nothing, state)
StartRead == state # None /\ Start("read", Nothing, state)
\* An import names handles and customers that must all exist.
StartImport(owned) ==
  /\ state = None /\ owned # NoOwnership
  /\ \A l, k \in Labels : l # k => owned.roas[l] = None \/ owned.roas[l] # owned.roas[k]
  /\ Start("import", Nothing, [owned |-> owned, recovery |-> None])

At(op, at) == call # None /\ call.op \in op /\ call.at = at
Goto(at) == call' = [call EXCEPT !.at = at]
Finish(s) == call' = None /\ state' = s

\* A read that fails, or that the call cannot use, ends it with an error.
Fail(at) ==
  /\ call # None /\ call.at = at /\ Finish(state)
  /\ UNCHANGED <<service, history, crashes>>

\* ListROAs is the first request for the inventories, ListASPAs the second.
ListROAs ==
  /\ call # None /\ call.at \in {"list", "after"}
  /\ call' = [call EXCEPT !.seen = roas, !.at = IF call.at = "list" THEN "aspas" ELSE "afterASPAs"]
  /\ UNCHANGED <<service, state, history, crashes>>

MakePlan ==
  /\ At({"write"}, "aspas")
  /\ LET p == PlanRPKIBundle(Before(call.prior), call.desired, call.seen, aspas) IN
     /\ ~Conflict(p, call.seen, aspas)
     /\ relabelled' = (relabelled \/ \E h \in p.tx.deleteROAs : call.seen[h] \in p.tx.addROAs)
     /\ IF ~Empty(p.tx) THEN call' = [call EXCEPT !.plan = p, !.at = "post"] /\ UNCHANGED state
        ELSE Finish(IF Confirmed([plan |-> p, returned |-> NoReceipt], call.seen, aspas)
                    THEN SettledFrom(p, call.seen) ELSE Pending(call.prior, p, NoReceipt))
  /\ UNCHANGED <<service, lost, imported, late, crashes>>

PostTransaction ==
  /\ At({"write"}, "post") /\ Post(call.plan.tx)
  /\ call' = [call EXCEPT !.at = "answer", !.n = sent']
  /\ UNCHANGED <<state, history, crashes>>

\* No answer, or a request that does not leave the client.
NoAnswer ==
  /\ call # None /\ call.answer = None /\ call.at \in {"post", "answer"}
  /\ call' = [call EXCEPT !.at = "answer", !.answer = Uncertain]
  /\ UNCHANGED <<service, state, history, crashes>>

netDefinitiveFailure_AnyError(a) == a.kind \in {"rejected", "uncertain"}
netDefinitiveFailure(a) == a.kind = "rejected"
Answered ==
  /\ At({"write"}, "answer") /\ call.answer # None
  /\ IF call.answer.kind = "ok" THEN Goto("verify") /\ UNCHANGED state
     ELSE Finish(IF netDefinitiveFailure(call.answer) THEN state
                 ELSE Pending(call.prior, call.plan, call.answer.receipt))
  /\ UNCHANGED <<service, history, crashes>>

Unconfirmed ==
  /\ At({"write"}, call.at) /\ call.at \in {"verify", "after", "afterASPAs"}
  /\ Finish(Pending(call.prior, call.plan, call.answer.receipt))
  /\ UNCHANGED <<service, history, crashes>>
Verify ==
  /\ At({"write"}, "verify") /\ Verified(call.plan.tx, call.answer.receipt)
  /\ Goto("after") /\ UNCHANGED <<service, state, history, crashes>>

FinishWrite ==
  /\ At({"write"}, "afterASPAs")
  /\ LET j == [plan |-> call.plan, returned |-> call.answer.receipt] IN
     Confirmed(j, call.seen, aspas) /\ Finish(SettledFrom(call.plan, call.seen))
  /\ UNCHANGED <<service, history, crashes>>

\* A refresh drops the members that are gone; a pending resource is settled
\* only by its whole postcondition.
Present(own, R, S) ==
  [roas |-> [l \in Labels |-> IF own.roas[l] # None /\ R[own.roas[l]] # None THEN own.roas[l] ELSE None],
   aspas |-> {c \in own.aspas : S[c] # None}]
ReadASPAs ==
  /\ At({"read"}, "aspas")
  /\ LET j == call.prior.recovery  own == call.prior.owned IN
     IF j = None
     THEN Finish([owned |-> Present(own, call.seen, aspas), recovery |-> None])
     ELSE Confirmed(j, call.seen, aspas) /\ Finish(SettledFrom(j.plan, call.seen))
  /\ UNCHANGED <<service, history, crashes>>
ImportASPAs ==
  /\ At({"import"}, "aspas")
  /\ Present(call.prior.owned, call.seen, aspas) = call.prior.owned
  /\ Finish(call.prior) /\ imported' = imported \cup Owned(call.prior.owned)
  /\ UNCHANGED <<service, lost, late, relabelled, crashes>>
-----------------------------------------------------------------------------
(* The service, and the end of the process *)

Told(n, answers) ==
  /\ \/ /\ call # None /\ call.n = n /\ call.at = "answer" /\ call.answer = None
        /\ \E a \in answers : call' = [call EXCEPT !.answer = a]
     \/ UNCHANGED call
  /\ UNCHANGED <<state, history, crashes>>

Serve(r) ==
  LET Caller(answers) == Told(r.n, answers) IN
  \/ CarryOut(r, Caller) \/ AnswerFirst(r, Caller) \/ Refuse(r, Caller)
  \/ Complete(r) /\ UNCHANGED <<state, call, history, crashes>>

OtherChannel ==
  /\ Edit(Handles \ (imported \cup IF state = None THEN {} ELSE Owned(state.owned)))
  /\ late' = IF call = None /\ wire = {} /\ (state # None => state.recovery = None) THEN late
             ELSE late \cup (Live(roas') \ Live(roas))
  /\ UNCHANGED <<state, call, lost, imported, relabelled, crashes>>

Crash ==
  /\ call # None /\ crashes < MaxCrashes /\ crashes' = crashes + 1
  /\ lost' = (lost \/ call.n # 0) /\ call' = None
  /\ UNCHANGED <<service, state, imported, late, relabelled>>

CallStep ==
  ListROAs \/ MakePlan \/ PostTransaction \/ Answered \/ Verify \/ FinishWrite
    \/ ReadASPAs \/ ImportASPAs
CallFails ==
  NoAnswer \/ Unconfirmed \/ Fail("list") \/ Fail("aspas")

Next ==
  \/ \E d \in Configs : StartWrite(d)
  \/ StartDelete \/ StartRead
  \/ \E owned \in Ownership : StartImport(owned)
  \/ CallStep \/ CallFails \/ Crash
  \/ \E r \in wire : Serve(r)
  \/ OtherChannel

Spec == Init /\ [][Next]_vars
-----------------------------------------------------------------------------
(* Properties *)

\* Inventories, journals and calls keep to their domains.
TypeOK ==
  /\ ServiceTypeOK
  /\ state \in State \cup {None} /\ call \in Call \cup {None}
  /\ {lost, relabelled} \subseteq BOOLEAN /\ imported \cup late \subseteq Handles /\ crashes \in 0 .. MaxCrashes

Ours(h) == roas[h] # None /\ by[h] # 0

\* "An unresolved write blocks create/update/destroy replay": unless a crash
\* lost an outcome, a bundle without a recovery journal has no transaction
\* that can still take effect, and no second one is sent beside it.
BlocksReplay ==
  ~lost /\ edits = 0 =>
    /\ \A r, q \in wire : r = q
    /\ call = None /\ (state # None => state.recovery = None) => wire = {}

\* The same where no plan moved a ROA to another label, which the inventories
\* cannot confirm.
SettledIsQuiet == ~relabelled => BlocksReplay

\* No member is forgotten: every ROA the bundle's transactions made is owned
\* under a label of a settled bundle, and none is left when it is destroyed.
NoOrphan ==
  ~lost /\ ~relabelled /\ late = {} /\ call = None =>
    /\ state = None => \A h \in Handles : ~Ours(h)
    /\ state # None /\ state.recovery = None => \A h \in Handles : Ours(h) => h \in Owned(state.owned)

\* "Only identities explicitly owned by prior can be deleted or replaced": a
\* transaction never removes a ROA of another channel that was not imported
\* and was there before the bundle's writes.
NeverTakesForeign ==
  \A h \in Handles :
     roas[h] # None /\ by[h] = 0 /\ roas'[h] # roas[h] /\ edits' = edits
       => h \in imported \cup late

\* "Newly matching objects that existed outside this bundle before the write
\* are never adopted": what a bundle owns it made or imported, or another
\* channel made while a write of the bundle was in progress.
OwnsItsOwn ==
  state # None => \A h \in Owned(state.owned) :
    roas[h] # None /\ by[h] = 0 => h \in imported \cup late
-----------------------------------------------------------------------------
(* The inductive invariant, as what holds of a state s and a call q: steps *)
(* of the resource replace one or both of them.                            *)

\* The plan that may still take effect: the running write's or the journal's.
PlanOf(s, q) ==
  IF q # None /\ q.plan # None THEN q.plan
  ELSE IF s # None /\ s.recovery # None THEN s.recovery.plan ELSE None

\* A handle is owned under one label, an origin and prefix is in one ROA.
Injective(own) == \A l, k \in Labels : own.roas[l] # None /\ own.roas[l] = own.roas[k] => l = k
UniqueKeys(R) == \A g, h \in Live(R) : Key[R[g]] = Key[R[h]] => g = h

PlanOK(p) ==
  /\ p.desired \in Configs \cup {Nothing} /\ Injective(p.prior)
  /\ p.tx.addROAs = {p.desired.roas[l] : l \in AddedLabels(p)}
  /\ \A l \in Labels : p.retained[l] # None =>
       p.retained[l] = p.prior.roas[l] /\ p.desired.roas[l] # None

ServiceInv ==
  /\ \A r, t \in wire : r.n = t.n => r = t
  /\ \A r \in wire : r.n <= sent /\ \A o, p \in r.tx.addROAs : Key[o] = Key[p] => o = p
  /\ UniqueKeys(roas)

StateInv(s) ==
  s # None =>
    /\ Injective(s.owned)
    /\ s.recovery # None => PlanOK(s.recovery.plan) /\ s.recovery.plan.prior = s.owned

IsRejected(a) == a # None /\ a.kind = "rejected"
CallInv(s, q) ==
  q # None =>
    /\ (q.plan # None) = (q.at \in {"post", "answer", "verify", "after", "afterASPAs"})
    /\ UniqueKeys(q.seen) /\ q.desired \in Configs \cup {Nothing}
    /\ q.op = "write" => q.prior = s /\ MayWrite(s)
    /\ q.op = "read" => q.prior = s /\ s # None
    /\ q.op = "import" => /\ s = None /\ q.prior # None
                          /\ q.prior.recovery = None /\ Injective(q.prior.owned)
    /\ q.op # "write" => q.at \in {"list", "aspas"}
    /\ q.plan # None => PlanOK(q.plan) /\ q.plan.prior = Before(q.prior)
    /\ q.at \in {"list", "aspas", "post"} => q.n = 0 /\ q.answer = None
    /\ q.at \in {"verify", "after", "afterASPAs"} => q.answer # None /\ ~IsRejected(q.answer)
    /\ q.n <= sent /\ \A r \in wire : r.n = q.n => r.tx = q.plan.tx

\* What the resource may delete or own is not another channel's, except for
\* the identities I.
Own(h, I) == roas[h] # None /\ by[h] = 0 => h \in I
PlanOwn(p, I) ==
  \A h \in Handles :
    h \notin p.baseline \/ h \in p.tx.deleteROAs \/ (\E l \in Labels : p.retained[l] = h) => Own(h, I)
OwnInv(s, q, I) ==
  /\ \A r \in wire : \A h \in r.tx.deleteROAs : Own(h, I)
  /\ s # None => /\ \A h \in Owned(s.owned) : Own(h, I)
                 /\ s.recovery # None => PlanOwn(s.recovery.plan, I)
  /\ q # None =>
       /\ q.op = "write" /\ q.at = "aspas" => \A h \in Handles \ Live(q.seen) : Own(h, I)
       /\ q.plan # None => PlanOwn(q.plan, I)

Copied(p, R) == \E l \in AddedLabels(p), h \in Handles : R[h] = p.desired.roas[l]
Looking(q) == q # None /\ q.at \in {"aspas", "afterASPAs"}
Unsent(q) == q # None /\ q.plan # None /\ (q.n = 0 \/ IsRejected(q.answer))
Adding == {r \in wire : r.tx.addROAs # {}}

\* What may still be added is the plan's, and is not there yet.
AddInv(s, q) ==
  /\ \A r, t \in Adding : r = t
  /\ Adding # {} => /\ PlanOf(s, q) # None /\ ~Copied(PlanOf(s, q), roas)
                    /\ \A r \in Adding : r.tx = PlanOf(s, q).tx
                    /\ Looking(q) => ~Copied(PlanOf(s, q), q.seen)
  /\ Unsent(q) => Adding = {} /\ ~Copied(q.plan, roas)

\* An inventory that shows an addition, or after which there is none, is
\* still current but for deletions.
FreshInv(s, q) ==
  /\ Looking(q)
  /\ PlanOf(s, q) # None /\ AddedLabels(PlanOf(s, q)) # {} => Copied(PlanOf(s, q), q.seen)
  => \A h \in Handles : roas[h] # None => q.seen[h] = roas[h]

\* The resource can still find what it made.
ClaimInv(s, q) ==
  \A h \in Handles : Ours(h) =>
    \/ s # None /\ h \in Owned(s.owned)
    \/ PlanOf(s, q) # None /\ \E l \in AddedLabels(PlanOf(s, q)) : roas[h] = PlanOf(s, q).desired.roas[l]

\* Without other channels, no inventories confirm a plan that has not taken effect.
Done(p, R, S) == ROAsConfirmed(p, R) /\ ASPAsConfirmed(p, S)
QuietInv(s, q) ==
  /\ \A r, t \in wire : r = t
  /\ wire # {} => PlanOf(s, q) # None /\ ~Done(PlanOf(s, q), roas, aspas)
  /\ Unsent(q) => wire = {}
  /\ q # None /\ q.at = "post" => ~Done(q.plan, roas, aspas)
  /\ Looking(q) /\ (wire # {} \/ (q.op = "write" /\ q.at = "aspas")) => q.seen = roas

IInv ==
  /\ TypeOK /\ ServiceInv /\ StateInv(state) /\ CallInv(state, call)
  /\ OwnInv(state, call, imported \cup late)
  /\ ~lost /\ ~relabelled /\ late = {} =>
       AddInv(state, call) /\ FreshInv(state, call) /\ ClaimInv(state, call)
  /\ ~lost /\ ~relabelled /\ edits = 0 => QuietInv(state, call)
=============================================================================
