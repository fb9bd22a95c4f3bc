---------------------------- MODULE ROAResource ----------------------------
(***************************************************************************)
(* One arin_roa resource: the calls Terraform core makes into it, as the   *)
(* requests each call sends.  A write reads the inventory outside the      *)
(* organization lock, submits one transaction and, when its outcome is not *)
(* confirmed, keeps a recovery journal: the request, the handles that      *)
(* existed before it and the handle it replaces.                           *)
(***************************************************************************)
EXTENDS RPKIService

CONSTANT MaxCrashes   \* bound: calls lost with the provider process

Recovery == [request : Objects, before : SUBSET Handles, previous : Handles \cup {None}]
State == [handle : Handles \cup {None}, value : Objects, recovery : Recovery \cup {None}]
Call == [op : {"create", "update", "read", "delete", "import"},
         at : {"list", "post", "answer", "verify"},
         want : Objects \cup {None}, prior : State \cup {None}, found : State \cup {None},
         tx : Tx, journal : Recovery \cup {None}, n : 0 .. MaxSubmits,
         answer : Answer \cup {None}]

Assumption ==
  /\ ServiceAssumption /\ MaxCrashes \in Nat
  /\ None \notin Answer \cup Recovery \cup State \cup Call

VARIABLES
  state,        \* the resource's Terraform state, or None
  call,         \* the running call, or None
  lost,         \* history: did a crash lose the outcome of a transaction, or a
                \* 404 on the inventory the ROA that the state stood for?
  imported,     \* history: the ROAs whose ownership was imported
  late,         \* history: the ROAs another channel made during a write
  crashes       \* bound: crashes so far

history == <<lost, imported, late>>
vars == <<service, state, call, history, crashes>>

Init ==
  /\ ServiceInit
  /\ state = None /\ call = None /\ lost = FALSE /\ imported = {} /\ late = {} /\ crashes = 0

Settled(h, o) == [handle |-> h, value |-> o, recovery |-> None]
Pending(s) == s # None /\ s.recovery # None
-----------------------------------------------------------------------------
(* find: the ROA a state stands for, in a fresh inventory.  A resource with *)
(* a journal stands for the one new ROA that matches its request.           *)

NewMatches(j) == {h \in Live(roas) \ j.before : roas[h] = j.request}
PreviousPresent(j) == j.previous # None /\ roas[j.previous] # None
Uncertainty(j) == (\A h \in Handles : NewMatches(j) # {h}) \/ PreviousPresent(j)

Findable_PreviousPresent(s) ==
  s.recovery # None => Cardinality(NewMatches(s.recovery)) = 1 /\ PreviousPresent(s.recovery)
Findable(s) == s.recovery # None => ~Uncertainty(s.recovery)
Found_ByContent(s) ==
  LET equal == {h \in Live(roas) : roas[h] = s.value} IN
  IF equal = {} THEN None ELSE LET h == CHOOSE g \in equal : TRUE IN Settled(h, s.value)
Found(s) ==
  IF s.recovery # None
  THEN LET h == CHOOSE h \in NewMatches(s.recovery) : TRUE IN Settled(h, roas[h])
  ELSE IF s.handle # None /\ roas[s.handle] # None THEN Settled(s.handle, roas[s.handle]) ELSE None
-----------------------------------------------------------------------------
(* Calls *)

Start(op, want, prior) ==
  /\ call = None
  /\ call' = [op |-> op, at |-> "list", want |-> want, prior |-> prior, found |-> None,
              tx |-> NoTx, journal |-> None, n |-> 0, answer |-> None]
  /\ UNCHANGED <<service, state, history, crashes>>

StartCreate(o) == state = None /\ Start("create", o, None)
\* Update refuses an unreconciled resource, and sends nothing when only the
\* local deletion policy changes.
MayUpdate_WhilePending(s) == TRUE
MayUpdate(s) == s.recovery = None
StartUpdate(o) ==
  state # None /\ MayUpdate(state) /\ o # state.value /\ Start("update", o, state)
StartRead == state # None /\ Start("read", None, state)
StartDelete == state # None /\ Start("delete", None, state)
ImportState(h) ==
  state = None /\ \E o \in Objects : Start("import", None, Settled(h, o))

At(ops, at) == call # None /\ call.op \in ops /\ call.at = at
Finish(s) == call' = None /\ state' = s

\* A call that cannot read the inventory or cannot use what it reads ends
\* with an error.
Fail ==
  /\ call # None /\ call.at = "list" /\ Finish(state)
  /\ UNCHANGED <<service, history, crashes>>

\* A 404 on the inventory counts as the absence of a ROA, unless a journal
\* waits for one: the resource leaves Terraform state.
ListMissing ==
  /\ At({"read", "delete"}, "list") /\ ~Pending(call.prior) /\ Finish(None)
  /\ lost' = (lost \/ Found(call.prior) # None)
  /\ UNCHANGED <<service, imported, late, crashes>>

\* write refuses an authorization that already exists and a replacement of
\* a ROA that disappeared.
Replaced == IF call.op = "update" THEN {call.prior.handle} ELSE {}
Existing == {h \in Live(roas) \ Replaced : roas[h] = call.want}
WriteList ==
  /\ At({"create", "update"}, "list")
  /\ Existing = {} /\ Replaced \subseteq Live(roas)
  /\ call' = [call EXCEPT
       !.at = "post",
       !.tx = [NoTx EXCEPT !.addROAs = {call.want}, !.deleteROAs = Replaced],
       !.journal = [request |-> call.want, before |-> Live(roas),
                    previous |-> IF call.op = "update" THEN call.prior.handle ELSE None]]
  /\ UNCHANGED <<service, state, history, crashes>>

ReadList ==
  /\ At({"read", "import"}, "list") /\ Findable(call.prior) /\ Finish(Found(call.prior))
  /\ imported' = IF call.op = "import" /\ state' # None THEN imported \cup {state'.handle} ELSE imported
  /\ UNCHANGED <<service, lost, late, crashes>>

\* Delete resolves a pending resource to its concrete handle before it sends
\* anything, so that a lost answer leaves a handle to look up.
DeleteList ==
  /\ At({"delete"}, "list") /\ Findable(call.prior)
  /\ LET found == Found(call.prior) IN
     IF found = None THEN Finish(None)
     ELSE /\ call' = [call EXCEPT !.at = "post", !.found = found,
                                  !.tx = [NoTx EXCEPT !.deleteROAs = {found.handle}]]
          /\ UNCHANGED state
  /\ UNCHANGED <<service, history, crashes>>

PostTransaction ==
  /\ call # None /\ call.at = "post" /\ Post(call.tx)
  /\ call' = [call EXCEPT !.at = "answer", !.n = sent']
  /\ UNCHANGED <<state, history, crashes>>

\* No answer, or a request that does not leave the client.
NoAnswer ==
  /\ call # None /\ call.answer = None /\ call.at \in {"post", "answer"}
  /\ call' = [call EXCEPT !.at = "answer", !.answer = Uncertain]
  /\ UNCHANGED <<service, state, history, crashes>>

netDefinitiveFailure_AnyError(a) == a.kind \in {"rejected", "uncertain"}
netDefinitiveFailure(a) == a.kind = "rejected"

\* What an unconfirmed transaction leaves: the prior values, or the planned
\* ones without a handle, and the journal; a deletion leaves the found ROA.
Unresolved_NoJournal ==
  IF call.op = "delete" THEN call.found
  ELSE IF call.prior = None THEN Settled(None, call.want) ELSE call.prior
Unresolved ==
  IF call.op = "delete" THEN call.found
  ELSE [(IF call.prior = None THEN Settled(None, call.want) ELSE call.prior)
          EXCEPT !.recovery = call.journal]
Answered ==
  /\ call # None /\ call.at = "answer" /\ call.answer # None
  /\ IF call.answer.kind = "ok" THEN call' = [call EXCEPT !.at = "verify"] /\ UNCHANGED state
     ELSE Finish(IF netDefinitiveFailure(call.answer) /\ call.op # "delete" THEN state ELSE Unresolved)
  /\ UNCHANGED <<service, history, crashes>>

\* verifyRPKITransaction is part of the submission: when its read fails or
\* does not confirm the change, the outcome is uncertain, whatever the error.
Verify ==
  /\ call # None /\ call.at = "verify" /\ Verified(call.tx, call.answer.receipt)
  /\ Finish(IF call.op = "delete" THEN None
            ELSE Settled(call.answer.receipt[call.want], call.want))
  /\ UNCHANGED <<service, history, crashes>>
Unconfirmed ==
  /\ call # None /\ call.at = "verify" /\ Finish(Unresolved)
  /\ UNCHANGED <<service, history, crashes>>
-----------------------------------------------------------------------------
(* The service, and the end of the process *)

Told(n, answers) ==
  /\ \/ /\ call # None /\ call.n = n /\ call.at = "answer" /\ call.answer = None
        /\ \E a \in answers : call' = [call EXCEPT !.answer = a]
     \/ UNCHANGED call
  /\ UNCHANGED <<state, history, crashes>>

Serve(r) ==
  LET Caller(answers) == Told(r.n, answers) IN
  \/ CarryOut(r, Caller) \/ AnswerFirst(r, Caller) \/ Refuse(r, Caller)
  \/ Complete(r) /\ UNCHANGED <<state, call, history, crashes>>

Ours(h) == roas[h] # None /\ by[h] # 0
OtherChannel ==
  /\ Edit(Handles \ (imported \cup {h \in Handles : by[h] # 0}))
  /\ late' = IF call = None /\ ~Pending(state) THEN late ELSE late \cup (Live(roas') \ Live(roas))
  /\ UNCHANGED <<state, call, lost, imported, crashes>>

Crash ==
  /\ call # None /\ crashes < MaxCrashes /\ crashes' = crashes + 1
  /\ lost' = (lost \/ (call.n # 0 /\ call.op # "delete")) /\ call' = None
  /\ UNCHANGED <<service, state, imported, late>>

CallStep ==
  WriteList \/ ReadList \/ DeleteList \/ PostTransaction \/ Answered \/ Verify
CallFails == Fail \/ ListMissing \/ NoAnswer \/ Unconfirmed

Next ==
  \/ \E o \in Objects : StartCreate(o) \/ StartUpdate(o)
  \/ StartRead \/ StartDelete
  \/ \E h \in Handles : ImportState(h)
  \/ CallStep \/ CallFails \/ Crash
  \/ \E r \in wire : Serve(r)
  \/ OtherChannel

Spec == Init /\ [][Next]_vars

-----------------------------------------------------------------------------
(* Properties *)

\* Inventories, states and calls keep to their domains, and only a resource
\* with a journal has no handle.
TypeOK ==
  /\ ServiceTypeOK
  /\ state \in State \cup {None} /\ call \in Call \cup {None}
  /\ state # None /\ state.handle = None => Pending(state)
  /\ lost \in BOOLEAN /\ imported \cup late \subseteq Handles /\ crashes \in 0 .. MaxCrashes

Adding == {r \in wire : r.tx.addROAs # {}}

\* "Reads never treat an unresolved write as a missing resource; updates and
\* destroy must reconcile it first": no second ROA is requested, and the
\* resource is not settled or gone, while one may still be made, unless a
\* crash lost the outcome of one or a 404 on the inventory hid the ROA.
NoSecondRequest ==
  ~lost /\ late = {} =>
    /\ \A r, q \in Adding : r = q
    /\ call = None /\ ~Pending(state) => Adding = {}

\* No ROA is forgotten: what the resource made is its handle when settled,
\* and nothing is left of it when it is gone, with the same exceptions.
NoOrphan ==
  ~lost /\ late = {} /\ call = None =>
    /\ state = None => \A h \in Handles : ~Ours(h)
    /\ state # None /\ ~Pending(state) => \A h \in Handles : Ours(h) => h = state.handle

\* "A matching existing authorization requires import": no transaction
\* removes a ROA that another channel made outside the resource's writes and
\* that was not imported.
NeverTakesForeign ==
  \A h \in Handles :
     roas[h] # None /\ by[h] = 0 /\ roas'[h] # roas[h] /\ edits' = edits
       => h \in imported \cup late

\* A pending write that took effect under a new handle.
Recoverable == state # None /\ Pending(state) /\ ~Uncertainty(state.recovery)
-----------------------------------------------------------------------------
(* The inductive invariant.  Own: the handles that the resource may delete *)
(* once it names them.                                                     *)

Own(h) == by[h] # 0 \/ h \in imported \cup late
Tracked(j) == \A h \in Live(roas) \ j.before : Own(h)
Writing == call # None /\ call.op \in {"create", "update"}
Deleting == call # None /\ call.op = "delete" /\ call.at # "list"

\* The service: numbers are not used twice, and a content has one handle.
ServiceInv ==
  /\ \A r, q \in wire : r.n = q.n => r = q
  /\ \A r \in wire : r.n <= sent /\ \A h \in Handles : by[h] # r.n
  /\ \A r \in wire : r.tx.addROAs = {} \/ \E o \in Objects : r.tx.addROAs = {o}
  /\ \A h \in Handles : by[h] <= sent
  /\ \A g, h \in Live(roas) : roas[g] = roas[h] => g = h

\* What a running call wants, knows and has submitted.
CallInv ==
  call # None =>
    /\ call.op \in {"create", "import"} <=> state = None
    /\ call.op \in {"read", "import"} => call.at = "list"
    /\ call.op = "create" => call.prior = None
    /\ call.op \in {"update", "read", "delete"} => call.prior = state
    /\ call.op = "import" => call.prior # None /\ call.prior.recovery = None /\ call.prior.handle # None
    /\ call.op = "update" => state.recovery = None /\ call.want # state.value
    /\ Writing => call.want # None
    /\ Writing /\ call.at # "list" =>
         /\ call.tx = [NoTx EXCEPT !.addROAs = {call.want}, !.deleteROAs = Replaced]
         /\ call.journal # None /\ call.journal.request = call.want
         /\ call.journal.previous = IF call.op = "update" THEN state.handle ELSE None
    /\ Deleting =>
         /\ call.found # None /\ call.found.handle # None /\ call.found.recovery = None
         /\ call.tx = [NoTx EXCEPT !.deleteROAs = {call.found.handle}]
    /\ call.at \in {"list", "post"} => call.n = 0 /\ call.answer = None
    /\ call.at = "verify" => call.answer # None /\ call.answer.kind = "ok"
    /\ call.n <= sent /\ \A r \in wire : r.n = call.n => r.tx = call.tx
    /\ call.answer # None =>
         /\ call.answer.kind = "ok" => DOMAIN call.answer.receipt = call.tx.addROAs
         /\ call.answer.kind = "rejected" =>
              call.n # 0 /\ (\A r \in wire : r.n # call.n) /\ (\A h \in Handles : by[h] # call.n)

\* What may be deleted is the resource's own, and so is what a journal or a
\* receipt may lead to.
OwnInv ==
  /\ \A r \in wire : \A h \in r.tx.deleteROAs : Own(h)
  /\ state # None =>
       /\ state.handle # None => Own(state.handle)
       /\ state.recovery # None => Tracked(state.recovery)
  /\ call # None =>
       /\ \A h \in call.tx.deleteROAs : Own(h)
       /\ Writing /\ call.at # "list" => Tracked(call.journal)
       /\ call.answer # None /\ call.answer.kind = "ok" =>
            \A o \in call.tx.addROAs :
              roas[call.answer.receipt[o]] # None => Own(call.answer.receipt[o])

\* What may still be added is the running call's or the pending state's, and
\* its content is not there yet.
AddInv ==
  /\ \A r, q \in Adding : r = q
  /\ \A r \in Adding :
       /\ \/ Writing /\ r.n = call.n
          \/ Pending(state) /\ ~Deleting /\ r.tx.addROAs = {state.recovery.request}
       /\ \A h \in Handles : roas[h] \notin r.tx.addROAs
  /\ Writing /\ call.at = "post" => \A h \in Handles : roas[h] # call.want

\* A settled handle has its value or is gone.
ValueInv ==
  /\ state # None /\ ~Pending(state) =>
       \/ roas[state.handle] \in {None, state.value}
       \/ Writing /\ call.n # 0 /\ by[state.handle] = call.n
  /\ Deleting =>
       /\ roas[call.found.handle] \in {None, call.found.value}
       /\ IF Pending(state) THEN call.found.value = state.recovery.request
          ELSE call.found.handle = state.handle

\* The resource can still find what it made.
ClaimInv ==
  \A h \in Handles : Ours(h) =>
    \/ state # None /\ ~Pending(state) /\ h = state.handle
    \/ Writing /\ by[h] = call.n /\ roas[h] = call.want
    \/ Deleting /\ h = call.found.handle
    \/ /\ Pending(state) /\ ~Deleting
       /\ h = state.recovery.previous \/ roas[h] = state.recovery.request

SureInv == ~lost /\ late = {} => AddInv /\ ValueInv /\ ClaimInv

IInv == TypeOK /\ ServiceInv /\ CallInv /\ OwnInv /\ SureInv
=============================================================================
