--------------------------- MODULE ASPAResource ---------------------------
(***************************************************************************)
(* One arin_aspa resource for one customer ASN: the calls Terraform core   *)
(* makes into it.  An ASPA has a natural identity, so an uncertain         *)
(* creation leaves ordinary state and no journal: the next refresh decides *)
(* from the inventory.                                                     *)
(***************************************************************************)
EXTENDS RPKIService

CONSTANTS
  Customer,     \* the customer ASN of the resource
  MaxCrashes    \* bound: calls lost with the provider process

Call == [op : {"create", "update", "read", "delete", "import"}, at : {"list", "post", "answer", "verify"},
         want : ProviderSets \cup {None}, tx : Tx, n : 0 .. MaxSubmits, answer : Answer \cup {None}]

Assumption ==
  /\ ServiceAssumption /\ Customers = {Customer} /\ MaxCrashes \in Nat
  /\ None \notin Answer \cup Call

VARIABLES
  state,        \* the provider set in the resource's Terraform state, or None
  call,         \* the running call, or None
  took,         \* history: did the resource create or import the ASPA, or did
                \* another channel make it while the resource was managed?
  dropped,      \* history: did it lose its state while a creation was sent?
  destroys,     \* history: the transactions sent by Delete
  crashes       \* bound: crashes so far

vars == <<service, state, call, took, dropped, destroys, crashes>>

Init ==
  /\ ServiceInit /\ state = None /\ call = None /\ took = FALSE /\ dropped = FALSE
  /\ destroys = {} /\ crashes = 0

Found == aspas[Customer]
-----------------------------------------------------------------------------
(* Calls *)

Start(op, want) ==
  /\ call = None
  /\ call' = [op |-> op, at |-> "list", want |-> want, tx |-> NoTx, n |-> 0, answer |-> None]
  /\ UNCHANGED <<service, state, took, dropped, destroys, crashes>>
StartCreate(v) == state = None /\ Start("create", v)
StartUpdate(v) == state # None /\ v # state /\ Start("update", v)
StartRead == state # None /\ Start("read", None)
StartDelete == state # None /\ Start("delete", None)
ImportState == state = None /\ Start("import", None)

At(ops, at) == call # None /\ call.op \in ops /\ call.at = at

Adding == {r \in wire : r.tx.addASPAs[Customer] # None}
Finish(s) ==
  /\ call' = None /\ state' = s
  /\ dropped' = (dropped \/ (state # s /\ s = None /\ Adding # {}))
Fail ==
  /\ call # None /\ call.at = "list" /\ Finish(state)
  /\ UNCHANGED <<service, took, destroys, crashes>>

\* A 404 on the inventory counts as the absence of the ASPA.
ListMissing ==
  /\ At({"read", "delete"}, "list") /\ Finish(None)
  /\ UNCHANGED <<service, took, destroys, crashes>>

Changes_DeleteFirst(op, v) ==
  [NoTx EXCEPT !.addASPAs = [c \in Customers |-> IF op = "update" THEN None ELSE v],
               !.deleteASPAs = IF op = "create" THEN {} ELSE Customers]
Changes(op, v) ==
  [NoTx EXCEPT !.addASPAs = [c \in Customers |-> v],
               !.deleteASPAs = IF op = "create" THEN {} ELSE Customers]
Submission_Unbuilt == call' = [call EXCEPT !.at = "post"]
Submission == call' = [call EXCEPT !.at = "post", !.tx = Changes(call.op, call.want)]

\* An existing ASPA requires import before creation; an update needs one.
Creatable_Overwrites == TRUE
Creatable == Found = None
WriteList ==
  /\ \/ At({"create"}, "list") /\ Creatable
     \/ At({"update"}, "list") /\ Found # None
  /\ Submission /\ UNCHANGED <<service, state, took, dropped, destroys, crashes>>
ReadList ==
  /\ At({"read", "import"}, "list") /\ Finish(Found)
  /\ took' = (took \/ (call.op = "import" /\ Found # None))
  /\ UNCHANGED <<service, destroys, crashes>>
DeleteList ==
  /\ At({"delete"}, "list")
  /\ IF Found = None THEN Finish(None) ELSE Submission /\ UNCHANGED <<state, dropped>>
  /\ UNCHANGED <<service, took, destroys, crashes>>

PostTransaction ==
  /\ call # None /\ call.at = "post" /\ Post(call.tx)
  /\ call' = [call EXCEPT !.at = "answer", !.n = sent']
  /\ destroys' = IF call.op = "delete" THEN destroys \cup {sent'} ELSE destroys
  /\ UNCHANGED <<state, took, dropped, crashes>>
\* No answer, or a request that does not leave the client.
NoAnswer ==
  /\ call # None /\ call.answer = None /\ call.at \in {"post", "answer"}
  /\ call' = [call EXCEPT !.at = "answer", !.answer = Uncertain]
  /\ UNCHANGED <<service, state, took, dropped, destroys, crashes>>

netDefinitiveFailure_AnyError(a) == a.kind \in {"rejected", "uncertain"}
netDefinitiveFailure(a) == a.kind = "rejected"

\* A creation that may have happened leaves the identity; an update or a
\* deletion that is not confirmed leaves the state it found.
Unresolved == IF call.op = "create" THEN call.want ELSE state
Answered ==
  /\ call # None /\ call.at = "answer" /\ call.answer # None
  /\ IF call.answer.kind = "ok" THEN call' = [call EXCEPT !.at = "verify"] /\ UNCHANGED <<state, dropped>>
     ELSE Finish(IF call.op = "create" /\ netDefinitiveFailure(call.answer) THEN None ELSE Unresolved)
  /\ UNCHANGED <<service, took, destroys, crashes>>
Verify ==
  /\ call # None /\ call.at = "verify" /\ Verified(call.tx, call.answer.receipt)
  /\ Finish(call.want) /\ UNCHANGED <<service, took, destroys, crashes>>
Unconfirmed ==
  /\ call # None /\ call.at = "verify" /\ Finish(Unresolved)
  /\ UNCHANGED <<service, took, destroys, crashes>>
-----------------------------------------------------------------------------
(* The service, and the end of the process *)

Told(n, answers) ==
  /\ \/ /\ call # None /\ call.n = n /\ call.at = "answer" /\ call.answer = None
        /\ \E a \in answers : call' = [call EXCEPT !.answer = a]
     \/ UNCHANGED call
  /\ UNCHANGED <<state, dropped, destroys, crashes>>
Serve(r) ==
  LET Caller(answers) == Told(r.n, answers) IN
  /\ \/ CarryOut(r, Caller) \/ AnswerFirst(r, Caller) \/ Refuse(r, Caller)
     \/ Complete(r) /\ UNCHANGED <<state, call, dropped, destroys, crashes>>
  /\ took' = (took \/ aspas' # aspas)
OtherChannel ==
  /\ Edit({}) /\ took' = (Found' # None /\ (took \/ state # None \/ call # None \/ wire # {}))
  /\ UNCHANGED <<state, call, dropped, destroys, crashes>>
Crash ==
  /\ call # None /\ crashes < MaxCrashes /\ crashes' = crashes + 1 /\ call' = None
  /\ dropped' = (dropped \/ (state = None /\ call.n # 0))
  /\ UNCHANGED <<service, state, took, destroys>>

CallStep ==
  WriteList \/ ReadList \/ DeleteList \/ PostTransaction \/ Answered \/ Verify
CallFails == Fail \/ ListMissing \/ NoAnswer \/ Unconfirmed

Next ==
  \/ \E v \in ProviderSets : StartCreate(v) \/ StartUpdate(v)
  \/ StartRead \/ StartDelete \/ ImportState
  \/ CallStep \/ CallFails \/ Crash
  \/ \E r \in wire : Serve(r)
  \/ OtherChannel
Spec == Init /\ [][Next]_vars
-----------------------------------------------------------------------------
(* Properties *)

\* Inventories, states and calls keep to their domains, and a call has a
\* transaction exactly from its submission on.
TypeOK ==
  /\ ServiceTypeOK
  /\ state \in ProviderSets \cup {None} /\ call \in Call \cup {None}
  /\ call # None => (call.tx # NoTx <=> call.at # "list")
  /\ {took, dropped} \subseteq BOOLEAN /\ destroys \subseteq 1 .. MaxSubmits /\ crashes \in 0 .. MaxCrashes

\* "Creation retains its natural identity on uncertain outcomes": a resource
\* without state has no creation that can still take effect, unless a refresh
\* before that effect found nothing, or was answered with a 404, or a crash
\* lost the call.
NoForgottenCreation ==
  call = None /\ state = None /\ ~dropped => Adding = {}

\* "Existing ASPAs require import before create": the resource never changes
\* or removes an ASPA that another channel made before it and that was not
\* imported.
NeverTakesForeign ==
  aspas # aspas' /\ edits' = edits /\ Found # None => took

\* "Provider changes use an atomic delete/add transaction": the customer is
\* left without an ASPA only by a transaction of Delete.
NeverWithout ==
  Found # None /\ Found' = None /\ edits' = edits
     => \E r \in wire \ wire' : r.n \in destroys
-----------------------------------------------------------------------------
(* The inductive invariant.                                                *)

\* A request on its way has its own number and takes the ASPA away only if
\* Delete sent it.
WireInv ==
  /\ \A r \in wire : r.n <= sent /\ (r.tx.addASPAs[Customer] = None => r.n \in destroys)
  /\ \A r, q \in wire : r.n = q.n => r = q

\* What a running call wants, and what its progress says of the wire.
CallInv ==
  call # None =>
    /\ call.op \in {"create", "import"} <=> state = None
    /\ call.op \in {"create", "update"} => call.want # None
    /\ call.op = "delete" => call.want = None
    /\ call.op \in {"read", "import"} => call.at = "list"
    /\ call.at # "list" => call.tx = Changes(call.op, call.want)
    /\ call.at \in {"list", "post"} => call.n = 0 /\ call.answer = None
    /\ call.n <= sent
    /\ call.answer # None /\ call.answer.kind = "rejected" => \A r \in wire : r.n # call.n

\* Without state, only the running creation has a request that adds.
CreationInv ==
  ~dropped /\ state = None =>
    \A r \in Adding : call # None /\ call.op = "create" /\ call.n = r.n

\* What another channel made before the resource: nothing has been sent that
\* could change it, and nothing will be.
ForeignInv ==
  Found # None /\ ~took =>
    /\ wire = {} /\ state = None
    /\ call # None => call.at = "list" /\ call.op \in {"create", "import"}

IInv == TypeOK /\ WireInv /\ CallInv /\ CreationInv /\ ForeignInv
=============================================================================
