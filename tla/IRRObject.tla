----------------------------- MODULE IRRObject -----------------------------
(***************************************************************************)
(* One object of ARIN's routing registry under Terraform: arin_irr_as_set, *)
(* arin_irr_route_set, arin_irr_aut_num, arin_irr_route or arin_irr_rpsl.  *)
(* The five resources run the same calls; two policies per kind say what   *)
(* its client checks before a write and what its resource does when the    *)
(* write is not confirmed.                                                 *)
(***************************************************************************)
EXTENDS Integers, FiniteSets

CONSTANTS
  Orgs, Own,    \* organizations, and the configured one
  Texts,        \* what an object says
  None,
  MaxWrites,    \* bound: write requests sent
  MaxEdits      \* bound: changes made by other channels
Kinds == {"as_set", "route_set", "aut_num", "route", "rpsl"}

\* The client: does an update or a deletion read the object first, require
\* the configured organization then, and refuse a route linked to a ROA?
ASSetClient    == [readsFirst |-> FALSE, sameOrg |-> {}, unlinked |-> FALSE]
RouteSetClient == [readsFirst |-> FALSE, sameOrg |-> {}, unlinked |-> FALSE]
AutnumClient   == [readsFirst |-> FALSE, sameOrg |-> {}, unlinked |-> FALSE]
RouteClient    == [readsFirst |-> TRUE, sameOrg |-> {"update"}, unlinked |-> TRUE]
RPSLClient     == [readsFirst |-> TRUE, sameOrg |-> {"update", "delete"}, unlinked |-> FALSE]
Client == [k \in Kinds |->
  CASE k = "as_set" -> ASSetClient [] k = "route_set" -> RouteSetClient
    [] k = "aut_num" -> AutnumClient [] k = "route" -> RouteClient [] k = "rpsl" -> RPSLClient]

\* The resource: does it read the object again after a write, and keep a
\* pending state when a creation is not confirmed?
ASSetResource    == [verifies |-> FALSE, keeps |-> FALSE]
RouteSetResource == [verifies |-> FALSE, keeps |-> FALSE]
AutnumResource   == [verifies |-> FALSE, keeps |-> FALSE]
RouteResource    == [verifies |-> FALSE, keeps |-> FALSE]
RPSLResource     == [verifies |-> TRUE, keeps |-> TRUE]
Resource == [k \in Kinds |->
  CASE k = "as_set" -> ASSetResource [] k = "route_set" -> RouteSetResource
    [] k = "aut_num" -> AutnumResource [] k = "route" -> RouteResource [] k = "rpsl" -> RPSLResource]

Object == [org : Orgs, text : Texts, linked : BOOLEAN]
State == [org : Orgs, text : Texts, pending : BOOLEAN]
Write == [n : 1 .. MaxWrites, op : {"create", "update", "delete"}, text : Texts \cup {None}]
Answer == [kind : {"done", "accepted", "missing", "refused", "uncertain"}, object : Object \cup {None}]
Call == [op : {"create", "update", "delete", "read", "import"},
         at : {"check", "client", "send", "answer", "verify", "read"},
         text : Texts \cup {None}, n : 0 .. MaxWrites, answer : Answer \cup {None}]

Assumption ==
  /\ Own \in Orgs /\ {MaxWrites, MaxEdits} \subseteq Nat
  /\ None \notin Texts \cup Object \cup State \cup Answer \cup Call

VARIABLES
  kind,         \* the kind of the object
  object,       \* what the registry holds under its name, or None
  wire,         \* writes on their way
  state,        \* the Terraform state, or None
  call,         \* the running call, or None
  sent,         \* writes so far
  seen,         \* history: what the registry held during the running call
  edits         \* bound: changes by other channels so far

vars == <<kind, object, wire, state, call, sent, seen, edits>>

Init ==
  /\ kind \in Kinds /\ object = None /\ wire = {} /\ state = None
  /\ call = None /\ sent = 0 /\ seen = {} /\ edits = 0

Policy == Client[kind]
Settled(o) == [org |-> o.org, text |-> o.text, pending |-> FALSE]
Pending(text) == [org |-> Own, text |-> text, pending |-> TRUE]
-----------------------------------------------------------------------------
(* Calls *)

Start(op, at, text) ==
  /\ call = None
  /\ call' = [op |-> op, at |-> at, text |-> text, n |-> 0, answer |-> None]
  /\ UNCHANGED <<object, wire, state, sent, edits>>

StartCreate(t) == state = None /\ Start("create", "client", t)
\* A pending state blocks updates and deletion.
MayWrite_Pending(s) == TRUE
MayWrite(s) == ~s.pending
First == IF Policy.readsFirst THEN "client" ELSE "send"
StartUpdate(t) ==
  /\ state # None /\ MayWrite(state) /\ t # state.text
  /\ Start("update", IF Resource[kind].verifies THEN "check" ELSE First, t)
StartDelete == state # None /\ MayWrite(state) /\ Start("delete", First, None)
StartRead == state # None /\ Start("read", "read", None)
StartImport == state = None /\ Start("import", "read", None)

At(ops, at) == call # None /\ call.op \in ops /\ call.at = at
Goto(at) == call' = [call EXCEPT !.at = at] /\ UNCHANGED state
Finish(s) == call' = None /\ state' = s
Unchanged == UNCHANGED <<object, wire, sent, edits>>
\* A client that fails ends the call, unless the resource looks once more.
Fail ==
  IF Resource[kind].verifies /\ call.op # "create" THEN Goto("verify") ELSE Finish(state)

\* The RPSL resource reads the object before an update, and may find the
\* text in place.
Check ==
  /\ At({"update"}, "check") /\ object # None /\ object.org = Own
  /\ IF object.text = call.text THEN Finish(Settled(object)) ELSE Goto("client")
  /\ Unchanged
\* A creation requires a confirmed absence; a route or RPSL write a fresh read.
Manageable(o) == (Policy.unlinked => ~o.linked) /\ (call.op \in Policy.sameOrg => o.org = Own)
ClientReads ==
  /\ call # None /\ call.at = "client"
  /\ CASE object = None /\ call.op = "create" -> Goto("send")
       [] object = None /\ call.op = "delete" ->
            IF Resource[kind].verifies THEN Goto("verify") ELSE Finish(None)
       [] object # None /\ call.op # "create" -> IF Manageable(object) THEN Goto("send") ELSE Fail
       [] OTHER -> Fail
  /\ Unchanged
ReadFails ==
  /\ call # None
  /\ \/ call.at = "client" /\ Fail
     \/ call.at \in {"check", "read"} /\ Finish(state)
  /\ Unchanged

Send ==
  /\ call # None /\ call.at = "send" /\ sent < MaxWrites
  /\ sent' = sent + 1 /\ wire' = wire \cup {[n |-> sent', op |-> call.op, text |-> call.text]}
  /\ call' = [call EXCEPT !.at = "answer", !.n = sent']
  /\ UNCHANGED <<object, state, edits>>
NoAnswer ==
  /\ call # None
  /\ call.at \in {"send", "answer"} /\ call.answer = None
  /\ call' = [call EXCEPT !.at = "answer", !.answer = [kind |-> "uncertain", object |-> None]]
  /\ UNCHANGED state /\ Unchanged

\* 200 or 201 with the object of the configured organization, and for a
\* route without a ROA link, confirms a write; 202 does not.
Confirmed_Accepted(a) == a.kind \in {"done", "accepted"} /\ a.object.org = Own
Confirmed(a) == a.kind = "done" /\ a.object.org = Own /\ (Policy.unlinked => ~a.object.linked)
\* 408 leaves the outcome of a creation open.
Definitive_AnyError(a) == a.kind # "done"
Definitive(a) == a.kind \in {"refused", "missing"}
WriteAnswered ==
  /\ At({"create", "update"}, "answer") /\ call.answer # None
  /\ IF Resource[kind].verifies
     THEN IF call.op = "create" /\ Definitive(call.answer) THEN Finish(state) ELSE Goto("verify")
     ELSE Finish(IF Confirmed(call.answer) THEN Settled(call.answer.object) ELSE state)
  /\ Unchanged
\* 200, 204 or 404 confirms a deletion.
DeleteAnswered ==
  /\ At({"delete"}, "answer") /\ call.answer # None
  /\ IF Resource[kind].verifies THEN Goto("verify")
     ELSE Finish(IF call.answer.kind \in {"done", "missing"} THEN None ELSE state)
  /\ Unchanged

AsWanted == object # None /\ object.org = Own /\ object.text = call.text
VerifyWrite ==
  /\ At({"create", "update"}, "verify") /\ AsWanted /\ Finish(Settled(object)) /\ Unchanged
VerifyDelete ==
  /\ At({"delete"}, "verify") /\ object = None /\ Finish(None) /\ Unchanged
Unverified_AnyWrite ==
  /\ At({"create", "update", "delete"}, "verify")
  /\ Finish(IF Resource[kind].keeps THEN Pending(call.text) ELSE state)
  /\ Unchanged
Unverified ==
  /\ At({"create", "update", "delete"}, "verify")
  /\ Finish(IF call.op = "create" /\ Resource[kind].keeps THEN Pending(call.text) ELSE state)
  /\ Unchanged

\* A pending state is kept whatever is read.
Read ==
  /\ At({"read", "import"}, "read") /\ (state # None => ~state.pending)
  /\ \/ object = None /\ Finish(None)
     \/ /\ object # None /\ (Policy.unlinked => ~object.linked)
        /\ (Resource[kind].verifies /\ state # None => object.org = state.org)
        /\ Finish(Settled(object))
  /\ Unchanged
-----------------------------------------------------------------------------
(* The registry: it carries out or refuses what it received *)

Told(n, kinds, o) ==
  \/ /\ call # None /\ call.at = "answer" /\ call.n = n /\ call.answer = None
     /\ \E k \in kinds : call' = [call EXCEPT !.answer = [kind |-> k, object |-> o]]
  \/ UNCHANGED call

Executable(w) == IF w.op = "create" THEN object = None ELSE object # None
After(w) ==
  CASE w.op = "create" -> [org |-> Own, text |-> w.text, linked |-> FALSE]
    [] w.op = "update" -> [object EXCEPT !.text = w.text]
    [] w.op = "delete" -> None
Execute(w) ==
  /\ Executable(w) /\ object' = After(w) /\ wire' = wire \ {w}
  /\ Told(w.n, {"done", "uncertain"}, object')
  /\ UNCHANGED <<state, sent, edits>>
Accept(w) ==
  /\ Executable(w) /\ Told(w.n, {"accepted"}, After(w))
  /\ UNCHANGED <<object, wire, state, sent, edits>>
Refuse(w) ==
  /\ wire' = wire \ {w}
  /\ Told(w.n, {"refused", "uncertain"} \cup (IF Executable(w) THEN {} ELSE {"missing"}), None)
  /\ UNCHANGED <<object, state, sent, edits>>

\* Another organization, another channel, or a ROA transaction for a route.
Edit ==
  /\ edits < MaxEdits /\ edits' = edits + 1
  /\ object' \in Object \cup {None} /\ object' # object
  /\ object' # None /\ object'.linked => kind = "route"
  /\ UNCHANGED <<wire, state, call, sent>>

\* The operator gives a pending receipt up only to import the object, or
\* when the creation is known not to come.
Reconcile ==
  /\ call = None /\ state # None /\ state.pending
  /\ \A w \in wire : w.op # "create"
  /\ state' = None /\ UNCHANGED <<object, wire, call, sent, edits>>

CallStep ==
  \/ Check \/ ClientReads \/ ReadFails \/ Send \/ NoAnswer \/ WriteAnswered \/ DeleteAnswered
  \/ VerifyWrite \/ VerifyDelete \/ Unverified \/ Read

Step ==
  \/ \E t \in Texts : StartCreate(t) \/ StartUpdate(t)
  \/ StartDelete \/ StartRead \/ StartImport \/ Reconcile
  \/ CallStep
  \/ \E w \in wire : Execute(w) \/ Accept(w) \/ Refuse(w)
  \/ Edit

Next ==
  /\ Step
  /\ kind' = kind
  /\ seen' = IF call' = None THEN {} ELSE {object'} \cup (IF call = None THEN {} ELSE seen)

Spec == Init /\ [][Next]_vars
-----------------------------------------------------------------------------
(* Properties *)

\* Objects, states and calls keep to their domains, and only an RPSL state
\* is ever pending.
TypeOK ==
  /\ kind \in Kinds /\ object \in Object \cup {None} /\ wire \subseteq Write
  /\ state \in State \cup {None} /\ call \in Call \cup {None} /\ sent \in 0 .. MaxWrites
  /\ seen \subseteq Object \cup {None} /\ edits \in 0 .. MaxEdits
  /\ state # None /\ state.pending => kind = "rpsl"

\* A call changes the state only to what the registry really held while it
\* ran, or to a pending receipt: an accepted, lost or late write is never
\* recorded as done.
StateIsReal ==
  call # None /\ state' # state =>
     \/ state' = None /\ None \in seen
     \/ state' # None /\ state'.pending
     \/ \E o \in seen \ {None} : state' = Settled(o)

\* "Do not recreate it blindly": while an RPSL creation may still take
\* effect, its call still runs or a pending state says so, and nothing is
\* written after it, unless another channel created the same object meanwhile.
UncertainIsKept ==
  kind = "rpsl" /\ edits = 0 =>
    \A w \in wire : w.op = "create" =>
      /\ call = None \/ call.n # w.n => state # None /\ state.pending
      /\ \A v \in wire : v.n <= w.n
-----------------------------------------------------------------------------
(* The inductive invariant *)

WriteInv ==
  /\ \A v, w \in wire : v.n = w.n => v = w
  /\ \A w \in wire : w.n <= sent /\ (w.op # "delete" => w.text # None)

Writing == call.op \in {"create", "update", "delete"}
CallInv ==
  call # None =>
    /\ object \in seen /\ call.n <= sent
    /\ IF Writing THEN call.at # "read" ELSE call.at = "read"
    /\ call.op \in {"create", "update"} => call.text # None
    /\ call.op \in {"create", "import"} => state = None
    /\ call.op \in {"update", "delete"} => state # None /\ ~state.pending
    /\ call.at \in {"check", "client", "send", "read"} => call.n = 0 /\ call.answer = None
    /\ call.at \in {"check", "verify"} => kind = "rpsl"
    /\ \A w \in wire : w.n = call.n => w.op = call.op

\* An answer tells what the registry held, and a definite one that the
\* request is no longer on its way.
AnswerInv ==
  call # None /\ call.answer # None =>
    /\ call.answer.kind = "done" => call.answer.object \in seen /\ (call.answer.object = None) = (call.op = "delete")
    /\ call.answer.kind = "missing" /\ call.op = "delete" => None \in seen
    /\ call.answer.kind \in {"done", "missing", "refused"} => \A w \in wire : w.n # call.n

\* Without other channels nothing but a creation under way can make the
\* object that its call found absent.
AbsentInv ==
  /\ kind = "rpsl" /\ edits = 0 /\ call # None /\ call.op = "create"
  /\ call.at = "send" \/ \E w \in wire : w.n = call.n
  => object = None

IInv == TypeOK /\ WriteInv /\ CallInv /\ AnswerInv /\ AbsentInv /\ UncertainIsKept
=============================================================================
