---------------------------- MODULE WholeRecord ----------------------------
(***************************************************************************)
(* Resources that write a record of ARIN's registry as a whole: arin_poc,  *)
(* arin_customer, arin_delegation and arin_net_metadata.  Each writes the  *)
(* fields it manages with the rest of the record as a read just gave it,   *)
(* and no precondition protects what others change between the two.        *)
(***************************************************************************)
EXTENDS Naturals, FiniteSets

CONSTANTS
  Values,       \* the contents of a group of fields
  Empty,        \* the value of empty fields: a zone without DNS records
  None,
  MaxRequests,  \* bound: write requests sent
  MaxEdits      \* bound: changes made by others

Kinds == {"poc", "customer", "delegation", "net_metadata"}
\* Contacts and customers get their handle from ARIN, zones and networks exist.
Created(k) == k \in {"poc", "customer"}

\* mine: the managed fields; other: the ones the resource only passes on
\* (names, registration date and owner, or fields the configuration omits);
\* a zone has none of these.
Record == [mine : Values, other : Values]
Request == [n : 1 .. MaxRequests, op : {"create", "write", "delete"}, mine : Values, other : Values]
Answer == [kind : {"done", "missing", "refused"}, record : Record \cup {None}]
Call == [op : {"create", "update", "delete", "read", "import"},
         at : {"first", "fresh", "send", "answer", "verify", "read"},
         want : Values, first : Record \cup {None}, fresh : Record \cup {None},
         n : 0 .. MaxRequests, answer : Answer \cup {None}]

Assumption ==
  /\ Empty \in Values /\ {MaxRequests, MaxEdits} \subseteq Nat
  /\ None \notin Record \cup Answer \cup Call

VARIABLES
  kind,         \* the kind of the record
  record,       \* what ARIN holds, or None
  wire,         \* requests ARIN has not carried out
  state,        \* the Terraform state, or None
  call,         \* the running call, or None
  sent,         \* the number of requests sent
  seen,         \* history: what ARIN held during the running call
  edits         \* bound: changes by others so far

vars == <<kind, record, wire, state, call, sent, seen, edits>>

Records == {r \in Record : kind = "delegation" => r.other = Empty}
Init ==
  /\ kind \in Kinds /\ record \in (IF Created(kind) THEN {None} ELSE Records)
  /\ wire = {} /\ state = None /\ call = None /\ sent = 0 /\ seen = {} /\ edits = 0
-----------------------------------------------------------------------------
(* Calls *)

Start(op, at, v) ==
  /\ call = None
  /\ call' = [op |-> op, at |-> at, want |-> v, first |-> None, fresh |-> None, n |-> 0, answer |-> None]
  /\ UNCHANGED <<record, wire, state, sent, edits>>
\* A second creation waits until the outcome of the first is known, as the
\* error of an uncertain one asks.
StartCreate(v) ==
  /\ state = None /\ (Created(kind) => record = None /\ wire = {})
  /\ Start("create", IF Created(kind) THEN "send" ELSE "first", v)
StartUpdate(v) ==
  state # None /\ v # state.mine /\ Start("update", IF kind = "net_metadata" THEN "first" ELSE "fresh", v)
\* Clearing a zone is an update to nothing.
StartDelete ==
  /\ state # None /\ kind # "net_metadata"
  /\ Start("delete", IF kind = "delegation" THEN "fresh" ELSE "send", Empty)
StartRead == state # None /\ Start("read", "read", Empty)
StartImport == state = None /\ Start("import", "read", Empty)
\* The metadata of a network are only given up.
Forget ==
  /\ call = None /\ state # None /\ kind = "net_metadata"
  /\ state' = None /\ UNCHANGED <<record, wire, call, sent, edits>>

At(ops, at) == call # None /\ call.op \in ops /\ call.at = at
Finish(s) == call' = None /\ state' = s
Local == UNCHANGED <<record, wire, sent, edits>>
\* A failed write of a creation leaves what the first read gave.
Failed_AsWanted ==
  IF call.op = "create" /\ call.first # None THEN [call.first EXCEPT !.mine = call.want] ELSE state
Failed == IF call.op = "create" /\ call.first # None THEN call.first ELSE state

\* A zone with records must be imported before it is managed.
Takeable_Always(r) == TRUE
Takeable(r) == kind = "delegation" => r.mine = Empty
First ==
  /\ At({"create", "update"}, "first") /\ Local
  /\ IF record # None /\ (call.op = "create" => Takeable(record))
     THEN call' = [call EXCEPT !.at = "fresh", !.first = record] /\ UNCHANGED state
     ELSE Finish(state)
\* The client reads the record again; a contact's names must not differ.
Writable(r) == kind = "poc" => r.other = state.other
Fresh ==
  /\ At({"create", "update", "delete"}, "fresh") /\ Local
  /\ IF record # None /\ Writable(record)
     THEN call' = [call EXCEPT !.at = "send", !.fresh = record] /\ UNCHANGED state
     ELSE Finish(IF call.op = "delete" THEN None ELSE Failed)
ReadFails ==
  /\ call # None /\ Local
  /\ \/ call.at \in {"first", "verify", "read"} /\ Finish(state)
     \/ call.at = "fresh" /\ Finish(Failed)

Op == IF call.fresh # None THEN "write" ELSE call.op
\* The fields that are not managed, as the client just read them.
PassedOn_FromState ==
  IF call.fresh = None THEN Empty ELSE IF state # None THEN state.other ELSE call.fresh.other
PassedOn == IF call.fresh = None THEN Empty ELSE call.fresh.other
Send ==
  /\ At({"create", "update", "delete"}, "send") /\ sent < MaxRequests
  /\ sent' = sent + 1
  /\ wire' = wire \cup {[n |-> sent', op |-> Op, mine |-> call.want, other |-> PassedOn]}
  /\ call' = [call EXCEPT !.at = "answer", !.n = sent']
  /\ UNCHANGED <<record, state, edits>>
\* The request was not sent, or its answer is lost or unusable.
NoAnswer_NoReturn ==
  /\ call # None /\ call.at \in {"send", "answer"}
  /\ call' = [call EXCEPT !.at = "verify"] /\ state' = Failed /\ Local
NoAnswer ==
  /\ call # None /\ call.at \in {"send", "answer"} /\ Finish(Failed) /\ Local

WriteAnswered ==
  /\ At({"create", "update"}, "answer") /\ call.answer # None /\ Local
  /\ Finish(IF call.answer.kind = "done" THEN call.answer.record ELSE Failed)
\* Contacts and zones are read once more after a deletion.
DeleteAnswered ==
  /\ At({"delete"}, "answer") /\ call.answer # None /\ Local
  /\ IF call.answer.kind = "refused" THEN Finish(state)
     ELSE IF call.answer.kind = "missing" \/ kind = "customer" THEN Finish(None)
     ELSE call' = [call EXCEPT !.at = "verify"] /\ UNCHANGED state
Gone_Answered(r) == TRUE
Gone(r) == r = None \/ (kind = "delegation" /\ r.mine = Empty)
Verify ==
  At({"delete"}, "verify") /\ Local /\ Finish(IF Gone(record) THEN None ELSE state)
Read == At({"read", "import"}, "read") /\ Local /\ Finish(record)
-----------------------------------------------------------------------------
(* ARIN *)

Waiting(q) == call # None /\ call.at = "answer" /\ call.n = q.n
Told(q, kinds) ==
  IF Waiting(q) /\ call.answer = None
  THEN \E k \in kinds : call' = [call EXCEPT !.answer = [kind |-> k, record |-> record']]
  ELSE UNCHANGED call
Executable(q) == (q.op = "create") = (record = None)
CarryOut(q) ==
  /\ Executable(q) /\ wire' = wire \ {q}
  /\ record' \in CASE q.op = "create" -> {[mine |-> q.mine, other |-> o] : o \in Values}
                   [] q.op = "write" -> {[mine |-> q.mine, other |-> q.other]}
                   [] OTHER -> {None}
  /\ Told(q, {"done"})
  /\ UNCHANGED <<state, sent, edits>>
\* ARIN answers a deletion, or a zone's change, before its reads show it.
AnswerFirst(q) ==
  /\ call # None /\ call.op = "delete" /\ Executable(q) /\ Waiting(q)
  /\ call.answer = None /\ record' = record /\ Told(q, {"done"})
  /\ UNCHANGED <<wire, state, sent, edits>>
Refuse(q) ==
  /\ wire' = wire \ {q} /\ record' = record
  /\ Told(q, {"refused"} \cup (IF record = None THEN {"missing"} ELSE {}))
  /\ UNCHANGED <<state, sent, edits>>

\* Another channel, or another resource for other fields of the record.
Edit ==
  /\ edits < MaxEdits /\ edits' = edits + 1 /\ record # None
  /\ \/ \E v \in Values : record' \in {[record EXCEPT !.mine = v], [record EXCEPT !.other = v]} \cap Records
     \/ record' = None
  /\ record' # record
  /\ UNCHANGED <<wire, state, call, sent>>

CallStep ==
  \/ First \/ Fresh \/ ReadFails \/ Send \/ NoAnswer \/ WriteAnswered \/ DeleteAnswered \/ Verify \/ Read
Step ==
  \/ \E v \in Values : StartCreate(v) \/ StartUpdate(v)
  \/ StartDelete \/ StartRead \/ StartImport \/ Forget
  \/ CallStep
  \/ \E q \in wire : CarryOut(q) \/ AnswerFirst(q) \/ Refuse(q)
  \/ Edit
Next ==
  /\ Step
  /\ kind' = kind
  /\ seen' = IF call' = None THEN {} ELSE {record'} \cup (IF call = None THEN {} ELSE seen)

Spec == Init /\ [][Next]_vars
-----------------------------------------------------------------------------
(* Properties *)

\* Records, states and calls keep to their domains, and a resource with a
\* state never creates its record again.
TypeOK ==
  /\ kind \in Kinds /\ record \in Record \cup {None} /\ wire \subseteq Request
  /\ state \in Record \cup {None} /\ call \in Call \cup {None} /\ sent \in 0 .. MaxRequests
  /\ seen \subseteq Record \cup {None} /\ edits \in 0 .. MaxEdits
  /\ call # None /\ call.op = "create" => state = None

\* A call changes the state only to a record that ARIN held while the call
\* ran, and drops it only when the record was then gone or, for a zone,
\* cleared: neither a lost answer nor a late write is recorded as done.  Only
\* the deletion of a customer is taken at ARIN's word.
StateIsReal ==
  call # None /\ state' # state =>
     IF state' # None THEN state' \in seen
     ELSE \/ \E r \in seen : r = None \/ (kind = "delegation" /\ r.mine = Empty)
          \/ kind = "customer" /\ call.answer # None /\ call.answer.kind = "done"

\* "Write reads before applying configured fields": what a request says of
\* the fields it does not manage ARIN held during its call, never only at
\* the last refresh; and a zone is taken over only if it was found empty.
WritesBuildOnReads ==
  \A q \in wire : Waiting(q) /\ q.op = "write" =>
    /\ \E r \in seen \ {None} : r.other = q.other
    /\ kind = "delegation" /\ state = None => \E r \in seen \ {None} : r.mine = Empty

\* "Omitted fields preserve current values": a change of a network's
\* metadata leaves the fields it does not configure as they are.
OmittedFieldsAreKept ==
  \A q \in wire :
     kind = "net_metadata" /\ record' # record /\ record' # None /\ q \notin wire' /\ Waiting(q) =>
       record'.other = record.other
-----------------------------------------------------------------------------
(* The inductive invariant *)

CallInv ==
  call # None =>
    /\ call.n <= sent /\ (call.op \in {"update", "delete"} => state # None)
    /\ call.at \in {"first", "fresh", "send"} => call.n = 0 /\ call.answer = None
    /\ call.at = "first" => call.op \in {"create", "update"} /\ call.fresh = None
    /\ call.at = "fresh" => call.op \in {"create", "update", "delete"} /\ (call.op = "delete" => kind = "delegation")
    /\ call.at \in {"send", "answer"} => call.op \in {"create", "delete"} \/ (call.op = "update" /\ call.fresh # None)
    /\ call.at = "verify" => call.op = "delete"
    /\ call.at = "read" => call.op \in {"read", "import"}

\* What a call has read, and what it was told, ARIN held while it ran.
SeenInv ==
  call # None =>
    /\ {record, call.first, call.fresh} \ {None} \subseteq seen /\ (record = None => None \in seen)
    /\ call.answer # None => call.answer.record \in seen /\ (call.answer.kind = "missing" => None \in seen)
    /\ kind = "delegation" /\ call.op = "create" /\ call.at # "first" => call.first # None /\ call.first.mine = Empty

\* A request passes on what its call read last.
WireInv ==
  /\ \A q \in wire : q.n <= sent
  /\ call # None => \A q \in wire : q.n = call.n => q.op = Op /\ q.other = PassedOn

IInv == TypeOK /\ CallInv /\ SeenInv /\ WireInv
=============================================================================
