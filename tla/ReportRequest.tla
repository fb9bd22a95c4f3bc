--------------------------- MODULE ReportRequest ---------------------------
(***************************************************************************)
(* One arin_report_request resource.  A report is requested by a GET that  *)
(* opens a ticket, so it must be sent once: an answer that is lost leaves a *)
(* pending receipt that blocks every further request until the operator    *)
(* has found the ticket and imports it.                                    *)
(***************************************************************************)
EXTENDS Integers

CONSTANTS
  Requests,     \* report requests: a type and its target
  Types,        \* report types; a ticket shows no more of its request
  Type,         \* the type of each request
  Numbers,      \* ticket numbers
  None,
  MaxSubmits    \* bound: requests sent

Ticket == [type : Types, n : 0 .. MaxSubmits, expired : BOOLEAN]
Receipt == [request : Requests, ticket : Numbers \cup {None},
            available : BOOLEAN \cup {None}, pending : BOOLEAN]
Answer == [kind : {"receipt", "partial", "refused", "uncertain"}, ticket : Numbers \cup {None}]
Call == [op : {"create", "read", "import"}, at : {"post", "answer", "verify", "ticket"},
         want : Requests, found : Receipt \cup {None}, n : 0 .. MaxSubmits,
         answer : Answer \cup {None}]

Assumption ==
  /\ Type \in [Requests -> Types] /\ MaxSubmits \in Nat
  /\ None \notin Numbers \cup Ticket \cup Receipt \cup Answer \cup Call

VARIABLES
  tickets,      \* ARIN's tickets; n is the submission that opened one, 0 another channel's
  wire,         \* submissions on their way
  state,        \* the Terraform state, or None
  refreshed,    \* has a refresh of the state ended without an error?
  call,         \* the running call, or None
  sent,         \* submissions so far
  known         \* history: tickets a confirmed receipt named or the operator located

vars == <<tickets, wire, state, refreshed, call, sent, known>>

Init ==
  /\ tickets = [t \in Numbers |-> None] /\ wire = {} /\ state = None /\ refreshed = FALSE
  /\ call = None /\ sent = 0 /\ known = {}

MatchesTicket(r, t) == tickets[t].type = Type[r]
Readable(t) == tickets[t] # None /\ ~tickets[t].expired
Confirmed(r, t, pending) == [request |-> r, ticket |-> t, available |-> TRUE, pending |-> pending]
-----------------------------------------------------------------------------
(* Calls of Terraform core.  An apply begins with a refresh, and replaces a *)
(* resource either after or, with create_before_destroy, before Delete.     *)

Start(op, at, want, found) ==
  /\ call = None
  /\ call' = [op |-> op, at |-> at, want |-> want, found |-> found, n |-> 0, answer |-> None]
  /\ UNCHANGED <<tickets, wire, state, refreshed, sent, known>>

StartCreate(r) == (state = None \/ refreshed) /\ Start("create", "post", r, None)
StartRead == state # None /\ Start("read", "ticket", state.request, state)
StartImport(r, t) ==
  state = None /\ Start("import", "ticket", r,
    [request |-> r, ticket |-> t, available |-> None, pending |-> FALSE])

At(op, at) == call # None /\ call.op = op /\ call.at = at
\* The end of a call: the state it leaves, and whether it was a refresh
\* without an error.
Finish(s, ok) ==
  /\ state' = s /\ call' = None
  /\ refreshed' = (ok /\ call.op # "create")
  /\ known' = IF s # None /\ ~s.pending THEN known \cup {s.ticket} ELSE known
  /\ UNCHANGED <<tickets, wire, sent>>

MayForget_WhilePending(s) == TRUE
MayForget(s) == ~s.pending
\* Delete only forgets the receipt.
Delete ==
  /\ state # None /\ call = None /\ MayForget(state)
  /\ state' = None /\ refreshed' = FALSE
  /\ UNCHANGED <<tickets, wire, call, sent, known>>
-----------------------------------------------------------------------------
(* RequestReport and Create *)

\* No usable API key: nothing is sent.
NotSubmitted == At("create", "post") /\ Finish(state, FALSE)

\* The HTTP transport sends a request again by itself when a reused
\* connection loses its answer, unless its body cannot be read twice.
Copies_Get == {1, 2}
Copies == {1}
RequestReport ==
  /\ At("create", "post") /\ sent < MaxSubmits
  /\ sent' = sent + 1
  /\ wire' = wire \cup [n : {sent'}, copy : Copies, want : {call.want}]
  /\ call' = [call EXCEPT !.at = "answer", !.n = sent']
  /\ UNCHANGED <<tickets, state, refreshed, known>>

NoAnswer ==
  /\ At("create", "answer") /\ call.answer = None
  /\ call' = [call EXCEPT !.answer = [kind |-> "uncertain", ticket |-> None]]
  /\ UNCHANGED <<tickets, wire, state, refreshed, sent, known>>

netDefinitiveFailure_AnyError(a) == a.kind \in {"refused", "uncertain"}
netDefinitiveFailure(a) == a.kind = "refused"

Uncertain_Settled(r, t) ==
  [request |-> r, ticket |-> t, available |-> IF t = None THEN None ELSE TRUE, pending |-> FALSE]
Uncertain(r, t) ==
  [request |-> r, ticket |-> t, available |-> IF t = None THEN None ELSE TRUE, pending |-> TRUE]

Create ==
  /\ At("create", "answer") /\ call.answer # None
  /\ CASE call.answer.kind = "receipt" -> Finish(Confirmed(call.want, call.answer.ticket, FALSE), TRUE)
       [] call.answer.kind = "partial" ->
            /\ call' = [call EXCEPT !.at = "verify"]
            /\ UNCHANGED <<tickets, wire, state, refreshed, sent, known>>
       [] netDefinitiveFailure(call.answer) -> Finish(state, FALSE)
       [] OTHER -> Finish(Uncertain(call.want, None), FALSE)

\* A number with unusable metadata is confirmed by a fresh read, or kept.
VerifyTicket ==
  /\ At("create", "verify") /\ Readable(call.answer.ticket)
  /\ MatchesTicket(call.want, call.answer.ticket)
  /\ Finish(Confirmed(call.want, call.answer.ticket, FALSE), TRUE)
VerifyFails == At("create", "verify") /\ Finish(Uncertain(call.want, call.answer.ticket), FALSE)
-----------------------------------------------------------------------------
(* Read, also at the end of an import *)

Reading == call # None /\ call.at = "ticket"

\* The ticket expired: the receipt stays.
ReadMissing ==
  /\ Reading /\ call.found.ticket # None /\ ~Readable(call.found.ticket)
  /\ ~call.found.pending /\ call.found.available # None
  /\ Finish([call.found EXCEPT !.available = FALSE], TRUE)

\* A pending receipt is updated, but the refresh still fails.
ReadSucceeds_EvenPending(s) == TRUE
ReadSucceeds(s) == ~s.pending
ReadTicket ==
  /\ Reading /\ call.found.ticket # None /\ Readable(call.found.ticket)
  /\ MatchesTicket(call.found.request, call.found.ticket)
  /\ Finish(Confirmed(call.found.request, call.found.ticket, call.found.pending), ReadSucceeds(call.found))

\* No number, another type, or no answer.
ReadFails == Reading /\ Finish(state, FALSE)
-----------------------------------------------------------------------------
(* ARIN *)

\* The answer to a submission reaches the call, or is lost.
Told(n, answers) ==
  \/ /\ At("create", "answer") /\ call.n = n /\ call.answer = None
     /\ \E a \in answers : call' = [call EXCEPT !.answer = a]
  \/ UNCHANGED call

Accept(r, t) ==
  /\ tickets[t] = None
  /\ tickets' = [tickets EXCEPT ![t] = [type |-> Type[r.want], n |-> r.n, expired |-> FALSE]]
  /\ wire' = wire \ {r}
  /\ Told(r.n, [kind : {"receipt", "partial"}, ticket : {t}] \cup [kind : {"uncertain"}, ticket : {None}])
  /\ UNCHANGED <<state, refreshed, sent, known>>

Refuse(r) ==
  /\ wire' = wire \ {r} /\ Told(r.n, [kind : {"refused", "uncertain"}, ticket : {None}])
  /\ UNCHANGED <<tickets, state, refreshed, sent, known>>

OtherChannel(t) ==
  /\ tickets[t] = None
  /\ \E y \in Types : tickets' = [tickets EXCEPT ![t] = [type |-> y, n |-> 0, expired |-> FALSE]]
  /\ UNCHANGED <<wire, state, refreshed, call, sent, known>>

Expire(t) ==
  /\ Readable(t) /\ tickets' = [tickets EXCEPT ![t].expired = TRUE]
  /\ UNCHANGED <<wire, state, refreshed, call, sent, known>>
-----------------------------------------------------------------------------
(* The operator, who reads the ticket list before giving up a receipt *)

Opened(t) == tickets[t] # None /\ tickets[t].n # 0
\* "identify the correct report, remove only the pending receipt from state,
\* and import that ticket"; without a ticket, nothing was accepted.
Reconcile ==
  /\ call = None /\ state # None /\ state.pending /\ wire = {}
  /\ state' = None /\ refreshed' = FALSE /\ known' = known \cup {t \in Numbers : Opened(t)}
  /\ UNCHANGED <<tickets, wire, call, sent>>

CallStep ==
  \/ NotSubmitted \/ RequestReport \/ NoAnswer \/ Create \/ VerifyTicket \/ VerifyFails
  \/ ReadMissing \/ ReadTicket \/ ReadFails
ARINStep ==
  \/ \E r \in wire : Refuse(r) \/ \E t \in Numbers : Accept(r, t)
  \/ \E t \in Numbers : OtherChannel(t) \/ Expire(t)

Next ==
  \/ \E r \in Requests : StartCreate(r) \/ \E t \in Numbers : StartImport(r, t)
  \/ StartRead \/ Delete \/ Reconcile
  \/ CallStep \/ ARINStep

Spec == Init /\ [][Next]_vars
-----------------------------------------------------------------------------
(* Properties *)

\* Tickets, receipts and calls keep to their domains, and only a pending
\* receipt has no ticket.
TypeOK ==
  /\ tickets \in [Numbers -> Ticket \cup {None}]
  /\ wire \subseteq [n : 1 .. MaxSubmits, copy : {1, 2}, want : Requests]
  /\ state \in Receipt \cup {None} /\ call \in Call \cup {None}
  /\ state # None /\ state.ticket = None => state.pending
  /\ refreshed \in BOOLEAN /\ sent \in 0 .. MaxSubmits /\ known \subseteq Numbers

Outstanding == wire \cup {t \in Numbers \ known : Opened(t)}

\* "It is never replayed": at most one request is on its way or has a ticket
\* that no receipt has confirmed, whatever answer was lost and however the
\* resource is replaced.
OneOutstanding == \A p, q \in Outstanding : p = q

\* A receipt that looks settled, or none, means that no request is
\* outstanding: what the resource submitted is never forgotten.
SettledIsQuiet ==
  call = None /\ (state = None \/ ~state.pending) => Outstanding = {}
-----------------------------------------------------------------------------
(* The inductive invariant: only a creation that has sent its request, or  *)
(* a pending receipt, leaves anything outstanding, and a creation that     *)
(* knows its ticket or its refusal leaves nothing else.                    *)

Unlocated == {t \in Numbers \ known : Opened(t)}
Sending == call # None /\ call.op = "create" /\ call.at # "post"
Settled == state = None \/ ~state.pending

OutstandingInv ==
  /\ \A r, q \in wire : r = q
  /\ \A t, u \in Unlocated : t = u
  /\ wire = {} \/ Unlocated = {}
  /\ ~Sending /\ Settled => Outstanding = {}

CreateInv ==
  call # None /\ call.op = "create" =>
    /\ Settled /\ call.at # "ticket" /\ (call.at = "post" => call.answer = None)
    /\ call.at = "verify" => call.answer # None /\ call.answer.kind = "partial"
    /\ call.answer # None =>
         /\ call.answer.kind \in {"receipt", "partial"} =>
              /\ call.answer.ticket \in Numbers
              /\ wire = {} /\ Unlocated \subseteq {call.answer.ticket}
         /\ call.answer.kind = "refused" => Outstanding = {}

ReadInv ==
  /\ refreshed => state # None /\ ~state.pending
  /\ call # None /\ call.op # "create" =>
       /\ call.at = "ticket" /\ call.found # None
       /\ IF call.op = "read" THEN call.found = state ELSE ~call.found.pending /\ state = None

IInv == TypeOK /\ OutstandingInv /\ CreateInv /\ ReadInv
=============================================================================
