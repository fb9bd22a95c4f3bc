---------------------------- MODULE OrgResource ----------------------------
(***************************************************************************)
(* One arin_org resource: an organization that ARIN may register only      *)
(* after a review, and the recovery of writes whose outcome is not known.  *)
(*                                                                         *)
(* Unlike a network, an organization has no range by which a lost creation *)
(* could be found again, and every accepted POST registers another one, so *)
(* the pending marker in state is the only thing that keeps Terraform from *)
(* submitting twice.  A write is answered with the organization, with a    *)
(* ticket, or with both, and the service may accept a deletion it carries  *)
(* out later.  The lock of UpdateOrganization and DeleteOrganization is    *)
(* OrgLock's subject.                                                      *)
(***************************************************************************)
EXTENDS Naturals, Sequences

CONSTANTS
  Handles,          \* the handles of new organizations, used in any order
  Values,           \* the writable fields, taken together
  None,             \* nil, and the absence of Terraform state
  MaxSubmits,       \* bound: write requests sent
  MaxTickets,       \* bound: tickets opened
  MaxEdits,         \* bound: changes made through other channels
  MaxCrashes        \* bound: calls lost with the provider process


NoHandle == ""
NoTicket == 0
Tickets == 1 .. MaxTickets
Ops == {"create", "update", "delete"}

State == [handle : Handles \cup {NoHandle}, value : Values,
          pending : Ops \cup {""}, ticket : Tickets \cup {NoTicket}]
\* mine: the organization was created by this resource.
Org == [value : Values, mine : BOOLEAN]
Request == [n : 1 .. MaxSubmits, op : Ops, handle : Handles \cup {NoHandle}, value : Values]
Ticket == [request : Request, status : {"open", "done", "failed"}]
Reply == [kind : {"ok", "missing", "rejected", "uncertain"},
          handle : Handles \cup {NoHandle}, ticket : Tickets \cup {NoTicket}]
Call == [op : Ops \cup {"read"}, at : {"ticket", "get", "current", "submit", "answer", "verify"},
         m : State, n : 0 .. MaxSubmits, reply : Reply \cup {None}]


Assumption ==
  /\ NoHandle \notin Handles /\ None \notin Org \cup State \cup Reply \cup Call
  /\ {MaxSubmits, MaxTickets, MaxEdits, MaxCrashes} \subseteq Nat

VARIABLES
  orgs,         \* the service's organizations by handle
  given,        \* the handles the service has given out
  wire,         \* requests sent and not yet carried out
  tickets,      \* the service's tickets, a sequence by number
  state,        \* the resource's Terraform state
  call,         \* the running call, or None
  sent,         \* the number of requests sent
  named,        \* history: the tickets that answers have named
  lost,         \* history: did a crash lose the outcome of a submission, or a
                \* refused verification the marker of an accepted deletion?
  edits,        \* bound: changes made through other channels so far
  crashes       \* bound: crashes so far

service == <<orgs, given, wire, tickets>>
history == <<sent, named, lost>>
bounds == <<edits, crashes>>
vars == <<service, state, call, history, bounds>>

Init ==
  /\ orgs = [h \in Handles |-> None] /\ given = {} /\ wire = {} /\ tickets = << >>
  /\ state = None /\ call = None
  /\ sent = 0 /\ named = {} /\ lost = FALSE
  /\ edits = 0 /\ crashes = 0
-----------------------------------------------------------------------------
(* Outcomes *)

Present(h) == h \in Handles /\ orgs[h] # None

\* decodeOrganizationWriteResult and writeOrganization: an answer that cannot
\* be verified keeps the ticket, and the handle unless the record is malformed.
Unverified_DropsTicket(reply) == [reply EXCEPT !.kind = "uncertain", !.ticket = NoTicket]
Unverified(reply) == [reply EXCEPT !.kind = "uncertain"]
Malformed(reply) == [Unverified(reply) EXCEPT !.handle = NoHandle]
Readings(reply) == {reply, Unverified(reply), Malformed(reply)}
Reply_(kind, handle, ticket) == [kind |-> kind, handle |-> handle, ticket |-> ticket]
Uncertain == Reply_("uncertain", NoHandle, NoTicket)

orgWriteComplete_AnyAnswer(r) == r.kind = "ok" /\ r.handle # NoHandle
orgWriteComplete(r) == r.kind = "ok" /\ r.handle # NoHandle /\ r.ticket = NoTicket
netDefinitiveFailure_AnyError(r) == r.kind # "ok"
netDefinitiveFailure(r) == r.kind \in {"rejected", "missing"}

orgState(h, value) == [handle |-> h, value |-> value, pending |-> "", ticket |-> NoTicket]
pendingOrg_UnknownHandle(m, op, r) ==
  [handle |-> IF r.handle # NoHandle THEN r.handle ELSE None,
   value |-> m.value, pending |-> op, ticket |-> r.ticket]
pendingOrg(m, op, r) ==
  [handle |-> IF r.handle # NoHandle THEN r.handle ELSE m.handle,
   value |-> m.value, pending |-> op, ticket |-> r.ticket]

Terminal(t) == tickets[t].status # "open"
Failed(t) == tickets[t].status = "failed"
\* The requests that can still take effect.
Outstanding ==
  wire \cup {tickets[t].request : t \in {u \in DOMAIN tickets : tickets[u].status = "open"}}
-----------------------------------------------------------------------------
(* Calls *)

Start(op, at, m) ==
  /\ call = None
  /\ call' = [op |-> op, at |-> at, m |-> m, n |-> 0, reply |-> None]
  /\ UNCHANGED <<service, state, history, bounds>>

\* pendingTicket comes first for a pending resource whose ticket is known.
FirstRead(m) == IF m.pending # "" /\ m.ticket # NoTicket THEN "ticket" ELSE "get"
\* A pending creation with neither ticket nor handle ends every read and every
\* deletion with an error before a request is sent.
Readable(m) == m.ticket # NoTicket \/ m.handle # NoHandle

StartCreate(value) == state = None /\ Start("create", "submit", orgState(NoHandle, value))
StartRead == state # None /\ Readable(state) /\ Start("read", FirstRead(state), state)
StartDelete == state # None /\ Readable(state) /\ Start("delete", FirstRead(state), state)

\* Update refuses a pending resource.
MayUpdate_WhilePending(m) == m.handle # NoHandle
MayUpdate(m) == m.pending = ""
StartUpdate(value) ==
  /\ state # None /\ MayUpdate(state) /\ value # state.value
  /\ Start("update", "current", [state EXCEPT !.value = value])

ImportState(h) ==
  /\ state = None /\ h \in given
  /\ \E value \in Values : Start("read", "get", orgState(h, value))

\* The documented recovery of a creation that gave only a ticket: once it is
\* terminal, the placeholder is removed and the approved handle imported.
Recover(h) ==
  /\ state # None /\ state.pending = "create" /\ state.handle = NoHandle
  /\ state.ticket # NoTicket /\ tickets[state.ticket].status = "done"
  /\ Present(h) /\ orgs[h].mine /\ call = None
  /\ state' = orgState(h, orgs[h].value)
  /\ UNCHANGED <<service, call, history, bounds>>

Step(op, at) == call # None /\ call.op \in op /\ call.at = at
Goto(at) == call' = [call EXCEPT !.at = at] /\ UNCHANGED state
Finish(s) == call' = None /\ state' = s

\* A read or a ticket lookup that fails ends the call with an error.
Fail(at) ==
  /\ call # None /\ call.at = at /\ Finish(state)
  /\ UNCHANGED <<service, history, bounds>>

PendingTicket(t) == Terminal(t) /\ ~Failed(t)
ReadTicket ==
  /\ Step({"read", "delete"}, "ticket")
  /\ IF PendingTicket(call.m.ticket) /\ call.m.handle # NoHandle THEN Goto("get") ELSE Finish(state)
  /\ UNCHANGED <<service, history, bounds>>

\* What a refresh makes of the record it reads.
Refreshed_UpdateVisible(m) ==
  IF ~Present(m.handle) THEN IF m.pending \in {"create", "update"} THEN m ELSE None
  ELSE IF m.pending = "delete" THEN m ELSE orgState(m.handle, orgs[m.handle].value)
Refreshed_MarkerStays(m) ==
  IF ~Present(m.handle) THEN None
  ELSE IF m.pending = "" THEN orgState(m.handle, orgs[m.handle].value) ELSE m
Refreshed(m) ==
  IF ~Present(m.handle)
  THEN IF m.pending \in {"create", "update"} THEN m ELSE None
  ELSE LET actual == orgState(m.handle, orgs[m.handle].value) IN
       IF \/ m.pending = "delete"
          \/ m.pending = "update" /\ m.ticket = NoTicket /\ m.value # actual.value
       THEN m ELSE actual

\* An import that finds nothing leaves no state.
ReadGet ==
  /\ Step({"read"}, "get")
  /\ Finish(Refreshed(call.m))
  /\ UNCHANGED <<service, history, bounds>>

DeleteGet ==
  /\ Step({"delete"}, "get")
  /\ IF call.m.pending = "" THEN IF Present(call.m.handle) THEN Goto("submit") ELSE Finish(None)
     ELSE Finish(IF call.m.pending = "delete" /\ ~Present(call.m.handle) THEN None ELSE state)
  /\ UNCHANGED <<service, history, bounds>>

\* UpdateOrganization reads the record first.  A read that fails without a
\* definitive answer leaves a pending update although nothing was sent.
UpdateCurrent ==
  /\ Step({"update"}, "current")
  /\ \/ Present(call.m.handle) /\ Goto("submit")
     \/ ~Present(call.m.handle) /\ Finish(state)
     \/ Finish(pendingOrg(call.m, "update", Uncertain))
  /\ UNCHANGED <<service, history, bounds>>

Submit ==
  /\ call # None /\ call.at = "submit" /\ sent < MaxSubmits
  /\ sent' = sent + 1
  /\ wire' = wire \cup {[n |-> sent', op |-> call.op, handle |-> call.m.handle,
                         value |-> call.m.value]}
  /\ call' = [call EXCEPT !.at = "answer", !.n = sent']
  /\ UNCHANGED <<orgs, given, tickets, state, named, lost, bounds>>

\* The request does not leave the client, which cannot tell.
Unsent ==
  /\ call # None /\ call.at = "submit"
  /\ call' = [call EXCEPT !.at = "answer", !.reply = Uncertain]
  /\ UNCHANGED <<service, state, history, bounds>>

\* No answer: a timeout, status 408 or 5xx, or a broken connection.
NoAnswer ==
  /\ call # None /\ call.at = "answer" /\ call.reply = None
  /\ call' = [call EXCEPT !.reply = Uncertain]
  /\ UNCHANGED <<service, state, history, bounds>>

Answered(op) == Step(op, "answer") /\ call.reply # None

WriteAnswered ==
  /\ Answered({"create", "update"})
  /\ LET r == call.reply IN
     Finish(IF orgWriteComplete(r) THEN orgState(r.handle, call.m.value)
            ELSE IF netDefinitiveFailure(r) THEN state
            ELSE pendingOrg(call.m, call.op, r))
  /\ UNCHANGED <<service, history, bounds>>

\* DeleteOrganization: 404 is absence, and an answer without a ticket is
\* verified by a read.
DeleteAnswered ==
  /\ Answered({"delete"})
  /\ LET r == call.reply IN
     IF r.kind = "ok" /\ r.ticket = NoTicket THEN Goto("verify")
     ELSE Finish(CASE r.kind = "missing" -> None
                   [] r.kind = "rejected" -> state
                   [] OTHER -> pendingOrg(call.m, "delete", r))
  /\ UNCHANGED <<service, history, bounds>>

\* The read after an accepted deletion finds it done, or leaves it pending.
Verify ==
  /\ Step({"delete"}, "verify")
  /\ \/ Finish(IF Present(call.m.handle) THEN pendingOrg(call.m, "delete", Uncertain) ELSE None)
     \/ Finish(pendingOrg(call.m, "delete", Uncertain))
  /\ UNCHANGED <<service, history, bounds>>

\* Any 4xx but 404 on that read counts as a definitive failure of the deletion
\* itself: state looks settled although the deletion may still be carried out.
VerifyRefused ==
  /\ Step({"delete"}, "verify")
  /\ Finish(state)
  /\ lost' = (lost \/ Outstanding # {})
  /\ UNCHANGED <<service, sent, named, bounds>>
-----------------------------------------------------------------------------
(* The registration service *)

Answer(r, reply) ==
  /\ \/ /\ call # None /\ call.n = r.n /\ call.at = "answer" /\ call.reply = None
        /\ \E reading \in Readings(reply) : call' = [call EXCEPT !.reply = reading]
        /\ named' = named \cup ({reply.ticket} \ {NoTicket})
     \/ UNCHANGED <<call, named>>
  /\ UNCHANGED <<state, sent, lost, bounds>>

Effect(r, h) ==
  CASE r.op = "create" -> orgs' = [orgs EXCEPT ![h] = [value |-> r.value, mine |-> TRUE]]
    [] r.op = "update" -> orgs' = [orgs EXCEPT ![h].value = r.value]
    [] r.op = "delete" -> orgs' = [orgs EXCEPT ![h] = None]

\* The organization of a request: a new one for a creation.
Target(r, h) ==
  IF r.op = "create" THEN h \in Handles \ given /\ given' = given \cup {h}
  ELSE h = r.handle /\ Present(h) /\ UNCHANGED given

CarryOut(r) ==
  /\ wire' = wire \ {r}
  /\ \E h \in Handles : Target(r, h) /\ Effect(r, h) /\ Answer(r, Reply_("ok", h, NoTicket))
  /\ UNCHANGED tickets

\* A ticket names the request; the answer may show the record beside it.
OpenTicket(r) ==
  /\ Len(tickets) < MaxTickets /\ wire' = wire \ {r}
  /\ \E h \in Handles :
       /\ Target(r, h)
       /\ tickets' = Append(tickets, [request |-> [r EXCEPT !.handle = h], status |-> "open"])
       /\ \E shown \in {h, NoHandle} : Answer(r, Reply_("ok", shown, Len(tickets')))
  /\ UNCHANGED orgs

\* A deletion that is accepted now and carried out later.
AcceptDeletion(r) ==
  /\ r.op = "delete" /\ Present(r.handle)
  /\ call # None /\ call.n = r.n
  /\ Answer(r, Reply_("ok", NoHandle, NoTicket))
  /\ UNCHANGED service

Refuse(r) ==
  /\ wire' = wire \ {r}
  /\ \/ Answer(r, Reply_("rejected", NoHandle, NoTicket))
     \/ r.op # "create" /\ ~Present(r.handle) /\ Answer(r, Reply_("missing", NoHandle, NoTicket))
  /\ UNCHANGED <<orgs, given, tickets>>

Receive(r) == CarryOut(r) \/ OpenTicket(r) \/ AcceptDeletion(r) \/ Refuse(r)

CloseTicket(t) ==
  LET r == tickets[t].request IN
  /\ t \in DOMAIN tickets /\ tickets[t].status = "open"
  /\ \/ /\ r.op = "create" \/ Present(r.handle)
        /\ Effect(r, r.handle) /\ tickets' = [tickets EXCEPT ![t].status = "done"]
     \/ UNCHANGED orgs /\ tickets' = [tickets EXCEPT ![t].status = "failed"]
  /\ UNCHANGED <<given, wire, state, call, history, bounds>>

\* Another channel changes or removes an organization.
Edit(h) ==
  /\ edits < MaxEdits /\ edits' = edits + 1 /\ Present(h)
  /\ \/ orgs' = [orgs EXCEPT ![h] = None]
     \/ \E value \in Values \ {orgs[h].value} : orgs' = [orgs EXCEPT ![h].value = value]
  /\ UNCHANGED <<given, wire, tickets, state, call, history, crashes>>

Crash ==
  /\ call # None /\ crashes < MaxCrashes
  /\ crashes' = crashes + 1 /\ lost' = (lost \/ call.n # 0)
  /\ call' = None
  /\ UNCHANGED <<service, state, sent, named, edits>>
-----------------------------------------------------------------------------
Begin ==
  \/ \E value \in Values : StartCreate(value) \/ StartUpdate(value)
  \/ StartRead \/ StartDelete
  \/ \E h \in Handles : ImportState(h) \/ Recover(h)

CallStep ==
  \/ ReadTicket \/ ReadGet \/ DeleteGet \/ UpdateCurrent
  \/ Submit \/ Unsent \/ WriteAnswered \/ DeleteAnswered \/ Verify

CallFails == NoAnswer \/ VerifyRefused \/ \E at \in {"ticket", "get"} : Fail(at)

Next ==
  \/ Begin \/ CallStep \/ CallFails \/ Crash
  \/ \E r \in wire : Receive(r)
  \/ \E t \in Tickets : CloseTicket(t)
  \/ \E h \in Handles : Edit(h)

Spec == Init /\ [][Next]_vars
-----------------------------------------------------------------------------
(* Properties *)

\* Every variable keeps to its domain, and given-out handles are never reused.
TypeOK ==
  /\ orgs \in [Handles -> Org \cup {None}] /\ given \subseteq Handles
  /\ \A h \in Handles : orgs[h] # None => h \in given
  /\ wire \subseteq Request
  /\ tickets \in Seq(Ticket) /\ Len(tickets) <= MaxTickets
  /\ state \in State \cup {None} /\ call \in Call \cup {None}
  /\ sent \in 0 .. MaxSubmits /\ named \subseteq Tickets /\ lost \in BOOLEAN
  /\ edits \in 0 .. MaxEdits /\ crashes \in 0 .. MaxCrashes

Mine == {h \in Handles : orgs[h] # None /\ orgs[h].mine}

\* "Must not resubmit an uncertain creation": unless an outcome was lost, the
\* resource never has two organizations, registered or still to come.
NoSecondOrganization ==
  ~lost =>
    /\ \A g, h \in Mine : g = h
    /\ \A r, s \in Outstanding : r.op = "create" /\ s.op = "create" => r = s
    /\ Mine # {} => \A r \in Outstanding : r.op # "create"

\* "Pending or uncertain writes retain recovery state": unless an outcome was
\* lost, a resource without a pending marker has no write that can still take
\* effect on its organization, and a forgotten one leaves neither an
\* organization nor a creation behind.
SettledIsQuiet ==
  ~lost /\ edits = 0 /\ call = None =>
    /\ state = None => Mine = {} /\ \A r \in Outstanding : r.op # "create"
    /\ state # None /\ state.pending = "" => Outstanding = {}

\* While one write of a kind can still take effect on an organization, no
\* other of that kind is sent.
OneOfAKind ==
  \A r, s \in Outstanding : r.op = s.op /\ Present(r.handle) /\ r.handle = s.handle => r.n = s.n

\* "Block repeat submission", unless an outcome was lost.
BlocksRepeats == ~lost /\ edits = 0 => OneOfAKind

\* "Pending or uncertain writes retain recovery state and block repeat
\* submission": whatever ARIN answers to the provider's requests.
RepeatsBlocked == crashes = 0 /\ edits = 0 => OneOfAKind

\* "Ticket details survive a malformed accompanying organization response": an
\* open ticket that an answer named is in state whenever no call runs.
TicketsKept ==
  ~lost /\ call = None =>
    \A t \in named : tickets[t].status = "open" => state # None /\ state.ticket = t

\* A pending operation on a known organization whose ticket is done.
Recoverable ==
  /\ state # None /\ state.handle # NoHandle /\ state.ticket # NoTicket
  /\ tickets[state.ticket].status = "done"
-----------------------------------------------------------------------------
(* The inductive invariant.                                                *)

Requests == wire \cup {tickets[t].request : t \in DOMAIN tickets}
Requested(r, op, m) ==
  r.op = op /\ r.value = m.value /\ (op # "create" => r.handle = m.handle)

\* Requests have their own numbers and keep them behind a ticket, and name an
\* organization unless they are to create one.
RequestInv ==
  /\ \A r \in Requests : r.n <= sent
  /\ \A r \in wire :
       /\ IF r.op = "create" THEN r.handle = NoHandle ELSE r.handle \in given
       /\ \A q \in wire : q.n = r.n => q = r
       /\ \A t \in DOMAIN tickets : tickets[t].request.n # r.n
  /\ \A t \in DOMAIN tickets :
       /\ tickets[t].request.handle \in given
       /\ \A u \in DOMAIN tickets : tickets[u].request.n = tickets[t].request.n => u = t
  /\ named \subseteq DOMAIN tickets
  /\ \A h \in Handles : orgs[h] # None => orgs[h].mine

\* A state names its organization, except that of a creation, and the ticket
\* of its pending operation.
Sound(m) ==
  /\ m.handle \in given \/ (m.pending = "create" /\ m.handle = NoHandle)
  /\ m.pending = "" => m.ticket = NoTicket
  /\ m.ticket # NoTicket =>
       /\ m.ticket \in DOMAIN tickets /\ tickets[m.ticket].request.op = m.pending
       /\ m.handle # NoHandle => tickets[m.ticket].request.handle = m.handle

StateInv == state # None => Sound(state)

\* What a call starts from, and how far it has come.
CallInv ==
  call # None =>
    /\ call.op = "create" =>
         /\ call.at \in {"submit", "answer"} /\ state = None
         /\ call.m = orgState(NoHandle, call.m.value)
    /\ call.op = "update" =>
         /\ call.at \in {"current", "submit", "answer"} /\ state # None /\ state.pending = ""
         /\ call.m = [state EXCEPT !.value = call.m.value] /\ call.m.value # state.value
    /\ call.op = "delete" =>
         /\ call.at # "current" /\ state # None /\ call.m = state
         /\ call.at \in {"submit", "answer", "verify"} => state.pending = ""
    /\ call.op = "read" =>
         /\ call.at \in {"ticket", "get"} /\ Sound(call.m)
         /\ IF state = None THEN call.m.pending = "" ELSE call.m = state
    /\ call.at = "ticket" => call.m.pending # "" /\ call.m.ticket # NoTicket
    /\ call.at = "get" =>
         call.m.handle # NoHandle /\ (call.m.ticket # NoTicket => Terminal(call.m.ticket))
    /\ call.at \in {"ticket", "get", "current", "submit"} => call.n = 0 /\ call.reply = None
    /\ call.n <= sent /\ \A r \in Requests : r.n = call.n => Requested(r, call.op, call.m)
    /\ call.at = "verify" => call.reply # None /\ call.reply.ticket = NoTicket

\* What an answer says of the request.
ReplyInv ==
  call # None /\ call.reply # None =>
    LET a == call.reply IN
    /\ call.n = 0 => a = Uncertain
    /\ a.kind \in {"rejected", "missing"} => a.handle = NoHandle /\ a.ticket = NoTicket
    /\ a.handle # NoHandle => a.handle \in given /\ (call.op # "create" => a.handle = call.m.handle)
    /\ a.ticket # NoTicket =>
         /\ a.ticket \in DOMAIN tickets /\ tickets[a.ticket].request.n = call.n
         /\ a.handle # NoHandle => tickets[a.ticket].request.handle = a.handle

\* An open ticket that an answer named is in state or in the running call.
TicketInv ==
  ~lost => \A t \in named : tickets[t].status = "open" =>
    \/ state # None /\ state.ticket = t
    \/ call # None /\ call.reply # None /\ call.reply.ticket = t

Creations == {r \in Outstanding : r.op = "create"}
Sent == call # None /\ call.n # 0

\* What a handle or a ticket tells of a creation.
Told(handle, ticket) ==
  IF ticket # NoTicket
  THEN /\ \A r \in Creations : r = tickets[ticket].request /\ tickets[ticket].status = "open"
       /\ Mine \subseteq {tickets[ticket].request.handle}
  ELSE handle # NoHandle => Creations = {} /\ Mine \subseteq {handle}

\* Unless an outcome was lost, the organization and the creation still to
\* come are those of the running creation or of the state.
CreateInv ==
  ~lost =>
    /\ NoSecondOrganization
    /\ state = None /\ ~Sent => Mine = {} /\ Creations = {}
    /\ call # None /\ call.op = "create" =>
         /\ \A r \in Creations : r.n = call.n
         /\ call.reply # None => Told(call.reply.handle, call.reply.ticket)
         /\ call.reply # None /\ netDefinitiveFailure(call.reply) => Mine = {} /\ Creations = {}
    /\ state # None =>
         IF state.pending = "create" THEN Told(state.handle, state.ticket)
         ELSE Creations = {} /\ Mine \subseteq {state.handle}
    /\ call # None /\ call.reply # None /\ call.reply.kind = "missing" => ~Present(call.m.handle)

\* And while nobody else changes the organization, at most one write is still
\* to take effect: that of the running call or the one that state has pending.
QuietInv ==
  ~lost /\ edits = 0 =>
    /\ \A r \in Outstanding :
         /\ \A q \in Outstanding : q = r
         /\ IF Sent THEN r.n = call.n ELSE state # None /\ Requested(r, state.pending, state)
         /\ r.op # "create" => Present(r.handle)
         /\ r.op = "update" => orgs[r.handle].value # r.value
         /\ state # None /\ state.ticket # NoTicket => tickets[state.ticket].status = "open"
         /\ Sent /\ call.reply # None =>
              /\ ~netDefinitiveFailure(call.reply)
              /\ call.reply.ticket # NoTicket => tickets[call.reply.ticket].status = "open"
              /\ call.op # "delete" => ~orgWriteComplete(call.reply)
    /\ state # None /\ state.pending = "" /\ Present(state.handle) =>
         \/ orgs[state.handle].value = state.value
         \/ /\ Sent /\ call.op = "update" /\ Outstanding = {}
            /\ call.reply # None => ~netDefinitiveFailure(call.reply)
    /\ call # None /\ call.at = "submit" /\ call.op # "create" => Present(call.m.handle)
    /\ Sent /\ call.reply # None /\ call.op # "delete" /\ orgWriteComplete(call.reply)
         => (Present(call.reply.handle) => orgs[call.reply.handle].value = call.m.value)

IInv == TypeOK /\ RequestInv /\ StateInv /\ CallInv /\ ReplyInv /\ TicketInv /\ CreateInv /\ QuietInv
=============================================================================
