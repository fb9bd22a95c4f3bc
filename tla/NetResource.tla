---------------------------- MODULE NetResource ----------------------------
(***************************************************************************)
(* One arin_net resource: the registration of one address range for one    *)
(* recipient, as ARIN's registration service keeps it and as Terraform     *)
(* state records it.                                                       *)
(*                                                                         *)
(* Terraform runs one call of the resource at a time; each call is a       *)
(* sequence of requests, and everything else may happen between them.  A   *)
(* submitted request may take effect at any later time, or never, whatever *)
(* the call that sent it was told.  The service answers a write with the   *)
(* finished registration, with a ticket it processes later, or with both.  *)
(***************************************************************************)
EXTENDS Naturals, Sequences

CONSTANTS
  Handles,      \* the handles the service may give our registration, reused freely
  Foreign,      \* the handle of a registration with other recipient or blocks
  Names,        \* the names the configuration gives the network
  None,         \* nil, and the absence of Terraform state
  MaxSubmits,   \* bound: write requests sent
  MaxTickets,   \* bound: tickets opened
  MaxEdits,     \* bound: changes made through other channels
  MaxCrashes    \* bound: calls lost with the provider process

Unknown == "pending"        \* the state's id before the handle is known
NoTicket == 0
Tickets == 1 .. MaxTickets
Sends == 1 .. MaxSubmits

Net == [handle : Handles \cup {Foreign}, name : Names, by : 0 .. MaxSubmits]
State == [id : Handles \cup {Unknown}, name : Names,
          pending : {"", "create", "delete"}, ticket : Tickets \cup {NoTicket}]
\* handle is the target of a delete or an update; of is history: the creation
\* of the registration that the request is about.
Request == [n : Sends, op : {"create", "delete", "update"},
            handle : Handles \cup {Unknown}, name : Names, of : 0 .. MaxSubmits]
Ticket == [request : Request, status : {"open", "done", "failed"}]
Reply == [kind : {"ok", "missing", "rejected", "uncertain"},
          net : Net \cup {None}, ticket : Tickets \cup {NoTicket}]
Call == [op : {"create", "read", "update", "delete"},
         at : {"find", "ticket", "get", "status", "current", "submit", "answer",
               "recheck", "verify", "confirm"},
         m : State, n : 0 .. MaxSubmits, reply : Reply \cup {None},
         messages : BOOLEAN]


Assumption ==
  /\ Foreign \notin Handles /\ None \notin Net \cup State \cup Reply \cup Call
  /\ {MaxSubmits, MaxTickets, MaxEdits, MaxCrashes} \subseteq Nat

VARIABLES
  registered,   \* the service's most specific registration of the range, or None
  wire,         \* requests sent and not yet processed
  tickets,      \* the service's tickets, a sequence by number
  state,        \* the resource's Terraform state
  call,         \* the running call, or None
  sent,         \* the number of requests sent
  named,        \* history: the tickets that replies have named
  lost,         \* history: did a crash lose the outcome of a submission, or a
                \* creation the ticket beside the network it was answered with?
  edits,        \* bound: changes made through other channels so far
  crashes       \* bound: crashes so far

service == <<registered, wire, tickets>>
history == <<sent, named, lost>>
bounds == <<edits, crashes>>
vars == <<service, state, call, history, bounds>>

Init ==
  /\ registered = None /\ wire = {} /\ tickets = << >>
  /\ state = None /\ call = None
  /\ sent = 0 /\ named = {} /\ lost = FALSE
  /\ edits = 0 /\ crashes = 0
-----------------------------------------------------------------------------
(* What the client's reads and decoders return *)

Visible(h) == registered # None /\ registered.handle = h
sameNetAssignment_SameRange(n) == TRUE
sameNetAssignment(n) == n.handle # Foreign

\* FindNetAssignment: the exact registration, none, or an error.
Found(name) == registered # None /\ sameNetAssignment(registered) /\ registered.name = name
NotFound == registered = None

\* decodeNetWriteResult: the answer to a write names the finished network or a
\* ticket.  A network of an unexpected form makes the outcome uncertain, as any
\* undecodable answer does, and a ticket beside it is kept.
Malformed_DropsTicket(reply) == [reply EXCEPT !.kind = "uncertain", !.net = None, !.ticket = NoTicket]
Malformed(reply) == [reply EXCEPT !.kind = "uncertain", !.net = None]
Readings(reply) == {reply, Malformed(reply)}
Rejected == [kind |-> "rejected", net |-> None, ticket |-> NoTicket]
Missing == [kind |-> "missing", net |-> None, ticket |-> NoTicket]
Uncertain == [kind |-> "uncertain", net |-> None, ticket |-> NoTicket]
Accepted(net, ticket) == [kind |-> "ok", net |-> net, ticket |-> ticket]

netDefinitiveFailure_AnyError(reply) == reply.kind \in {"rejected", "uncertain"}
netDefinitiveFailure(reply) == reply.kind = "rejected"

Terminal_FailedOnly(t) == tickets[t].status = "failed"
Terminal(t) == tickets[t].status # "open"
Failed_NotDone(t) == tickets[t].status # "done"
Failed(t) == tickets[t].status = "failed"

netState(n) == [id |-> n.handle, name |-> n.name, pending |-> "", ticket |-> NoTicket]
pendingNet(name, ticket) ==
  [id |-> Unknown, name |-> name, pending |-> "create", ticket |-> ticket]
pendingDeletion(m, ticket) == [m EXCEPT !.pending = "delete", !.ticket = ticket]
-----------------------------------------------------------------------------
(* Calls *)

Start(op, at, m, messages) ==
  /\ call = None
  /\ call' = [op |-> op, at |-> at, m |-> m, n |-> 0, reply |-> None, messages |-> messages]
  /\ UNCHANGED <<service, state, history, bounds>>

StartCreate(name) == state = None /\ Start("create", "find", pendingNet(name, NoTicket), FALSE)

FirstRead(m) == IF m.pending = "create" THEN "find" ELSE "get"
StartRead == state # None /\ Start("read", FirstRead(state), state, FALSE)
StartDelete(messages) == state # None /\ Start("delete", FirstRead(state), state, messages)

\* An update that changes neither name nor comments reads the network and
\* sends nothing: it does what a read does.
StartUpdate(name) ==
  /\ state # None /\ state.pending = ""
  /\ Start(IF name = state.name THEN "read" ELSE "update", "get", [state EXCEPT !.name = name], FALSE)

\* An import is followed by a read of the imported handle.
ImportState(h) ==
  /\ state = None
  /\ \E name \in Names :
       Start("read", "get", [id |-> h, name |-> name, pending |-> "", ticket |-> NoTicket], FALSE)

Goto(at) == call' = [call EXCEPT !.at = at] /\ UNCHANGED state
Finish(s) == call' = None /\ state' = s

\* A read that fails, or finds what the call cannot use, ends it with an error.
Fail(at) ==
  /\ call # None /\ call.at = at
  /\ Finish(state)
  /\ UNCHANGED <<service, history, bounds>>

Step(op, at) == call # None /\ call.op \in op /\ call.at = at

\* FindNetAssignment by a create: the range must be free.
CreateFind ==
  /\ Step({"create"}, "find")
  /\ NotFound /\ Goto("submit")
  /\ UNCHANGED <<service, history, bounds>>

\* resolveCreate: the lookup, and the ticket when nothing is registered.
ResolveFound ==
  /\ Step({"read", "delete"}, "find") /\ Found(call.m.name)
  /\ IF call.op = "read" THEN Finish(netState(registered))
     ELSE call' = [call EXCEPT !.m = netState(registered), !.at = "get"] /\ UNCHANGED state
  /\ UNCHANGED <<service, history, bounds>>

ResolveAbsent_Unknown ==
  /\ Step({"read", "delete"}, "find") /\ NotFound
  /\ IF call.m.ticket # NoTicket THEN Goto("ticket") ELSE Finish(None)
  /\ UNCHANGED <<service, history, bounds>>
ResolveAbsent ==
  /\ Step({"read", "delete"}, "find") /\ NotFound
  /\ IF call.m.ticket # NoTicket THEN Goto("ticket") ELSE Finish(state)
  /\ UNCHANGED <<service, history, bounds>>

ResolveTicket ==
  /\ Step({"read", "delete"}, "ticket")
  /\ Finish(IF Failed(call.m.ticket) THEN None ELSE state)
  /\ UNCHANGED <<service, history, bounds>>
-----------------------------------------------------------------------------
(* The reads of a settled or deleted network *)

\* An absent network is dropped unless a deletion ticket must be confirmed.
Absent_DropAtOnce(m) == Finish(None)
Absent(m) ==
  IF m.pending = "delete" /\ m.ticket # NoTicket
  THEN call' = [call EXCEPT !.m = m, !.at = "confirm"] /\ UNCHANGED state
  ELSE Finish(None)

ReadGet ==
  /\ Step({"read"}, "get")
  /\ IF Visible(call.m.id)
     THEN Finish([netState(registered) EXCEPT !.pending = call.m.pending, !.ticket = call.m.ticket])
     ELSE Absent(call.m)
  /\ UNCHANGED <<service, history, bounds>>

ConfirmTicket ==
  /\ Step({"read", "delete"}, "confirm")
  /\ Finish(IF Terminal(call.m.ticket) THEN None ELSE call.m)
  /\ UNCHANGED <<service, history, bounds>>

\* The ticket could not be read: the pending deletion stays in state.
ConfirmFails ==
  /\ Step({"read", "delete"}, "confirm")
  /\ Finish(call.m)
  /\ UNCHANGED <<service, history, bounds>>
-----------------------------------------------------------------------------
(* Updates and deletions *)

\* UpdateNetMetadata reads the record whose unwritten fields it preserves.
UpdateGet ==
  /\ Step({"update"}, "get")
  /\ Visible(call.m.id) /\ Goto("submit")
  /\ UNCHANGED <<service, history, bounds>>

DeleteGet ==
  /\ Step({"delete"}, "get")
  /\ IF ~Visible(call.m.id) THEN Absent(call.m)
     ELSE IF call.m.pending = "" THEN Goto("current")
     ELSE IF call.m.ticket # NoTicket THEN Goto("status")
     ELSE Finish(state)
  /\ UNCHANGED <<service, history, bounds>>

\* A failed deletion ticket clears the marker; the next apply may submit again.
DeletionStatus ==
  /\ Step({"delete"}, "status")
  /\ Finish(IF Failed(call.m.ticket)
            THEN [call.m EXCEPT !.pending = "", !.ticket = NoTicket] ELSE state)
  /\ UNCHANGED <<service, history, bounds>>

\* The outcome of the deletion request, recorded before the verifying read.
Outcome(ticket) ==
  call' = [call EXCEPT !.m = pendingDeletion(call.m, ticket), !.at = "verify"] /\ UNCHANGED state

\* deleteNetAssignment reads the network first.  When that read finds nothing
\* or fails without a definitive answer, nothing is sent and the deletion is
\* recorded as pending all the same.
DeleteCurrent ==
  /\ Step({"delete"}, "current")
  /\ \/ Visible(call.m.id) /\ Goto("submit")
     \/ Outcome(NoTicket)
  /\ UNCHANGED <<service, history, bounds>>

Verify ==
  /\ Step({"delete"}, "verify")
  /\ IF Visible(call.m.id) THEN Finish(call.m) ELSE Absent(call.m)
  /\ UNCHANGED <<service, history, bounds>>

VerifyFails ==
  /\ Step({"delete"}, "verify")
  /\ Finish(call.m)
  /\ UNCHANGED <<service, history, bounds>>

\* A missing /remove route does not establish that the network is absent.
Recheck ==
  /\ Step({"delete"}, "recheck")
  /\ Outcome(NoTicket)
  /\ UNCHANGED <<service, history, bounds>>
-----------------------------------------------------------------------------
(* Submissions and their answers *)

Submit ==
  /\ call # None /\ call.at = "submit" /\ sent < MaxSubmits
  /\ sent' = sent + 1
  /\ wire' = wire \cup {[n |-> sent', op |-> call.op, handle |-> call.m.id, name |-> call.m.name,
                         of |-> IF Visible(call.m.id) THEN registered.by ELSE 0]}
  /\ call' = [call EXCEPT !.at = "answer", !.n = sent']
  /\ UNCHANGED <<registered, tickets, state, named, lost, bounds>>

\* The request does not leave the client, which cannot tell.
Unsent ==
  /\ call # None /\ call.at = "submit"
  /\ call' = [call EXCEPT !.at = "answer", !.reply = Uncertain]
  /\ UNCHANGED <<service, state, history, bounds>>

Answered(op) == Step({op}, "answer") /\ call.reply # None

\* No answer: a timeout, status 408 or 5xx, or a broken connection.
NoAnswer ==
  /\ call # None /\ call.at = "answer" /\ call.reply = None
  /\ call' = [call EXCEPT !.reply = Uncertain]
  /\ UNCHANGED <<service, state, history, bounds>>

\* A network in the answer settles the creation; a ticket beside it is dropped.
TicketDropped(r) == r.kind = "ok" /\ r.net # None /\ r.ticket # NoTicket
CreateAnswered ==
  /\ Answered("create")
  /\ LET r == call.reply IN
     Finish(IF r.kind = "ok" /\ r.net # None THEN netState(r.net)
            ELSE IF netDefinitiveFailure(r) THEN state
            ELSE pendingNet(call.m.name, r.ticket))
  /\ lost' = (lost \/ TicketDropped(call.reply))
  /\ UNCHANGED <<service, sent, named, bounds>>

UpdateAnswered ==
  /\ Answered("update")
  /\ Finish(IF call.reply.kind = "ok" THEN netState(call.reply.net) ELSE state)
  /\ UNCHANGED <<service, history, bounds>>

DeleteAnswered ==
  /\ Answered("delete")
  /\ IF netDefinitiveFailure(call.reply) THEN Finish(state)
     ELSE IF call.reply.kind = "missing" /\ call.messages THEN Goto("recheck")
     ELSE Outcome(call.reply.ticket)
  /\ UNCHANGED <<service, history, bounds>>
-----------------------------------------------------------------------------
(* The registration service *)

Created(r, h) == [handle |-> h, name |-> r.name, by |-> r.n]
Open(r) == Append(tickets, [request |-> r, status |-> "open"])

\* The service processes a request; the answer reaches a call that still
\* waits for it, unless it is lost on the way.
Process(r, replies) ==
  /\ wire' = wire \ {r}
  /\ \/ /\ call # None /\ call.n = r.n /\ call.at = "answer" /\ call.reply = None
        /\ \E reply \in replies :
             /\ \E reading \in Readings(reply) : call' = [call EXCEPT !.reply = reading]
             /\ named' = named \cup ({reply.ticket} \ {NoTicket})
     \/ UNCHANGED <<call, named>>
  /\ UNCHANGED <<state, sent, lost, bounds>>

\* A ticket may come with the network as it is to be registered.
ProcessCreate(r) ==
  /\ r.op = "create" /\ registered = None
  /\ \/ \E h \in Handles :
          /\ registered' = Created(r, h) /\ UNCHANGED tickets
          /\ Process(r, {Accepted(registered', NoTicket)})
     \/ /\ Len(tickets) < MaxTickets
        /\ tickets' = Open(r) /\ UNCHANGED registered
        /\ Process(r, {Accepted(net, Len(tickets')) : net \in {None} \cup {Created(r, h) : h \in Handles}})

ProcessUpdate(r) ==
  /\ r.op = "update" /\ Visible(r.handle)
  /\ registered' = [registered EXCEPT !.name = r.name]
  /\ UNCHANGED tickets
  /\ Process(r, {Accepted(registered', NoTicket)})

\* Of the answer to a deletion only the ticket is looked at.
ProcessDelete(r) ==
  /\ r.op = "delete" /\ Visible(r.handle)
  /\ \/ /\ registered' = None /\ UNCHANGED tickets
        /\ Process(r, {Accepted(registered, NoTicket)})
     \/ /\ Len(tickets) < MaxTickets
        /\ tickets' = Open(r) /\ UNCHANGED registered
        /\ Process(r, {Accepted(None, Len(tickets'))})

\* The service may refuse any request, must refuse a range that is taken, and
\* answers 404 for a network that is gone or a route it does not know.
Refuse(r) ==
  /\ UNCHANGED <<registered, tickets>>
  /\ Process(r, IF r.op = "create" THEN {Rejected} ELSE {Rejected, Missing})

Receive(r) == ProcessCreate(r) \/ ProcessUpdate(r) \/ ProcessDelete(r) \/ Refuse(r)

\* A ticket ends by taking effect or without effect.
CloseTicket(t) ==
  LET r == tickets[t].request
      Closed(status) == tickets' = [tickets EXCEPT ![t].status = status] IN
  /\ t \in DOMAIN tickets /\ tickets[t].status = "open"
  /\ \/ /\ r.op = "create" /\ registered = None /\ Closed("done")
        /\ \E h \in Handles : registered' = Created(r, h)
     \/ /\ r.op = "delete" /\ Visible(r.handle) /\ Closed("done")
        /\ registered' = None
     \/ Closed("failed") /\ UNCHANGED registered
     \/ r.op = "delete" /\ ~Visible(r.handle) /\ Closed("done") /\ UNCHANGED registered
  /\ UNCHANGED <<wire, state, call, history, bounds>>

\* Another channel registers, renames or removes a network in the range.
Edit ==
  /\ edits < MaxEdits /\ edits' = edits + 1
  /\ \/ /\ registered = None
        /\ \E name \in Names : registered' = [handle |-> Foreign, name |-> name, by |-> 0]
     \/ /\ registered # None
        /\ \/ registered' = None
           \/ \E name \in Names \ {registered.name} :
                registered' = [registered EXCEPT !.name = name]
  /\ UNCHANGED <<wire, tickets, state, call, history, crashes>>

\* The provider process ends: Terraform keeps the state it had before the call.
Crash ==
  /\ call # None /\ crashes < MaxCrashes
  /\ crashes' = crashes + 1
  /\ lost' = (lost \/ (call.n # 0 /\ call.op # "update"))
  /\ call' = None
  /\ UNCHANGED <<service, state, sent, named, edits>>
-----------------------------------------------------------------------------
Begin ==
  \/ \E name \in Names : StartCreate(name) \/ StartUpdate(name)
  \/ StartRead
  \/ \E messages \in BOOLEAN : StartDelete(messages)
  \/ \E h \in Handles : ImportState(h)

CallStep ==
  \/ CreateFind \/ ResolveFound \/ ResolveAbsent \/ ResolveTicket
  \/ ReadGet \/ ConfirmTicket \/ UpdateGet
  \/ DeleteGet \/ DeletionStatus \/ DeleteCurrent \/ Verify \/ Recheck
  \/ Submit \/ Unsent \/ CreateAnswered \/ UpdateAnswered \/ DeleteAnswered

CallFails ==
  \/ \E at \in {"find", "ticket", "get", "status", "current", "recheck"} : Fail(at)
  \/ ConfirmFails \/ VerifyFails \/ NoAnswer

Next ==
  \/ Begin \/ CallStep \/ CallFails \/ Crash
  \/ \E r \in wire : Receive(r)
  \/ \E t \in Tickets : CloseTicket(t)
  \/ Edit

Spec == Init /\ [][Next]_vars
-----------------------------------------------------------------------------
(* Properties *)

\* Every variable keeps to its domain, and only a running call waits for an
\* answer.
TypeOK ==
  /\ registered \in Net \cup {None}
  /\ wire \subseteq Request
  /\ tickets \in Seq(Ticket) /\ Len(tickets) <= MaxTickets
  /\ state \in State \cup {None}
  /\ call \in Call \cup {None}
  /\ sent \in 0 .. MaxSubmits /\ named \subseteq Tickets /\ lost \in BOOLEAN
  /\ edits \in 0 .. MaxEdits /\ crashes \in 0 .. MaxCrashes

\* The requests of one kind that can still take effect.
Outstanding(op) ==
  {r \in wire : r.op = op} \cup
  {tickets[t].request : t \in {u \in DOMAIN tickets : tickets[u].request.op = op
                                                     /\ tickets[u].status = "open"}}

\* "Pending or uncertain operations retain recovery state and block repeat
\* submissions": unless an outcome was lost, two creations never wait to
\* take effect together, nor a creation beside a network it already made, nor
\* two deletions of the same registration.
NoRepeatedSubmission ==
  ~lost =>
    /\ \A r, s \in Outstanding("create") : r = s
    /\ Outstanding("create") # {} /\ registered # None => registered.by = 0
    /\ \A r, s \in Outstanding("delete") : r = s \/ r.of # s.of \/ r.of = 0

\* Terraform forgets the resource only when nothing of it is left: no network
\* it created stays registered and no creation is still to take effect.
NoOrphan ==
  ~lost /\ state = None /\ call = None =>
    /\ registered # None => registered.handle = Foreign
    /\ Outstanding("create") = {}

\* A settled state names the network that is registered for it, or one that
\* another channel has removed; no creation of it is still to take effect.
SettledIsCreated ==
  ~lost /\ state # None /\ state.pending # "create" =>
    /\ Outstanding("create") = {}
    /\ registered # None /\ registered.handle # Foreign => registered.handle = state.id

\* A ticket that an answer named is never forgotten while it is open, also
\* when the network beside it could not be decoded.
TicketsKept ==
  ~lost /\ call = None =>
    \A t \in named : tickets[t].status = "open" => state # None /\ state.ticket = t

\* "Its later processing could affect a replacement using the same range": a
\* deletion ticket that an answer named removes no other registration than the
\* one its deletion was about.
NoLateRemoval ==
  \A t \in named :
     /\ ~lost /\ tickets[t].request.op = "delete"
     /\ tickets[t].status = "open" /\ tickets'[t].status = "done"
     /\ registered # None /\ registered' = None
     => registered.by = tickets[t].request.of

\* A pending operation whose ticket is known.
Unresolved == state # None /\ state.ticket # NoTicket
-----------------------------------------------------------------------------
(* The inductive invariant.                                                *)

Requests == wire \cup {tickets[t].request : t \in DOMAIN tickets}
Own == registered # None /\ registered.handle # Foreign
Sent == call # None /\ call.n # 0

\* Requests have their own numbers and keep them behind a ticket; the number
\* of a creation still to come names no registration yet.
RequestInv ==
  /\ \A r \in Requests : r.n <= sent /\ r.of <= sent
  /\ \A r \in wire : \A q \in wire : q.n = r.n => q = r
  /\ \A r \in wire : \A t \in DOMAIN tickets : tickets[t].request.n # r.n
  /\ \A t, u \in DOMAIN tickets : tickets[u].request.n = tickets[t].request.n => u = t
  /\ \A t \in DOMAIN tickets : tickets[t].request.op \in {"create", "delete"}
  /\ \A r \in Requests : r.op # "create" => r.handle \in Handles
  /\ named \subseteq DOMAIN tickets
  /\ registered # None => registered.by <= sent /\ (registered.by = 0 <=> registered.handle = Foreign)
  /\ \A r \in Outstanding("create") :
       /\ registered # None => registered.by # r.n
       /\ \A d \in Requests : d.op = "delete" => d.of # r.n

\* A state names its network, except that of a creation, and the ticket of its
\* pending operation.
Sound(m) ==
  /\ m.pending # "create" => m.id \in Handles
  /\ m.pending = "" => m.ticket = NoTicket
  /\ m.ticket # NoTicket =>
       /\ m.ticket \in DOMAIN tickets /\ tickets[m.ticket].request.op = m.pending
       /\ m.pending = "delete" => tickets[m.ticket].request.handle = m.id

StateInv == state # None => Sound(state)

\* What a call starts from, and how far it has come.
CallInv ==
  call # None =>
    /\ Sound(call.m)
    /\ call.op = "create" =>
         /\ call.at \in {"find", "submit", "answer"} /\ state = None
         /\ call.m = pendingNet(call.m.name, NoTicket)
    /\ call.op = "update" =>
         /\ call.at \in {"get", "submit", "answer"} /\ state # None /\ state.pending = ""
         /\ call.m = [state EXCEPT !.name = call.m.name]
    /\ call.op = "read" =>
         /\ call.at \in {"find", "ticket", "get", "confirm"}
         /\ IF state = None THEN call.m.pending = "" ELSE call.m = state
    /\ call.op = "delete" =>
         /\ state # None
         /\ call.at \in {"find", "ticket", "status"} => call.m = state
         /\ call.at \in {"current", "submit", "answer", "recheck"} => call.m.pending = ""
         /\ state.pending = "delete" => call.m = state
         /\ state.pending = "" => call.m.id = state.id
         /\ call.at = "verify" => call.m.pending = "delete" /\ state.pending # "delete"
    /\ call.op # "create" => (call.at \in {"find", "ticket"} <=> call.m.pending = "create")
    /\ call.at = "ticket" => call.m.ticket # NoTicket
    /\ call.at \in {"status", "confirm"} => call.m.pending = "delete" /\ call.m.ticket # NoTicket
    /\ call.at \in {"find", "ticket", "get", "status", "current", "submit"} =>
         call.n = 0 /\ call.reply = None
    /\ call.op = "read" => call.n = 0
    /\ call.n = 0 /\ call.m.ticket # NoTicket => state # None /\ call.m.ticket = state.ticket
    /\ call.n <= sent
    /\ \A r \in Requests : r.n = call.n => r.op = call.op /\ r.handle = call.m.id
    /\ call.at = "recheck" => call.reply # None /\ call.reply.kind = "missing"

\* What an answer says of the request.
ReplyInv ==
  call # None /\ call.reply # None =>
    LET a == call.reply IN
    /\ call.n = 0 => a = Uncertain
    /\ a.kind \in {"rejected", "missing"} =>
         /\ a.net = None /\ a.ticket = NoTicket
         /\ \A op \in {"create", "delete"} : \A r \in Outstanding(op) : r.n # call.n
    /\ a.net # None => a.net.handle # Foreign /\ (a.ticket # NoTicket => call.op = "create")
    /\ call.op = "update" /\ a.kind = "ok" => a.net # None /\ a.net.handle = call.m.id
    /\ a.ticket # NoTicket =>
         a.ticket \in DOMAIN tickets /\ tickets[a.ticket].request.n = call.n

\* An open ticket that an answer named is in state or in the running call.
TicketInv ==
  ~lost => \A t \in named : tickets[t].status = "open" =>
    \/ state # None /\ state.ticket = t
    \/ call # None /\ call.m.ticket = t
    \/ call # None /\ call.at = "answer" /\ call.reply # None /\ call.reply.ticket = t

\* What the ticket of a creation tells, and what a known network does.
Told(ticket) ==
  ticket # NoTicket =>
    /\ \A r \in Outstanding("create") : r = tickets[ticket].request
    /\ tickets[ticket].status # "done" => ~Own
Known(id) == Outstanding("create") = {} /\ (Own => registered.handle = id)

\* Unless an outcome was lost, the network and the creation still to come
\* are those of the running creation or of the state.
CreateInv ==
  ~lost =>
    /\ \A r, s \in Outstanding("create") : r = s
    /\ Outstanding("create") # {} => ~Own
    /\ state = None /\ ~Sent => ~Own /\ Outstanding("create") = {}
    /\ state # None => IF state.pending = "create" THEN Told(state.ticket) ELSE Known(state.id)
    /\ call # None /\ call.m.pending # "create" => Known(call.m.id)
    /\ call # None /\ call.at = "confirm" => ~Own
    /\ call # None /\ call.op = "create" =>
         /\ \A r \in Outstanding("create") : r.n = call.n
         /\ call.reply # None =>
              /\ Told(call.reply.ticket)
              /\ call.reply.net # None /\ call.reply.ticket = NoTicket => Known(call.reply.net.handle)
              /\ call.reply.kind = "rejected" => ~Own /\ Outstanding("create") = {}

\* The deletion r is the one that m has pending.
Covers(m, r) ==
  m.pending = "delete" /\ (m.ticket # NoTicket => tickets[m.ticket].request = r)

\* And a deletion of the registered network that is still to take effect is
\* the running one or the one that state has pending.
DeleteInv ==
  ~lost =>
    /\ \A r, s \in Outstanding("delete") : r = s \/ r.of # s.of \/ r.of = 0
    /\ \A r \in Outstanding("delete") : Own /\ r.of = registered.by =>
         \/ state # None /\ Covers(state, r)
         \/ /\ Sent /\ r.n = call.n /\ call.op = "delete"
            /\ call.at \in {"verify", "confirm"} => Covers(call.m, r)
            /\ call.at = "answer" /\ call.reply # None /\ call.reply.ticket # NoTicket =>
                 tickets[call.reply.ticket].request = r
    /\ \A r \in Outstanding("delete") :
         /\ (Sent /\ r.n = call.n) \/ \E t \in named : tickets[t].request = r
         /\ Visible(r.handle)
         => registered.by = r.of

IInv == TypeOK /\ RequestInv /\ StateInv /\ CallInv /\ ReplyInv /\ TicketInv /\ CreateInv /\ DeleteInv
=============================================================================
