---------------------------- MODULE TicketStatus ----------------------------
(***************************************************************************)
(* One arin_ticket_status resource: it closes an existing ticket that ARIN *)
(* has resolved, by a status change or by a full-ticket PUT.  Both read the *)
(* ticket first, refuse an open one, and read it again afterwards.  Other  *)
(* clients of the same ticket run beside it.                               *)
(***************************************************************************)
EXTENDS Integers, FiniteSets

CONSTANTS
  Clients,      \* Terraform configurations that manage the ticket
  None,
  MaxPuts       \* bound: PUT requests sent
Status == {"OPEN", "RESOLVED", "CLOSED"}
Assumption == MaxPuts \in Nat /\ None \notin Status

State == [status : Status, available : BOOLEAN]
Call == [op : {"create", "update", "read", "import"},
         at : {"precheck", "get", "put", "answer", "verify", "read"},
         current : Status \cup {None}, n : 0 .. MaxPuts, answer : Status \cup {None, "error"}]

VARIABLES
  ticket,       \* its status, or None once ARIN has deleted it
  wire,         \* PUT requests on their way
  state,        \* the Terraform state of each client, or None
  call,         \* the running call of each client, or None
  sent,         \* PUT requests so far
  closed,       \* history: clients told that the ticket is closed
  withdrawn     \* history: was a request that ARIN had not resolved withdrawn?

vars == <<ticket, wire, state, call, sent, closed, withdrawn>>

Init ==
  /\ ticket \in Status /\ wire = {} /\ sent = 0 /\ closed = {} /\ withdrawn = FALSE
  /\ state = [c \in Clients |-> None] /\ call = [c \in Clients |-> None]

Start(c, op, at) ==
  /\ call[c] = None
  /\ call' = [call EXCEPT ![c] =
       [op |-> op, at |-> at, current |-> None, n |-> 0, answer |-> None]]
  /\ UNCHANGED <<ticket, wire, state, sent, closed, withdrawn>>

StartCreate(c) == state[c] = None /\ Start(c, "create", "precheck")
StartUpdate(c) == state[c] # None /\ Start(c, "update", "get")
StartRead(c) == state[c] # None /\ Start(c, "read", "read")
StartImport(c) == state[c] = None /\ Start(c, "import", "read")
\* ARIN cannot reopen or delete the ticket: only the state goes.
Delete(c) ==
  /\ call[c] = None /\ state[c] # None /\ state' = [state EXCEPT ![c] = None]
  /\ UNCHANGED <<ticket, wire, call, sent, closed, withdrawn>>

At(c, at) == call[c] # None /\ call[c].at = at
Finish(c, s) ==
  /\ call' = [call EXCEPT ![c] = None] /\ state' = [state EXCEPT ![c] = s]
Fails(c) == Finish(c, state[c])
Set(status) == [status |-> status, available |-> TRUE]
\* A write that is not confirmed: a creation keeps what it read, since the
\* ticket exists, and an update leaves the state alone.
Unconfirmed_Set(c, seen) == Finish(c, Set(seen))
Unconfirmed(c, seen) ==
  IF call[c].op = "create" THEN Finish(c, Set(seen)) ELSE Fails(c)
Unchanged == UNCHANGED <<ticket, wire, sent, closed, withdrawn>>
-----------------------------------------------------------------------------
(* CloseTicket and CloseTicketWithPayload *)

Precheck(c) ==
  /\ At(c, "precheck") /\ ticket \in {"RESOLVED", "CLOSED"}
  /\ call' = [call EXCEPT ![c].at = "get", ![c].current = ticket]
  /\ UNCHANGED state /\ Unchanged
PrecheckFails(c) == At(c, "precheck") /\ Fails(c) /\ Unchanged

Closable_Any(s) == TRUE
Closable(s) == s = "RESOLVED"
GetTicket(c) ==
  /\ At(c, "get") /\ ticket # None
  /\ IF ticket = "CLOSED" THEN Finish(c, Set(ticket)) /\ closed' = closed \cup {c}
     ELSE /\ IF Closable(ticket)
             THEN call' = [call EXCEPT ![c].at = "put", ![c].current = ticket] /\ UNCHANGED state
             ELSE Unconfirmed(c, ticket)
          /\ UNCHANGED closed
  /\ UNCHANGED <<ticket, wire, sent, withdrawn>>
\* A creation has read the ticket before.
GetFails(c) ==
  At(c, "get") /\ Unconfirmed(c, call[c].current) /\ Unchanged

Put(c) ==
  /\ At(c, "put") /\ sent < MaxPuts /\ sent' = sent + 1
  /\ wire' = wire \cup {sent'} /\ call' = [call EXCEPT ![c].at = "answer", ![c].n = sent']
  /\ UNCHANGED <<ticket, state, closed, withdrawn>>
NoAnswer(c) ==
  /\ \/ At(c, "put")
     \/ At(c, "answer") /\ call[c].answer = None
  /\ call' = [call EXCEPT ![c].at = "answer", ![c].answer = "error"]
  /\ UNCHANGED state /\ Unchanged

\* An error, or an answer that does not show the ticket closed, is no
\* confirmation; the ticket in it is still what a creation keeps.
PutAnswered(c) ==
  /\ At(c, "answer") /\ call[c].answer # None
  /\ CASE call[c].answer = "CLOSED" -> call' = [call EXCEPT ![c].at = "verify"] /\ UNCHANGED state
       [] call[c].answer = "error" -> Unconfirmed(c, call[c].current)
       [] OTHER -> Unconfirmed(c, call[c].answer)
  /\ Unchanged

Verified_Answered == TRUE
Verified == ticket = "CLOSED"
Verify(c) ==
  /\ At(c, "verify") /\ Verified
  /\ Finish(c, Set("CLOSED")) /\ closed' = closed \cup {c}
  /\ UNCHANGED <<ticket, wire, sent, withdrawn>>
VerifyFails(c) == At(c, "verify") /\ Unconfirmed(c, call[c].answer) /\ Unchanged

\* A refresh keeps the receipt of a ticket that ARIN has deleted.
Read(c) ==
  /\ At(c, "read")
  /\ \/ ticket # None /\ Finish(c, Set(ticket))
     \/ /\ ticket = None /\ state[c] # None
        /\ Finish(c, [state[c] EXCEPT !.available = FALSE])
     \/ Fails(c)
  /\ Unchanged
-----------------------------------------------------------------------------
(* ARIN: a ticket is resolved, closed and at last deleted, and never reopened *)

Told(n, answers) ==
  \/ \E c \in Clients :
       /\ At(c, "answer") /\ call[c].n = n /\ call[c].answer = None
       /\ \E a \in answers : call' = [call EXCEPT ![c].answer = a]
  \/ UNCHANGED call

Execute(n) ==
  /\ wire' = wire \ {n} /\ ticket' = IF ticket = None THEN None ELSE "CLOSED"
  /\ withdrawn' = (withdrawn \/ ticket = "OPEN")
  /\ Told(n, {ticket', "error"} \ {None})
  /\ UNCHANGED <<state, sent, closed>>
\* Refused, or answered with the old or the new status before it is done.
Refuse(n) ==
  /\ wire' = wire \ {n} /\ Told(n, {ticket, "error"} \ {None})
  /\ UNCHANGED <<ticket, state, sent, closed, withdrawn>>
AnswerFirst(n) ==
  /\ ticket = "RESOLVED" /\ Told(n, {"CLOSED"})
  /\ UNCHANGED <<ticket, wire, state, sent, closed, withdrawn>>

ARIN ==
  /\ ticket' \in {IF ticket = "OPEN" THEN "RESOLVED" ELSE ticket, None}
  /\ ticket # None
  /\ UNCHANGED <<wire, state, call, sent, closed, withdrawn>>

ClientStep(c) ==
  \/ Precheck(c) \/ PrecheckFails(c) \/ GetTicket(c) \/ GetFails(c) \/ Put(c) \/ NoAnswer(c)
  \/ PutAnswered(c) \/ Verify(c) \/ VerifyFails(c) \/ Read(c)

Next ==
  \/ \E c \in Clients :
       StartCreate(c) \/ StartUpdate(c) \/ StartRead(c) \/ StartImport(c) \/ Delete(c) \/ ClientStep(c)
  \/ \E n \in wire : Execute(n) \/ Refuse(n) \/ AnswerFirst(n)
  \/ ARIN

Spec == Init /\ [][Next]_vars
-----------------------------------------------------------------------------
(* Properties *)

\* Tickets, states and calls keep to their domains, and only a PUT's call
\* has an answer.
TypeOK ==
  /\ ticket \in Status \cup {None} /\ wire \subseteq 1 .. MaxPuts /\ sent \in 0 .. MaxPuts
  /\ state \in [Clients -> State \cup {None}] /\ call \in [Clients -> Call \cup {None}]
  /\ closed \subseteq Clients /\ withdrawn \in BOOLEAN

\* A create or update that ends without an error has closed the ticket: no
\* early or lost answer of ARIN is taken for it.
SuccessIsClosed == closed # {} => ticket \in {"CLOSED", None}

\* "It does not withdraw open requests": no PUT, also one that arrives late,
\* closes a ticket that ARIN has not resolved.
NeverWithdraws == ~withdrawn
-----------------------------------------------------------------------------
(* The inductive invariant: a PUT is sent, and is on its way, only for a   *)
(* ticket that has been read resolved and so is never open again.          *)

PutInv ==
  (wire # {} \/ \E c \in Clients : At(c, "put")) => ticket # "OPEN"
\* A creation keeps what it has read.
CallInv ==
  \A c \in Clients : call[c] # None =>
    /\ call[c].op = "create" /\ call[c].at \in {"get", "put", "answer", "verify"}
         => call[c].current \in Status
    /\ call[c].at = "verify" => call[c].answer = "CLOSED"

IInv == TypeOK /\ SuccessIsClosed /\ NeverWithdraws /\ PutInv /\ CallInv
=============================================================================
