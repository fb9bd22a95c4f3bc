---------------------------- MODULE HostedProofs ----------------------------
(***************************************************************************)
(* Proofs about the hosted resources, each for every value of its          *)
(* constants and for every length of its behaviours.                       *)
(***************************************************************************)
EXTENDS RegistrationProofs

-----------------------------------------------------------------------------
(* Tickets *)

LEMMA TicketTypes ==
  ASSUME Ticket!Assumption, Ticket!IInv
  PROVE  /\ MaxPuts \in Nat /\ None \notin {"OPEN", "RESOLVED", "CLOSED"}
         /\ ticket \in {"OPEN", "RESOLVED", "CLOSED", None}
         /\ wire \subseteq 1 .. MaxPuts /\ sent \in 0 .. MaxPuts
         /\ state \in [Clients -> Ticket!State \cup {None}]
         /\ call \in [Clients -> Ticket!Call \cup {None}]
         /\ closed \subseteq Clients /\ withdrawn = FALSE
         /\ closed # {} => ticket \in {"CLOSED", None}
         /\ Ticket!PutInv /\ Ticket!CallInv
  BY DEF Ticket!Assumption, Ticket!IInv, Ticket!TypeOK, Ticket!SuccessIsClosed,
         Ticket!NeverWithdraws, Ticket!Status

\* A client's call and state may change to any q and s that keep these facts.
LEMMA TicketFrame ==
  ASSUME Ticket!Assumption, Ticket!IInv, NEW c \in Clients,
         NEW q \in Ticket!Call \cup {None}, NEW s \in Ticket!State \cup {None},
         q # None =>
           /\ q.op = "create" /\ q.at \in {"get", "put", "answer", "verify"}
                => q.current \in Ticket!Status
           /\ q.at = "verify" => q.answer = "CLOSED"
           /\ q.at = "put" => ticket # "OPEN",
         call' = [call EXCEPT ![c] = q], state' = [state EXCEPT ![c] = s],
         ticket' = ticket, withdrawn' = withdrawn,
         sent' \in 0 .. MaxPuts, wire' \subseteq 1 .. MaxPuts, wire' # {} => ticket # "OPEN",
         closed' \subseteq Clients, closed' # {} => ticket \in {"CLOSED", None}
  PROVE  Ticket!IInv'
<1>1. Ticket!TypeOK' /\ Ticket!SuccessIsClosed' /\ Ticket!NeverWithdraws'
  BY TicketTypes DEF Ticket!TypeOK, Ticket!SuccessIsClosed, Ticket!NeverWithdraws, Ticket!Status
<1>2. \A d \in Clients : call'[d] = IF d = c THEN q ELSE call[d]
  BY TicketTypes
<1>3. Ticket!PutInv'
  BY <1>2, TicketTypes DEF Ticket!PutInv, Ticket!At
<1>4. Ticket!CallInv'
  BY <1>2, TicketTypes DEF Ticket!CallInv
<1> QED  BY <1>1, <1>3, <1>4 DEF Ticket!IInv

LEMMA TicketClientStep ==
  ASSUME Ticket!Assumption, Ticket!IInv, NEW c \in Clients,
         \/ Ticket!StartCreate(c) \/ Ticket!StartUpdate(c) \/ Ticket!StartRead(c)
         \/ Ticket!StartImport(c) \/ Ticket!Delete(c) \/ Ticket!ClientStep(c)
  PROVE  Ticket!IInv'
<1>1. /\ state = [state EXCEPT ![c] = state[c]] /\ state[c] \in Ticket!State \cup {None}
      /\ call = [call EXCEPT ![c] = call[c]] /\ call[c] \in Ticket!Call \cup {None}
  BY TicketTypes
<1>2. /\ wire # {} => ticket # "OPEN"
      /\ call[c] # None =>
           /\ call[c].at = "put" => ticket # "OPEN"
           /\ call[c].op = "create" /\ call[c].at \in {"get", "put", "answer", "verify"}
                => call[c].current \in Ticket!Status
           /\ call[c].at = "verify" => call[c].answer = "CLOSED"
  BY TicketTypes DEF Ticket!PutInv, Ticket!CallInv, Ticket!At
<1>3. \A t \in Ticket!Status : Ticket!Set(t) \in Ticket!State
  BY DEF Ticket!Set, Ticket!State, Ticket!Status
<1>4. CASE \E op \in {"create", "update", "read", "import"}, at \in {"precheck", "get", "read"} :
             Ticket!Start(c, op, at) /\ (op = "create" => at = "precheck")
  <2>1. PICK op \in {"create", "update", "read", "import"}, at \in {"precheck", "get", "read"} :
          Ticket!Start(c, op, at) /\ (op = "create" => at = "precheck")
    BY <1>4
  <2> DEFINE q == [op |-> op, at |-> at, current |-> None, n |-> 0, answer |-> None]
  <2>2. q \in Ticket!Call /\ q.op = op /\ q.at = at
    BY TicketTypes DEF Ticket!Call
  <2>3. /\ call' = [call EXCEPT ![c] = q] /\ state' = state /\ ticket' = ticket /\ wire' = wire
        /\ sent' = sent /\ closed' = closed /\ withdrawn' = withdrawn
    BY <2>1 DEF Ticket!Start
  <2> DEFINE s == state[c]
  <2> HIDE DEF q, s
  <2>4. q # None =>
          /\ q.op = "create" /\ q.at \in {"get", "put", "answer", "verify"} => q.current \in Ticket!Status
          /\ q.at = "verify" => q.answer = "CLOSED"
          /\ q.at = "put" => ticket # "OPEN"
    BY <2>1, <2>2
  <2>5. state' = [state EXCEPT ![c] = s] /\ s \in Ticket!State \cup {None}
    BY <1>1, <2>3 DEF s
  <2>6. /\ sent' \in 0 .. MaxPuts /\ wire' \subseteq 1 .. MaxPuts /\ closed' \subseteq Clients
        /\ wire' # {} => ticket # "OPEN"
        /\ closed' # {} => ticket \in {"CLOSED", None}
    BY <1>2, <2>3, TicketTypes
  <2> QED  BY <2>2, <2>3, <2>4, <2>5, <2>6, TicketFrame
<1>5. CASE Ticket!Delete(c)
  BY <1>1, <1>2, <1>5, TicketTypes, TicketFrame DEF Ticket!Delete
<1>6. CASE Ticket!Precheck(c)
  <2> DEFINE q == [call[c] EXCEPT !.at = "get", !.current = ticket]
  <2>1. q \in Ticket!Call /\ call' = [call EXCEPT ![c] = q] /\ q.at = "get" /\ q.current \in Ticket!Status
    BY <1>1, <1>6, TicketTypes DEF Ticket!Precheck, Ticket!At, Ticket!Call, Ticket!Status
  <2>2. UNCHANGED <<ticket, wire, state, sent, closed, withdrawn>>
    BY <1>6 DEF Ticket!Precheck, Ticket!Unchanged
  <2> HIDE DEF q
  <2> QED  BY <1>1, <1>2, <2>1, <2>2, TicketTypes, TicketFrame
<1>7. CASE \E s \in Ticket!State \cup {None} :
             /\ Ticket!Finish(c, s) /\ UNCHANGED <<ticket, wire, sent, withdrawn>>
             /\ \/ closed' = closed
                \/ closed' = closed \cup {c} /\ ticket = "CLOSED"
  <2>1. PICK s \in Ticket!State \cup {None} :
          /\ Ticket!Finish(c, s) /\ UNCHANGED <<ticket, wire, sent, withdrawn>>
          /\ \/ closed' = closed
             \/ closed' = closed \cup {c} /\ ticket = "CLOSED"
    BY <1>7
  <2>2. call' = [call EXCEPT ![c] = None] /\ state' = [state EXCEPT ![c] = s]
    BY <2>1 DEF Ticket!Finish
  <2> QED  BY <1>2, <2>1, <2>2, TicketTypes, TicketFrame
<1>8. ASSUME NEW t \in Ticket!Status, Ticket!Unconfirmed(c, t), Ticket!Unchanged
      PROVE  Ticket!IInv'
  BY <1>1, <1>3, <1>7, <1>8 DEF Ticket!Unconfirmed, Ticket!Fails, Ticket!Unchanged
<1>9. ASSUME Ticket!Fails(c), Ticket!Unchanged PROVE Ticket!IInv'
  BY <1>1, <1>7, <1>9 DEF Ticket!Fails, Ticket!Unchanged
<1>10. CASE Ticket!GetTicket(c)
  <2>1. CASE ticket = "CLOSED"
    BY <1>3, <1>7, <1>10, <2>1 DEF Ticket!GetTicket, Ticket!Status
  <2>2. CASE ticket # "CLOSED" /\ Ticket!Closable(ticket)
    <3> DEFINE q == [call[c] EXCEPT !.at = "put", !.current = ticket]
    <3>1. q \in Ticket!Call /\ call' = [call EXCEPT ![c] = q] /\ q.at = "put" /\ q.current \in Ticket!Status
      BY <1>1, <1>10, <2>2, TicketTypes DEF Ticket!GetTicket, Ticket!At, Ticket!Call, Ticket!Status
    <3>2. UNCHANGED <<ticket, wire, state, sent, closed, withdrawn>> /\ ticket # "OPEN"
      BY <1>10, <2>2 DEF Ticket!GetTicket, Ticket!Closable
    <3> HIDE DEF q
    <3> QED  BY <1>1, <1>2, <3>1, <3>2, TicketTypes, TicketFrame
  <2>3. CASE ticket # "CLOSED" /\ ~Ticket!Closable(ticket)
    BY <1>8, <1>10, <2>3, TicketTypes DEF Ticket!GetTicket, Ticket!Status, Ticket!Unchanged
  <2> QED  BY <2>1, <2>2, <2>3
<1>11. CASE Ticket!GetFails(c)
  BY <1>2, <1>8, <1>9, <1>11 DEF Ticket!GetFails, Ticket!Unconfirmed, Ticket!At
<1>12. CASE Ticket!Put(c)
  <2> DEFINE q == [call[c] EXCEPT !.at = "answer", !.n = sent']
  <2>1. sent' \in 1 .. MaxPuts /\ wire' \subseteq 1 .. MaxPuts
    BY <1>12, TicketTypes DEF Ticket!Put
  <2>4. call[c] \in Ticket!Call /\ call[c].at = "put" /\ sent' \in 0 .. MaxPuts
    BY <1>1, <1>12, <2>1 DEF Ticket!Put, Ticket!At
  <2>5. q \in Ticket!Call /\ q.at = "answer" /\ q.op = call[c].op /\ q.current = call[c].current
    BY <2>4 DEF Ticket!Call
  <2>6. call' = [call EXCEPT ![c] = q]
    BY <1>12, <2>4, TicketTypes DEF Ticket!Put
  <2>2. /\ q \in Ticket!Call /\ call' = [call EXCEPT ![c] = q] /\ q.at = "answer"
        /\ q.op = "create" => q.current \in Ticket!Status
    BY <1>2, <1>12, <2>4, <2>5, <2>6 DEF Ticket!Put, Ticket!At
  <2>3. UNCHANGED <<ticket, state, closed, withdrawn>> /\ ticket # "OPEN"
    BY <1>2, <1>12 DEF Ticket!Put, Ticket!At
  <2> HIDE DEF q
  <2> QED  BY <1>1, <1>2, <2>1, <2>4, <2>2, <2>3, TicketTypes, TicketFrame
<1>13. CASE Ticket!NoAnswer(c)
  <2> DEFINE q == [call[c] EXCEPT !.at = "answer", !.answer = "error"]
  <2>1. q \in Ticket!Call /\ call' = [call EXCEPT ![c] = q] /\ q.at = "answer"
        /\ (q.op = "create" => q.current \in Ticket!Status)
    BY <1>1, <1>2, <1>13 DEF Ticket!NoAnswer, Ticket!At, Ticket!Call
  <2>2. UNCHANGED <<ticket, wire, state, sent, closed, withdrawn>>
    BY <1>13 DEF Ticket!NoAnswer, Ticket!Unchanged
  <2> HIDE DEF q
  <2> QED  BY <1>1, <1>2, <2>1, <2>2, TicketTypes, TicketFrame
<1>14. CASE Ticket!PutAnswered(c)
  <2>1. call[c] # None /\ call[c].at = "answer" /\ call[c].answer # None /\ Ticket!Unchanged
    BY <1>14 DEF Ticket!PutAnswered, Ticket!At
  <2>2. CASE call[c].answer = "CLOSED"
    <3> DEFINE q == [call[c] EXCEPT !.at = "verify"]
    <3>1. q \in Ticket!Call /\ call' = [call EXCEPT ![c] = q] /\ q.at = "verify" /\ q.answer = "CLOSED"
          /\ (q.op = "create" => q.current \in Ticket!Status)
      BY <1>1, <1>2, <1>14, <2>1, <2>2 DEF Ticket!PutAnswered, Ticket!Call
    <3>2. UNCHANGED <<ticket, wire, state, sent, closed, withdrawn>>
      BY <1>14, <2>1, <2>2 DEF Ticket!PutAnswered, Ticket!Unchanged
    <3> HIDE DEF q
    <3> QED  BY <1>1, <1>2, <3>1, <3>2, TicketTypes, TicketFrame
  <2>3. CASE call[c].answer = "error"
    BY <1>2, <1>8, <1>9, <1>14, <2>1, <2>3 DEF Ticket!PutAnswered, Ticket!Unconfirmed
  <2>4. CASE call[c].answer \notin {"CLOSED", "error"}
    <3>1. call[c].answer \in Ticket!Status
      BY <1>1, <2>1, <2>4 DEF Ticket!Call
    <3> QED  BY <1>8, <1>14, <2>1, <2>4, <3>1 DEF Ticket!PutAnswered
  <2> QED  BY <2>2, <2>3, <2>4
<1>15. CASE Ticket!Verify(c)
  BY <1>3, <1>7, <1>15 DEF Ticket!Verify, Ticket!Verified, Ticket!Status
<1>16. CASE Ticket!VerifyFails(c)
  BY <1>2, <1>8, <1>16 DEF Ticket!VerifyFails, Ticket!At, Ticket!Status
<1>17. CASE Ticket!Read(c)
  <2>1. CASE ticket # None /\ Ticket!Finish(c, Ticket!Set(ticket))
    BY <1>3, <1>7, <1>17, <2>1, TicketTypes DEF Ticket!Read, Ticket!Unchanged, Ticket!Status
  <2>2. CASE state[c] # None /\ Ticket!Finish(c, [state[c] EXCEPT !.available = FALSE])
    <3>1. [state[c] EXCEPT !.available = FALSE] \in Ticket!State
      BY <1>1, <2>2 DEF Ticket!State
    <3> QED  BY <1>7, <1>17, <2>2, <3>1 DEF Ticket!Read, Ticket!Unchanged
  <2> QED  BY <1>9, <1>17, <2>1, <2>2 DEF Ticket!Read
<1>18. CASE Ticket!PrecheckFails(c)
  BY <1>9, <1>18 DEF Ticket!PrecheckFails
<1> QED
  BY <1>4, <1>5, <1>6, <1>10, <1>11, <1>12, <1>13, <1>14, <1>15, <1>16, <1>17, <1>18
  DEF Ticket!StartCreate, Ticket!StartUpdate, Ticket!StartRead, Ticket!StartImport, Ticket!ClientStep

\* What ARIN does with a PUT: the answer reaches at most the call that waits for it.
LEMMA TicketTold ==
  ASSUME Ticket!Assumption, Ticket!IInv, NEW n,
         NEW answers \in SUBSET (Ticket!Status \cup {"error"}), Ticket!Told(n, answers)
  PROVE  /\ call' \in [Clients -> Ticket!Call \cup {None}] /\ Ticket!CallInv'
         /\ \A c \in Clients : call'[c] # None /\ call'[c].at = "put" => call[c] # None /\ call[c].at = "put"
<1>1. CASE UNCHANGED call
  BY <1>1, TicketTypes DEF Ticket!CallInv
<1>2. CASE call' # call
  <2>1. PICK c \in Clients, a \in answers :
          Ticket!At(c, "answer") /\ call' = [call EXCEPT ![c].answer = a]
    BY <1>2 DEF Ticket!Told
  <2> DEFINE q == [call[c] EXCEPT !.answer = a]
  <2>2. q \in Ticket!Call /\ q.at = "answer" /\ q.op = call[c].op /\ q.current = call[c].current
    BY <2>1, TicketTypes DEF Ticket!At, Ticket!Call
  <2>3. \A d \in Clients : call'[d] = IF d = c THEN q ELSE call[d]
    BY <2>1, TicketTypes
  <2>4. call' \in [Clients -> Ticket!Call \cup {None}]
    BY <2>1, <2>2, TicketTypes
  <2> HIDE DEF q
  <2> QED  BY <2>1, <2>2, <2>3, <2>4, TicketTypes DEF Ticket!CallInv, Ticket!At
<1> QED  BY <1>1, <1>2

LEMMA TicketServiceStep ==
  ASSUME Ticket!Assumption, Ticket!IInv,
         \/ \E n \in wire : Ticket!Execute(n) \/ Ticket!Refuse(n) \/ Ticket!AnswerFirst(n)
         \/ Ticket!ARIN
  PROVE  Ticket!IInv'
<1>1. ASSUME NEW n \in wire, Ticket!Execute(n) \/ Ticket!Refuse(n) \/ Ticket!AnswerFirst(n)
      PROVE  Ticket!IInv'
  <2>1. ticket # "OPEN"
    BY TicketTypes DEF Ticket!PutInv
  <2>2. /\ ticket' \in {"RESOLVED", "CLOSED", None} /\ (ticket \in {"CLOSED", None} => ticket' \in {"CLOSED", None})
        /\ withdrawn' = withdrawn /\ wire' \subseteq wire /\ UNCHANGED <<state, sent, closed>>
    BY <1>1, <2>1, TicketTypes DEF Ticket!Execute, Ticket!Refuse, Ticket!AnswerFirst
  <2>3. \E answers \in SUBSET (Ticket!Status \cup {"error"}) : Ticket!Told(n, answers)
    BY <1>1, <2>2, TicketTypes DEF Ticket!Execute, Ticket!Refuse, Ticket!AnswerFirst, Ticket!Status
  <2>4. /\ call' \in [Clients -> Ticket!Call \cup {None}] /\ Ticket!CallInv'
        /\ \A c \in Clients : call'[c] # None /\ call'[c].at = "put" => call[c] # None /\ call[c].at = "put"
    BY <2>3, TicketTold
  <2>5. Ticket!TypeOK' /\ Ticket!SuccessIsClosed' /\ Ticket!NeverWithdraws'
    BY <2>2, <2>4, TicketTypes DEF Ticket!TypeOK, Ticket!SuccessIsClosed, Ticket!NeverWithdraws, Ticket!Status
  <2>6. Ticket!PutInv'
    BY <2>2, TicketTypes DEF Ticket!PutInv
  <2> QED  BY <2>4, <2>5, <2>6 DEF Ticket!IInv
<1>2. CASE Ticket!ARIN
  BY <1>2, TicketTypes
  DEF Ticket!ARIN, Ticket!IInv, Ticket!TypeOK, Ticket!SuccessIsClosed, Ticket!NeverWithdraws,
      Ticket!PutInv, Ticket!CallInv, Ticket!At, Ticket!Status
<1> QED  BY <1>1, <1>2

LEMMA TicketInit == ASSUME Ticket!Assumption, Ticket!Init PROVE Ticket!IInv
<1>1. Ticket!TypeOK /\ Ticket!SuccessIsClosed /\ Ticket!NeverWithdraws
  <2>1. /\ ticket \in Ticket!Status /\ wire = {} /\ sent = 0 /\ closed = {} /\ withdrawn = FALSE
        /\ state \in [Clients -> Ticket!State \cup {None}] /\ call \in [Clients -> Ticket!Call \cup {None}]
    BY DEF Ticket!Init
  <2>2. 0 \in 0 .. MaxPuts
    BY DEF Ticket!Assumption
  <2> QED  BY <2>1, <2>2 DEF Ticket!TypeOK, Ticket!SuccessIsClosed, Ticket!NeverWithdraws
<1>2. \A c \in Clients : call[c] = None
  BY DEF Ticket!Init
<1>3. Ticket!PutInv /\ Ticket!CallInv
  BY <1>2 DEF Ticket!Init, Ticket!PutInv, Ticket!CallInv, Ticket!At
<1> QED  BY <1>1, <1>3 DEF Ticket!IInv

LEMMA TicketStep ==
  ASSUME Ticket!Assumption, Ticket!IInv, [Ticket!Next]_(Ticket!vars) PROVE Ticket!IInv'
<1>1. CASE UNCHANGED Ticket!vars
  BY <1>1 DEF Ticket!vars, Ticket!IInv, Ticket!TypeOK, Ticket!SuccessIsClosed, Ticket!NeverWithdraws,
       Ticket!PutInv, Ticket!CallInv, Ticket!At
<1> QED  BY <1>1, TicketClientStep, TicketServiceStep DEF Ticket!Next

\* The inductive invariant of a ticket and its clients.
THEOREM TicketInductive == ASSUME Ticket!Assumption PROVE Ticket!Spec => []Ticket!IInv
<1>1. Ticket!Init => Ticket!IInv
  BY TicketInit
<1>2. Ticket!IInv /\ [Ticket!Next]_(Ticket!vars) => Ticket!IInv'
  BY TicketStep
<1> QED  BY <1>1, <1>2, PTL DEF Ticket!Spec

\* A create or update that ends without an error has closed the ticket, and no
\* PUT, however late, withdraws a request that ARIN had not resolved.
THEOREM OnlyResolvedIsClosed ==
  ASSUME Ticket!Assumption
  PROVE  Ticket!Spec => [](Ticket!SuccessIsClosed /\ Ticket!NeverWithdraws)
<1>1. Ticket!IInv => Ticket!SuccessIsClosed /\ Ticket!NeverWithdraws
  BY DEF Ticket!IInv
<1> QED  BY <1>1, TicketInductive, PTL
-----------------------------------------------------------------------------
(* Reports *)

LEMMA ReportTypes ==
  ASSUME Report!Assumption, Report!IInv
  PROVE  /\ MaxSubmits \in Nat /\ Type \in [Reports -> Types]
         /\ None \notin Numbers /\ None \notin Report!Ticket /\ None \notin Report!Receipt
         /\ None \notin Report!Answer /\ None \notin Report!Call
         /\ tickets \in [Numbers -> Report!Ticket \cup {None}]
         /\ wire \subseteq [n : 1 .. MaxSubmits, copy : {1, 2}, want : Reports]
         /\ state \in Report!Receipt \cup {None} /\ call \in Report!Call \cup {None}
         /\ state # None /\ state.ticket = None => state.pending
         /\ refreshed \in BOOLEAN /\ sent \in 0 .. MaxSubmits /\ known \subseteq Numbers
         /\ Report!OutstandingInv /\ Report!CreateInv /\ Report!ReadInv
  BY DEF Report!Assumption, Report!IInv, Report!TypeOK

\* What is outstanding while nothing is sent, opened or confirmed.
LEMMA ReportUnlocated ==
  ASSUME UNCHANGED <<wire, tickets, known>>
  PROVE  Report!Unlocated' = Report!Unlocated /\ Report!Outstanding' = Report!Outstanding
  BY DEF Report!Unlocated, Report!Outstanding, Report!Opened

\* A call may end with s if s is pending, or nothing is outstanding, or only
\* the ticket that s names.
LEMMA ReportFinish ==
  ASSUME Report!Assumption, Report!IInv, call # None,
         NEW s \in Report!Receipt \cup {None}, NEW ok \in BOOLEAN, Report!Finish(s, ok),
         s # None /\ s.ticket = None => s.pending,
         ok /\ call.op # "create" => s # None /\ ~s.pending,
         s = None \/ ~s.pending =>
           \/ Report!Outstanding = {}
           \/ s # None /\ wire = {} /\ Report!Unlocated \subseteq {s.ticket}
  PROVE  Report!IInv'
<1>1. /\ state' = s /\ call' = None /\ refreshed' = (ok /\ call.op # "create")
      /\ tickets' = tickets /\ wire' = wire /\ sent' = sent
      /\ known' = IF s # None /\ ~s.pending THEN known \cup {s.ticket} ELSE known
  BY DEF Report!Finish
<1>2. s # None /\ ~s.pending => s.ticket \in Numbers
  BY DEF Report!Receipt
<1>3. Report!TypeOK'
  BY <1>1, <1>2, ReportTypes DEF Report!TypeOK
<1>4. Report!Unlocated' \subseteq Report!Unlocated
  BY <1>1 DEF Report!Unlocated, Report!Opened
<1>5. s = None \/ ~s.pending => Report!Outstanding' = {}
  BY <1>1, <1>4 DEF Report!Outstanding, Report!Unlocated, Report!Opened
<1>6. Report!OutstandingInv'
  BY <1>1, <1>4, <1>5, ReportTypes DEF Report!OutstandingInv, Report!Settled
<1>7. Report!CreateInv' /\ Report!ReadInv'
  BY <1>1 DEF Report!CreateInv, Report!ReadInv
<1> QED  BY <1>3, <1>6, <1>7 DEF Report!IInv

LEMMA ReportStart ==
  ASSUME Report!Assumption, Report!IInv, call = None, NEW r \in Reports,
         NEW op \in {"create", "read", "import"}, NEW found \in Report!Receipt \cup {None},
         Report!Start(op, IF op = "create" THEN "post" ELSE "ticket", r, found),
         op = "create" => Report!Settled,
         op = "read" => found = state /\ state # None,
         op = "import" => found # None /\ ~found.pending /\ state = None
  PROVE  Report!IInv'
<1> DEFINE q == [op |-> op, at |-> IF op = "create" THEN "post" ELSE "ticket", want |-> r,
                 found |-> found, n |-> 0, answer |-> None]
<1>1. q \in Report!Call /\ q.op = op /\ q.found = found /\ q.answer = None
      /\ q.at = (IF op = "create" THEN "post" ELSE "ticket")
  BY ReportTypes DEF Report!Call
<1>2. call' = q /\ UNCHANGED <<tickets, wire, state, refreshed, sent, known>>
  BY DEF Report!Start
<1> HIDE DEF q
<1>3. Report!TypeOK'
  BY <1>1, <1>2, ReportTypes DEF Report!TypeOK
<1>4. Report!OutstandingInv'
  BY <1>1, <1>2, ReportTypes, ReportUnlocated
  DEF Report!OutstandingInv, Report!Sending, Report!Settled, Report!Unlocated, Report!Opened
<1>5. Report!CreateInv' /\ Report!ReadInv'
  BY <1>1, <1>2, ReportTypes DEF Report!CreateInv, Report!ReadInv, Report!Settled
<1> QED  BY <1>3, <1>4, <1>5 DEF Report!IInv

LEMMA ReportCallStep ==
  ASSUME Report!Assumption, Report!IInv, Report!CallStep PROVE Report!IInv'
<1>1. CASE Report!NotSubmitted
  <2>1. call # None /\ call.op = "create" /\ call.at = "post" /\ Report!Finish(state, FALSE)
    BY <1>1 DEF Report!NotSubmitted, Report!At
  <2>2. Report!Settled => Report!Outstanding = {}
    BY <2>1, ReportTypes DEF Report!OutstandingInv, Report!Sending
  <2> QED  BY <2>1, <2>2, ReportTypes, ReportFinish DEF Report!Settled
<1>2. CASE Report!RequestReport
  <2>1. /\ call # None /\ call.op = "create" /\ call.at = "post" /\ sent' = sent + 1 /\ sent < MaxSubmits
        /\ wire' = wire \cup [n : {sent'}, copy : {1}, want : {call.want}]
        /\ call' = [call EXCEPT !.at = "answer", !.n = sent']
        /\ UNCHANGED <<tickets, state, refreshed, known>>
    BY <1>2 DEF Report!RequestReport, Report!At, Report!Copies
  <2>2. wire = {} /\ Report!Unlocated = {} /\ Report!Settled /\ Report!Outstanding = {}
    BY <2>1, ReportTypes DEF Report!OutstandingInv, Report!CreateInv, Report!Sending, Report!Outstanding, Report!Unlocated
  <2>3. call \in Report!Call /\ sent' \in 1 .. MaxSubmits /\ sent' \in 0 .. MaxSubmits
    BY <2>1, ReportTypes
  <2>4. call' \in Report!Call /\ call'.at = "answer" /\ call'.op = "create" /\ call'.answer = call.answer
    BY <2>1, <2>3 DEF Report!Call
  <2>5. wire' \subseteq [n : 1 .. MaxSubmits, copy : {1, 2}, want : Reports]
    BY <2>1, <2>2, <2>3 DEF Report!Call
  <2>6. Report!TypeOK'
    BY <2>1, <2>3, <2>4, <2>5, ReportTypes DEF Report!TypeOK
  <2>7. Report!Unlocated' = {}
    BY <2>1, <2>2 DEF Report!Unlocated, Report!Opened
  <2>8. \A p, q \in wire' : p = q
    BY <2>1, <2>2
  <2>9. Report!OutstandingInv'
    BY <2>4, <2>7, <2>8, ReportTypes DEF Report!OutstandingInv, Report!Sending
  <2> QED  BY <2>1, <2>2, <2>4, <2>6, <2>9, ReportTypes DEF Report!IInv, Report!CreateInv, Report!ReadInv, Report!Settled
<1>3. ASSUME NEW q \in Report!Call, call # None, call.op = "create", call.at = "answer",
             call' = q, q.op = "create", q.at \in {"answer", "verify"},
             UNCHANGED <<tickets, wire, state, refreshed, sent, known>>,
             q.at = "verify" => q.answer # None /\ q.answer.kind = "partial",
             q.answer # None => q.answer = call.answer \/ q.answer.kind = "uncertain"
      PROVE  Report!IInv'
  <2>1. Report!TypeOK'
    BY <1>3, ReportTypes DEF Report!TypeOK
  <2>2. Report!Unlocated' = Report!Unlocated /\ Report!Outstanding' = Report!Outstanding
    BY <1>3, ReportUnlocated
  <2>3. Report!OutstandingInv'
    BY <1>3, <2>2, ReportTypes DEF Report!OutstandingInv, Report!Sending, Report!Settled
  <2>4. q # None
    BY <1>3, ReportTypes
  <2>5. Report!CreateInv'
    BY <1>3, <2>2, <2>4, ReportTypes DEF Report!CreateInv, Report!Settled
  <2>6. Report!ReadInv'
    BY <1>3, <2>4, ReportTypes DEF Report!ReadInv
  <2> QED  BY <2>1, <2>3, <2>5, <2>6 DEF Report!IInv
<1>4. CASE Report!NoAnswer
  <2> DEFINE u == [kind |-> "uncertain", ticket |-> None]
             q == [call EXCEPT !.answer = u]
  <2>1. /\ call # None /\ call.op = "create" /\ call.at = "answer" /\ call' = q
        /\ UNCHANGED <<tickets, wire, state, refreshed, sent, known>>
    BY <1>4 DEF Report!NoAnswer, Report!At
  <2>2. u \in Report!Answer /\ u.kind = "uncertain"
    BY DEF Report!Answer
  <2>3. q \in Report!Call /\ q.op = "create" /\ q.at = "answer" /\ q.answer = u
    BY <2>1, <2>2, ReportTypes DEF Report!Call
  <2> HIDE DEF q, u
  <2> QED  BY <1>3, <2>1, <2>2, <2>3
<1>5. CASE Report!Create
  <2>1. /\ call \in Report!Call /\ call # None /\ call.op = "create" /\ call.at = "answer"
        /\ call.answer # None /\ call.answer \in Report!Answer /\ call.want \in Reports
    BY <1>5, ReportTypes DEF Report!Create, Report!At, Report!Call
  <2>2. CASE call.answer.kind = "receipt"
    <3> DEFINE s == Report!Confirmed(call.want, call.answer.ticket, FALSE)
    <3>1. call.answer.ticket \in Numbers /\ wire = {} /\ Report!Unlocated \subseteq {call.answer.ticket}
      BY <2>1, <2>2, ReportTypes DEF Report!CreateInv
    <3>2. s \in Report!Receipt /\ s.ticket = call.answer.ticket /\ ~s.pending
      BY <2>1, <3>1 DEF Report!Confirmed, Report!Receipt
    <3>3. s # None /\ s.ticket # None
      BY <3>1, <3>2, ReportTypes
    <3>4. Report!Finish(s, TRUE)
      BY <1>5, <2>2 DEF Report!Create, Report!netDefinitiveFailure
    <3> HIDE DEF s
    <3> QED  BY <2>1, <3>1, <3>2, <3>3, <3>4, ReportFinish
  <2>3. CASE call.answer.kind = "partial"
    <3> DEFINE q == [call EXCEPT !.at = "verify"]
    <3>1. call' = q /\ UNCHANGED <<tickets, wire, state, refreshed, sent, known>>
      BY <1>5, <2>3 DEF Report!Create, Report!netDefinitiveFailure
    <3>2. q \in Report!Call /\ q.op = "create" /\ q.at = "verify" /\ q.answer = call.answer
      BY <2>1 DEF Report!Call
    <3> HIDE DEF q
    <3> QED  BY <1>3, <2>1, <2>3, <3>1, <3>2
  <2>4. CASE call.answer.kind = "refused"
    <3>1. Report!Finish(state, FALSE)
      BY <1>5, <2>4 DEF Report!Create, Report!netDefinitiveFailure
    <3>2. Report!Outstanding = {}
      BY <2>1, <2>4, ReportTypes DEF Report!CreateInv
    <3> QED  BY <2>1, <3>1, <3>2, ReportTypes, ReportFinish
  <2>5. CASE call.answer.kind = "uncertain"
    <3> DEFINE s == Report!Uncertain(call.want, None)
    <3>1. Report!Finish(s, FALSE)
      BY <1>5, <2>5 DEF Report!Create, Report!netDefinitiveFailure
    <3>2. s \in Report!Receipt /\ s.pending
      BY <2>1 DEF Report!Uncertain, Report!Receipt
    <3>3. s # None
      BY <3>2, ReportTypes
    <3> HIDE DEF s
    <3> QED  BY <2>1, <3>1, <3>2, <3>3, ReportFinish
  <2> QED  BY <2>1, <2>2, <2>3, <2>4, <2>5 DEF Report!Answer
<1>6. ASSUME call # None, call.op = "create", call.at = "verify"
      PROVE  /\ call \in Report!Call /\ call.want \in Reports /\ call.answer.ticket \in Numbers
             /\ wire = {} /\ Report!Unlocated \subseteq {call.answer.ticket}
  BY <1>6, ReportTypes DEF Report!CreateInv, Report!Call
<1>7. CASE Report!VerifyTicket
  <2> DEFINE s == Report!Confirmed(call.want, call.answer.ticket, FALSE)
  <2>1. call # None /\ call.op = "create" /\ call.at = "verify" /\ Report!Finish(s, TRUE)
    BY <1>7 DEF Report!VerifyTicket, Report!At
  <2>2. s \in Report!Receipt /\ s.ticket = call.answer.ticket /\ ~s.pending
    BY <1>6, <2>1 DEF Report!Confirmed, Report!Receipt
  <2>3. s # None /\ s.ticket # None
    BY <1>6, <2>1, <2>2, ReportTypes
  <2> HIDE DEF s
  <2> QED  BY <1>6, <2>1, <2>2, <2>3, ReportFinish
<1>8. CASE Report!VerifyFails
  <2> DEFINE s == Report!Uncertain(call.want, call.answer.ticket)
  <2>1. call # None /\ call.op = "create" /\ call.at = "verify" /\ Report!Finish(s, FALSE)
    BY <1>8 DEF Report!VerifyFails, Report!At
  <2>2. s \in Report!Receipt /\ s.pending
    BY <1>6, <2>1 DEF Report!Uncertain, Report!Receipt
  <2>3. s # None
    BY <2>2, ReportTypes
  <2> HIDE DEF s
  <2> QED  BY <2>1, <2>2, <2>3, ReportFinish
\* What a refresh or an import has found, and that nothing is outstanding then.
<1>9. ASSUME Report!Reading
      PROVE  /\ call \in Report!Call /\ call # None /\ call.op # "create"
             /\ call.found \in Report!Receipt /\ (call.found.pending => call.found = state)
             /\ Report!Settled \/ ~call.found.pending => Report!Outstanding = {}
  <2>1. call \in Report!Call /\ call # None /\ call.op # "create" /\ call.found # None
    BY <1>9, ReportTypes DEF Report!Reading, Report!CreateInv, Report!ReadInv
  <2>2. call.found \in Report!Receipt /\ (call.found.pending => call.found = state)
    BY <2>1, ReportTypes DEF Report!Call, Report!ReadInv
  <2>3. Report!Settled => Report!Outstanding = {}
    BY <2>1, ReportTypes DEF Report!OutstandingInv, Report!Sending
  <2>4. ~call.found.pending => Report!Settled
    BY <2>1, ReportTypes DEF Report!ReadInv, Report!Settled
  <2> QED  BY <2>1, <2>2, <2>3, <2>4
<1>10. CASE Report!ReadMissing
  <2> DEFINE s == [call.found EXCEPT !.available = FALSE]
  <2>1. /\ Report!Reading /\ call.found.ticket # None /\ ~call.found.pending
        /\ Report!Finish(s, TRUE)
    BY <1>10 DEF Report!ReadMissing
  <2>2. s \in Report!Receipt /\ s.ticket # None /\ ~s.pending
    BY <1>9, <2>1 DEF Report!Receipt
  <2>3. s # None
    BY <2>2, ReportTypes
  <2> HIDE DEF s
  <2> QED  BY <1>9, <2>1, <2>2, <2>3, ReportFinish
<1>11. CASE Report!ReadTicket
  <2> DEFINE s == Report!Confirmed(call.found.request, call.found.ticket, call.found.pending)
             ok == Report!ReadSucceeds(call.found)
  <2>1. Report!Reading /\ call.found.ticket # None /\ Report!Finish(s, ok)
    BY <1>11 DEF Report!ReadTicket
  <2>2. s \in Report!Receipt /\ s.ticket # None /\ s.pending = call.found.pending
    BY <1>9, <2>1 DEF Report!Receipt, Report!Confirmed
  <2>3. ok \in BOOLEAN /\ (ok => ~call.found.pending)
    BY DEF Report!ReadSucceeds
  <2>4. s # None
    BY <2>2, ReportTypes
  <2> HIDE DEF s, ok
  <2> QED  BY <1>9, <2>1, <2>2, <2>3, <2>4, ReportFinish
<1>12. CASE Report!ReadFails
  <2>1. Report!Reading /\ Report!Finish(state, FALSE)
    BY <1>12 DEF Report!ReadFails
  <2> QED  BY <1>9, <2>1, ReportTypes, ReportFinish DEF Report!Settled
<1> QED
  BY <1>1, <1>2, <1>4, <1>5, <1>7, <1>8, <1>10, <1>11, <1>12 DEF Report!CallStep

\* ARIN opens a ticket, refuses, or another channel's ticket appears or expires.
LEMMA ReportTold ==
  ASSUME Report!Assumption, Report!IInv, NEW n, NEW answers \in SUBSET Report!Answer,
         Report!Told(n, answers)
  PROVE  \/ call' = call
         \/ /\ call # None /\ call.op = "create" /\ call.at = "answer" /\ call.answer = None
            /\ call' \in Report!Call /\ call' # None /\ call'.op = "create" /\ call'.at = "answer"
            /\ call'.answer # None /\ call'.answer \in answers
<1>1. CASE call' # call
  <2>1. PICK u \in answers :
          /\ call # None /\ call.op = "create" /\ call.at = "answer" /\ call.answer = None
          /\ call' = [call EXCEPT !.answer = u]
    BY <1>1 DEF Report!Told, Report!At
  <2>2. call \in Report!Call /\ u \in Report!Answer /\ u # None
    BY <2>1, ReportTypes
  <2>3. /\ call' \in Report!Call /\ call'.op = "create" /\ call'.at = "answer" /\ call'.answer = u
    BY <2>1, <2>2 DEF Report!Call
  <2> QED  BY <2>1, <2>2, <2>3, ReportTypes
<1> QED  BY <1>1

LEMMA ReportARINStep ==
  ASSUME Report!Assumption, Report!IInv, Report!ARINStep PROVE Report!IInv'
<1>1. ASSUME NEW r \in wire, NEW answers \in SUBSET Report!Answer, Report!Told(r.n, answers),
             wire' = wire \ {r}, UNCHANGED <<state, refreshed, sent, known>>,
             tickets' \in [Numbers -> Report!Ticket \cup {None}],
             NEW ts \in SUBSET Numbers, Report!Unlocated' \subseteq ts,
             \A t, u \in ts : t = u,
             \A x \in answers :
               /\ x.kind \in {"receipt", "partial"} => ts \subseteq {x.ticket} /\ x.ticket \in Numbers
               /\ x.kind = "refused" => ts = {}
      PROVE  Report!IInv'
  <2>1. wire' = {} /\ Report!Outstanding' = Report!Unlocated'
    BY <1>1, ReportTypes DEF Report!OutstandingInv, Report!Outstanding, Report!Unlocated
  <2>2. Report!Sending \/ ~Report!Settled
    BY <1>1, ReportTypes DEF Report!OutstandingInv, Report!Outstanding
  <2>3. call' = call \/ (call.answer = None /\ Report!Sending /\ Report!Sending' /\ call # None)
    BY <1>1, ReportTold DEF Report!Sending
  <2>4. call' \in Report!Call \cup {None}
    BY <1>1, ReportTold, ReportTypes
  <2>5. Report!TypeOK'
    BY <1>1, <2>1, <2>4, ReportTypes DEF Report!TypeOK
  <2>6. Report!Settled' = Report!Settled /\ (Report!Sending => Report!Sending')
    BY <1>1, <2>3 DEF Report!Settled, Report!Sending
  <2>7. Report!OutstandingInv'
    BY <1>1, <2>1, <2>2, <2>6 DEF Report!OutstandingInv
  <2>8. CASE call' = call
    <3>1. call # None /\ call.op = "create" /\ call.answer # None =>
            call.answer.kind \notin {"receipt", "partial", "refused"}
      BY <1>1, ReportTypes DEF Report!CreateInv, Report!Outstanding
    <3>2. Report!CreateInv' /\ Report!ReadInv'
      BY <1>1, <2>6, <2>8, <3>1, ReportTypes DEF Report!CreateInv, Report!ReadInv
    <3> QED  BY <2>5, <2>7, <3>2 DEF Report!IInv
  <2>9. CASE call' # call
    <3>1. /\ call # None /\ call.op = "create" /\ call'.op = "create" /\ call'.at = "answer"
          /\ call'.answer \in answers /\ call' # None
      BY <1>1, <2>9, ReportTold
    <3>2. Report!CreateInv'
      BY <1>1, <2>1, <2>6, <3>1, ReportTypes DEF Report!CreateInv
    <3>3. Report!ReadInv'
      BY <1>1, <3>1, ReportTypes DEF Report!ReadInv
    <3> QED  BY <2>5, <2>7, <3>2, <3>3 DEF Report!IInv
  <2> QED  BY <2>8, <2>9
<1>2. ASSUME NEW r \in wire PROVE Report!Unlocated = {}
  BY <1>2, ReportTypes DEF Report!OutstandingInv
<1>3. ASSUME NEW r \in wire, Report!Refuse(r) PROVE Report!IInv'
  <2> DEFINE answers == [kind : {"refused", "uncertain"}, ticket : {None}]
  <2>1. answers \in SUBSET Report!Answer
    BY DEF Report!Answer
  <2>2. /\ Report!Told(r.n, answers) /\ wire' = wire \ {r}
        /\ UNCHANGED <<tickets, state, refreshed, sent, known>>
    BY <1>3 DEF Report!Refuse
  <2>3. Report!Unlocated' = {}
    BY <1>2, <2>2 DEF Report!Unlocated, Report!Opened
  <2>4. \A x \in answers : x.kind \notin {"receipt", "partial"}
    OBVIOUS
  <2> HIDE DEF answers
  <2> QED  BY <1>1, <2>1, <2>2, <2>3, <2>4, ReportTypes
<1>4. ASSUME NEW r \in wire, NEW t \in Numbers, Report!Accept(r, t) PROVE Report!IInv'
  <2> DEFINE answers == [kind : {"receipt", "partial"}, ticket : {t}]
                          \cup [kind : {"uncertain"}, ticket : {None}]
  <2>1. answers \in SUBSET Report!Answer
    BY DEF Report!Answer
  <2>2. /\ Report!Told(r.n, answers) /\ wire' = wire \ {r}
        /\ tickets' = [tickets EXCEPT ![t] = [type |-> Type[r.want], n |-> r.n, expired |-> FALSE]]
        /\ UNCHANGED <<state, refreshed, sent, known>>
    BY <1>4 DEF Report!Accept
  <2>3. r.n \in 0 .. MaxSubmits /\ r.want \in Reports
    BY <1>4, ReportTypes
  <2>4. [type |-> Type[r.want], n |-> r.n, expired |-> FALSE] \in Report!Ticket
    BY <2>3, ReportTypes DEF Report!Ticket
  <2>5. tickets' \in [Numbers -> Report!Ticket \cup {None}]
    BY <2>2, <2>4, ReportTypes
  <2>6. Report!Unlocated' \subseteq {t}
    BY <1>2, <2>2, ReportTypes DEF Report!Unlocated, Report!Opened
  <2> DEFINE ts == {t}
  <2>7. /\ \A x \in answers :
             /\ x.kind \in {"receipt", "partial"} => ts \subseteq {x.ticket} /\ x.ticket \in Numbers
             /\ x.kind = "refused" => ts = {}
        /\ ts \in SUBSET Numbers /\ (\A x, u \in ts : x = u) /\ Report!Unlocated' \subseteq ts
    BY <2>6
  <2> HIDE DEF answers, ts
  <2> QED  BY <1>1, <2>1, <2>2, <2>5, <2>7
<1>5. ASSUME NEW t \in Numbers, Report!OtherChannel(t) \/ Report!Expire(t) PROVE Report!IInv'
  <2>1. UNCHANGED <<wire, state, refreshed, call, sent, known>>
    BY <1>5 DEF Report!OtherChannel, Report!Expire
  <2>2. tickets' \in [Numbers -> Report!Ticket \cup {None}]
    <3>1. CASE Report!OtherChannel(t)
      <4>1. PICK y \in Types : tickets' = [tickets EXCEPT ![t] = [type |-> y, n |-> 0, expired |-> FALSE]]
        BY <3>1 DEF Report!OtherChannel
      <4>2. [type |-> y, n |-> 0, expired |-> FALSE] \in Report!Ticket
        BY ReportTypes DEF Report!Ticket
      <4> QED  BY <4>1, <4>2, ReportTypes
    <3>2. CASE Report!Expire(t)
      <4>1. tickets[t] \in Report!Ticket /\ tickets' = [tickets EXCEPT ![t].expired = TRUE]
        BY <3>2, ReportTypes DEF Report!Expire, Report!Readable
      <4>2. [tickets[t] EXCEPT !.expired = TRUE] \in Report!Ticket
        BY <4>1 DEF Report!Ticket
      <4> QED  BY <4>1, <4>2, ReportTypes
    <3> QED  BY <1>5, <3>1, <3>2
  <2>3. \A u \in Numbers : Report!Opened(u)' <=> Report!Opened(u)
    <3>1. CASE Report!OtherChannel(t)
      BY <3>1, ReportTypes DEF Report!OtherChannel, Report!Opened
    <3>2. CASE Report!Expire(t)
      <4>1. tickets[t] \in Report!Ticket /\ tickets[t] # None
        BY <3>2, ReportTypes DEF Report!Expire, Report!Readable
      <4>2. tickets'[t] = [tickets[t] EXCEPT !.expired = TRUE]
        BY <3>2, ReportTypes DEF Report!Expire
      <4>3. tickets'[t] \in Report!Ticket /\ tickets'[t].n = tickets[t].n
        BY <4>1, <4>2 DEF Report!Ticket
      <4>4. tickets'[t] # None
        BY <4>3, ReportTypes
      <4> QED  BY <3>2, <4>1, <4>3, <4>4, ReportTypes DEF Report!Expire, Report!Opened
    <3> QED  BY <1>5, <3>1, <3>2
  <2>4. Report!Unlocated' = Report!Unlocated
    BY <2>1, <2>3 DEF Report!Unlocated
  <2>5. Report!Outstanding' = Report!Outstanding
    BY <2>1, <2>3 DEF Report!Outstanding
  <2>6. Report!TypeOK'
    BY <2>1, <2>2, ReportTypes DEF Report!TypeOK
  <2>7. Report!OutstandingInv'
    BY <2>1, <2>4, <2>5, ReportTypes DEF Report!OutstandingInv, Report!Sending, Report!Settled
  <2>8. Report!CreateInv' /\ Report!ReadInv'
    BY <2>1, <2>4, <2>5, ReportTypes DEF Report!CreateInv, Report!ReadInv, Report!Settled
  <2> QED  BY <2>6, <2>7, <2>8 DEF Report!IInv
<1> QED  BY <1>3, <1>4, <1>5 DEF Report!ARINStep

\* The inductive invariant of a report request.
LEMMA ReportInit == ASSUME Report!Assumption, Report!Init PROVE Report!IInv
<1>1. 0 \in 0 .. MaxSubmits
  BY DEF Report!Assumption
<1>2. Report!TypeOK /\ \A t \in Numbers : ~Report!Opened(t)
  BY <1>1 DEF Report!Init, Report!TypeOK, Report!Opened
<1> QED
  BY <1>2 DEF Report!Init, Report!IInv, Report!OutstandingInv, Report!CreateInv, Report!ReadInv,
       Report!Unlocated, Report!Outstanding

LEMMA ReportStep ==
  ASSUME Report!Assumption, Report!IInv, [Report!Next]_(Report!vars) PROVE Report!IInv'
<1>1. CASE UNCHANGED Report!vars
  BY <1>1 DEF Report!vars, Report!IInv, Report!TypeOK, Report!OutstandingInv, Report!CreateInv,
       Report!ReadInv, Report!Unlocated, Report!Outstanding, Report!Opened, Report!Sending, Report!Settled
<1>2. ASSUME NEW r \in Reports, Report!StartCreate(r) PROVE Report!IInv'
  <2>1. Report!Settled /\ call = None /\ Report!Start("create", "post", r, None)
    BY <1>2, ReportTypes DEF Report!StartCreate, Report!Settled, Report!ReadInv, Report!Start
  <2> QED  BY <2>1, ReportStart
<1>3. ASSUME NEW r \in Reports, NEW t \in Numbers, Report!StartImport(r, t) PROVE Report!IInv'
  <2> DEFINE s == [request |-> r, ticket |-> t, available |-> None, pending |-> FALSE]
  <2>1. state = None /\ call = None /\ Report!Start("import", "ticket", r, s)
    BY <1>3 DEF Report!StartImport, Report!Start
  <2>2. s \in Report!Receipt /\ ~s.pending
    BY DEF Report!Receipt
  <2>3. s # None
    BY <2>2, ReportTypes
  <2> HIDE DEF s
  <2> QED  BY <2>1, <2>2, <2>3, ReportStart
<1>4. CASE Report!StartRead
  <2>1. state \in Report!Receipt /\ state # None /\ call = None /\ Report!Start("read", "ticket", state.request, state)
    BY <1>4, ReportTypes DEF Report!StartRead, Report!Start
  <2>2. state.request \in Reports
    BY <2>1 DEF Report!Receipt
  <2> QED  BY <2>1, <2>2, ReportStart
<1>5. CASE Report!Delete
  <2>1. /\ state # None /\ call = None /\ ~state.pending /\ state' = None /\ refreshed' = FALSE
        /\ UNCHANGED <<tickets, wire, call, sent, known>>
    BY <1>5 DEF Report!Delete, Report!MayForget
  <2>2. Report!Unlocated' = Report!Unlocated /\ Report!Outstanding' = Report!Outstanding
    BY <2>1, ReportUnlocated
  <2> QED
    BY <2>1, <2>2, ReportTypes DEF Report!IInv, Report!TypeOK, Report!OutstandingInv, Report!CreateInv,
         Report!ReadInv, Report!Sending, Report!Settled
<1>6. CASE Report!Reconcile
  <2>1. /\ call = None /\ wire = {} /\ state' = None /\ refreshed' = FALSE
        /\ known' = known \cup {t \in Numbers : Report!Opened(t)}
        /\ UNCHANGED <<tickets, wire, call, sent>>
    BY <1>6 DEF Report!Reconcile
  <2>2. Report!Outstanding' = {} /\ Report!Unlocated' = {}
    BY <2>1 DEF Report!Outstanding, Report!Unlocated, Report!Opened
  <2> QED
    BY <2>1, <2>2, ReportTypes DEF Report!IInv, Report!TypeOK, Report!OutstandingInv, Report!CreateInv,
         Report!ReadInv, Report!Sending, Report!Settled
<1> QED
  BY <1>1, <1>2, <1>3, <1>4, <1>5, <1>6, ReportCallStep, ReportARINStep DEF Report!Next

\* At most one submission is under way or unconfirmed, and a settled receipt
\* leaves none.
LEMMA ReportPromises ==
  ASSUME Report!Assumption, Report!IInv PROVE Report!OneOutstanding /\ Report!SettledIsQuiet
<1>1. Report!OneOutstanding
  BY ReportTypes
  DEF Report!OutstandingInv, Report!Outstanding, Report!Unlocated, Report!OneOutstanding
<1>2. Report!SettledIsQuiet
  BY ReportTypes DEF Report!SettledIsQuiet, Report!OutstandingInv, Report!Sending, Report!Settled
<1> QED  BY <1>1, <1>2

\* The report's inductive invariant holds in every reachable state: while a
\* request is on its way, or a ticket is open that the state does not name,
\* the state is the pending receipt of that submission.
THEOREM ReportInductive == ASSUME Report!Assumption PROVE Report!Spec => []Report!IInv
<1>1. Report!Init => Report!IInv
  BY ReportInit
<1>2. Report!IInv /\ [Report!Next]_(Report!vars) => Report!IInv'
  BY ReportStep
<1> QED  BY <1>1, <1>2, PTL DEF Report!Spec

\* "Report requests are never replayed": at most one submission is on its way
\* or open and unknown, whatever answers are lost, malformed or late, and a
\* receipt that is not pending, or no state, leaves none behind.
THEOREM ReportsAreSentOnce ==
  ASSUME Report!Assumption PROVE Report!Spec => [](Report!OneOutstanding /\ Report!SettledIsQuiet)
<1>1. Report!IInv => Report!OneOutstanding /\ Report!SettledIsQuiet
  BY ReportPromises
<1> QED  BY <1>1, ReportInductive, PTL

-----------------------------------------------------------------------------
(* The ASPA *)

LEMMA ASPATypes ==
  ASSUME ASPA!Assumption, ASPA!IInv
  PROVE  /\ MaxSubmits \in Nat /\ MaxEdits \in Nat /\ MaxCrashes \in Nat
         /\ None \notin ProviderSets /\ None \notin ASPA!Answer /\ None \notin ASPA!Call
         /\ roas \in [{} -> {None}] /\ by \in [{} -> 0 .. MaxSubmits]
         /\ aspas \in [{Customer} -> ProviderSets \cup {None}]
         /\ wire \subseteq ASPA!Request /\ sent \in 0 .. MaxSubmits /\ edits \in 0 .. MaxEdits
         /\ state \in ProviderSets \cup {None} /\ call \in ASPA!Call \cup {None}
         /\ call # None => (call.tx # ASPA!NoTx <=> call.at # "list")
         /\ took \in BOOLEAN /\ dropped \in BOOLEAN
         /\ destroys \subseteq 1 .. MaxSubmits /\ crashes \in 0 .. MaxCrashes
         /\ ASPA!WireInv /\ ASPA!CallInv /\ ASPA!CreationInv /\ ASPA!ForeignInv
<1>1. /\ MaxSubmits \in Nat /\ MaxEdits \in Nat /\ MaxCrashes \in Nat
      /\ None \notin ProviderSets /\ None \notin ASPA!Answer /\ None \notin ASPA!Call
  BY DEF ASPA!Assumption, ASPA!ServiceAssumption
<1>2. ASPA!TypeOK /\ ASPA!WireInv /\ ASPA!CallInv /\ ASPA!CreationInv /\ ASPA!ForeignInv
  BY DEF ASPA!IInv
<1>3. /\ roas \in [{} -> {None}] /\ by \in [{} -> 0 .. MaxSubmits]
      /\ aspas \in [{Customer} -> ProviderSets \cup {None}]
      /\ wire \subseteq ASPA!Request /\ sent \in 0 .. MaxSubmits /\ edits \in 0 .. MaxEdits
  BY <1>2 DEF ASPA!TypeOK, ASPA!ServiceTypeOK, ASPA!ROAs, ASPA!ASPAs
<1> QED  BY <1>1, <1>2, <1>3 DEF ASPA!TypeOK

\* What a call submits is well formed, never empty, and adds what it wants.
LEMMA ASPAChanges ==
  ASSUME NEW op, NEW v \in ProviderSets \cup {None}
  PROVE  /\ ASPA!NoTx \in ASPA!Tx /\ ASPA!Changes(op, v) \in ASPA!Tx
         /\ ASPA!Changes(op, v).addASPAs[Customer] = v
         /\ ASPA!Changes(op, v).deleteASPAs = IF op = "create" THEN {} ELSE {Customer}
         /\ v # None \/ op # "create" => ASPA!Changes(op, v) # ASPA!NoTx
<1>1. ASPA!NoTx \in ASPA!Tx /\ ASPA!NoTx.addASPAs[Customer] = None /\ ASPA!NoTx.deleteASPAs = {}
  BY DEF ASPA!NoTx, ASPA!Tx, ASPA!ASPAs
<1>2. /\ ASPA!Changes(op, v) \in ASPA!Tx
      /\ ASPA!Changes(op, v).addASPAs = [c \in {Customer} |-> v]
      /\ ASPA!Changes(op, v).deleteASPAs = IF op = "create" THEN {} ELSE {Customer}
  BY <1>1 DEF ASPA!Changes, ASPA!Tx, ASPA!ASPAs
<1> QED  BY <1>1, <1>2

\* A call ends with the state s.
LEMMA ASPAFinish ==
  ASSUME ASPA!Assumption, ASPA!IInv, NEW s \in ProviderSets \cup {None},
         call' = None, state' = s, UNCHANGED ASPA!service, destroys' = destroys,
         took' \in BOOLEAN, took => took', dropped' \in BOOLEAN, dropped => dropped',
         crashes' \in 0 .. MaxCrashes,
         ~dropped' /\ s = None => ASPA!Adding = {},
         ASPA!Found # None /\ ~took' => s = None
  PROVE  ASPA!IInv'
<1>1. /\ roas' = roas /\ by' = by /\ aspas' = aspas /\ wire' = wire /\ sent' = sent /\ edits' = edits
      /\ ASPA!Adding' = ASPA!Adding /\ ASPA!Found' = ASPA!Found
  BY DEF ASPA!service, ASPA!Adding, ASPA!Found
<1>2. ASPA!TypeOK'
  BY <1>1, ASPATypes DEF ASPA!TypeOK, ASPA!ServiceTypeOK, ASPA!ROAs, ASPA!ASPAs
<1>3. ASPA!WireInv' /\ ASPA!CallInv'
  BY <1>1, ASPATypes DEF ASPA!WireInv, ASPA!CallInv
<1>4. ASPA!CreationInv' /\ ASPA!ForeignInv'
  BY <1>1, ASPATypes DEF ASPA!CreationInv, ASPA!ForeignInv
<1> QED  BY <1>2, <1>3, <1>4 DEF ASPA!IInv

\* An answer without a receipt has the empty one.
LEMMA ASPANoReceipt == ASPA!NoReceipt \in ASPA!Receipt
<1>1. ASPA!NoReceipt \in [{} -> {}] /\ {} \in SUBSET {}
  BY DEF ASPA!NoReceipt
<1> QED  BY <1>1 DEF ASPA!Receipt

\* A call goes on as q.
LEMMA ASPAContinue ==
  ASSUME ASPA!Assumption, ASPA!IInv, NEW q \in ASPA!Call, call' = q,
         UNCHANGED <<ASPA!service, state, took, dropped, destroys, crashes>>,
         q.tx # ASPA!NoTx <=> q.at # "list",
         q.op \in {"create", "import"} <=> state = None,
         q.op \in {"create", "update"} => q.want # None,
         q.op = "delete" => q.want = None,
         q.op \in {"read", "import"} => q.at = "list",
         q.at # "list" => q.tx = ASPA!Changes(q.op, q.want),
         q.at \in {"list", "post"} => q.n = 0 /\ q.answer = None,
         q.n <= sent,
         q.answer # None /\ q.answer.kind = "rejected" => \A r \in wire : r.n # q.n,
         call = None \/ (q.op = call.op /\ q.n = call.n),
         ASPA!Found # None /\ ~took => q.at = "list"
  PROVE  ASPA!IInv'
<1>1. /\ roas' = roas /\ by' = by /\ aspas' = aspas /\ wire' = wire /\ sent' = sent /\ edits' = edits
      /\ state' = state /\ took' = took /\ dropped' = dropped /\ destroys' = destroys /\ crashes' = crashes
      /\ ASPA!Adding' = ASPA!Adding /\ ASPA!Found' = ASPA!Found
  BY DEF ASPA!service, ASPA!Adding, ASPA!Found
<1>2. ASPA!TypeOK'
  BY <1>1, ASPATypes DEF ASPA!TypeOK, ASPA!ServiceTypeOK, ASPA!ROAs, ASPA!ASPAs
<1>3. ASPA!WireInv'
  BY <1>1, ASPATypes DEF ASPA!WireInv
<1>4. ASPA!CallInv'
  BY <1>1, ASPATypes DEF ASPA!CallInv, ASPA!Changes, ASPA!NoTx
<1>5. ASPA!CreationInv'
  BY <1>1, ASPATypes DEF ASPA!CreationInv
<1>6. ASPA!ForeignInv'
  BY <1>1, ASPATypes DEF ASPA!ForeignInv
<1> QED  BY <1>2, <1>3, <1>4, <1>5, <1>6 DEF ASPA!IInv

LEMMA ASPAStart ==
  ASSUME ASPA!Assumption, ASPA!IInv, NEW op \in {"create", "update", "read", "delete", "import"},
         NEW v \in ProviderSets \cup {None}, ASPA!Start(op, v),
         op \in {"create", "import"} <=> state = None,
         op \in {"create", "update"} => v # None, op = "delete" => v = None
  PROVE  ASPA!IInv'
<1> DEFINE q == [op |-> op, at |-> "list", want |-> v, tx |-> ASPA!NoTx, n |-> 0, answer |-> None]
<1>1. /\ call = None /\ call' = q
      /\ UNCHANGED <<ASPA!service, state, took, dropped, destroys, crashes>>
  BY DEF ASPA!Start
<1>2. q \in ASPA!Call /\ 0 <= sent
  BY ASPATypes, ASPAChanges DEF ASPA!Call
<1>3. /\ q.op = op /\ q.at = "list" /\ q.want = v /\ q.tx = ASPA!NoTx /\ q.n = 0 /\ q.answer = None
  OBVIOUS
<1> HIDE DEF q
<1>4. /\ q.tx # ASPA!NoTx <=> q.at # "list"
      /\ q.op \in {"create", "import"} <=> state = None
      /\ q.op \in {"create", "update"} => q.want # None
      /\ q.op = "delete" => q.want = None
      /\ q.at # "list" => q.tx = ASPA!Changes(q.op, q.want)
      /\ q.n <= sent
      /\ q.answer # None /\ q.answer.kind = "rejected" => \A r \in wire : r.n # q.n
      /\ q.op \in {"read", "import"} => q.at = "list"
      /\ q.at \in {"list", "post"} => q.n = 0 /\ q.answer = None
      /\ call = None \/ (q.op = call.op /\ q.n = call.n)
  BY <1>1, <1>2, <1>3
<1>5. ASPA!Found # None /\ ~took => q.at = "list"
  BY <1>3
<1>6. q \in ASPA!Call
  BY <1>2
<1> QED  BY <1>1, <1>4, <1>5, <1>6, ASPAContinue

LEMMA ASPACallStep ==
  ASSUME ASPA!Assumption, ASPA!IInv,
         \/ ASPA!WriteList \/ ASPA!ReadList \/ ASPA!DeleteList \/ ASPA!Answered \/ ASPA!Verify
         \/ ASPA!CallFails \/ ASPA!Crash
  PROVE  ASPA!IInv'
<1>1. /\ call # None /\ call \in ASPA!Call /\ ASPA!Found \in ProviderSets \cup {None}
      /\ \A r \in wire : r.n \in 1 .. MaxSubmits
  BY ASPATypes
  DEF ASPA!WriteList, ASPA!ReadList, ASPA!DeleteList, ASPA!Answered, ASPA!Verify, ASPA!CallFails,
      ASPA!Fail, ASPA!ListMissing, ASPA!NoAnswer, ASPA!Unconfirmed, ASPA!Crash, ASPA!At, ASPA!Found, ASPA!Request
<1>2. /\ call.op \in {"create", "import"} <=> state = None
      /\ call.op \in {"create", "update"} => call.want # None
      /\ call.op = "delete" => call.want = None
      /\ call.op \in {"read", "import"} => call.at = "list"
      /\ call.at # "list" => call.tx = ASPA!Changes(call.op, call.want)
      /\ call.at \in {"list", "post"} => call.n = 0 /\ call.answer = None
      /\ call.n <= sent
      /\ call.answer # None /\ call.answer.kind = "rejected" => \A r \in wire : r.n # call.n
  BY <1>1, ASPATypes DEF ASPA!CallInv
<1>3. /\ call.op \in {"create", "update", "read", "delete", "import"}
      /\ call.at \in {"list", "post", "answer", "verify"} /\ call.want \in ProviderSets \cup {None}
      /\ call.tx \in ASPA!Tx /\ call.n \in 0 .. MaxSubmits /\ call.answer \in ASPA!Answer \cup {None}
      /\ call.tx # ASPA!NoTx <=> call.at # "list"
  BY <1>1, ASPATypes DEF ASPA!Call
\* What may still add is at most the running creation's request.
<1>4. ~dropped /\ state = None /\ (call.n = 0 \/ \A r \in wire : r.n # call.n) => ASPA!Adding = {}
  BY <1>1, ASPATypes DEF ASPA!CreationInv, ASPA!Adding
<1>5. /\ ASPA!Found # None /\ ~took => state = None /\ call.at = "list" /\ wire = {}
      /\ took \in BOOLEAN /\ dropped \in BOOLEAN /\ crashes \in 0 .. MaxCrashes /\ MaxCrashes \in Nat
  BY <1>1, ASPATypes DEF ASPA!ForeignInv
<1>6. ASSUME NEW s \in ProviderSets \cup {None}, ASPA!Finish(s), UNCHANGED ASPA!service,
             destroys' = destroys, crashes' = crashes, took' \in BOOLEAN, took => took',
             state = None /\ s = None => call.n = 0 \/ \A r \in wire : r.n # call.n,
             ASPA!Found # None /\ ~took' => s = None
      PROVE  ASPA!IInv'
  <2>1. /\ call' = None /\ state' = s
        /\ dropped' = (dropped \/ (state # s /\ s = None /\ ASPA!Adding # {}))
    BY <1>6 DEF ASPA!Finish
  <2>2. dropped' \in BOOLEAN /\ (dropped => dropped')
    BY <1>5, <2>1
  <2>3. ~dropped' /\ s = None => ASPA!Adding = {}
    BY <1>4, <1>6, <2>1
  <2> QED  BY <1>5, <1>6, <2>1, <2>2, <2>3, ASPAFinish
<1>7. ASSUME ASPA!Submission, call.op \in {"create", "update", "delete"}, call.at = "list",
             ASPA!Found = None \/ took,
             UNCHANGED <<ASPA!service, state, took, dropped, destroys, crashes>>
      PROVE  ASPA!IInv'
  <2> DEFINE q == [call EXCEPT !.at = "post", !.tx = ASPA!Changes(call.op, call.want)]
  <2>1. call' = q
    BY <1>7 DEF ASPA!Submission
  <2>2. ASPA!Changes(call.op, call.want) \in ASPA!Tx /\ ASPA!Changes(call.op, call.want) # ASPA!NoTx
    BY <1>2, <1>3, <1>7, ASPAChanges
  <2>3. /\ q \in ASPA!Call /\ q.op = call.op /\ q.at = "post" /\ q.want = call.want /\ q.n = call.n
        /\ q.tx = ASPA!Changes(call.op, call.want) /\ q.answer = call.answer
    BY <1>1, <1>3, <2>2 DEF ASPA!Call
  <2> HIDE DEF q
  <2> QED  BY <1>2, <1>7, <2>1, <2>2, <2>3, ASPAContinue
<1>8. CASE ASPA!WriteList
  <2>1. /\ ASPA!Submission /\ UNCHANGED <<ASPA!service, state, took, dropped, destroys, crashes>>
        /\ call.at = "list" /\ call.op \in {"create", "update"}
        /\ call.op = "create" => ASPA!Found = None
    BY <1>8 DEF ASPA!WriteList, ASPA!At, ASPA!Creatable
  <2>2. ASPA!Found = None \/ took
    BY <1>2, <1>5, <2>1
  <2> QED  BY <1>7, <2>1, <2>2
<1>9. CASE ASPA!ReadList
  <2>1. /\ ASPA!Finish(ASPA!Found) /\ UNCHANGED ASPA!service /\ destroys' = destroys /\ crashes' = crashes
        /\ took' = (took \/ (call.op = "import" /\ ASPA!Found # None))
        /\ call.at = "list" /\ call.op \in {"read", "import"}
    BY <1>9 DEF ASPA!ReadList, ASPA!At
  <2>2. took' \in BOOLEAN /\ (took => took') /\ call.n = 0
    BY <1>2, <1>5, <2>1
  <2>3. ASPA!Found # None /\ ~took' => ASPA!Found = None
    BY <1>2, <1>5, <2>1
  <2> QED  BY <1>1, <1>6, <2>1, <2>2, <2>3
<1>10. CASE ASPA!DeleteList
  <2>1. /\ UNCHANGED ASPA!service /\ destroys' = destroys /\ crashes' = crashes /\ took' = took
        /\ call.at = "list" /\ call.op = "delete"
    BY <1>10 DEF ASPA!DeleteList, ASPA!At
  <2>2. CASE ASPA!Found = None
    <3>1. ASPA!Finish(None)
      BY <1>10, <2>2 DEF ASPA!DeleteList
    <3> QED  BY <1>2, <1>5, <1>6, <2>1, <2>2, <3>1
  <2>3. CASE ASPA!Found # None
    <3>1. ASPA!Submission /\ UNCHANGED <<state, dropped>>
      BY <1>10, <2>3 DEF ASPA!DeleteList
    <3>2. took
      BY <1>2, <1>5, <2>1, <2>3
    <3> QED  BY <1>7, <2>1, <3>1, <3>2
  <2> QED  BY <2>2, <2>3
<1>11. CASE ASPA!Answered
  <2>1. /\ call.at = "answer" /\ call.answer # None /\ UNCHANGED ASPA!service
        /\ destroys' = destroys /\ crashes' = crashes /\ took' = took
    BY <1>11 DEF ASPA!Answered
  <2>2. CASE call.answer.kind = "ok"
    <3> DEFINE q == [call EXCEPT !.at = "verify"]
    <3>1. call' = q /\ UNCHANGED <<state, dropped>>
      BY <1>11, <2>2 DEF ASPA!Answered
    <3>2. /\ q \in ASPA!Call /\ q.op = call.op /\ q.at = "verify" /\ q.want = call.want /\ q.n = call.n
          /\ q.tx = call.tx /\ q.answer = call.answer
      BY <1>1, <1>3 DEF ASPA!Call
    <3> HIDE DEF q
    <3> QED  BY <1>2, <1>3, <1>5, <2>1, <2>2, <3>1, <3>2, ASPAContinue
  <2>3. CASE call.answer.kind # "ok"
    <3> DEFINE s == IF call.op = "create" /\ call.answer.kind = "rejected" THEN None
                    ELSE IF call.op = "create" THEN call.want ELSE state
    <3>1. ASPA!Finish(s)
      BY <1>11, <2>3 DEF ASPA!Answered, ASPA!netDefinitiveFailure, ASPA!Unresolved
    <3>2. s \in ProviderSets \cup {None}
      BY <1>3, ASPATypes
    <3>3. state = None /\ s = None => \A r \in wire : r.n # call.n
      BY <1>2, <1>3, <2>1, <2>3
    <3>4. ASPA!Found # None /\ ~took' => s = None
      BY <1>5, <2>1
    <3> HIDE DEF s
    <3> QED  BY <1>5, <1>6, <2>1, <3>1, <3>2, <3>3, <3>4
  <2> QED  BY <2>2, <2>3
<1>12. CASE ASPA!Verify
  <2>1. /\ call.at = "verify" /\ ASPA!Finish(call.want) /\ UNCHANGED ASPA!service
        /\ destroys' = destroys /\ crashes' = crashes /\ took' = took
    BY <1>12 DEF ASPA!Verify
  <2> QED  BY <1>2, <1>3, <1>5, <1>6, <2>1
<1>13. CASE ASPA!CallFails
  <2>1. CASE ASPA!Fail
    <3>1. /\ call.at = "list" /\ ASPA!Finish(state) /\ UNCHANGED ASPA!service
          /\ destroys' = destroys /\ crashes' = crashes /\ took' = took
      BY <2>1 DEF ASPA!Fail
    <3> QED  BY <1>2, <1>5, <1>6, <3>1, ASPATypes
  <2>2. CASE ASPA!Unconfirmed
    <3> DEFINE s == IF call.op = "create" THEN call.want ELSE state
    <3>1. /\ call.at = "verify" /\ ASPA!Finish(s) /\ UNCHANGED ASPA!service
          /\ destroys' = destroys /\ crashes' = crashes /\ took' = took
      BY <2>2 DEF ASPA!Unconfirmed, ASPA!Unresolved
    <3>2. s \in ProviderSets \cup {None} /\ ~(state = None /\ s = None)
      BY <1>2, <1>3, <3>1, ASPATypes
    <3> HIDE DEF s
    <3> QED  BY <1>5, <1>6, <3>1, <3>2
  <2>3. CASE ASPA!NoAnswer
    <3> DEFINE q == [call EXCEPT !.at = "answer", !.answer = ASPA!Uncertain]
    <3>1. /\ call' = q /\ call.at \in {"post", "answer"}
          /\ UNCHANGED <<ASPA!service, state, took, dropped, destroys, crashes>>
      BY <2>3 DEF ASPA!NoAnswer
    <3>2. ASPA!Uncertain \in ASPA!Answer /\ ASPA!Uncertain.kind = "uncertain"
      BY ASPANoReceipt DEF ASPA!Uncertain, ASPA!Answer
    <3>3. /\ q \in ASPA!Call /\ q.op = call.op /\ q.at = "answer" /\ q.want = call.want /\ q.n = call.n
          /\ q.tx = call.tx /\ q.answer = ASPA!Uncertain
      BY <1>1, <1>3, <3>2 DEF ASPA!Call
    <3> HIDE DEF q
    <3> QED  BY <1>2, <1>3, <1>5, <3>1, <3>2, <3>3, ASPAContinue
  <2>4. CASE ASPA!ListMissing
    <3>1. /\ call.at = "list" /\ call.op \in {"read", "delete"} /\ ASPA!Finish(None) /\ UNCHANGED ASPA!service
          /\ destroys' = destroys /\ crashes' = crashes /\ took' = took
      BY <2>4 DEF ASPA!ListMissing, ASPA!At
    <3> QED  BY <1>2, <1>5, <1>6, <3>1
  <2> QED  BY <1>13, <2>1, <2>2, <2>3, <2>4 DEF ASPA!CallFails
<1>14. CASE ASPA!Crash
  <2>1. /\ crashes < MaxCrashes /\ crashes' = crashes + 1 /\ call' = None /\ state' = state
        /\ dropped' = (dropped \/ (state = None /\ call.n # 0))
        /\ UNCHANGED ASPA!service /\ took' = took /\ destroys' = destroys
    BY <1>14 DEF ASPA!Crash
  <2>2. /\ crashes' \in 0 .. MaxCrashes /\ dropped' \in BOOLEAN /\ (dropped => dropped')
    BY <1>5, <2>1
  <2>3. ~dropped' /\ state = None => ASPA!Adding = {}
    BY <1>4, <2>1
  <2>4. state \in ProviderSets \cup {None}
    BY ASPATypes
  <2> QED  BY <1>5, <2>1, <2>2, <2>3, <2>4, ASPAFinish
<1> QED  BY <1>8, <1>9, <1>10, <1>11, <1>12, <1>13, <1>14

LEMMA ASPAPost == ASSUME ASPA!Assumption, ASPA!IInv, ASPA!PostTransaction PROVE ASPA!IInv'
<1> DEFINE new == [n |-> sent', tx |-> call.tx, given |-> None]
           q == [call EXCEPT !.at = "answer", !.n = sent']
<1>1. /\ call # None /\ call.at = "post" /\ sent < MaxSubmits /\ sent' = sent + 1
      /\ wire' = wire \cup {new} /\ call' = q
      /\ destroys' = IF call.op = "delete" THEN destroys \cup {sent'} ELSE destroys
      /\ UNCHANGED <<roas, aspas, by, edits, state, took, dropped, crashes>>
  BY DEF ASPA!PostTransaction, ASPA!Post
<1>2. /\ call \in ASPA!Call /\ call.tx \in ASPA!Tx /\ call.n = 0 /\ call.answer = None
      /\ call.op \in {"create", "update", "delete"} /\ call.tx # ASPA!NoTx
      /\ call.tx = ASPA!Changes(call.op, call.want) /\ call.want \in ProviderSets \cup {None}
      /\ call.op = "create" <=> state = None
      /\ call.op # "delete" => call.want # None
      /\ call.op = "delete" => call.want = None
  <2>1. call \in ASPA!Call /\ call.tx \in ASPA!Tx /\ call.want \in ProviderSets \cup {None}
        /\ call.op \in {"create", "update", "read", "delete", "import"}
    BY <1>1, ASPATypes DEF ASPA!Call
  <2> QED  BY <1>1, <2>1, ASPATypes DEF ASPA!CallInv
<1>3. call.tx.addASPAs[Customer] = call.want
  BY <1>2, ASPAChanges
<1>4. /\ sent \in Nat /\ sent' \in 1 .. MaxSubmits /\ MaxSubmits \in Nat
      /\ new \in ASPA!Request /\ new.n = sent' /\ new.tx = call.tx
  BY <1>1, <1>2, ASPATypes DEF ASPA!Request
<1>5. /\ q \in ASPA!Call /\ q.op = call.op /\ q.at = "answer" /\ q.want = call.want /\ q.n = sent'
      /\ q.tx = call.tx /\ q.answer = None
  <2>1. sent' \in 0 .. MaxSubmits
    BY <1>4
  <2> QED  BY <1>2, <2>1 DEF ASPA!Call
<1>6. /\ \A r \in wire : r.n \in Nat /\ r.n <= sent /\ (r.tx.addASPAs[Customer] = None => r.n \in destroys)
      /\ \A r, p \in wire : r.n = p.n => r = p
      /\ wire \subseteq ASPA!Request
  BY ASPATypes DEF ASPA!WireInv, ASPA!Request
<1>7. q # None
  BY <1>5, ASPATypes
<1> HIDE DEF new, q
<1>8. ASPA!TypeOK'
  <2>1. destroys' \subseteq 1 .. MaxSubmits
    BY <1>1, <1>4, ASPATypes
  <2> QED
    BY <1>1, <1>2, <1>4, <1>5, <1>6, <2>1, ASPATypes
    DEF ASPA!TypeOK, ASPA!ServiceTypeOK, ASPA!ROAs, ASPA!ASPAs, ASPA!NoTx
<1>9. ASPA!WireInv'
  <2>1. \A r \in wire' : r.n <= sent' /\ (r.tx.addASPAs[Customer] = None => r.n \in destroys')
    <3>1. new.tx.addASPAs[Customer] = None => new.n \in destroys'
      BY <1>1, <1>2, <1>3, <1>4
    <3> QED  BY <1>1, <1>4, <1>6, <3>1
  <2>2. \A r, p \in wire' : r.n = p.n => r = p
    BY <1>1, <1>4, <1>6
  <2> QED  BY <2>1, <2>2 DEF ASPA!WireInv
<1>10. ASPA!CallInv'
  <2>1. sent' <= sent'
    BY <1>4
  <2> QED  BY <1>1, <1>2, <1>4, <1>5, <2>1 DEF ASPA!CallInv, ASPA!Changes, ASPA!NoTx
<1>11. ASPA!CreationInv'
  <2>1. ~dropped /\ state = None => ASPA!Adding = {}
    BY <1>1, <1>2, ASPATypes DEF ASPA!CreationInv, ASPA!Adding, ASPA!Request
  <2> QED  BY <1>1, <1>2, <1>4, <1>5, <1>7, <2>1 DEF ASPA!CreationInv, ASPA!Adding
<1>12. ASPA!ForeignInv'
  BY <1>1, <1>2, ASPATypes DEF ASPA!ForeignInv, ASPA!Found
<1> QED  BY <1>8, <1>9, <1>10, <1>11, <1>12 DEF ASPA!IInv

\* What the service makes of one request on its way: it leaves the wire or
\* gets its receipt, its call may be told, and the ASPA may change.
LEMMA ASPAServed ==
  ASSUME ASPA!Assumption, ASPA!IInv, NEW r \in wire, NEW w \in ASPA!Request, w.n = r.n, w.tx = r.tx,
         wire' = wire \ {r} \/ wire' = (wire \ {r}) \cup {w},
         \/ call' = call
         \/ \E a \in ASPA!Answer :
              /\ call # None /\ call.n = r.n /\ call.at = "answer" /\ call.answer = None
              /\ call' = [call EXCEPT !.answer = a]
              /\ a.kind = "rejected" => wire' = wire \ {r},
         roas' \in [{} -> {None}], by' \in [{} -> 0 .. MaxSubmits],
         aspas' \in [{Customer} -> ProviderSets \cup {None}],
         took' = (took \/ aspas' # aspas),
         UNCHANGED <<sent, edits, state, dropped, destroys, crashes>>
  PROVE  ASPA!IInv'
<1>1. /\ wire \subseteq ASPA!Request /\ \A p \in wire : p.n \in 1 .. MaxSubmits
      /\ \A p \in wire : p.n <= sent /\ (p.tx.addASPAs[Customer] = None => p.n \in destroys)
      /\ \A p, q \in wire : p.n = q.n => p = q
  BY ASPATypes DEF ASPA!WireInv, ASPA!Request
<1>2. /\ wire' \subseteq ASPA!Request
      /\ \A p \in wire' : p.n <= sent /\ (p.tx.addASPAs[Customer] = None => p.n \in destroys)
      /\ \A p, q \in wire' : p.n = q.n => p = q
      /\ \A p \in wire' : \E q \in wire : q.n = p.n /\ q.tx = p.tx
      /\ wire # {}
  BY <1>1
<1>3. \/ call' = call
      \/ /\ call # None /\ call' \in ASPA!Call /\ call' # None /\ call'.op = call.op /\ call'.at = call.at
         /\ call'.want = call.want /\ call'.tx = call.tx /\ call'.n = call.n /\ call.at = "answer"
         /\ call'.answer # None /\ call'.answer.kind = "rejected" => \A p \in wire' : p.n # call.n
  <2> SUFFICES ASSUME NEW a \in ASPA!Answer,
                      call # None, call.n = r.n, call.at = "answer", call.answer = None,
                      call' = [call EXCEPT !.answer = a],
                      a.kind = "rejected" => wire' = wire \ {r}
               PROVE  /\ call' \in ASPA!Call /\ call'.op = call.op /\ call'.at = call.at
                      /\ call'.want = call.want /\ call'.tx = call.tx /\ call'.n = call.n
                      /\ call'.answer # None /\ call'.answer.kind = "rejected"
                           => \A p \in wire' : p.n # call.n
    BY ASPATypes
  <2>1. call \in ASPA!Call
    BY ASPATypes
  <2>2. /\ call' \in ASPA!Call /\ call'.op = call.op /\ call'.at = call.at
        /\ call'.want = call.want /\ call'.tx = call.tx /\ call'.n = call.n /\ call'.answer = a
    BY <2>1 DEF ASPA!Call
  <2>3. a.kind = "rejected" => \A p \in wire' : p.n # call.n
    BY <1>1
  <2> QED  BY <2>2, <2>3
<1>4. call' = None <=> call = None
  BY <1>3
<1>5. ASPA!TypeOK'
  <2>1. call' \in ASPA!Call \cup {None} /\ (call' # None => (call'.tx # ASPA!NoTx <=> call'.at # "list"))
    BY <1>3, ASPATypes
  <2>2. took' \in BOOLEAN
    BY ASPATypes
  <2> QED
    BY <1>2, <2>1, <2>2, ASPATypes
    DEF ASPA!TypeOK, ASPA!ServiceTypeOK, ASPA!ROAs, ASPA!ASPAs, ASPA!NoTx
<1>6. ASPA!WireInv'
  BY <1>2 DEF ASPA!WireInv
<1>7. ASPA!CallInv'
  <2>1. CASE call' = call
    BY <1>2, <2>1, ASPATypes DEF ASPA!CallInv, ASPA!Changes, ASPA!NoTx
  <2>2. CASE call' # call
    <3>1. /\ call # None /\ call'.op = call.op /\ call'.at = call.at
          /\ call'.want = call.want /\ call'.tx = call.tx /\ call'.n = call.n /\ call.at = "answer"
          /\ call'.answer # None /\ call'.answer.kind = "rejected" => \A p \in wire' : p.n # call.n
      BY <1>3, <2>2
    <3>2. /\ call.op \in {"create", "import"} <=> state = None
          /\ call.op \in {"create", "update"} => call.want # None
          /\ call.op = "delete" => call.want = None
          /\ call.op \notin {"read", "import"}
          /\ call.tx = ASPA!Changes(call.op, call.want)
          /\ call.n <= sent
      BY <3>1, ASPATypes DEF ASPA!CallInv
    <3> QED  BY <3>1, <3>2 DEF ASPA!CallInv, ASPA!Changes, ASPA!NoTx
  <2> QED  BY <2>1, <2>2
<1>8. ASPA!CreationInv'
  BY <1>2, <1>3, <1>4, ASPATypes DEF ASPA!CreationInv, ASPA!Adding
<1>9. ASPA!ForeignInv'
  BY <1>2, ASPATypes DEF ASPA!ForeignInv, ASPA!Found
<1> QED  BY <1>5, <1>6, <1>7, <1>8, <1>9 DEF ASPA!IInv

\* A receipt, whole or as far as it could be decoded.
LEMMA ReceiptRead ==
  ASSUME NEW Object, NEW Handle, NEW assigned \in UNION {[added -> Handle] : added \in SUBSET Object},
         NEW some \in SUBSET DOMAIN assigned
  PROVE  [o \in some |-> assigned[o]] \in UNION {[added -> Handle] : added \in SUBSET Object}
<1>1. PICK added \in SUBSET Object : assigned \in [added -> Handle]
  OBVIOUS
<1>2. some \in SUBSET Object /\ [o \in some |-> assigned[o]] \in [some -> Handle]
  BY <1>1
<1> QED  BY <1>2

\* The cases of ASPA!Serve: the ASPA changes only by an acceptable transaction.
LEMMA ASPAServeCases ==
  ASSUME ASPA!Assumption, ASPA!IInv, NEW r \in wire, ASPA!Serve(r)
  PROVE  /\ \E w \in ASPA!Request :
              w.n = r.n /\ w.tx = r.tx /\ (wire' = wire \ {r} \/ wire' = (wire \ {r}) \cup {w})
         /\ \/ call' = call
            \/ \E a \in ASPA!Answer :
                 /\ call # None /\ call.n = r.n /\ call.at = "answer" /\ call.answer = None
                 /\ call' = [call EXCEPT !.answer = a]
                 /\ a.kind = "rejected" => wire' = wire \ {r}
         /\ \/ roas' = roas /\ by' = by /\ aspas' = aspas
            \/ ASPA!Acceptable(r.tx) /\ (\E assigned : ASPA!Apply(r, assigned)) /\ wire' = wire \ {r}
         /\ took' = (took \/ aspas' # aspas)
         /\ UNCHANGED <<sent, edits, state, dropped, destroys, crashes>>
<1>0. r \in ASPA!Request /\ wire \subseteq ASPA!Request
  BY ASPATypes
<1>1. took' = (took \/ aspas' # aspas)
  BY DEF ASPA!Serve
<1>2. CASE ASPA!Complete(r) /\ UNCHANGED <<state, call, dropped, destroys, crashes>>
  BY <1>0, <1>1, <1>2 DEF ASPA!Complete
<1>3. ASSUME NEW answers, ASPA!Told(r.n, answers), answers \subseteq ASPA!Answer
      PROVE  /\ \/ call' = call
                \/ \E a \in answers :
                     /\ a \in ASPA!Answer
                     /\ call # None /\ call.n = r.n /\ call.at = "answer" /\ call.answer = None
                     /\ call' = [call EXCEPT !.answer = a]
             /\ UNCHANGED <<state, dropped, destroys, crashes>>
  BY <1>3 DEF ASPA!Told
<1>4. ASSUME NEW assigned \in ASPA!Assignments(r.tx)
      PROVE  /\ assigned \in ASPA!Receipt
             /\ ASPA!Readings(assigned) \subseteq ASPA!Answer
             /\ \A a \in ASPA!Readings(assigned) : a.kind # "rejected"
  <2>1. assigned \in ASPA!Receipt
    BY <1>0 DEF ASPA!Assignments, ASPA!Receipt, ASPA!Request, ASPA!Tx, ASPA!Live
  <2>2. \A some \in SUBSET DOMAIN assigned : [o \in some |-> assigned[o]] \in ASPA!Receipt
    BY <2>1, ReceiptRead DEF ASPA!Receipt
  <2>3. ASPA!Readings(assigned) \subseteq ASPA!Answer /\ \A a \in ASPA!Readings(assigned) : a.kind # "rejected"
    BY <2>1, <2>2 DEF ASPA!Readings, ASPA!Answer
  <2> QED  BY <2>1, <2>3
<1>5. CASE /\ r.given = None /\ ASPA!Acceptable(r.tx)
           /\ \E assigned \in ASPA!Assignments(r.tx) :
                ASPA!Apply(r, assigned) /\ ASPA!Told(r.n, ASPA!Readings(assigned))
           /\ wire' = wire \ {r} /\ UNCHANGED <<sent, edits>>
  <2>1. PICK assigned \in ASPA!Assignments(r.tx) :
               ASPA!Apply(r, assigned) /\ ASPA!Told(r.n, ASPA!Readings(assigned))
    BY <1>5
  <2> QED  BY <1>0, <1>1, <1>3, <1>4, <1>5, <2>1
<1>6. CASE /\ r.given = None /\ ASPA!Acceptable(r.tx)
           /\ \E assigned \in ASPA!Assignments(r.tx) :
                /\ wire' = (wire \ {r}) \cup {[r EXCEPT !.given = assigned]}
                /\ ASPA!Told(r.n, ASPA!Readings(assigned))
           /\ UNCHANGED <<roas, aspas, by, sent, edits>>
  <2>1. PICK assigned \in ASPA!Assignments(r.tx) :
               /\ wire' = (wire \ {r}) \cup {[r EXCEPT !.given = assigned]}
               /\ ASPA!Told(r.n, ASPA!Readings(assigned))
    BY <1>6
  <2> DEFINE w == [r EXCEPT !.given = assigned]
  <2>2. w \in ASPA!Request /\ w.n = r.n /\ w.tx = r.tx
    BY <1>0, <1>4 DEF ASPA!Request
  <2>3. wire' = (wire \ {r}) \cup {w}
    BY <2>1
  <2> HIDE DEF w
  <2> QED  BY <1>1, <1>3, <1>4, <1>6, <2>1, <2>2, <2>3
<1>7. CASE /\ wire' = wire \ {r}
           /\ IF r.given = None THEN ASPA!Told(r.n, {ASPA!Rejected}) ELSE ASPA!Told(r.n, {})
           /\ UNCHANGED <<roas, aspas, by, sent, edits>>
  <2>1. ASPA!Rejected \in ASPA!Answer
    BY ASPANoReceipt DEF ASPA!Rejected, ASPA!Answer
  <2>2. PICK answers \in {{ASPA!Rejected}, {}} : ASPA!Told(r.n, answers)
    BY <1>7
  <2> QED  BY <1>0, <1>1, <1>3, <1>7, <2>1, <2>2
<1> QED
  BY <1>2, <1>5, <1>6, <1>7 DEF ASPA!Serve, ASPA!CarryOut, ASPA!AnswerFirst, ASPA!Refuse

LEMMA ASPAServe == ASSUME ASPA!Assumption, ASPA!IInv, NEW r \in wire, ASPA!Serve(r) PROVE ASPA!IInv'
<1>1. PICK w \in ASPA!Request :
        w.n = r.n /\ w.tx = r.tx /\ (wire' = wire \ {r} \/ wire' = (wire \ {r}) \cup {w})
  BY ASPAServeCases
<1>2. r.tx \in ASPA!Tx
  BY ASPATypes DEF ASPA!Request
<1>3. /\ roas' \in [{} -> {None}] /\ by' \in [{} -> 0 .. MaxSubmits]
      /\ aspas' \in [{Customer} -> ProviderSets \cup {None}]
  <2>1. CASE \E assigned : ASPA!Apply(r, assigned)
    BY <1>2, <2>1, ASPATypes DEF ASPA!Apply, ASPA!Tx, ASPA!ASPAs
  <2> QED  BY <2>1, ASPAServeCases, ASPATypes
<1>4. /\ took' = (took \/ aspas' # aspas) /\ UNCHANGED <<sent, edits, state, dropped, destroys, crashes>>
      /\ \/ call' = call
         \/ \E a \in ASPA!Answer :
              /\ call # None /\ call.n = r.n /\ call.at = "answer" /\ call.answer = None
              /\ call' = [call EXCEPT !.answer = a]
              /\ a.kind = "rejected" => wire' = wire \ {r}
  BY ASPAServeCases
<1> QED  BY <1>1, <1>3, <1>4, ASPAServed

LEMMA ASPAOtherChannel == ASSUME ASPA!Assumption, ASPA!IInv, ASPA!OtherChannel PROVE ASPA!IInv'
<1>1. /\ took' = (ASPA!Found' # None /\ (took \/ state # None \/ call # None \/ wire # {}))
      /\ UNCHANGED <<state, call, dropped, destroys, crashes, wire, sent>>
      /\ edits' \in 0 .. MaxEdits
  BY ASPATypes DEF ASPA!OtherChannel, ASPA!Edit
<1>2. /\ roas' \in [{} -> {None}] /\ by' \in [{} -> 0 .. MaxSubmits]
      /\ aspas' \in [{Customer} -> ProviderSets \cup {None}]
  BY ASPATypes DEF ASPA!OtherChannel, ASPA!Edit, ASPA!Live
<1>3. ASPA!TypeOK'
  <2>1. took' \in BOOLEAN
    BY <1>1
  <2> QED
    BY <1>1, <1>2, <2>1, ASPATypes DEF ASPA!TypeOK, ASPA!ServiceTypeOK, ASPA!ROAs, ASPA!ASPAs, ASPA!NoTx
<1>4. ASPA!WireInv' /\ ASPA!CreationInv'
  BY <1>1, ASPATypes DEF ASPA!WireInv, ASPA!CreationInv, ASPA!Adding
<1>5. ASPA!CallInv'
  BY <1>1, ASPATypes DEF ASPA!CallInv, ASPA!Changes, ASPA!NoTx
<1>6. ASPA!ForeignInv'
  BY <1>1 DEF ASPA!ForeignInv
<1> QED  BY <1>3, <1>4, <1>5, <1>6 DEF ASPA!IInv

LEMMA ASPAInit == ASSUME ASPA!Assumption, ASPA!Init PROVE ASPA!IInv
<1>1. MaxSubmits \in Nat /\ MaxEdits \in Nat /\ MaxCrashes \in Nat
  BY DEF ASPA!Assumption, ASPA!ServiceAssumption
<1>2. 0 \in 0 .. MaxSubmits /\ 0 \in 0 .. MaxEdits /\ 0 \in 0 .. MaxCrashes
  BY <1>1
<1>3. /\ roas \in [{} -> {} \cup {None}] /\ by \in [{} -> 0 .. MaxSubmits]
      /\ aspas = [c \in {Customer} |-> None] /\ wire = {} /\ sent = 0 /\ edits = 0
      /\ state = None /\ call = None /\ took = FALSE /\ dropped = FALSE /\ destroys = {} /\ crashes = 0
  BY <1>2 DEF ASPA!Init, ASPA!ServiceInit
<1>4. ASPA!TypeOK
  BY <1>2, <1>3 DEF ASPA!TypeOK, ASPA!ServiceTypeOK, ASPA!ROAs, ASPA!ASPAs
<1>5. ASPA!WireInv /\ ASPA!CallInv /\ ASPA!CreationInv /\ ASPA!ForeignInv
  BY <1>3 DEF ASPA!WireInv, ASPA!CallInv, ASPA!CreationInv, ASPA!ForeignInv, ASPA!Adding, ASPA!Found
<1> QED  BY <1>4, <1>5 DEF ASPA!IInv

LEMMA ASPAStep ==
  ASSUME ASPA!Assumption, ASPA!IInv, [ASPA!Next]_(ASPA!vars) PROVE ASPA!IInv'
<1>1. CASE UNCHANGED ASPA!vars
  <2>1. /\ UNCHANGED <<roas, aspas, by, wire, sent, edits>>
        /\ UNCHANGED <<state, call, took, dropped, destroys, crashes>>
    BY <1>1 DEF ASPA!vars, ASPA!service
  <2>2. ASPA!TypeOK'
    BY <2>1, ASPATypes DEF ASPA!TypeOK, ASPA!ServiceTypeOK, ASPA!ROAs, ASPA!ASPAs, ASPA!NoTx
  <2>3. ASPA!CallInv'
    BY <2>1, ASPATypes DEF ASPA!CallInv, ASPA!Changes, ASPA!NoTx
  <2>4. ASPA!WireInv' /\ ASPA!CreationInv' /\ ASPA!ForeignInv'
    BY <2>1, ASPATypes DEF ASPA!WireInv, ASPA!CreationInv, ASPA!ForeignInv, ASPA!Adding, ASPA!Found
  <2> QED  BY <2>2, <2>3, <2>4 DEF ASPA!IInv
<1>2. ASSUME NEW v \in ProviderSets, ASPA!StartCreate(v) \/ ASPA!StartUpdate(v) PROVE ASPA!IInv'
  <2>1. v \in ProviderSets \cup {None} /\ v # None
    BY ASPATypes
  <2>2. CASE ASPA!StartCreate(v)
    BY <2>1, <2>2, ASPAStart DEF ASPA!StartCreate
  <2>3. CASE ASPA!StartUpdate(v)
    BY <2>1, <2>3, ASPAStart DEF ASPA!StartUpdate
  <2> QED  BY <1>2, <2>2, <2>3
<1>3. CASE ASPA!StartRead
  BY <1>3, ASPAStart DEF ASPA!StartRead
<1>4. CASE ASPA!StartDelete
  BY <1>4, ASPAStart DEF ASPA!StartDelete
<1>5. CASE ASPA!ImportState
  BY <1>5, ASPAStart DEF ASPA!ImportState
<1>6. CASE ASPA!CallStep \/ ASPA!CallFails \/ ASPA!Crash
  BY <1>6, ASPACallStep, ASPAPost DEF ASPA!CallStep
<1>7. CASE \E r \in wire : ASPA!Serve(r)
  BY <1>7, ASPAServe
<1>8. CASE ASPA!OtherChannel
  BY <1>8, ASPAOtherChannel
<1> QED
  BY <1>1, <1>2, <1>3, <1>4, <1>5, <1>6, <1>7, <1>8 DEF ASPA!Next

\* A resource without state has nothing on its way that creates; nothing of
\* another channel's is changed, and only Delete leaves the customer without.
LEMMA ASPAPromises ==
  ASSUME ASPA!Assumption, ASPA!IInv, [ASPA!Next]_(ASPA!vars)
  PROVE  ASPA!NoForgottenCreation /\ ASPA!NeverTakesForeign /\ ASPA!NeverWithout
<1>1. ASPA!NoForgottenCreation
  BY ASPATypes DEF ASPA!NoForgottenCreation, ASPA!CreationInv, ASPA!Adding
<1>2. SUFFICES ASSUME aspas' # aspas, edits' = edits, ASPA!Found # None
               PROVE  took /\ (ASPA!Found' = None => \E r \in wire \ wire' : r.n \in destroys)
  BY <1>1 DEF ASPA!NeverTakesForeign, ASPA!NeverWithout, ASPA!Found
<1>3. PICK r \in wire : ASPA!Serve(r)
  <2>1. ~ASPA!OtherChannel
    BY <1>2, ASPATypes DEF ASPA!OtherChannel, ASPA!Edit
  <2>2. ~UNCHANGED ASPA!vars /\ ~UNCHANGED ASPA!service
    BY <1>2 DEF ASPA!vars, ASPA!service
  <2>3. ASSUME NEW op, NEW v PROVE ~ASPA!Start(op, v)
    BY <2>2 DEF ASPA!Start
  <2>4. /\ \A v : ~ASPA!StartCreate(v) /\ ~ASPA!StartUpdate(v)
        /\ ~ASPA!StartRead /\ ~ASPA!StartDelete /\ ~ASPA!ImportState
    BY <2>3 DEF ASPA!StartCreate, ASPA!StartUpdate, ASPA!StartRead, ASPA!StartDelete, ASPA!ImportState
  <2>5. ~ASPA!PostTransaction
    BY <1>2 DEF ASPA!PostTransaction, ASPA!Post
  <2>6. ~ASPA!CallStep /\ ~ASPA!CallFails /\ ~ASPA!Crash
    BY <2>2, <2>5
    DEF ASPA!CallStep, ASPA!WriteList, ASPA!ReadList, ASPA!DeleteList, ASPA!Answered, ASPA!Verify,
        ASPA!CallFails, ASPA!Fail, ASPA!ListMissing, ASPA!NoAnswer, ASPA!Unconfirmed, ASPA!Crash
  <2> QED  BY <2>1, <2>2, <2>4, <2>6 DEF ASPA!Next
<1>4. PICK assigned :
        ASPA!Acceptable(r.tx) /\ ASPA!Apply(r, assigned) /\ wire' = wire \ {r}
  BY <1>2, <1>3, ASPAServeCases
<1>5. r.tx \in ASPA!Tx /\ (r.tx.addASPAs[Customer] = None => r.n \in destroys)
  BY ASPATypes DEF ASPA!WireInv, ASPA!Request
<1>6. took
  BY <1>2, ASPATypes DEF ASPA!ForeignInv
<1>7. ASPA!Found' = None => r.tx.addASPAs[Customer] = None
  BY <1>4, <1>5, ASPATypes DEF ASPA!Apply, ASPA!Found, ASPA!Tx, ASPA!ASPAs
<1> QED  BY <1>4, <1>5, <1>6, <1>7

\* The ASPA's inductive invariant holds in every reachable state: what is on
\* its way and would add an ASPA belongs to the running create or update, or
\* the resource is in Terraform's state.
THEOREM ASPAInductive == ASSUME ASPA!Assumption PROVE ASPA!Spec => []ASPA!IInv
<1>1. ASPA!Init => ASPA!IInv
  BY ASPAInit
<1>2. ASPA!IInv /\ [ASPA!Next]_(ASPA!vars) => ASPA!IInv'
  BY ASPAStep
<1> QED  BY <1>1, <1>2, PTL DEF ASPA!Spec

\* The ASPA's writes: a resource without state has no creation that can still
\* take effect, unless a crash or a refresh before that effect (or one that
\* ARIN answered with a 404) dropped it; a customer's ASPA of another channel
\* is changed only once the resource took it over, and only a destroy leaves
\* the customer with none.
THEOREM ASPAIsNeitherLostNorTaken ==
  ASSUME ASPA!Assumption
  PROVE  ASPA!Spec => /\ []ASPA!NoForgottenCreation
                      /\ [][ASPA!NeverTakesForeign /\ ASPA!NeverWithout]_(ASPA!vars)
<1>1. ASPA!IInv => ASPA!NoForgottenCreation
  BY ASPATypes DEF ASPA!NoForgottenCreation, ASPA!CreationInv, ASPA!Adding
<1>2. ASPA!IInv /\ [ASPA!Next]_(ASPA!vars) => [ASPA!NeverTakesForeign /\ ASPA!NeverWithout]_(ASPA!vars)
  BY ASPAPromises
<1> QED  BY <1>1, <1>2, ASPAInductive, PTL DEF ASPA!Spec

-----------------------------------------------------------------------------
(* The ROA *)

LEMMA ROATypes ==
  ASSUME ROA!Assumption, ROA!IInv
  PROVE  /\ MaxSubmits \in Nat /\ MaxEdits \in Nat /\ MaxCrashes \in Nat
         /\ None \notin ROAHandles /\ None \notin Authorizations /\ None \notin ROA!Answer
         /\ None \notin ROA!Recovery /\ None \notin ROA!State /\ None \notin ROA!Call
         /\ roas \in [ROAHandles -> Authorizations \cup {None}] /\ aspas \in [{} -> {None}]
         /\ by \in [ROAHandles -> 0 .. MaxSubmits]
         /\ wire \subseteq ROA!Request /\ sent \in 0 .. MaxSubmits /\ edits \in 0 .. MaxEdits
         /\ state \in ROA!State \cup {None} /\ call \in ROA!Call \cup {None}
         /\ state # None /\ state.handle = None => state.recovery # None
         /\ lost \in BOOLEAN /\ imported \subseteq ROAHandles /\ late \subseteq ROAHandles
         /\ crashes \in 0 .. MaxCrashes
         /\ ROA!ServiceInv /\ ROA!CallInv /\ ROA!OwnInv /\ ROA!SureInv
<1>1. /\ MaxSubmits \in Nat /\ MaxEdits \in Nat /\ MaxCrashes \in Nat
      /\ None \notin ROAHandles /\ None \notin Authorizations /\ None \notin ROA!Answer
      /\ None \notin ROA!Recovery /\ None \notin ROA!State /\ None \notin ROA!Call
  BY DEF ROA!Assumption, ROA!ServiceAssumption
<1>2. ROA!TypeOK /\ ROA!ServiceInv /\ ROA!CallInv /\ ROA!OwnInv /\ ROA!SureInv
  BY DEF ROA!IInv
<1>3. /\ roas \in [ROAHandles -> Authorizations \cup {None}] /\ aspas \in [{} -> {None}]
      /\ by \in [ROAHandles -> 0 .. MaxSubmits]
      /\ wire \subseteq ROA!Request /\ sent \in 0 .. MaxSubmits /\ edits \in 0 .. MaxEdits
  BY <1>2 DEF ROA!TypeOK, ROA!ServiceTypeOK, ROA!ROAs, ROA!ASPAs
<1> QED  BY <1>1, <1>2, <1>3 DEF ROA!TypeOK, ROA!Pending

LEMMA ROATypeOK ==
  ASSUME roas' \in [ROAHandles -> Authorizations \cup {None}], aspas' \in [{} -> {None}],
         by' \in [ROAHandles -> 0 .. MaxSubmits],
         wire' \subseteq ROA!Request, sent' \in 0 .. MaxSubmits, edits' \in 0 .. MaxEdits,
         state' \in ROA!State \cup {None}, call' \in ROA!Call \cup {None},
         state' # None /\ state'.handle = None => state'.recovery # None,
         lost' \in BOOLEAN, imported' \subseteq ROAHandles, late' \subseteq ROAHandles,
         crashes' \in 0 .. MaxCrashes
  PROVE  ROA!TypeOK'
BY DEF ROA!TypeOK, ROA!ServiceTypeOK, ROA!ROAs, ROA!ASPAs, ROA!Pending

\* A call ends with the state s.
LEMMA ROAFinish ==
  ASSUME ROA!Assumption, ROA!IInv, NEW s \in ROA!State \cup {None},
         call' = None, state' = s, UNCHANGED ROA!service, late' = late,
         lost' \in BOOLEAN, lost => lost', imported \subseteq imported', imported' \subseteq ROAHandles,
         crashes' \in 0 .. MaxCrashes,
         s # None /\ s.handle = None => s.recovery # None,
         s # None /\ s.handle # None => by[s.handle] # 0 \/ s.handle \in imported' \cup late,
         s # None /\ s.recovery # None => ROA!Tracked(s.recovery),
         ~lost' /\ late = {} =>
           /\ \A r \in ROA!Adding :
                s # None /\ s.recovery # None /\ r.tx.addROAs = {s.recovery.request}
           /\ s # None /\ s.recovery = None => roas[s.handle] \in {None, s.value}
           /\ \A h \in ROAHandles : ROA!Ours(h) =>
                \/ s # None /\ s.recovery = None /\ h = s.handle
                \/ /\ s # None /\ s.recovery # None
                   /\ h = s.recovery.previous \/ roas[h] = s.recovery.request
  PROVE  ROA!IInv'
<1>1. /\ roas' = roas /\ by' = by /\ aspas' = aspas /\ wire' = wire /\ sent' = sent /\ edits' = edits
      /\ ROA!Adding' = ROA!Adding
  BY DEF ROA!service, ROA!Adding
<1>2. ROA!TypeOK'
  BY <1>1, ROATypes, ROATypeOK
<1>3. ROA!ServiceInv'
  BY <1>1, ROATypes DEF ROA!ServiceInv, ROA!Live
<1>4. ROA!CallInv'
  BY DEF ROA!CallInv
<1>5. \A h : ROA!Own(h) => ROA!Own(h)'
  BY <1>1 DEF ROA!Own
<1>6. ROA!OwnInv'
  <2>1. \A r \in wire' : \A h \in r.tx.deleteROAs : ROA!Own(h)'
    BY <1>1, <1>5, ROATypes DEF ROA!OwnInv
  <2>2. s # None /\ s.handle # None => ROA!Own(s.handle)'
    BY <1>1 DEF ROA!Own
  <2>3. s # None /\ s.recovery # None => ROA!Tracked(s.recovery)'
    BY <1>1, <1>5 DEF ROA!Tracked, ROA!Live
  <2> QED  BY <2>1, <2>2, <2>3 DEF ROA!OwnInv
<1>7. ROA!SureInv'
  <2> SUFFICES ASSUME ~lost', late' = {} PROVE (ROA!AddInv /\ ROA!ValueInv /\ ROA!ClaimInv)'
    BY DEF ROA!SureInv
  <2>1. ROA!AddInv /\ \A r \in ROA!Adding :
          s # None /\ s.recovery # None /\ r.tx.addROAs = {s.recovery.request}
    BY ROATypes DEF ROA!SureInv
  <2>2. ROA!AddInv'
    BY <1>1, <2>1 DEF ROA!AddInv, ROA!Writing, ROA!Deleting, ROA!Pending
  <2>3. ROA!ValueInv'
    BY <1>1 DEF ROA!ValueInv, ROA!Writing, ROA!Deleting, ROA!Pending
  <2>4. ROA!ClaimInv'
    BY <1>1 DEF ROA!ClaimInv, ROA!Writing, ROA!Deleting, ROA!Pending, ROA!Ours
  <2> QED  BY <2>2, <2>3, <2>4
<1> QED  BY <1>2, <1>3, <1>4, <1>6, <1>7 DEF ROA!IInv

\* Handles K get the content o and handles D lose theirs, as r asks for.
ROAEffect(r, D, K, o) ==
  /\ roas' = [h \in ROAHandles |-> IF h \in K THEN o ELSE IF h \in D THEN None ELSE roas[h]]
  /\ by' = [h \in ROAHandles |-> IF h \in K THEN r.n ELSE by[h]]
  /\ aspas' \in [{} -> {None}]
  /\ D \subseteq r.tx.deleteROAs
  /\ K # {} => r.tx.addROAs = {o} /\ o \in Authorizations
  /\ \A k, l \in K : k = l
  /\ \A k \in K : roas[k] = None \/ k \in r.tx.deleteROAs
  /\ K # {} => \A h \in ROAHandles : roas[h] = o => h \in D
\* The call that sent r may get its answer.
ROATold(r, K) ==
  \/ call' = call
  \/ \E a \in ROA!Answer :
       /\ call # None /\ call.n = r.n /\ call.at = "answer" /\ call.answer = None
       /\ call' = [call EXCEPT !.answer = a]
       /\ a.kind = "rejected" => wire' = wire \ {r} /\ K = {}
       /\ a.kind = "ok" =>
            /\ a.receipt \in [r.tx.addROAs -> ROAHandles]
            /\ \A p \in r.tx.addROAs :
                 \/ roas'[a.receipt[p]] = None \/ by'[a.receipt[p]] = r.n
                 \/ a.receipt[p] \in r.tx.deleteROAs

\* An answer without a receipt has the empty one.
LEMMA ROANoReceipt == ROA!NoReceipt \in ROA!Receipt
<1>1. ROA!NoReceipt \in [{} -> ROAHandles] /\ {} \in SUBSET Authorizations
  BY DEF ROA!NoReceipt
<1> QED  BY <1>1 DEF ROA!Receipt

\* What the service makes of one request on its way: it leaves the wire or
\* gets its receipt, and takes effect only when it leaves.
LEMMA ROAServeCases ==
  ASSUME ROA!Assumption, ROA!IInv, NEW r \in wire, ROA!Serve(r)
  PROVE  \E D \in SUBSET ROAHandles, K \in SUBSET ROAHandles, o \in Authorizations \cup {None},
            w \in ROA!Request :
           /\ w.n = r.n /\ w.tx = r.tx /\ (wire' = wire \ {r} \/ wire' = (wire \ {r}) \cup {w})
           /\ K # {} => wire' = wire \ {r}
           /\ ROAEffect(r, D, K, o) /\ ROATold(r, K)
           /\ UNCHANGED <<sent, edits, state, lost, imported, late, crashes>>
<1>0. /\ r \in ROA!Request /\ wire \subseteq ROA!Request
      /\ r.tx \in ROA!Tx /\ r.tx.addROAs \subseteq Authorizations /\ r.tx.deleteROAs \subseteq ROAHandles
      /\ r.tx.addROAs = {} \/ \E o \in Authorizations : r.tx.addROAs = {o}
      /\ roas \in [ROAHandles -> Authorizations \cup {None}] /\ by \in [ROAHandles -> 0 .. MaxSubmits]
      /\ aspas \in [{} -> {None}]
  BY ROATypes DEF ROA!Request, ROA!Tx, ROA!ServiceInv
<1>1. None \notin Authorizations
  BY ROATypes
<1>2. UNCHANGED <<roas, aspas, by>> => ROAEffect(r, {}, {}, None)
  BY <1>0 DEF ROAEffect
<1>3. ASSUME NEW answers, ROA!Told(r.n, answers), answers \subseteq ROA!Answer
      PROVE  /\ \/ call' = call
                \/ \E a \in answers :
                     /\ a \in ROA!Answer
                     /\ call # None /\ call.n = r.n /\ call.at = "answer" /\ call.answer = None
                     /\ call' = [call EXCEPT !.answer = a]
             /\ UNCHANGED <<state, lost, imported, late, crashes>>
  BY <1>3 DEF ROA!Told, ROA!history
<1>4. ASSUME NEW g \in ROA!Assignments(r.tx)
      PROVE  /\ g \in ROA!Receipt /\ g \in [r.tx.addROAs -> ROAHandles]
             /\ \A p \in r.tx.addROAs : roas[g[p]] = None \/ g[p] \in r.tx.deleteROAs
             /\ ROA!Readings(g) \subseteq ROA!Answer
             /\ \A a \in ROA!Readings(g) : a.kind # "rejected" /\ (a.kind = "ok" => a.receipt = g)
  <2>1. /\ g \in [r.tx.addROAs -> ROAHandles]
        /\ \A p \in r.tx.addROAs : roas[g[p]] = None \/ g[p] \in r.tx.deleteROAs
    BY <1>0 DEF ROA!Assignments, ROA!Live
  <2>2. g \in ROA!Receipt
    BY <1>0, <2>1 DEF ROA!Receipt
  <2>3. \A some \in SUBSET DOMAIN g : [p \in some |-> g[p]] \in ROA!Receipt
    BY <2>2, ReceiptRead DEF ROA!Receipt
  <2>4. /\ ROA!Readings(g) \subseteq ROA!Answer
        /\ \A a \in ROA!Readings(g) : a.kind # "rejected" /\ (a.kind = "ok" => a.receipt = g)
    BY <2>2, <2>3 DEF ROA!Readings, ROA!Answer
  <2> QED  BY <2>1, <2>2, <2>4
\* The request takes effect.
<1>5. ASSUME NEW g \in ROA!Assignments(r.tx), ROA!Acceptable(r.tx), ROA!Apply(r, g), wire' = wire \ {r}
      PROVE  \E D \in SUBSET ROAHandles, K \in SUBSET ROAHandles, o \in Authorizations \cup {None} :
               ROAEffect(r, D, K, o) /\ \A p \in r.tx.addROAs : by'[g[p]] = r.n
  <2>1. aspas' \in [{} -> {None}]
    BY <1>5, <1>0 DEF ROA!Apply, ROA!Tx, ROA!ASPAs
  <2>2. CASE r.tx.addROAs = {}
    <3>1. roas' = [h \in ROAHandles |-> IF h \in {} THEN None ELSE IF h \in r.tx.deleteROAs THEN None ELSE roas[h]]
      BY <1>5, <2>2 DEF ROA!Apply
    <3>2. by' = [h \in ROAHandles |-> IF h \in {} THEN r.n ELSE by[h]]
      BY <1>5, <2>2 DEF ROA!Apply
    <3>3. ROAEffect(r, r.tx.deleteROAs, {}, None)
      BY <1>0, <2>1, <3>1, <3>2 DEF ROAEffect
    <3> QED  BY <1>0, <2>2, <3>3
  <2>3. CASE \E o \in Authorizations : r.tx.addROAs = {o}
    <3>1. PICK o \in Authorizations : r.tx.addROAs = {o}
      BY <2>3
    <3> DEFINE K == {g[o]}
    <3>2. g[o] \in ROAHandles /\ K \in SUBSET ROAHandles /\ (roas[g[o]] = None \/ g[o] \in r.tx.deleteROAs)
      BY <1>4, <3>1
    <3>3. \A h \in ROAHandles : {p \in r.tx.addROAs : g[p] = h} = IF h \in K THEN {o} ELSE {}
      BY <3>1
    <3>4. roas' = [h \in ROAHandles |-> IF h \in K THEN o ELSE IF h \in r.tx.deleteROAs THEN None ELSE roas[h]]
      <4>1. roas' = [h \in ROAHandles |->
                       IF {p \in r.tx.addROAs : g[p] = h} # {}
                       THEN CHOOSE p \in {p \in r.tx.addROAs : g[p] = h} : TRUE
                       ELSE IF h \in r.tx.deleteROAs THEN None ELSE roas[h]]
        BY <1>5 DEF ROA!Apply
      <4>2. ASSUME NEW h \in K PROVE (CHOOSE p \in {p \in r.tx.addROAs : g[p] = h} : TRUE) = o
        <5> DEFINE S == {p \in r.tx.addROAs : g[p] = h}
        <5>1. S = {o}
          BY <3>2, <3>3
        <5> HIDE DEF S
        <5>2. (CHOOSE p \in S : TRUE) \in S
          BY <5>1
        <5>3. (CHOOSE p \in S : TRUE) = o
          BY <5>1, <5>2
        <5> QED  BY <5>3 DEF S
      <4> HIDE DEF K
      <4> QED  BY <3>3, <4>1, <4>2
    <3>5. by' = [h \in ROAHandles |-> IF h \in K THEN r.n ELSE by[h]]
      <4>1. by' = [h \in ROAHandles |-> IF {p \in r.tx.addROAs : g[p] = h} # {} THEN r.n ELSE by[h]]
        BY <1>5 DEF ROA!Apply
      <4> HIDE DEF K
      <4> QED  BY <3>3, <4>1
    <3>6. \A h \in ROAHandles : roas[h] = o => h \in r.tx.deleteROAs
      BY <1>0, <1>1, <1>5, <3>1 DEF ROA!Acceptable, ROA!Live
    <3>7. \A p \in r.tx.addROAs : by'[g[p]] = r.n
      BY <3>1, <3>2, <3>5
    <3>8. \A k, l \in K : k = l
      OBVIOUS
    <3>9. \A k \in K : roas[k] = None \/ k \in r.tx.deleteROAs
      BY <3>2
    <3> HIDE DEF K
    <3>10. ROAEffect(r, r.tx.deleteROAs, K, o)
      BY <2>1, <3>1, <3>4, <3>5, <3>6, <3>8, <3>9 DEF ROAEffect
    <3> HIDE DEF K
    <3> QED  BY <1>0, <3>2, <3>7, <3>10
  <2> QED  BY <1>0, <2>2, <2>3
<1>6. CASE /\ r.given = None /\ ROA!Acceptable(r.tx)
           /\ \E g \in ROA!Assignments(r.tx) : ROA!Apply(r, g) /\ ROA!Told(r.n, ROA!Readings(g))
           /\ wire' = wire \ {r} /\ UNCHANGED <<sent, edits>>
  <2>1. PICK g \in ROA!Assignments(r.tx) : ROA!Apply(r, g) /\ ROA!Told(r.n, ROA!Readings(g))
    BY <1>6
  <2>2. PICK D \in SUBSET ROAHandles, K \in SUBSET ROAHandles, o \in Authorizations \cup {None} :
          ROAEffect(r, D, K, o) /\ \A p \in r.tx.addROAs : by'[g[p]] = r.n
    BY <1>5, <1>6, <2>1
  <2>3. /\ \/ call' = call
           \/ \E a \in ROA!Answer :
                /\ call # None /\ call.n = r.n /\ call.at = "answer" /\ call.answer = None
                /\ call' = [call EXCEPT !.answer = a]
                /\ a.kind # "rejected"
                /\ a.kind = "ok" =>
                     /\ a.receipt \in [r.tx.addROAs -> ROAHandles]
                     /\ \A p \in r.tx.addROAs : by'[a.receipt[p]] = r.n
        /\ UNCHANGED <<state, lost, imported, late, crashes>>
    BY <1>3, <1>4, <2>1, <2>2
  <2>4. wire' = wire \ {r} /\ UNCHANGED <<sent, edits>>
    BY <1>6
  <2>5. ROATold(r, K)
    BY <2>3 DEF ROATold
  <2> QED  BY <1>0, <2>2, <2>3, <2>4, <2>5
<1>7. CASE ROA!Complete(r) /\ UNCHANGED <<state, call, ROA!history, crashes>>
  <2>1. /\ ROA!Acceptable(r.tx) /\ r.given \in ROA!Assignments(r.tx) /\ ROA!Apply(r, r.given)
        /\ wire' = wire \ {r} /\ UNCHANGED <<sent, edits, state, call, lost, imported, late, crashes>>
    BY <1>7 DEF ROA!Complete, ROA!history
  <2>2. PICK D \in SUBSET ROAHandles, K \in SUBSET ROAHandles, o \in Authorizations \cup {None} :
          ROAEffect(r, D, K, o)
    BY <1>5, <2>1
  <2>3. ROATold(r, K)
    BY <2>1 DEF ROATold
  <2> QED  BY <1>0, <2>1, <2>2, <2>3
<1>8. CASE /\ r.given = None /\ ROA!Acceptable(r.tx)
           /\ \E g \in ROA!Assignments(r.tx) :
                /\ wire' = (wire \ {r}) \cup {[r EXCEPT !.given = g]}
                /\ ROA!Told(r.n, ROA!Readings(g))
           /\ UNCHANGED <<roas, aspas, by, sent, edits>>
  <2>1. PICK g \in ROA!Assignments(r.tx) :
               /\ wire' = (wire \ {r}) \cup {[r EXCEPT !.given = g]}
               /\ ROA!Told(r.n, ROA!Readings(g))
    BY <1>8
  <2> DEFINE w == [r EXCEPT !.given = g]
  <2>2. w \in ROA!Request /\ w.n = r.n /\ w.tx = r.tx
    BY <1>0, <1>4 DEF ROA!Request
  <2>3. wire' = (wire \ {r}) \cup {w}
    BY <2>1
  <2>4. /\ \/ call' = call
           \/ \E a \in ROA!Answer :
                /\ call # None /\ call.n = r.n /\ call.at = "answer" /\ call.answer = None
                /\ call' = [call EXCEPT !.answer = a]
                /\ a.kind # "rejected"
                /\ a.kind = "ok" =>
                     /\ a.receipt \in [r.tx.addROAs -> ROAHandles]
                     /\ \A p \in r.tx.addROAs :
                          roas[a.receipt[p]] = None \/ a.receipt[p] \in r.tx.deleteROAs
        /\ UNCHANGED <<state, lost, imported, late, crashes>>
    BY <1>3, <1>4, <2>1
  <2>5. UNCHANGED <<roas, aspas, by, sent, edits>>
    BY <1>8
  <2> HIDE DEF w
  <2>6. ROATold(r, {}) /\ ROAEffect(r, {}, {}, None)
    BY <1>2, <2>4, <2>5 DEF ROATold
  <2> QED  BY <2>2, <2>3, <2>4, <2>5, <2>6
<1>9. CASE /\ wire' = wire \ {r}
           /\ IF r.given = None THEN ROA!Told(r.n, {ROA!Rejected}) ELSE ROA!Told(r.n, {})
           /\ UNCHANGED <<roas, aspas, by, sent, edits>>
  <2>1. ROA!Rejected \in ROA!Answer /\ ROA!Rejected.kind = "rejected"
    BY ROANoReceipt DEF ROA!Rejected, ROA!Answer
  <2>2. PICK answers \in {{ROA!Rejected}, {}} : ROA!Told(r.n, answers)
    BY <1>9
  <2>3. /\ \/ call' = call
           \/ \E a \in ROA!Answer :
                /\ call # None /\ call.n = r.n /\ call.at = "answer" /\ call.answer = None
                /\ call' = [call EXCEPT !.answer = a]
                /\ a.kind = "rejected"
        /\ UNCHANGED <<state, lost, imported, late, crashes>>
    BY <1>3, <2>1, <2>2
  <2>4. wire' = wire \ {r} /\ UNCHANGED <<roas, aspas, by, sent, edits>>
    BY <1>9
  <2>5. ROATold(r, {}) /\ ROAEffect(r, {}, {}, None)
    BY <1>2, <2>3, <2>4 DEF ROATold
  <2> QED  BY <1>0, <2>3, <2>4, <2>5
<1> QED
  BY <1>6, <1>7, <1>8, <1>9 DEF ROA!Serve, ROA!CarryOut, ROA!AnswerFirst, ROA!Refuse

LEMMA ROAServe == ASSUME ROA!Assumption, ROA!IInv, NEW r \in wire, ROA!Serve(r) PROVE ROA!IInv'
<1>1. PICK D \in SUBSET ROAHandles, K \in SUBSET ROAHandles, o \in Authorizations \cup {None},
           w \in ROA!Request :
        /\ w.n = r.n /\ w.tx = r.tx /\ (wire' = wire \ {r} \/ wire' = (wire \ {r}) \cup {w})
        /\ K # {} => wire' = wire \ {r}
        /\ ROAEffect(r, D, K, o) /\ ROATold(r, K)
        /\ UNCHANGED <<sent, edits, state, lost, imported, late, crashes>>
  BY ROAServeCases
<1>2. /\ wire \subseteq ROA!Request /\ \A p \in wire : p.n \in 1 .. MaxSubmits /\ p.n <= sent
      /\ \A p, q \in wire : p.n = q.n => p = q
      /\ \A p \in wire, h \in ROAHandles : by[h] # p.n
      /\ \A p \in wire : p.tx.addROAs = {} \/ \E x \in Authorizations : p.tx.addROAs = {x}
      /\ \A p \in wire : p.tx.deleteROAs \subseteq ROAHandles
      /\ \A h \in ROAHandles : by[h] <= sent
      /\ \A g, h \in ROAHandles : roas[g] # None /\ roas[h] # None /\ roas[g] = roas[h] => g = h
  BY ROATypes DEF ROA!ServiceInv, ROA!Request, ROA!Tx, ROA!Live
<1>3. /\ wire' \subseteq ROA!Request
      /\ \A p \in wire' : \E q \in wire : q.n = p.n /\ q.tx = p.tx /\ (K # {} => q # r)
      /\ \A p, q \in wire' : p.n = q.n => p = q
  BY <1>1, <1>2
<1>4. \A h \in ROAHandles :
        /\ roas'[h] = IF h \in K THEN o ELSE IF h \in D THEN None ELSE roas[h]
        /\ by'[h] = IF h \in K THEN r.n ELSE by[h]
  BY <1>1 DEF ROAEffect
<1>5. /\ K # {} => r.tx.addROAs = {o} /\ o \in Authorizations
      /\ \A k \in K : roas[k] = None \/ k \in r.tx.deleteROAs
      /\ K # {} => \A h \in ROAHandles : roas[h] = o => h \in D
      /\ D \subseteq r.tx.deleteROAs /\ \A k, l \in K : k = l
      /\ r.n # 0 /\ None \notin Authorizations /\ None \notin ROA!Call
  BY <1>1, <1>2, ROATypes DEF ROAEffect
<1>6. /\ roas' \in [ROAHandles -> Authorizations \cup {None}] /\ aspas' \in [{} -> {None}]
      /\ by' \in [ROAHandles -> 0 .. MaxSubmits]
  <2>1. r.n \in 0 .. MaxSubmits
    BY <1>2, ROATypes
  <2>2. \A h \in ROAHandles : (IF h \in K THEN o ELSE IF h \in D THEN None ELSE roas[h]) \in Authorizations \cup {None}
    BY ROATypes
  <2>3. \A h \in ROAHandles : (IF h \in K THEN r.n ELSE by[h]) \in 0 .. MaxSubmits
    BY <2>1, ROATypes
  <2> QED  BY <1>1, <2>2, <2>3 DEF ROAEffect
\* The call is as it was, or has got its answer.
<1>7. \/ call' = call
      \/ /\ call # None /\ call' \in ROA!Call /\ call'.op = call.op /\ call'.at = call.at
         /\ call'.want = call.want /\ call'.prior = call.prior /\ call'.found = call.found
         /\ call'.tx = call.tx /\ call'.journal = call.journal /\ call'.n = call.n
         /\ call.n = r.n /\ call.at = "answer" /\ call'.answer # None
         /\ call'.answer.kind = "rejected" => wire' = wire \ {r} /\ K = {}
         /\ call'.answer.kind = "ok" =>
              /\ call'.answer.receipt \in [r.tx.addROAs -> ROAHandles]
              /\ \A p \in r.tx.addROAs :
                   LET h == call'.answer.receipt[p] IN
                   roas'[h] = None \/ by'[h] = r.n \/ h \in r.tx.deleteROAs
  <2> SUFFICES ASSUME call' # call PROVE
         /\ call # None /\ call' \in ROA!Call /\ call'.op = call.op /\ call'.at = call.at
         /\ call'.want = call.want /\ call'.prior = call.prior /\ call'.found = call.found
         /\ call'.tx = call.tx /\ call'.journal = call.journal /\ call'.n = call.n
         /\ call.n = r.n /\ call.at = "answer" /\ call'.answer # None
         /\ call'.answer.kind = "rejected" => wire' = wire \ {r} /\ K = {}
         /\ call'.answer.kind = "ok" =>
              /\ call'.answer.receipt \in [r.tx.addROAs -> ROAHandles]
              /\ \A p \in r.tx.addROAs :
                   LET h == call'.answer.receipt[p] IN
                   roas'[h] = None \/ by'[h] = r.n \/ h \in r.tx.deleteROAs
    OBVIOUS
  <2>1. PICK a \in ROA!Answer :
          /\ call # None /\ call.n = r.n /\ call.at = "answer" /\ call.answer = None
          /\ call' = [call EXCEPT !.answer = a]
          /\ a.kind = "rejected" => wire' = wire \ {r} /\ K = {}
          /\ a.kind = "ok" =>
               /\ a.receipt \in [r.tx.addROAs -> ROAHandles]
               /\ \A p \in r.tx.addROAs :
                    \/ roas'[a.receipt[p]] = None \/ by'[a.receipt[p]] = r.n
                    \/ a.receipt[p] \in r.tx.deleteROAs
    BY <1>1 DEF ROATold
  <2>2. call \in ROA!Call /\ a # None
    BY <2>1, ROATypes
  <2>3. /\ call' \in ROA!Call /\ call'.op = call.op /\ call'.at = call.at
        /\ call'.want = call.want /\ call'.prior = call.prior /\ call'.found = call.found
        /\ call'.tx = call.tx /\ call'.journal = call.journal /\ call'.n = call.n /\ call'.answer = a
    BY <2>1, <2>2 DEF ROA!Call
  <2> QED  BY <2>1, <2>2, <2>3
<1>8. /\ call' # None <=> call # None
      /\ call' # None =>
           /\ call'.op = call.op /\ call'.at = call.at /\ call'.want = call.want
           /\ call'.prior = call.prior /\ call'.found = call.found
           /\ call'.tx = call.tx /\ call'.journal = call.journal /\ call'.n = call.n
      /\ ROA!Writing' = ROA!Writing /\ ROA!Deleting' = ROA!Deleting
      /\ ROA!Pending(state)' = ROA!Pending(state) /\ state' = state /\ late' = late /\ lost' = lost
  BY <1>1, <1>5, <1>7 DEF ROA!Writing, ROA!Deleting, ROA!Pending
<1>9. ROA!TypeOK'
  <2>1. call' \in ROA!Call \cup {None}
    BY <1>7, ROATypes
  <2> QED  BY <1>1, <1>3, <1>6, <2>1, ROATypes, ROATypeOK
<1>10. ROA!ServiceInv'
  <2>1. \A p \in wire' : p.n <= sent' /\ \A h \in ROAHandles : by'[h] # p.n
    BY <1>1, <1>2, <1>3, <1>4
  <2>2. \A p \in wire' : p.tx.addROAs = {} \/ \E x \in Authorizations : p.tx.addROAs = {x}
    BY <1>2, <1>3
  <2>3. \A h \in ROAHandles : by'[h] <= sent'
    BY <1>1, <1>2, <1>4
  <2>4. \A g, h \in ROAHandles : roas'[g] # None /\ roas'[h] # None /\ roas'[g] = roas'[h] => g = h
    BY <1>2, <1>4, <1>5
  <2> QED  BY <1>3, <2>1, <2>2, <2>3, <2>4 DEF ROA!ServiceInv, ROA!Live
<1>11. \A h \in ROAHandles : ROA!Own(h) => ROA!Own(h)'
  BY <1>1, <1>4, <1>5 DEF ROA!Own
<1>12. \A h \in K : ROA!Own(h)'
  BY <1>4, <1>5 DEF ROA!Own
<1>13. ASSUME NEW j, ROA!Tracked(j) PROVE ROA!Tracked(j)'
  BY <1>4, <1>11, <1>12, <1>13 DEF ROA!Tracked, ROA!Live
<1>14. ROA!CallInv'
  <2>1. call' # None =>
          /\ \A p \in wire' : p.n = call.n => p.tx = call.tx
          /\ call.n <= sent
    BY <1>3, <1>8, ROATypes DEF ROA!CallInv
  <2>2. call' # None /\ call'.answer # None =>
          /\ call'.answer.kind = "ok" => DOMAIN call'.answer.receipt = call.tx.addROAs
          /\ call'.answer.kind = "rejected" =>
               call.n # 0 /\ (\A p \in wire' : p.n # call.n) /\ (\A h \in ROAHandles : by'[h] # call.n)
    <3>1. CASE call' = call
      <4>1. call # None /\ call.answer # None /\ call.answer.kind = "rejected" =>
              /\ call.n # 0 /\ (\A p \in wire : p.n # call.n) /\ (\A h \in ROAHandles : by[h] # call.n)
        BY ROATypes DEF ROA!CallInv
      <4>2. call # None /\ call.answer # None /\ call.answer.kind = "ok" =>
              DOMAIN call.answer.receipt = call.tx.addROAs
        BY ROATypes DEF ROA!CallInv
      <4> QED  BY <1>3, <1>4, <3>1, <4>1, <4>2
    <3>2. CASE call' # call
      <4>1. /\ call # None /\ call.n = r.n
            /\ call'.answer.kind = "rejected" => wire' = wire \ {r} /\ K = {}
            /\ call'.answer.kind = "ok" => call'.answer.receipt \in [r.tx.addROAs -> ROAHandles]
        BY <1>7, <3>2
      <4>2. r.tx = call.tx
        BY <4>1, ROATypes DEF ROA!CallInv
      <4> QED  BY <1>2, <1>4, <1>5, <4>1, <4>2
    <3> QED  BY <3>1, <3>2
  <2>3. call' # None =>
          /\ call'.at \in {"list", "post"} => call'.answer = None
          /\ call'.at = "verify" => call'.answer # None /\ call'.answer.kind = "ok"
    <3>1. CASE call' = call
      BY <3>1, ROATypes DEF ROA!CallInv
    <3>2. CASE call' # call
      BY <1>7, <3>2
    <3> QED  BY <3>1, <3>2
  <2>4. call # None =>
          /\ call.op \in {"create", "import"} <=> state = None
          /\ call.op \in {"read", "import"} => call.at = "list"
          /\ call.op = "create" => call.prior = None
          /\ call.op \in {"update", "read", "delete"} => call.prior = state
          /\ call.op = "import" => call.prior # None /\ call.prior.recovery = None /\ call.prior.handle # None
          /\ call.op = "update" => state.recovery = None /\ call.want # state.value
          /\ call.at \in {"list", "post"} => call.n = 0
    BY ROATypes DEF ROA!CallInv
  <2>5. call # None /\ ROA!Writing => call.want # None
    BY ROATypes DEF ROA!CallInv
  <2>6. call # None /\ ROA!Writing /\ call.at # "list" =>
          /\ call.tx = [ROA!NoTx EXCEPT !.addROAs = {call.want}, !.deleteROAs = ROA!Replaced]
          /\ call.journal # None /\ call.journal.request = call.want
          /\ call.journal.previous = IF call.op = "update" THEN state.handle ELSE None
    BY ROATypes DEF ROA!CallInv
  <2>7. call # None /\ ROA!Deleting =>
          /\ call.found # None /\ call.found.handle # None /\ call.found.recovery = None
          /\ call.tx = [ROA!NoTx EXCEPT !.deleteROAs = {call.found.handle}]
    BY ROATypes DEF ROA!CallInv
  <2>8. call' # None => ROA!NoTx' = ROA!NoTx /\ ROA!Replaced' = ROA!Replaced
    BY <1>8 DEF ROA!NoTx, ROA!Replaced
  <2>9. sent' = sent /\ state' = state /\ (call' # None => call # None)
    BY <1>1, <1>8
  <2>10. ASSUME call' # None
         PROVE  /\ ROA!Writing' => call'.want # None
                /\ ROA!Writing' /\ call'.at # "list" =>
                     /\ call'.tx = [ROA!NoTx' EXCEPT !.addROAs = {call'.want}, !.deleteROAs = ROA!Replaced']
                     /\ call'.journal # None /\ call'.journal.request = call'.want
                     /\ call'.journal.previous = IF call'.op = "update" THEN state'.handle ELSE None
                /\ ROA!Deleting' =>
                     /\ call'.found # None /\ call'.found.handle # None /\ call'.found.recovery = None
                     /\ call'.tx = [ROA!NoTx' EXCEPT !.deleteROAs = {call'.found.handle}]
    BY <1>8, <2>5, <2>6, <2>7, <2>8, <2>9, <2>10
  <2>11. ASSUME call' # None
         PROVE  /\ call'.op \in {"create", "import"} <=> state' = None
                /\ call'.op \in {"read", "import"} => call'.at = "list"
                /\ call'.op = "create" => call'.prior = None
                /\ call'.op \in {"update", "read", "delete"} => call'.prior = state'
                /\ call'.op = "import" => call'.prior # None /\ call'.prior.recovery = None /\ call'.prior.handle # None
                /\ call'.op = "update" => state'.recovery = None /\ call'.want # state'.value
                /\ call'.at \in {"list", "post"} => call'.n = 0 /\ call'.answer = None
                /\ call'.at = "verify" => call'.answer # None /\ call'.answer.kind = "ok"
                /\ call'.n <= sent' /\ \A p \in wire' : p.n = call'.n => p.tx = call'.tx
                /\ call'.answer # None =>
                     /\ call'.answer.kind = "ok" => DOMAIN call'.answer.receipt = call'.tx.addROAs
                     /\ call'.answer.kind = "rejected" =>
                          call'.n # 0 /\ (\A p \in wire' : p.n # call'.n) /\ (\A h \in ROAHandles : by'[h] # call'.n)
    BY <1>8, <2>1, <2>2, <2>3, <2>4, <2>9, <2>11
  <2> QED  BY <2>10, <2>11 DEF ROA!CallInv
<1>15. ROA!OwnInv'
  <2>1. \A p \in wire' : \A h \in p.tx.deleteROAs : ROA!Own(h)'
    BY <1>2, <1>3, <1>11, ROATypes DEF ROA!OwnInv
  <2>2. state # None =>
          /\ state.handle # None => ROA!Own(state.handle)'
          /\ state.recovery # None => ROA!Tracked(state.recovery)'
    <3>1. state # None => state.handle \in ROAHandles \cup {None}
      BY ROATypes DEF ROA!State
    <3>2. state # None /\ state.handle # None => ROA!Own(state.handle)
      BY ROATypes DEF ROA!OwnInv
    <3>3. state # None /\ state.recovery # None => ROA!Tracked(state.recovery)
      BY ROATypes DEF ROA!OwnInv
    <3>4. state # None /\ state.handle # None => ROA!Own(state.handle)'
      <4> SUFFICES ASSUME NEW h \in ROAHandles, ROA!Own(h) PROVE ROA!Own(h)'
        BY <1>8, <3>1, <3>2 DEF ROA!Own
      <4> QED  BY <1>11
    <3>5. state # None /\ state.recovery # None => ROA!Tracked(state.recovery)'
      <4> SUFFICES ASSUME NEW j, ROA!Tracked(j) PROVE ROA!Tracked(j)'
        BY <1>8, <3>3 DEF ROA!Tracked
      <4> QED  BY <1>13
    <3> QED  BY <3>4, <3>5
  <2>3. call' # None =>
          /\ \A h \in call.tx.deleteROAs : ROA!Own(h)'
          /\ ROA!Writing /\ call.at # "list" => ROA!Tracked(call.journal)'
    <3>1. call # None => call.tx.deleteROAs \subseteq ROAHandles
      BY ROATypes DEF ROA!Call, ROA!Tx
    <3> QED  BY <1>8, <1>11, <1>13, <3>1, ROATypes DEF ROA!OwnInv
  <2>4. ASSUME NEW x \in call.tx.addROAs, call' # None, call'.answer # None, call'.answer.kind = "ok",
               NEW h, h = call'.answer.receipt[x], roas'[h] # None
        PROVE  ROA!Own(h)'
    <3>1. CASE call' = call
      <4>1. DOMAIN call.answer.receipt = call.tx.addROAs /\ call.answer \in ROA!Answer
        BY <1>8, <2>4, <3>1, ROATypes DEF ROA!CallInv, ROA!Call
      <4>2. h \in ROAHandles
        BY <2>4, <3>1, <4>1 DEF ROA!Answer, ROA!Receipt
      <4>3. roas[h] # None => ROA!Own(h)
        BY <1>8, <2>4, <3>1, ROATypes DEF ROA!OwnInv
      <4> QED  BY <1>4, <1>11, <1>12, <2>4, <4>2, <4>3
    <3>2. CASE call' # call
      <4>1. r.tx = call.tx
        BY <1>7, <3>2, ROATypes DEF ROA!CallInv
      <4>2. h \in ROAHandles /\ (by'[h] = r.n \/ h \in r.tx.deleteROAs)
        BY <1>7, <2>4, <3>2, <4>1
      <4>3. h \in r.tx.deleteROAs => ROA!Own(h)
        BY ROATypes DEF ROA!OwnInv
      <4>4. by'[h] = r.n => ROA!Own(h)'
        BY <1>5 DEF ROA!Own
      <4> QED  BY <1>11, <4>2, <4>3, <4>4
    <3> QED  BY <3>1, <3>2
  <2>5. ASSUME NEW x \in call.tx.addROAs, call' # None, call'.answer # None, call'.answer.kind = "ok",
               roas'[call'.answer.receipt[x]] # None
        PROVE  \/ by'[call'.answer.receipt[x]] # 0
               \/ call'.answer.receipt[x] \in imported' \cup late'
    BY <2>4, <2>5 DEF ROA!Own
  <2> QED  BY <1>8, <2>1, <2>2, <2>3, <2>5 DEF ROA!OwnInv, ROA!Own
<1>16. ROA!SureInv'
  <2> SUFFICES ASSUME ~lost, late = {} PROVE (ROA!AddInv /\ ROA!ValueInv /\ ROA!ClaimInv)'
    BY <1>8 DEF ROA!SureInv
  <2>0. ROA!AddInv /\ ROA!ValueInv /\ ROA!ClaimInv
    BY ROATypes DEF ROA!SureInv
  <2>1. ROA!Writing => ~ROA!Pending(state) /\ ~ROA!Deleting
    BY ROATypes DEF ROA!CallInv, ROA!Writing, ROA!Pending, ROA!Deleting
\* A request that takes effect is the only one that may still add.
  <2>2. K # {} =>
          /\ r \in ROA!Adding /\ r.tx.addROAs = {o} /\ ~ROA!Deleting
          /\ \/ ROA!Writing /\ r.n = call.n /\ call.n # 0 /\ o = call.want
             \/ ROA!Pending(state) /\ ~ROA!Writing /\ o = state.recovery.request
          /\ \A p \in ROA!Adding : p = r
    <3>1. ASSUME K # {}, ROA!Writing, r.n = call.n PROVE o = call.want
      <4>1. r.tx = call.tx /\ call.at # "list"
        BY <1>5, <3>1, ROATypes DEF ROA!CallInv, ROA!Writing
      <4>2. call.tx.addROAs = {call.want}
        BY <3>1, <4>1, ROATypes DEF ROA!CallInv, ROA!Writing, ROA!NoTx
      <4> QED  BY <1>5, <3>1, <4>1, <4>2
    <3> QED  BY <1>5, <2>0, <2>1, <3>1 DEF ROA!AddInv, ROA!Adding
  <2>3. ROA!AddInv'
    <3>1. \A p \in ROA!Adding' : \E q \in ROA!Adding : q.n = p.n /\ q.tx = p.tx /\ (K # {} => q # r)
      BY <1>3 DEF ROA!Adding
    <3>2. \A p, q \in ROA!Adding' : p = q
      BY <1>3, <2>0, <3>1 DEF ROA!AddInv, ROA!Adding
    <3>3. \A p \in ROA!Adding' :
            /\ K = {}
            /\ \/ ROA!Writing /\ p.n = call.n
               \/ ROA!Pending(state) /\ ~ROA!Deleting /\ p.tx.addROAs = {state.recovery.request}
            /\ \A h \in ROAHandles : roas'[h] \notin p.tx.addROAs
      <4> SUFFICES ASSUME NEW p \in ROA!Adding'
                   PROVE  /\ K = {}
                          /\ \/ ROA!Writing /\ p.n = call.n
                             \/ ROA!Pending(state) /\ ~ROA!Deleting /\ p.tx.addROAs = {state.recovery.request}
                          /\ \A h \in ROAHandles : roas'[h] \notin p.tx.addROAs
        OBVIOUS
      <4>1. PICK q \in ROA!Adding : q.n = p.n /\ q.tx = p.tx /\ (K # {} => q # r)
        BY <3>1
      <4>2. K = {}
        BY <2>2, <4>1
      <4>3. p.tx.addROAs \subseteq Authorizations
        BY <4>1, ROATypes DEF ROA!Adding, ROA!Request, ROA!Tx
      <4> QED  BY <1>4, <1>5, <2>0, <4>1, <4>2, <4>3 DEF ROA!AddInv
    <3>4. ROA!Writing /\ call.at = "post" => \A h \in ROAHandles : roas'[h] # call.want
      <4>1. ROA!Writing /\ call.at = "post" => call.n = 0 /\ call.want # None
        BY ROATypes DEF ROA!CallInv, ROA!Writing
      <4> QED  BY <1>4, <2>0, <2>1, <2>2, <4>1 DEF ROA!AddInv
    <3>5. call' # None => call'.at = call.at /\ call'.n = call.n /\ call'.want = call.want
      BY <1>8
    <3>6. ROA!Writing => call' # None
      BY <1>8 DEF ROA!Writing
    <3> QED  BY <1>8, <3>2, <3>3, <3>4, <3>5, <3>6 DEF ROA!AddInv
  <2>4. ROA!ValueInv'
    <3>1. state # None /\ ~ROA!Pending(state) =>
            \/ roas'[state.handle] \in {None, state.value}
            \/ ROA!Writing /\ call.n # 0 /\ by'[state.handle] = call.n
      <4> SUFFICES ASSUME state # None, ~ROA!Pending(state)
                   PROVE  \/ roas'[state.handle] \in {None, state.value}
                          \/ ROA!Writing /\ call.n # 0 /\ by'[state.handle] = call.n
        OBVIOUS
      <4>1. state.handle \in ROAHandles
        BY ROATypes DEF ROA!State, ROA!Pending
      <4>2. CASE state.handle \in K
        BY <1>4, <2>2, <4>1, <4>2
      <4>3. CASE state.handle \notin K
        BY <1>4, <2>0, <4>1, <4>3 DEF ROA!ValueInv
      <4> QED  BY <4>2, <4>3
    <3>2. ROA!Deleting =>
            /\ roas'[call.found.handle] \in {None, call.found.value}
            /\ IF ROA!Pending(state) THEN call.found.value = state.recovery.request
               ELSE call.found.handle = state.handle
      <4> SUFFICES ASSUME ROA!Deleting
                   PROVE  /\ roas'[call.found.handle] \in {None, call.found.value}
                          /\ IF ROA!Pending(state) THEN call.found.value = state.recovery.request
                             ELSE call.found.handle = state.handle
        OBVIOUS
      <4>1. call.found.handle \in ROAHandles /\ K = {}
        <5>1. call \in ROA!Call /\ call.found # None /\ call.found.handle # None
          BY ROATypes DEF ROA!CallInv, ROA!Deleting
        <5> QED  BY <2>2, <5>1 DEF ROA!Call, ROA!State
      <4> QED  BY <1>4, <2>0, <4>1 DEF ROA!ValueInv
    <3>3. ROA!Writing \/ ROA!Deleting => call' # None /\ call'.n = call.n /\ call'.found = call.found
      BY <1>8 DEF ROA!Writing, ROA!Deleting
    <3> QED  BY <1>8, <3>1, <3>2, <3>3 DEF ROA!ValueInv
  <2>5. ROA!ClaimInv'
    <3> SUFFICES ASSUME NEW h \in ROAHandles, roas'[h] # None, by'[h] # 0
                 PROVE  \/ state # None /\ ~ROA!Pending(state) /\ h = state.handle
                        \/ ROA!Writing /\ by'[h] = call.n /\ roas'[h] = call.want
                        \/ ROA!Deleting /\ h = call.found.handle
                        \/ /\ ROA!Pending(state) /\ ~ROA!Deleting
                           /\ h = state.recovery.previous \/ roas'[h] = state.recovery.request
      <4>1. ROA!Writing \/ ROA!Deleting =>
              call' # None /\ call'.n = call.n /\ call'.found = call.found /\ call'.want = call.want
        BY <1>8 DEF ROA!Writing, ROA!Deleting
      <4> QED  BY <1>8, <4>1 DEF ROA!ClaimInv, ROA!Ours
    <3>1. CASE h \in K
      BY <1>4, <2>2, <3>1
    <3>2. CASE h \notin K
      <4>1. roas'[h] = roas[h] /\ by'[h] = by[h]
        BY <1>4, <3>2
      <4> QED  BY <2>0, <4>1 DEF ROA!ClaimInv, ROA!Ours
    <3> QED  BY <3>1, <3>2
  <2> QED  BY <2>3, <2>4, <2>5
<1> QED  BY <1>9, <1>10, <1>14, <1>15, <1>16 DEF ROA!IInv

\* What the invariant asks of a call q, when the rest is as it is: what q
\* knows, what it may delete, and how it accounts for what the resource adds.
ROAKnows(q) ==
  /\ q.op \in {"create", "import"} <=> state = None
  /\ q.op \in {"read", "import"} => q.at = "list"
  /\ q.op = "create" => q.prior = None
  /\ q.op \in {"update", "read", "delete"} => q.prior = state
  /\ q.op = "import" => q.prior # None /\ q.prior.recovery = None /\ q.prior.handle # None
  /\ q.op = "update" => state.recovery = None /\ q.want # state.value
  /\ q.op \in {"create", "update"} => q.want # None
  /\ q.op \in {"create", "update"} /\ q.at # "list" =>
       /\ q.tx = [ROA!NoTx EXCEPT !.addROAs = {q.want},
                                  !.deleteROAs = IF q.op = "update" THEN {q.prior.handle} ELSE {}]
       /\ q.journal # None /\ q.journal.request = q.want
       /\ q.journal.previous = IF q.op = "update" THEN state.handle ELSE None
  /\ q.op = "delete" /\ q.at # "list" =>
       /\ q.found # None /\ q.found.handle # None /\ q.found.recovery = None
       /\ q.tx = [ROA!NoTx EXCEPT !.deleteROAs = {q.found.handle}]
  /\ q.at \in {"list", "post"} => q.n = 0 /\ q.answer = None
  /\ q.at = "verify" => q.answer # None /\ q.answer.kind = "ok"
  /\ q.n <= sent /\ \A r \in wire : r.n = q.n => r.tx = q.tx
  /\ q.answer # None =>
       /\ q.answer.kind = "ok" => DOMAIN q.answer.receipt = q.tx.addROAs
       /\ q.answer.kind = "rejected" =>
            q.n # 0 /\ (\A r \in wire : r.n # q.n) /\ (\A h \in ROAHandles : by[h] # q.n)
ROAHolds(q) ==
  /\ \A h \in q.tx.deleteROAs : ROA!Own(h)
  /\ q.op \in {"create", "update"} /\ q.at # "list" => ROA!Tracked(q.journal)
  /\ q.answer # None /\ q.answer.kind = "ok" =>
       \A o \in q.tx.addROAs : roas[q.answer.receipt[o]] # None => ROA!Own(q.answer.receipt[o])
ROAAccounts(q) ==
  /\ \A r \in ROA!Adding :
       \/ q.op \in {"create", "update"} /\ r.n = q.n
       \/ /\ state # None /\ state.recovery # None /\ ~(q.op = "delete" /\ q.at # "list")
          /\ r.tx.addROAs = {state.recovery.request}
  /\ q.op \in {"create", "update"} /\ q.at = "post" => \A h \in ROAHandles : roas[h] # q.want
  /\ state # None /\ state.recovery = None =>
       \/ roas[state.handle] \in {None, state.value}
       \/ q.op \in {"create", "update"} /\ q.n # 0 /\ by[state.handle] = q.n
  /\ q.op = "delete" /\ q.at # "list" =>
       /\ roas[q.found.handle] \in {None, q.found.value}
       /\ IF state # None /\ state.recovery # None THEN q.found.value = state.recovery.request
          ELSE q.found.handle = state.handle
  /\ \A h \in ROAHandles : roas[h] # None /\ by[h] # 0 =>
       \/ state # None /\ state.recovery = None /\ h = state.handle
       \/ q.op \in {"create", "update"} /\ by[h] = q.n /\ roas[h] = q.want
       \/ q.op = "delete" /\ q.at # "list" /\ h = q.found.handle
       \/ /\ state # None /\ state.recovery # None /\ ~(q.op = "delete" /\ q.at # "list")
          /\ h = state.recovery.previous \/ roas[h] = state.recovery.request

LEMMA ROACallNow ==
  ASSUME ROA!Assumption, ROA!IInv, call # None
  PROVE  /\ call \in ROA!Call /\ ROAKnows(call) /\ ROAHolds(call)
         /\ ~lost /\ late = {} => ROAAccounts(call)
<1>1. call \in ROA!Call
  BY ROATypes
<1>2. ROAKnows(call)
  <2>1. ROA!CallInv
    BY ROATypes
  <2> QED  BY <2>1 DEF ROAKnows, ROA!CallInv, ROA!Writing, ROA!Deleting, ROA!Replaced
<1>3. ROAHolds(call)
  <2>1. ROA!OwnInv
    BY ROATypes
  <2> QED  BY <2>1 DEF ROAHolds, ROA!OwnInv, ROA!Writing
<1>4. ASSUME ~lost, late = {} PROVE ROAAccounts(call)
  <2>1. ROA!AddInv /\ ROA!ValueInv /\ ROA!ClaimInv
    BY <1>4, ROATypes DEF ROA!SureInv
  <2> QED
    BY <2>1 DEF ROAAccounts, ROA!AddInv, ROA!ValueInv, ROA!ClaimInv, ROA!Writing, ROA!Deleting,
                ROA!Pending, ROA!Ours
<1> QED  BY <1>1, <1>2, <1>3, <1>4

\* A call goes on as q.
LEMMA ROAContinue ==
  ASSUME ROA!Assumption, ROA!IInv, NEW q \in ROA!Call, call' = q,
         UNCHANGED <<ROA!service, state, lost, imported, late, crashes>>,
         ROAKnows(q), ROAHolds(q), ~lost /\ late = {} => ROAAccounts(q)
  PROVE  ROA!IInv'
<1>1. /\ roas' = roas /\ by' = by /\ aspas' = aspas /\ wire' = wire /\ sent' = sent /\ edits' = edits
      /\ state' = state /\ lost' = lost /\ imported' = imported /\ late' = late /\ crashes' = crashes
      /\ ROA!Adding' = ROA!Adding /\ q # None
  BY ROATypes DEF ROA!service, ROA!Adding
<1>2. ROA!TypeOK'
  BY <1>1, ROATypes, ROATypeOK
<1>3. ROA!ServiceInv'
  BY <1>1, ROATypes DEF ROA!ServiceInv, ROA!Live
<1>4. ROA!CallInv'
  BY <1>1 DEF ROAKnows, ROA!CallInv, ROA!Writing, ROA!Deleting, ROA!Replaced, ROA!NoTx
<1>5. ROA!OwnInv'
  <2>1. /\ \A r \in wire : \A h \in r.tx.deleteROAs : ROA!Own(h)
        /\ state # None =>
             /\ state.handle # None => ROA!Own(state.handle)
             /\ state.recovery # None => ROA!Tracked(state.recovery)
    BY ROATypes DEF ROA!OwnInv
  <2> QED  BY <1>1, <2>1 DEF ROAHolds, ROA!OwnInv, ROA!Own, ROA!Tracked, ROA!Live, ROA!Writing
<1>6. ROA!SureInv'
  <2> SUFFICES ASSUME ~lost, late = {} PROVE (ROA!AddInv /\ ROA!ValueInv /\ ROA!ClaimInv)'
    BY <1>1 DEF ROA!SureInv
  <2>1. /\ \A r, p \in ROA!Adding : r = p
        /\ \A r \in ROA!Adding : \A h \in ROAHandles : roas[h] \notin r.tx.addROAs
    BY ROATypes DEF ROA!SureInv, ROA!AddInv
  <2>2. ROAAccounts(q)
    OBVIOUS
  <2>3. ROA!AddInv'
    BY <1>1, <2>1, <2>2 DEF ROAAccounts, ROA!AddInv, ROA!Writing, ROA!Deleting, ROA!Pending
  <2>4. ROA!ValueInv'
    BY <1>1, <2>2 DEF ROAAccounts, ROA!ValueInv, ROA!Writing, ROA!Deleting, ROA!Pending
  <2>5. ROA!ClaimInv'
    BY <1>1, <2>2 DEF ROAAccounts, ROA!ClaimInv, ROA!Writing, ROA!Deleting, ROA!Pending, ROA!Ours
  <2> QED  BY <2>3, <2>4, <2>5
<1> QED  BY <1>2, <1>3, <1>4, <1>5, <1>6 DEF ROA!IInv

LEMMA ROANoTx == ROA!NoTx \in ROA!Tx /\ ROA!NoTx.addROAs = {} /\ ROA!NoTx.deleteROAs = {}
BY DEF ROA!NoTx, ROA!Tx, ROA!ASPAs

LEMMA ROAStart ==
  ASSUME ROA!Assumption, ROA!IInv, NEW op \in {"create", "update", "read", "delete", "import"},
         NEW want \in Authorizations \cup {None}, NEW prior \in ROA!State \cup {None},
         ROA!Start(op, want, prior),
         op \in {"create", "import"} <=> state = None,
         op = "create" => prior = None,
         op \in {"update", "read", "delete"} => prior = state,
         op = "import" => prior # None /\ prior.recovery = None /\ prior.handle # None,
         op = "update" => state.recovery = None /\ want # state.value,
         op \in {"create", "update"} => want # None
  PROVE  ROA!IInv'
<1> DEFINE q == [op |-> op, at |-> "list", want |-> want, prior |-> prior, found |-> None,
                 tx |-> ROA!NoTx, journal |-> None, n |-> 0, answer |-> None]
<1>1. /\ call = None /\ call' = q
      /\ UNCHANGED <<ROA!service, state, lost, imported, late, crashes>>
  BY DEF ROA!Start, ROA!history
<1>2. q \in ROA!Call /\ 0 <= sent /\ \A r \in wire : r.n # 0
  BY ROATypes, ROANoTx DEF ROA!Call, ROA!Request
<1>3. /\ q.op = op /\ q.at = "list" /\ q.want = want /\ q.prior = prior /\ q.found = None
      /\ q.tx = ROA!NoTx /\ q.n = 0 /\ q.answer = None
  OBVIOUS
<1> HIDE DEF q
<1>4. ROAKnows(q)
  BY <1>2, <1>3 DEF ROAKnows
<1>5. ROAHolds(q)
  BY <1>3, ROANoTx DEF ROAHolds
<1>6. ASSUME ~lost, late = {} PROVE ROAAccounts(q)
  <2>1. ROA!AddInv /\ ROA!ValueInv /\ ROA!ClaimInv
    BY <1>6, ROATypes DEF ROA!SureInv
  <2> QED
    BY <1>1, <1>3, <2>1 DEF ROAAccounts, ROA!AddInv, ROA!ValueInv, ROA!ClaimInv, ROA!Writing,
       ROA!Deleting, ROA!Pending, ROA!Ours
<1> QED  BY <1>1, <1>2, <1>4, <1>5, <1>6, ROAContinue

LEMMA ROAWriteList == ASSUME ROA!Assumption, ROA!IInv, ROA!WriteList PROVE ROA!IInv'
<1> DEFINE gone == IF call.op = "update" THEN {call.prior.handle} ELSE {}
           tx == [ROA!NoTx EXCEPT !.addROAs = {call.want}, !.deleteROAs = gone]
           journal == [request |-> call.want, before |-> ROA!Live(roas),
                       previous |-> IF call.op = "update" THEN call.prior.handle ELSE None]
           q == [call EXCEPT !.at = "post", !.tx = tx, !.journal = journal]
<1>1. /\ call # None /\ call.op \in {"create", "update"} /\ call.at = "list" /\ call' = q
      /\ ROA!Existing = {}
      /\ UNCHANGED <<ROA!service, state, lost, imported, late, crashes>>
  BY DEF ROA!WriteList, ROA!At, ROA!Replaced, ROA!history
<1>2. /\ call \in ROA!Call /\ ROAKnows(call) /\ ROAHolds(call)
      /\ ~lost /\ late = {} => ROAAccounts(call)
  BY <1>1, ROACallNow
<1>3. /\ call.want \in Authorizations /\ call.n = 0 /\ call.answer = None /\ 0 <= sent
      /\ call.op = "create" <=> state = None
      /\ call.op = "update" =>
           /\ call.prior = state /\ state \in ROA!State /\ state.recovery = None
           /\ state.handle \in ROAHandles /\ call.want # state.value
  <2>1. /\ call.want \in Authorizations \cup {None} /\ call.want # None
        /\ call.n = 0 /\ call.answer = None
        /\ call.op \in {"create", "import"} <=> state = None
        /\ call.op = "update" =>
             call.prior = state /\ state.recovery = None /\ call.want # state.value
    BY <1>1, <1>2 DEF ROAKnows, ROA!Call
  <2>2. call.op = "update" => state \in ROA!State /\ state.handle \in ROAHandles
    BY <2>1, ROATypes DEF ROA!State
  <2> QED  BY <1>1, <2>1, <2>2, ROATypes
<1>4. tx \in ROA!Tx /\ tx.addROAs = {call.want} /\ tx.deleteROAs = gone /\ gone \subseteq ROAHandles
  BY <1>3, ROANoTx DEF ROA!Tx
<1>5. /\ journal \in ROA!Recovery /\ journal # None /\ journal.request = call.want
      /\ journal.before = ROA!Live(roas)
      /\ journal.previous = IF call.op = "update" THEN state.handle ELSE None
  <2>1. journal \in ROA!Recovery
    BY <1>3 DEF ROA!Recovery, ROA!Live
  <2> QED  BY <1>3, <2>1, ROATypes
<1> HIDE DEF journal, tx
<1>6. /\ q \in ROA!Call /\ q.op = call.op /\ q.at = "post" /\ q.want = call.want /\ q.prior = call.prior
      /\ q.found = call.found /\ q.tx = tx /\ q.journal = journal /\ q.n = 0 /\ q.answer = None
  BY <1>2, <1>3, <1>4, <1>5 DEF ROA!Call
<1> USE DEF tx
<1> HIDE DEF q
<1>7. ROAKnows(q)
  <2>1. \A r \in wire : r.n # 0
    BY ROATypes DEF ROA!Request
  <2> QED  BY <1>1, <1>2, <1>3, <1>5, <1>6, <2>1 DEF ROAKnows
<1>8. ROAHolds(q)
  <2>1. \A h \in gone : ROA!Own(h)
    BY <1>3, ROATypes DEF ROA!OwnInv
  <2>2. ROA!Tracked(journal)
    BY <1>5 DEF ROA!Tracked
  <2> QED  BY <1>4, <1>6, <2>1, <2>2 DEF ROAHolds
\* The wanted content is nowhere, not under the replaced handle either.
<1>9. ASSUME ~lost, late = {} PROVE ROAAccounts(q)
  <2>1. ROAAccounts(call)
    BY <1>2, <1>9
  <2>2. \A h \in ROAHandles : roas[h] # call.want
    <3>1. call.op = "update" => roas[state.handle] \in {None, state.value}
      BY <1>1, <1>3, <2>1 DEF ROAAccounts
    <3>2. \A h \in ROAHandles : roas[h] = call.want => h \in gone
      BY <1>1, <1>3, ROATypes DEF ROA!Existing, ROA!Live, ROA!Replaced
    <3> QED  BY <1>3, <3>1, <3>2, ROATypes
  <2> QED  BY <1>1, <1>3, <1>6, <2>1, <2>2 DEF ROAAccounts
<1> QED  BY <1>1, <1>6, <1>7, <1>8, <1>9, ROAContinue

\* What find makes of the state s of a running call: its handle is the
\* resource's own, and nothing else of the resource's is left or may come.
LEMMA ROAFound ==
  ASSUME ROA!Assumption, ROA!IInv, call # None, call.at = "list", call.op \in {"read", "delete"},
         ROA!Findable(state)
  PROVE  /\ ROA!Found(state) \in ROA!State \cup {None}
         /\ ROA!Found(state) # None =>
              /\ ROA!Found(state).handle \in ROAHandles /\ ROA!Found(state).recovery = None
              /\ ROA!Found(state).value = roas[ROA!Found(state).handle]
              /\ ROA!Own(ROA!Found(state).handle)
         /\ ~lost /\ late = {} =>
              /\ ROA!Adding = {}
              /\ \A h \in ROAHandles : ROA!Ours(h) => ROA!Found(state) # None /\ h = ROA!Found(state).handle
              /\ ROA!Found(state) # None =>
                   IF ROA!Pending(state) THEN ROA!Found(state).value = state.recovery.request
                   ELSE ROA!Found(state).handle = state.handle
<1>1. /\ state # None /\ state \in ROA!State
      /\ ~lost /\ late = {} => ROAAccounts(call)
  BY ROACallNow, ROATypes DEF ROAKnows
<1>2. CASE state.recovery = None
  <2>1. state.handle \in ROAHandles
    BY <1>1, <1>2, ROATypes DEF ROA!State
  <2>2. /\ roas[state.handle] = None => ROA!Found(state) = None
        /\ roas[state.handle] # None =>
             /\ ROA!Found(state) = [handle |-> state.handle, value |-> roas[state.handle], recovery |-> None]
    BY <1>2, <2>1, ROATypes DEF ROA!Found, ROA!Settled
  <2>3. roas[state.handle] # None => ROA!Found(state) \in ROA!State
    BY <2>1, <2>2, ROATypes DEF ROA!State
  <2>4. ROA!Own(state.handle)
    BY <1>1, <2>1, ROATypes DEF ROA!OwnInv
  <2>5. ASSUME ~lost, late = {}
        PROVE  ROA!Adding = {} /\ \A h \in ROAHandles : ROA!Ours(h) => h = state.handle
    BY <1>1, <1>2, <2>5 DEF ROAAccounts, ROA!Ours
  <2> QED  BY <1>2, <2>1, <2>2, <2>3, <2>4, <2>5, ROATypes DEF ROA!Ours, ROA!Pending
<1>3. CASE state.recovery # None
  <2> DEFINE j == state.recovery
  <2>1. j \in ROA!Recovery /\ ~ROA!Uncertainty(j)
    BY <1>1, <1>3 DEF ROA!State, ROA!Findable
  <2>2. PICK g \in ROAHandles : ROA!NewMatches(j) = {g}
    BY <2>1 DEF ROA!Uncertainty
  <2>3. roas[g] = j.request /\ roas[g] # None /\ g \notin j.before
    BY <2>2 DEF ROA!NewMatches, ROA!Live
  <2>4. ROA!Found(state) = [handle |-> g, value |-> roas[g], recovery |-> None]
    <3>1. (CHOOSE h \in ROA!NewMatches(j) : TRUE) = g
      BY <2>2
    <3> QED  BY <1>3, <3>1 DEF ROA!Found, ROA!Settled
  <2>5. ROA!Found(state) \in ROA!State
    BY <2>3, <2>4, ROATypes DEF ROA!State
  <2>6. ROA!Own(g)
    BY <1>1, <1>3, <2>3, ROATypes DEF ROA!OwnInv, ROA!Tracked, ROA!Live
  <2>7. ASSUME ~lost, late = {}
        PROVE  ROA!Adding = {} /\ \A h \in ROAHandles : ROA!Ours(h) => h = g
    <3>1. ROAAccounts(call) /\ ROA!AddInv
      BY <1>1, <2>7, ROATypes DEF ROA!SureInv
    <3>2. ROA!Adding = {}
      BY <1>3, <2>3, <3>1 DEF ROAAccounts, ROA!AddInv
    <3>3. ~(j.previous # None /\ roas[j.previous] # None)
      BY <2>1 DEF ROA!Uncertainty, ROA!PreviousPresent
    <3>4. \A h \in ROAHandles : ROA!Ours(h) => h = j.previous \/ roas[h] = j.request
      BY <1>3, <3>1 DEF ROAAccounts, ROA!Ours
    <3>5. \A h \in ROAHandles : roas[h] = j.request => h = g
      BY <2>3, ROATypes DEF ROA!ServiceInv, ROA!Live
    <3> QED  BY <3>2, <3>3, <3>4, <3>5, ROATypes DEF ROA!Ours
  <2> QED  BY <1>1, <1>3, <2>3, <2>4, <2>5, <2>6, <2>7, ROATypes DEF ROA!Pending
<1> QED  BY <1>2, <1>3

LEMMA ROAReadList == ASSUME ROA!Assumption, ROA!IInv, ROA!ReadList PROVE ROA!IInv'
<1>1. /\ call # None /\ call.op \in {"read", "import"} /\ call.at = "list" /\ ROA!Findable(call.prior)
      /\ call' = None /\ state' = ROA!Found(call.prior)
      /\ imported' = IF call.op = "import" /\ state' # None THEN imported \cup {state'.handle} ELSE imported
      /\ UNCHANGED <<ROA!service, lost, late, crashes>>
  BY DEF ROA!ReadList, ROA!At, ROA!Finish
<1>2. call \in ROA!Call /\ ROAKnows(call)
  BY <1>1, ROACallNow
<1>3. CASE call.op = "read"
  <2>1. call.prior = state
    BY <1>2, <1>3 DEF ROAKnows
  <2> DEFINE s == ROA!Found(state)
  <2>2. /\ s \in ROA!State \cup {None}
        /\ s # None => /\ s.handle \in ROAHandles /\ s.recovery = None /\ s.value = roas[s.handle]
                       /\ ROA!Own(s.handle)
        /\ ~lost /\ late = {} =>
             ROA!Adding = {} /\ \A h \in ROAHandles : ROA!Ours(h) => s # None /\ h = s.handle
    BY <1>1, <1>3, <2>1, ROAFound
  <2>3. state' = s /\ imported' = imported
    BY <1>1, <1>3, <2>1
  <2> HIDE DEF s
  <2>4. s # None => by[s.handle] # 0 \/ s.handle \in imported' \cup late
    BY <2>2, <2>3 DEF ROA!Own
  <2> QED  BY <1>1, <2>2, <2>3, <2>4, ROATypes, ROAFinish
<1>4. CASE call.op = "import"
  <2>1. /\ call.prior \in ROA!State /\ call.prior.recovery = None /\ call.prior.handle \in ROAHandles
        /\ state = None
    <3>1. call.prior # None /\ call.prior.recovery = None /\ call.prior.handle # None /\ state = None
      BY <1>2, <1>4 DEF ROAKnows
    <3> QED  BY <1>2, <3>1 DEF ROA!Call, ROA!State
  <2> DEFINE g == call.prior.handle
             s == ROA!Found(call.prior)
  <2>2. s = IF roas[g] # None THEN [handle |-> g, value |-> roas[g], recovery |-> None] ELSE None
    BY <2>1, ROATypes DEF ROA!Found, ROA!Settled
  <2>3. s \in ROA!State \cup {None}
    BY <2>1, <2>2, ROATypes DEF ROA!State
  <2>4. s # None => s.handle = g /\ s.recovery = None /\ s.value = roas[g]
    BY <2>2, <2>3
  <2>5. state' = s /\ imported' = IF s # None THEN imported \cup {g} ELSE imported
    BY <1>1, <1>4, <2>4
  <2>6. ~lost /\ late = {} => ROA!Adding = {} /\ \A h \in ROAHandles : ~ROA!Ours(h)
    <3>1. ~lost /\ late = {} => ROAAccounts(call)
      BY <1>1, ROACallNow
    <3> QED  BY <1>4, <2>1, <3>1 DEF ROAAccounts, ROA!Ours
  <2> HIDE DEF s
  <2> QED  BY <1>1, <2>1, <2>3, <2>4, <2>5, <2>6, ROATypes, ROAFinish
<1> QED  BY <1>1, <1>3, <1>4

LEMMA ROADeleteList == ASSUME ROA!Assumption, ROA!IInv, ROA!DeleteList PROVE ROA!IInv'
<1> DEFINE s == ROA!Found(state)
<1>1. /\ call # None /\ call.op = "delete" /\ call.at = "list" /\ ROA!Findable(call.prior)
      /\ UNCHANGED <<ROA!service, lost, imported, late, crashes>>
  BY DEF ROA!DeleteList, ROA!At, ROA!history
<1>2. /\ call \in ROA!Call /\ ROAKnows(call)
      /\ ~lost /\ late = {} => ROAAccounts(call)
  BY <1>1, ROACallNow
<1>3. call.prior = state /\ state # None /\ call.n = 0 /\ call.answer = None
  BY <1>1, <1>2 DEF ROAKnows
<1>4. /\ s \in ROA!State \cup {None}
      /\ s # None => /\ s.handle \in ROAHandles /\ s.recovery = None /\ s.value = roas[s.handle]
                     /\ ROA!Own(s.handle)
      /\ ~lost /\ late = {} =>
           /\ ROA!Adding = {}
           /\ \A h \in ROAHandles : ROA!Ours(h) => s # None /\ h = s.handle
           /\ s # None => IF ROA!Pending(state) THEN s.value = state.recovery.request
                          ELSE s.handle = state.handle
  BY <1>1, <1>3, ROAFound
<1>5. /\ s = None => call' = None /\ state' = None
      /\ s # None =>
           /\ state' = state
           /\ call' = [call EXCEPT !.at = "post", !.found = s,
                                   !.tx = [ROA!NoTx EXCEPT !.deleteROAs = {s.handle}]]
  BY <1>3 DEF ROA!DeleteList, ROA!Finish
<1> HIDE DEF s
<1>6. CASE s = None
  BY <1>1, <1>4, <1>5, <1>6, ROATypes, ROAFinish
<1>7. CASE s # None
  <2> DEFINE tx == [ROA!NoTx EXCEPT !.deleteROAs = {s.handle}]
             q == [call EXCEPT !.at = "post", !.found = s, !.tx = tx]
  <2>1. tx \in ROA!Tx /\ tx.addROAs = {} /\ tx.deleteROAs = {s.handle}
    BY <1>4, <1>7, ROANoTx DEF ROA!Tx
  <2>2. call' = q /\ state' = state
    BY <1>5, <1>7
  <2> HIDE DEF tx
  <2>3. /\ q \in ROA!Call /\ q.op = "delete" /\ q.at = "post" /\ q.prior = state /\ q.found = s
        /\ q.tx = tx /\ q.n = 0 /\ q.answer = None
    BY <1>1, <1>2, <1>3, <1>4, <2>1 DEF ROA!Call
  <2> HIDE DEF q
  <2>4. ROAKnows(q)
    <3>1. \A r \in wire : r.n # 0
      BY ROATypes DEF ROA!Request
    <3>2. 0 <= sent
      BY ROATypes
    <3> QED  BY <1>3, <1>4, <1>7, <2>3, <3>1, <3>2, ROATypes DEF ROAKnows, tx
  <2>5. ROAHolds(q)
    BY <1>4, <1>7, <2>1, <2>3 DEF ROAHolds
  <2>6. ASSUME ~lost, late = {} PROVE ROAAccounts(q)
    <3>1. ROAAccounts(call)
      BY <1>2, <2>6
    <3>2. state # None /\ state.recovery = None => roas[state.handle] \in {None, state.value}
      BY <1>1, <3>1 DEF ROAAccounts
    <3>3. /\ ROA!Adding = {}
          /\ \A h \in ROAHandles : roas[h] # None /\ by[h] # 0 => h = s.handle
          /\ IF state.recovery # None THEN s.value = state.recovery.request ELSE s.handle = state.handle
      BY <1>3, <1>4, <1>7, <2>6 DEF ROA!Ours, ROA!Pending
    <3> QED  BY <1>3, <1>4, <1>7, <2>3, <3>2, <3>3 DEF ROAAccounts
  <2> QED  BY <1>1, <2>2, <2>3, <2>4, <2>5, <2>6, ROAContinue
<1> QED  BY <1>6, <1>7

\* A 404 on the inventory takes a resource without a journal out of state.
LEMMA ROAListMissing == ASSUME ROA!Assumption, ROA!IInv, ROA!ListMissing PROVE ROA!IInv'
<1>1. /\ call # None /\ call.op \in {"read", "delete"} /\ call.at = "list" /\ ~ROA!Pending(call.prior)
      /\ call' = None /\ state' = None
      /\ lost' = (lost \/ ROA!Found(call.prior) # None)
      /\ UNCHANGED <<ROA!service, imported, late, crashes>>
  BY DEF ROA!ListMissing, ROA!At, ROA!Finish
<1>2. call \in ROA!Call /\ ROAKnows(call)
  BY <1>1, ROACallNow
<1>3. call.prior = state /\ state # None /\ ROA!Findable(state)
  BY <1>1, <1>2 DEF ROAKnows, ROA!Pending, ROA!Findable
<1>4. ~lost /\ late = {} =>
        ROA!Adding = {} /\ \A h \in ROAHandles : ROA!Ours(h) => ROA!Found(state) # None
  BY <1>1, <1>3, ROAFound
<1>5. lost' \in BOOLEAN /\ (lost => lost') /\ (~lost' => ROA!Found(state) = None)
  BY <1>1, <1>3, ROATypes, Zenon
<1> QED  BY <1>1, <1>4, <1>5, ROATypes, ROAFinish

\* A call ends without a change of the state, before it sent anything or with
\* an answer that it changed nothing.
LEMMA ROAGiveUp ==
  ASSUME ROA!Assumption, ROA!IInv, call # None, call' = None, state' = state, UNCHANGED ROA!service,
         late' = late, imported' = imported, lost' \in BOOLEAN, lost => lost', crashes' \in 0 .. MaxCrashes,
         \/ call.n = 0
         \/ call.op = "delete"
         \/ call.answer # None /\ call.answer.kind = "rejected"
         \/ lost'
  PROVE  ROA!IInv'
<1>1. /\ call \in ROA!Call /\ ROAKnows(call)
      /\ ~lost /\ late = {} => ROAAccounts(call)
  BY ROACallNow
<1>2. /\ state # None /\ state.handle # None => by[state.handle] # 0 \/ state.handle \in imported \cup late
      /\ state # None /\ state.recovery # None => ROA!Tracked(state.recovery)
      /\ state # None /\ state.recovery = None => state.handle \in ROAHandles
  BY ROATypes DEF ROA!OwnInv, ROA!Own, ROA!State
<1>3. ASSUME ~lost', late = {}
      PROVE  /\ \A r \in ROA!Adding :
                  state # None /\ state.recovery # None /\ r.tx.addROAs = {state.recovery.request}
             /\ state # None /\ state.recovery = None => roas[state.handle] \in {None, state.value}
             /\ \A h \in ROAHandles : ROA!Ours(h) =>
                  \/ state # None /\ state.recovery = None /\ h = state.handle
                  \/ /\ state # None /\ state.recovery # None
                     /\ h = state.recovery.previous \/ roas[h] = state.recovery.request
  <2>1. ROAAccounts(call) /\ ROAKnows(call)
    BY <1>1, <1>3
  <2>2. \A r \in wire : r.n # 0
    BY ROATypes DEF ROA!Request
  <2>3. call.op \in {"create", "update"} =>
          /\ \A r \in wire : r.n # call.n
          /\ \A h \in ROAHandles : by[h] # 0 => by[h] # call.n
    BY <1>3, <2>1, <2>2 DEF ROAKnows
  <2>4. \A r \in ROA!Adding :
          state # None /\ state.recovery # None /\ r.tx.addROAs = {state.recovery.request}
    BY <2>1, <2>3 DEF ROAAccounts, ROA!Adding
  <2>5. state # None /\ state.recovery = None => roas[state.handle] \in {None, state.value}
    BY <1>2, <2>1, <2>3 DEF ROAAccounts
  <2>6. \A h \in ROAHandles : ROA!Ours(h) =>
          \/ state # None /\ state.recovery = None /\ h = state.handle
          \/ /\ state # None /\ state.recovery # None
             /\ h = state.recovery.previous \/ roas[h] = state.recovery.request
    BY <2>1, <2>3 DEF ROAAccounts, ROAKnows, ROA!Ours
  <2> QED  BY <2>4, <2>5, <2>6
<1> QED  BY <1>2, <1>3, ROATypes, ROAFinish

\* An unconfirmed transaction leaves the planned or prior values with the
\* journal of the request, or the ROA to delete.
LEMMA ROAUnresolved ==
  ASSUME ROA!Assumption, ROA!IInv, call # None, call.at \in {"answer", "verify"},
         ROA!Finish(ROA!Unresolved), UNCHANGED <<ROA!service, lost, imported, late, crashes>>
  PROVE  ROA!IInv'
<1>1. /\ call \in ROA!Call /\ ROAKnows(call) /\ ROAHolds(call)
      /\ ~lost /\ late = {} => ROAAccounts(call)
      /\ call' = None /\ state' = ROA!Unresolved
  BY ROACallNow DEF ROA!Finish
<1>2. call.op \in {"create", "update", "delete"}
  BY <1>1 DEF ROAKnows, ROA!Call
<1>3. CASE call.op = "delete"
  <2> DEFINE s == call.found
  <2>1. /\ s \in ROA!State /\ s.handle \in ROAHandles /\ s.recovery = None
        /\ call.tx.deleteROAs = {s.handle} /\ call.prior = state /\ state # None
    <3>1. /\ s # None /\ s.handle # None /\ s.recovery = None /\ call.prior = state /\ state # None
          /\ call.tx = [ROA!NoTx EXCEPT !.deleteROAs = {s.handle}]
      BY <1>1, <1>3 DEF ROAKnows
    <3> QED  BY <1>1, <3>1, ROANoTx DEF ROA!Call, ROA!State, ROA!Tx
  <2>2. state' = s
    BY <1>1, <1>3 DEF ROA!Unresolved
  <2>3. by[s.handle] # 0 \/ s.handle \in imported \cup late
    BY <1>1, <2>1 DEF ROAHolds, ROA!Own
  <2>4. ASSUME ~lost, late = {}
        PROVE  /\ ROA!Adding = {} /\ roas[s.handle] \in {None, s.value}
               /\ \A h \in ROAHandles : ROA!Ours(h) => h = s.handle
    <3>1. ROAAccounts(call)
      BY <1>1, <2>4
    <3>2. ROA!Adding = {}
      BY <1>3, <3>1 DEF ROAAccounts
    <3>3. roas[s.handle] \in {None, s.value}
      BY <1>3, <3>1 DEF ROAAccounts
    <3>4. \A h \in ROAHandles : ROA!Ours(h) => h = s.handle
      BY <1>3, <2>1, <3>1 DEF ROAAccounts, ROA!Ours
    <3> QED  BY <3>2, <3>3, <3>4
  <2> HIDE DEF s
  <2> QED  BY <1>1, <2>1, <2>2, <2>3, <2>4, ROATypes, ROAFinish
<1>4. CASE call.op \in {"create", "update"}
  <2> DEFINE p == IF call.prior = None THEN ROA!Settled(None, call.want) ELSE call.prior
             s == [p EXCEPT !.recovery = call.journal]
  <2>1. /\ call.want \in Authorizations /\ call.journal \in ROA!Recovery /\ call.journal # None
        /\ call.journal.request = call.want /\ call.tx.addROAs = {call.want}
        /\ call.op = "create" => state = None /\ call.prior = None
        /\ call.op = "update" =>
             /\ call.prior = state /\ state \in ROA!State /\ state.handle \in ROAHandles
             /\ state.recovery = None /\ call.journal.previous = state.handle
    <3>1. /\ call.want # None /\ call.journal # None /\ call.journal.request = call.want
          /\ call.op = "create" => state = None /\ call.prior = None
          /\ call.op = "update" =>
               /\ call.prior = state /\ state # None /\ state.recovery = None
               /\ call.journal.previous = state.handle
          /\ call.tx = [ROA!NoTx EXCEPT !.addROAs = {call.want},
                          !.deleteROAs = IF call.op = "update" THEN {call.prior.handle} ELSE {}]
      BY <1>1, <1>4 DEF ROAKnows
    <3>2. call.want \in Authorizations /\ call.journal \in ROA!Recovery
      BY <1>1, <3>1 DEF ROA!Call
    <3>3. call.tx.addROAs = {call.want}
      BY <3>1, ROANoTx DEF ROA!Tx
    <3>4. call.op = "update" => state \in ROA!State /\ state.handle \in ROAHandles
      BY <3>1, ROATypes DEF ROA!State
    <3> QED  BY <3>1, <3>2, <3>3, <3>4
  <2>2. p \in ROA!State /\ p.handle = IF call.op = "update" THEN state.handle ELSE None
    BY <1>4, <2>1, ROATypes DEF ROA!Settled, ROA!State
  <2>3. state' = s
    BY <1>1, <1>4 DEF ROA!Unresolved
  <2> HIDE DEF p
  <2>4. s \in ROA!State /\ s.recovery = call.journal /\ s.handle = p.handle
    BY <2>1, <2>2 DEF ROA!State
  <2> HIDE DEF s
  <2>5. s.handle # None => by[s.handle] # 0 \/ s.handle \in imported \cup late
    BY <2>1, <2>2, <2>4, ROATypes DEF ROA!OwnInv, ROA!Own
  <2>6. ROA!Tracked(s.recovery)
    BY <1>1, <1>4, <2>4 DEF ROAHolds
  <2>7. ASSUME ~lost, late = {}
        PROVE  /\ \A r \in ROA!Adding : r.tx.addROAs = {s.recovery.request}
               /\ \A h \in ROAHandles : ROA!Ours(h) => h = s.recovery.previous \/ roas[h] = s.recovery.request
    <3>1. ROAAccounts(call)
      BY <1>1, <2>7
    <3>2. \A r \in ROA!Adding : r.n = call.n /\ r \in wire
      BY <1>4, <2>1, <3>1 DEF ROAAccounts, ROA!Adding
    <3>3. \A r \in wire : r.n = call.n => r.tx = call.tx
      BY <1>1 DEF ROAKnows
    <3>4. \A h \in ROAHandles : ROA!Ours(h) => h = call.journal.previous \/ roas[h] = call.want
      BY <1>4, <2>1, <3>1 DEF ROAAccounts, ROA!Ours
    <3> QED  BY <2>1, <2>4, <3>2, <3>3, <3>4
  <2> QED  BY <1>1, <2>1, <2>3, <2>4, <2>5, <2>6, <2>7, ROATypes, ROAFinish
<1> QED  BY <1>2, <1>3, <1>4

\* A verified write settles on the handle its receipt names.
LEMMA ROAVerify == ASSUME ROA!Assumption, ROA!IInv, ROA!Verify PROVE ROA!IInv'
<1> DEFINE s == IF call.op = "delete" THEN None
                ELSE ROA!Settled(call.answer.receipt[call.want], call.want)
<1>1. /\ call # None /\ call.at = "verify" /\ ROA!Verified(call.tx, call.answer.receipt)
      /\ call' = None /\ state' = s /\ UNCHANGED <<ROA!service, lost, imported, late, crashes>>
  BY DEF ROA!Verify, ROA!Finish, ROA!history
<1>2. /\ call \in ROA!Call /\ ROAKnows(call) /\ ROAHolds(call)
      /\ ~lost /\ late = {} => ROAAccounts(call)
  BY <1>1, ROACallNow
<1>3. call.op \in {"create", "update", "delete"}
  BY <1>1, <1>2 DEF ROAKnows, ROA!Call
<1>4. CASE call.op = "delete"
  <2>1. /\ s = None /\ call.found.handle \in ROAHandles /\ call.prior = state /\ state # None
        /\ call.tx.addROAs = {} /\ call.tx.deleteROAs = {call.found.handle}
    <3>1. /\ call.found # None /\ call.found.handle # None /\ call.prior = state /\ state # None
          /\ call.tx = [ROA!NoTx EXCEPT !.deleteROAs = {call.found.handle}]
      BY <1>1, <1>2, <1>4 DEF ROAKnows
    <3>2. call.found.handle \in ROAHandles
      BY <1>2, <3>1 DEF ROA!Call, ROA!State
    <3> QED  BY <1>4, <3>1, <3>2, ROANoTx DEF ROA!Tx
  <2>2. roas[call.found.handle] = None
    BY <1>1, <2>1 DEF ROA!Verified
  <2>3. ASSUME ~lost, late = {} PROVE ROA!Adding = {} /\ \A h \in ROAHandles : ~ROA!Ours(h)
    <3>1. ROAAccounts(call)
      BY <1>2, <2>3
    <3>2. ROA!Adding = {}
      BY <1>1, <1>4, <3>1 DEF ROAAccounts
    <3>3. \A h \in ROAHandles : ROA!Ours(h) => h = call.found.handle
      BY <1>1, <1>4, <2>1, <3>1 DEF ROAAccounts, ROA!Ours
    <3> QED  BY <2>2, <3>2, <3>3 DEF ROA!Ours
  <2> HIDE DEF s
  <2> QED  BY <1>1, <2>1, <2>3, ROATypes, ROAFinish
<1>5. CASE call.op \in {"create", "update"}
  <2> DEFINE g == call.answer.receipt[call.want]
  <2>1. /\ call.want \in Authorizations /\ call.tx.addROAs = {call.want}
        /\ call.answer # None /\ call.answer.kind = "ok" /\ DOMAIN call.answer.receipt = {call.want}
        /\ call.op = "create" => state = None
        /\ call.op = "update" => state # None /\ state.recovery = None /\ state.handle \in call.tx.deleteROAs
    <3>1. /\ call.want # None /\ call.answer # None /\ call.answer.kind = "ok"
          /\ DOMAIN call.answer.receipt = call.tx.addROAs
          /\ call.op = "create" => state = None
          /\ call.op = "update" => call.prior = state /\ state # None /\ state.recovery = None
          /\ call.tx = [ROA!NoTx EXCEPT !.addROAs = {call.want},
                          !.deleteROAs = IF call.op = "update" THEN {call.prior.handle} ELSE {}]
      BY <1>1, <1>2, <1>5 DEF ROAKnows
    <3>2. call.want \in Authorizations
      BY <1>2, <3>1 DEF ROA!Call
    <3>3. /\ call.tx.addROAs = {call.want}
          /\ call.op = "update" => state.handle \in call.tx.deleteROAs
      BY <3>1, ROANoTx DEF ROA!Tx
    <3> QED  BY <3>1, <3>2, <3>3
  <2>2. g \in ROAHandles /\ roas[g] = call.want
    <3>1. call.answer \in ROA!Answer
      BY <1>2, <2>1 DEF ROA!Call
    <3>2. g \in ROAHandles
      BY <2>1, <3>1 DEF ROA!Answer, ROA!Receipt
    <3> QED  BY <1>1, <2>1, <3>2 DEF ROA!Verified
  <2>3. /\ s \in ROA!State /\ s.handle = g /\ s.value = call.want /\ s.recovery = None
    BY <1>5, <2>1, <2>2 DEF ROA!Settled, ROA!State
  <2>4. by[g] # 0 \/ g \in imported \cup late
    BY <1>2, <2>1, <2>2, ROATypes DEF ROAHolds, ROA!Own
  <2>5. ASSUME ~lost, late = {} PROVE ROA!Adding = {} /\ \A h \in ROAHandles : ROA!Ours(h) => h = g
    <3>1. ROAAccounts(call) /\ ROA!AddInv
      BY <1>2, <2>5, ROATypes DEF ROA!SureInv
    <3>2. \A r \in ROA!Adding : r.tx.addROAs = {call.want}
      <4>1. \A r \in ROA!Adding : r.n = call.n /\ r \in wire
        BY <1>5, <2>1, <3>1 DEF ROAAccounts, ROA!Adding
      <4> QED  BY <1>2, <2>1, <4>1 DEF ROAKnows
    <3>3. ROA!Adding = {}
      BY <2>2, <3>1, <3>2 DEF ROA!AddInv
    <3>4. \A h \in ROAHandles : ROA!Ours(h) => h \in call.tx.deleteROAs \/ roas[h] = call.want
      BY <1>5, <2>1, <3>1 DEF ROAAccounts, ROA!Ours
    <3>5. \A h \in ROAHandles : ROA!Ours(h) /\ h \in call.tx.deleteROAs => h = g
      BY <1>1, <2>1 DEF ROA!Verified, ROA!Ours
    <3>6. \A h \in ROAHandles : roas[h] = call.want => h = g
      BY <2>1, <2>2, ROATypes DEF ROA!ServiceInv, ROA!Live
    <3> QED  BY <3>3, <3>4, <3>5, <3>6
  <2> HIDE DEF s, g
  <2> QED  BY <1>1, <2>1, <2>2, <2>3, <2>4, <2>5, ROATypes, ROAFinish
<1> QED  BY <1>3, <1>4, <1>5

LEMMA ROACallStep ==
  ASSUME ROA!Assumption, ROA!IInv, ROA!Answered \/ ROA!CallFails \/ ROA!Crash
  PROVE  ROA!IInv'
<1>1. call # None /\ MaxCrashes \in Nat /\ crashes \in 0 .. MaxCrashes /\ lost \in BOOLEAN
  BY ROATypes DEF ROA!Answered, ROA!CallFails, ROA!Fail, ROA!ListMissing, ROA!At, ROA!NoAnswer, ROA!Unconfirmed, ROA!Crash
<1>2. /\ call \in ROA!Call /\ ROAKnows(call) /\ ROAHolds(call)
      /\ ~lost /\ late = {} => ROAAccounts(call)
  BY <1>1, ROACallNow
<1>3. CASE ROA!Answered
  <2>1. /\ call.at = "answer" /\ call.answer # None
        /\ UNCHANGED <<ROA!service, lost, imported, late, crashes>>
    BY <1>3 DEF ROA!Answered, ROA!history
  <2>2. CASE call.answer.kind = "ok"
    <3> DEFINE q == [call EXCEPT !.at = "verify"]
    <3>1. call' = q /\ state' = state
      BY <1>3, <2>2 DEF ROA!Answered
    <3>2. /\ q \in ROA!Call /\ q.op = call.op /\ q.at = "verify" /\ q.want = call.want
          /\ q.prior = call.prior /\ q.found = call.found /\ q.tx = call.tx /\ q.journal = call.journal
          /\ q.n = call.n /\ q.answer = call.answer
      BY <1>2 DEF ROA!Call
    <3> HIDE DEF q
    <3>3. ROAKnows(q)
      BY <1>2, <2>1, <2>2, <3>2 DEF ROAKnows
    <3>4. ROAHolds(q)
      BY <1>2, <2>1, <3>2 DEF ROAHolds
    <3>5. ROAAccounts(call) => ROAAccounts(q)
      BY <2>1, <3>2 DEF ROAAccounts
    <3> QED  BY <1>2, <2>1, <3>1, <3>2, <3>3, <3>4, <3>5, ROAContinue
  <2>3. CASE call.answer.kind = "rejected" /\ call.op # "delete"
    <3>1. call' = None /\ state' = state
      BY <1>3, <2>3 DEF ROA!Answered, ROA!Finish, ROA!netDefinitiveFailure
    <3> QED  BY <1>1, <2>1, <2>3, <3>1, ROAGiveUp
  <2>4. CASE call.answer.kind # "ok" /\ ~(call.answer.kind = "rejected" /\ call.op # "delete")
    <3>1. ROA!Finish(ROA!Unresolved)
      BY <1>3, <2>4 DEF ROA!Answered, ROA!netDefinitiveFailure
    <3> QED  BY <1>1, <2>1, <3>1, ROAUnresolved
  <2> QED  BY <2>2, <2>3, <2>4
<1>4. CASE ROA!Fail
  <2>1. /\ call.at = "list" /\ call' = None /\ state' = state
        /\ UNCHANGED <<ROA!service, lost, imported, late, crashes>>
    BY <1>4 DEF ROA!Fail, ROA!Finish, ROA!history
  <2>2. call.n = 0
    BY <1>2, <2>1 DEF ROAKnows
  <2> QED  BY <1>1, <2>1, <2>2, ROAGiveUp
<1>5. CASE ROA!Unconfirmed
  <2>1. /\ call.at = "verify" /\ ROA!Finish(ROA!Unresolved)
        /\ UNCHANGED <<ROA!service, lost, imported, late, crashes>>
    BY <1>5 DEF ROA!Unconfirmed, ROA!history
  <2> QED  BY <1>1, <2>1, ROAUnresolved
<1>6. CASE ROA!NoAnswer
  <2> DEFINE q == [call EXCEPT !.at = "answer", !.answer = ROA!Uncertain]
  <2>1. /\ call' = q /\ call.at \in {"post", "answer"}
        /\ UNCHANGED <<ROA!service, state, lost, imported, late, crashes>>
    BY <1>6 DEF ROA!NoAnswer, ROA!history
  <2>2. ROA!Uncertain \in ROA!Answer /\ ROA!Uncertain.kind = "uncertain"
    BY ROANoReceipt DEF ROA!Uncertain, ROA!Answer
  <2>3. /\ q \in ROA!Call /\ q.op = call.op /\ q.at = "answer" /\ q.want = call.want
        /\ q.prior = call.prior /\ q.found = call.found /\ q.tx = call.tx /\ q.journal = call.journal
        /\ q.n = call.n /\ q.answer = ROA!Uncertain
    BY <1>2, <2>2 DEF ROA!Call
  <2> HIDE DEF q
  <2>4. ROAKnows(q)
    BY <1>2, <2>1, <2>2, <2>3 DEF ROAKnows
  <2>5. ROAHolds(q)
    BY <1>2, <2>1, <2>2, <2>3 DEF ROAHolds
  <2>6. ROAAccounts(call) => ROAAccounts(q)
    BY <2>1, <2>3 DEF ROAAccounts
  <2> QED  BY <1>2, <2>1, <2>3, <2>4, <2>5, <2>6, ROAContinue
<1>7. CASE ROA!Crash
  <2>1. /\ crashes < MaxCrashes /\ crashes' = crashes + 1 /\ call' = None /\ state' = state
        /\ lost' = (lost \/ (call.n # 0 /\ call.op # "delete"))
        /\ UNCHANGED ROA!service /\ imported' = imported /\ late' = late
    BY <1>7 DEF ROA!Crash
  <2>2. crashes' \in 0 .. MaxCrashes
    BY <1>1, <2>1
  <2>3. /\ lost' \in BOOLEAN
        /\ lost => lost'
        /\ call.n = 0 \/ call.op = "delete" \/ lost'
    BY <1>1, <2>1, Zenon
  <2> QED  BY <1>1, <2>1, <2>2, <2>3, ROAGiveUp
<1>8. CASE ROA!ListMissing
  BY <1>8, ROAListMissing
<1> QED  BY <1>3, <1>4, <1>5, <1>6, <1>7, <1>8 DEF ROA!CallFails

LEMMA ROAPost == ASSUME ROA!Assumption, ROA!IInv, ROA!PostTransaction PROVE ROA!IInv'
<1> DEFINE new == [n |-> sent', tx |-> call.tx, given |-> None]
           q == [call EXCEPT !.at = "answer", !.n = sent']
<1>1. /\ call # None /\ call.at = "post" /\ sent < MaxSubmits /\ sent' = sent + 1
      /\ wire' = wire \cup {new} /\ call' = q
      /\ UNCHANGED <<roas, aspas, by, edits, state, lost, imported, late, crashes>>
  BY DEF ROA!PostTransaction, ROA!Post, ROA!history
<1>2. /\ call \in ROA!Call /\ call.tx \in ROA!Tx /\ ROAKnows(call) /\ ROAHolds(call)
      /\ ~lost /\ late = {} => ROAAccounts(call)
  BY <1>1, ROACallNow DEF ROA!Call
<1>3. /\ call.n = 0 /\ call.answer = None
      /\ call.op \in {"create", "update"} =>
           call.tx.addROAs = {call.want} /\ call.want \in Authorizations
      /\ call.op \notin {"create", "update"} => call.op = "delete" /\ call.tx.addROAs = {}
  <2>1. call.n = 0 /\ call.answer = None
    BY <1>1, <1>2 DEF ROAKnows
  <2>2. ASSUME call.op \in {"create", "update"}
        PROVE  call.tx.addROAs = {call.want} /\ call.want \in Authorizations
    <3>1. /\ call.want # None
          /\ call.tx = [ROA!NoTx EXCEPT !.addROAs = {call.want},
                          !.deleteROAs = IF call.op = "update" THEN {call.prior.handle} ELSE {}]
      BY <1>1, <1>2, <2>2 DEF ROAKnows
    <3> QED  BY <1>2, <3>1, ROANoTx DEF ROA!Tx, ROA!Call
  <2>3. ASSUME call.op \notin {"create", "update"} PROVE call.op = "delete" /\ call.tx.addROAs = {}
    <3>1. call.op = "delete"
      BY <1>1, <1>2, <2>3 DEF ROAKnows, ROA!Call
    <3>2. call.tx = [ROA!NoTx EXCEPT !.deleteROAs = {call.found.handle}]
      BY <1>1, <1>2, <3>1 DEF ROAKnows
    <3> QED  BY <3>1, <3>2, ROANoTx DEF ROA!Tx
  <2> QED  BY <2>1, <2>2, <2>3
<1>4. sent' \in 1 .. MaxSubmits /\ sent' \in 0 .. MaxSubmits /\ sent \in 0 .. MaxSubmits
  BY <1>1, ROATypes
<1>5. /\ new \in ROA!Request /\ new.n = sent' /\ new.tx = call.tx
  BY <1>2, <1>4 DEF ROA!Request
<1>6. /\ q \in ROA!Call /\ q.op = call.op /\ q.at = "answer" /\ q.want = call.want /\ q.prior = call.prior
      /\ q.found = call.found /\ q.tx = call.tx /\ q.journal = call.journal /\ q.n = sent' /\ q.answer = None
  BY <1>2, <1>3, <1>4 DEF ROA!Call
<1> HIDE DEF new, q
<1>7. /\ \A r \in wire : r.n \in 1 .. MaxSubmits /\ r.n <= sent
      /\ \A h \in ROAHandles : by[h] \in 0 .. MaxSubmits /\ by[h] <= sent
  BY ROATypes DEF ROA!ServiceInv, ROA!Request
<1>8. ROA!TypeOK'
  <2>1. /\ wire' \subseteq ROA!Request /\ sent' \in 0 .. MaxSubmits /\ call' \in ROA!Call \cup {None}
        /\ roas' = roas /\ aspas' = aspas /\ by' = by /\ edits' = edits /\ state' = state /\ lost' = lost
        /\ imported' = imported /\ late' = late /\ crashes' = crashes
    BY <1>1, <1>4, <1>5, <1>6, ROATypes
  <2> QED  BY <2>1, ROATypes, ROATypeOK
<1>9. ROA!ServiceInv'
  <2>1. ROA!ServiceInv
    BY ROATypes
  <2>2. \A r, p \in wire' : r.n = p.n => r = p
    BY <1>1, <1>4, <1>5, <1>7, <2>1 DEF ROA!ServiceInv
  <2>3. \A r \in wire' : r.n <= sent' /\ \A h \in ROAHandles : by[h] # r.n
    BY <1>1, <1>4, <1>5, <1>7, <2>1 DEF ROA!ServiceInv
  <2>4. \A r \in wire' : r.tx.addROAs = {} \/ \E o \in Authorizations : r.tx.addROAs = {o}
    BY <1>1, <1>3, <1>5, <2>1 DEF ROA!ServiceInv
  <2>5. \A h \in ROAHandles : by[h] <= sent'
    BY <1>1, <1>4, <1>7
  <2> QED  BY <1>1, <2>1, <2>2, <2>3, <2>4, <2>5 DEF ROA!ServiceInv, ROA!Live
<1>10. ROA!CallInv'
  <2>1. /\ q # None /\ call' = q /\ state' = state /\ sent' <= sent'
        /\ \A r \in wire' : r.n = sent' => r.tx = call.tx
    BY <1>1, <1>4, <1>5, <1>6, <1>7, ROATypes
  <2> QED
    BY <1>1, <1>2, <1>6, <2>1
    DEF ROAKnows, ROA!CallInv, ROA!Writing, ROA!Deleting, ROA!Replaced, ROA!NoTx
<1>11. ROA!OwnInv'
  <2>1. /\ \A r \in wire : \A h \in r.tx.deleteROAs : ROA!Own(h)
        /\ state # None =>
             /\ state.handle # None => ROA!Own(state.handle)
             /\ state.recovery # None => ROA!Tracked(state.recovery)
    BY ROATypes DEF ROA!OwnInv
  <2>2. \A r \in wire' : r \in wire \/ r.tx = call.tx
    BY <1>1, <1>5
  <2>3. /\ \A h \in call.tx.deleteROAs : ROA!Own(h)
        /\ call.op \in {"create", "update"} => ROA!Tracked(call.journal)
    BY <1>1, <1>2 DEF ROAHolds
  <2> QED
    BY <1>1, <1>6, <2>1, <2>2, <2>3 DEF ROA!OwnInv, ROA!Own, ROA!Tracked, ROA!Live, ROA!Writing
<1>12. ROA!SureInv'
  <2> SUFFICES ASSUME ~lost, late = {} PROVE (ROA!AddInv /\ ROA!ValueInv /\ ROA!ClaimInv)'
    BY <1>1 DEF ROA!SureInv
  <2>1. ROAAccounts(call) /\ ROA!AddInv /\ q # None /\ call' = q /\ state' = state /\ roas' = roas /\ by' = by
    BY <1>1, <1>2, <1>6, ROATypes DEF ROA!SureInv
  <2>2. CASE call.op \in {"create", "update"}
    <3>1. state # None => state.recovery = None
      BY <1>2, <2>2 DEF ROAKnows
    <3>2. ROA!Adding = {}
      BY <1>3, <1>7, <2>1, <2>2, <3>1 DEF ROAAccounts, ROA!Adding
    <3>3. \A r \in ROA!Adding' : r = new
      BY <1>1, <3>2 DEF ROA!Adding
    <3>4. \A h \in ROAHandles : roas[h] # call.want
      BY <1>1, <2>1, <2>2 DEF ROAAccounts
    <3>5. \A h \in ROAHandles : by[h] # 0 => by[h] # call.n
      BY <1>3
    <3>6. ROA!AddInv'
      BY <1>3, <1>5, <1>6, <2>1, <2>2, <3>3, <3>4 DEF ROA!AddInv, ROA!Writing
    <3>7. state # None => state.handle \in ROAHandles /\ roas[state.handle] \in {None, state.value}
      BY <1>3, <2>1, <3>1, ROATypes DEF ROAAccounts, ROA!State
    <3>8. ROA!ValueInv'
      BY <1>6, <2>1, <2>2, <3>1, <3>7 DEF ROA!ValueInv, ROA!Writing, ROA!Deleting, ROA!Pending
    <3>9. ROA!ClaimInv'
      BY <1>6, <2>1, <2>2, <3>1, <3>5
      DEF ROAAccounts, ROA!ClaimInv, ROA!Writing, ROA!Deleting, ROA!Pending, ROA!Ours
    <3> QED  BY <3>6, <3>8, <3>9
  <2>3. CASE call.op \notin {"create", "update"}
    <3>1. call.op = "delete" /\ call.tx.addROAs = {}
      BY <1>3, <2>3
    <3>2. ROA!Adding' = ROA!Adding
      BY <1>1, <1>5, <3>1 DEF ROA!Adding
    <3>3. ROA!AddInv'
      BY <1>1, <1>6, <2>1, <3>1, <3>2
      DEF ROAAccounts, ROA!AddInv, ROA!Writing, ROA!Deleting, ROA!Pending
    <3>4. ROA!ValueInv'
      BY <1>1, <1>6, <2>1, <3>1 DEF ROAAccounts, ROA!ValueInv, ROA!Writing, ROA!Deleting, ROA!Pending
    <3>5. ROA!ClaimInv'
      BY <1>1, <1>6, <2>1, <3>1
      DEF ROAAccounts, ROA!ClaimInv, ROA!Writing, ROA!Deleting, ROA!Pending, ROA!Ours
    <3> QED  BY <3>3, <3>4, <3>5
  <2> QED  BY <2>2, <2>3
<1> QED  BY <1>8, <1>9, <1>10, <1>11, <1>12 DEF ROA!IInv

\* Another channel removes or adds one ROA, and never under a handle that the
\* resource may delete.
LEMMA ROAOtherChannel == ASSUME ROA!Assumption, ROA!IInv, ROA!OtherChannel PROVE ROA!IInv'
<1>1. /\ UNCHANGED <<state, call, lost, imported, crashes, wire, sent>>
      /\ late' = IF call = None /\ ~ROA!Pending(state) THEN late
                 ELSE late \cup (ROA!Live(roas') \ ROA!Live(roas))
      /\ edits < MaxEdits /\ edits' = edits + 1
  BY DEF ROA!OtherChannel, ROA!Edit
<1>2. \E g \in ROAHandles, o \in Authorizations \cup {None} :
        /\ roas' = [roas EXCEPT ![g] = o]
        /\ o = None => by' = by
        /\ o # None => /\ roas[g] = None /\ by[g] = 0 /\ g \notin imported /\ by' = [by EXCEPT ![g] = 0]
                       /\ \A h \in ROAHandles : roas[h] # o
        /\ aspas' = aspas
  <2>1. \/ /\ \E g \in ROA!Live(roas) : roas' = [roas EXCEPT ![g] = None]
           /\ UNCHANGED <<aspas, by>>
        \/ /\ \E g \in (ROAHandles \ (imported \cup {h \in ROAHandles : by[h] # 0})) \ ROA!Live(roas),
                 o \in Authorizations :
                /\ \A h \in ROA!Live(roas) : AuthorizationKey[roas[h]] # AuthorizationKey[o]
                /\ roas' = [roas EXCEPT ![g] = o] /\ by' = [by EXCEPT ![g] = 0]
           /\ UNCHANGED aspas
    BY DEF ROA!OtherChannel, ROA!Edit
  <2> QED  BY <2>1, ROATypes DEF ROA!Live
<1>3. PICK g \in ROAHandles, o \in Authorizations \cup {None} :
        /\ roas' = [roas EXCEPT ![g] = o]
        /\ o = None => by' = by
        /\ o # None => /\ roas[g] = None /\ by[g] = 0 /\ g \notin imported /\ by' = [by EXCEPT ![g] = 0]
                       /\ \A h \in ROAHandles : roas[h] # o
        /\ aspas' = aspas
  BY <1>2
<1>4. /\ \A h \in ROAHandles : roas'[h] = IF h = g THEN o ELSE roas[h]
      /\ \A h \in ROAHandles : by'[h] = by[h]
      /\ roas' \in [ROAHandles -> Authorizations \cup {None}] /\ by' \in [ROAHandles -> 0 .. MaxSubmits]
  BY <1>3, ROATypes
<1>5. /\ late \subseteq late' /\ late' \subseteq ROAHandles
      /\ o # None /\ (call # None \/ ROA!Pending(state)) => g \in late'
  BY <1>1, <1>3, <1>4, ROATypes DEF ROA!Live
<1>6. ROA!TypeOK'
  <2>1. edits' \in 0 .. MaxEdits
    BY <1>1, ROATypes
  <2> QED  BY <1>1, <1>3, <1>4, <1>5, <2>1, ROATypes, ROATypeOK
<1>7. ROA!ServiceInv'
  <2>1. \A h, k \in ROAHandles : roas'[h] # None /\ roas'[k] # None /\ roas'[h] = roas'[k] => h = k
    BY <1>3, <1>4, ROATypes DEF ROA!ServiceInv, ROA!Live
  <2> QED  BY <1>1, <1>4, <2>1, ROATypes DEF ROA!ServiceInv, ROA!Live
<1>8. ROA!CallInv'
  <2>1. call # None => ROAKnows(call)
    BY ROACallNow
  <2> QED  BY <1>1, <1>4, <2>1 DEF ROAKnows, ROA!CallInv, ROA!Writing, ROA!Deleting, ROA!Replaced, ROA!NoTx
<1>9. \A h \in ROAHandles : ROA!Own(h) => ROA!Own(h)'
  BY <1>1, <1>4, <1>5 DEF ROA!Own
<1>10. ASSUME NEW j, ROA!Tracked(j), call # None \/ ROA!Pending(state) PROVE ROA!Tracked(j)'
  <2>1. \A h \in ROAHandles : roas'[h] # None => roas[h] # None \/ h \in late'
    BY <1>4, <1>5, <1>10
  <2>2. \A h \in late' : ROA!Own(h)'
    BY DEF ROA!Own
  <2> QED  BY <1>9, <1>10, <2>1, <2>2 DEF ROA!Tracked, ROA!Live
<1>11. ROA!OwnInv'
  <2>1. \A r \in wire : \A h \in r.tx.deleteROAs : h \in ROAHandles /\ ROA!Own(h)'
    BY <1>9, ROATypes DEF ROA!OwnInv, ROA!Request, ROA!Tx
  <2>2. state # None /\ state.handle # None => by'[state.handle] # 0 \/ state.handle \in imported' \cup late'
    BY <1>9, ROATypes DEF ROA!OwnInv, ROA!State, ROA!Own
  <2>3. \A j : state # None /\ state.recovery # None /\ j = state.recovery => ROA!Tracked(j)'
    BY <1>10, ROATypes DEF ROA!OwnInv, ROA!Pending
  <2>4. ASSUME call # None
        PROVE  /\ \A h \in call.tx.deleteROAs : ROA!Own(h)'
               /\ \A j : call.op \in {"create", "update"} /\ call.at # "list" /\ j = call.journal => ROA!Tracked(j)'
               /\ call.answer # None /\ call.answer.kind = "ok" =>
                    \A x \in call.tx.addROAs : roas'[call.answer.receipt[x]] # None =>
                      by'[call.answer.receipt[x]] # 0 \/ call.answer.receipt[x] \in imported' \cup late'
    <3>1. call \in ROA!Call /\ ROAKnows(call) /\ ROAHolds(call) /\ call.tx.deleteROAs \subseteq ROAHandles
      BY <2>4, ROACallNow DEF ROA!Call, ROA!Tx
    <3>2. \A h \in call.tx.deleteROAs : ROA!Own(h)'
      BY <1>9, <3>1 DEF ROAHolds
    <3>3. \A j : call.op \in {"create", "update"} /\ call.at # "list" /\ j = call.journal => ROA!Tracked(j)'
      BY <1>10, <2>4, <3>1 DEF ROAHolds
    <3>4. ASSUME call.answer # None, call.answer.kind = "ok", NEW x \in call.tx.addROAs,
                 NEW k, k = call.answer.receipt[x], roas'[k] # None
          PROVE  by'[k] # 0 \/ k \in imported' \cup late'
      <4>1. DOMAIN call.answer.receipt = call.tx.addROAs /\ call.answer \in ROA!Answer
        BY <3>1, <3>4 DEF ROAKnows, ROA!Call
      <4>2. k \in ROAHandles
        BY <3>4, <4>1 DEF ROA!Answer, ROA!Receipt
      <4>3. roas[k] # None => ROA!Own(k)
        BY <3>1, <3>4 DEF ROAHolds
      <4> QED  BY <1>4, <1>5, <1>9, <2>4, <3>4, <4>2, <4>3 DEF ROA!Own
    <3> QED  BY <3>2, <3>3, <3>4
  <2> QED  BY <1>1, <2>1, <2>2, <2>3, <2>4 DEF ROA!OwnInv, ROA!Own, ROA!Tracked, ROA!Live, ROA!Writing
<1>12. ROA!SureInv'
  <2> SUFFICES ASSUME ~lost, late' = {} PROVE (ROA!AddInv /\ ROA!ValueInv /\ ROA!ClaimInv)'
    BY <1>1 DEF ROA!SureInv
  <2>1. ROA!AddInv /\ ROA!ValueInv /\ ROA!ClaimInv /\ late = {}
    BY <1>5, ROATypes DEF ROA!SureInv
  <2>2. o # None => call = None /\ ~ROA!Pending(state)
    BY <1>5
  <2>3. /\ ROA!Adding' = ROA!Adding /\ ROA!Writing' = ROA!Writing /\ ROA!Deleting' = ROA!Deleting
        /\ ROA!Pending(state)' = ROA!Pending(state) /\ call' = call /\ state' = state
    BY <1>1 DEF ROA!Adding, ROA!Writing, ROA!Deleting, ROA!Pending
  <2>4. ROA!AddInv'
    <3>1. o # None => ROA!Adding = {}
      BY <2>1, <2>2 DEF ROA!AddInv, ROA!Writing
    <3>2. \A r \in ROA!Adding : None \notin r.tx.addROAs
      BY ROATypes DEF ROA!Adding, ROA!Request, ROA!Tx
    <3>3. \A r \in ROA!Adding : \A h \in ROAHandles : roas'[h] \notin r.tx.addROAs
      BY <1>4, <2>1, <3>1, <3>2 DEF ROA!AddInv
    <3>4. ROA!Writing /\ call.at = "post" => \A h \in ROAHandles : roas'[h] # call.want
      <4>1. ROA!Writing => call.want # None /\ o = None
        BY <2>2, ROATypes DEF ROA!CallInv, ROA!Writing
      <4> QED  BY <1>4, <2>1, <4>1 DEF ROA!AddInv
    <3> QED  BY <2>1, <2>3, <3>3, <3>4 DEF ROA!AddInv
  <2>5. ROA!ValueInv'
    <3>1. state # None /\ ~ROA!Pending(state) =>
            state.handle \in ROAHandles /\ (o # None => state.handle # g)
      <4>1. state # None /\ ~ROA!Pending(state) => state.handle \in ROAHandles /\ ROA!Own(state.handle)
        BY ROATypes DEF ROA!OwnInv, ROA!State, ROA!Pending
      <4> QED  BY <1>3, <2>1, <4>1 DEF ROA!Own
    <3>2. ROA!Deleting => call.found.handle \in ROAHandles /\ o = None
      <4>1. ROA!Deleting => call.found # None /\ call.found.handle # None /\ call \in ROA!Call
        BY ROATypes DEF ROA!CallInv, ROA!Deleting
      <4> QED  BY <2>2, <4>1 DEF ROA!Call, ROA!State, ROA!Deleting
    <3>3. state # None /\ ~ROA!Pending(state) =>
            \/ roas'[state.handle] \in {None, state.value}
            \/ ROA!Writing /\ call.n # 0 /\ by'[state.handle] = call.n
      BY <1>4, <2>1, <3>1 DEF ROA!ValueInv
    <3>4. ROA!Deleting =>
            /\ roas'[call.found.handle] \in {None, call.found.value}
            /\ IF ROA!Pending(state) THEN call.found.value = state.recovery.request
               ELSE call.found.handle = state.handle
      BY <1>4, <2>1, <3>2 DEF ROA!ValueInv
    <3> QED  BY <2>3, <3>3, <3>4 DEF ROA!ValueInv
  <2>6. ROA!ClaimInv'
    <3>1. \A h \in ROAHandles : roas'[h] # None /\ by'[h] # 0 => roas[h] # None /\ by[h] # 0 /\ roas'[h] = roas[h]
      BY <1>3, <1>4
    <3> QED  BY <1>4, <2>1, <2>3, <3>1 DEF ROA!ClaimInv, ROA!Ours
  <2> QED  BY <2>4, <2>5, <2>6
<1> QED  BY <1>6, <1>7, <1>8, <1>11, <1>12 DEF ROA!IInv

LEMMA ROAInit == ASSUME ROA!Assumption, ROA!Init PROVE ROA!IInv
<1>1. /\ roas = [h \in ROAHandles |-> None] /\ aspas = [c \in {} |-> None]
      /\ by = [h \in ROAHandles |-> 0] /\ wire = {} /\ sent = 0 /\ edits = 0
      /\ state = None /\ call = None /\ lost = FALSE /\ imported = {} /\ late = {} /\ crashes = 0
  BY DEF ROA!Init, ROA!ServiceInit
<1>2. MaxSubmits \in Nat /\ MaxEdits \in Nat /\ MaxCrashes \in Nat
  BY DEF ROA!Assumption, ROA!ServiceAssumption
<1>3. 0 \in 0 .. MaxSubmits /\ 0 \in 0 .. MaxEdits /\ 0 \in 0 .. MaxCrashes
  BY <1>2
<1>4. ROA!TypeOK
  BY <1>1, <1>3 DEF ROA!TypeOK, ROA!ServiceTypeOK, ROA!ROAs, ROA!ASPAs
<1>5. ROA!ServiceInv /\ ROA!CallInv /\ ROA!OwnInv
  BY <1>1 DEF ROA!ServiceInv, ROA!CallInv, ROA!OwnInv, ROA!Live
<1>6. ROA!SureInv
  BY <1>1
  DEF ROA!SureInv, ROA!AddInv, ROA!ValueInv, ROA!ClaimInv, ROA!Adding, ROA!Writing, ROA!Deleting,
      ROA!Pending, ROA!Ours
<1> QED  BY <1>4, <1>5, <1>6 DEF ROA!IInv

LEMMA ROAStep ==
  ASSUME ROA!Assumption, ROA!IInv, [ROA!Next]_(ROA!vars) PROVE ROA!IInv'
<1>1. CASE UNCHANGED ROA!vars
  BY <1>1
  DEF ROA!vars, ROA!service, ROA!history, ROA!IInv, ROA!TypeOK, ROA!ServiceTypeOK, ROA!ServiceInv,
      ROA!CallInv, ROA!OwnInv, ROA!SureInv, ROA!AddInv, ROA!ValueInv, ROA!ClaimInv, ROA!Adding,
      ROA!Writing, ROA!Deleting, ROA!Pending, ROA!Ours, ROA!Own, ROA!Tracked, ROA!Live, ROA!Replaced,
      ROA!NoTx
<1>2. CASE \E o \in Authorizations : ROA!StartCreate(o) \/ ROA!StartUpdate(o)
  <2>1. PICK o \in Authorizations : ROA!StartCreate(o) \/ ROA!StartUpdate(o)
    BY <1>2
  <2>2. o # None
    BY ROATypes
  <2>3. CASE ROA!StartCreate(o)
    <3>1. state = None /\ ROA!Start("create", o, None)
      BY <2>3 DEF ROA!StartCreate
    <3> QED  BY <2>2, <3>1, ROAStart
  <2>4. CASE ROA!StartUpdate(o)
    <3>1. /\ state # None /\ state.recovery = None /\ o # state.value /\ state \in ROA!State
          /\ ROA!Start("update", o, state)
      BY <2>4, ROATypes DEF ROA!StartUpdate, ROA!MayUpdate
    <3> QED  BY <2>2, <3>1, ROAStart
  <2> QED  BY <2>1, <2>3, <2>4
<1>3. CASE ROA!StartRead
  <2>1. state # None /\ state \in ROA!State /\ ROA!Start("read", None, state)
    BY <1>3, ROATypes DEF ROA!StartRead
  <2> QED  BY <2>1, ROAStart
<1>4. CASE ROA!StartDelete
  <2>1. state # None /\ state \in ROA!State /\ ROA!Start("delete", None, state)
    BY <1>4, ROATypes DEF ROA!StartDelete
  <2> QED  BY <2>1, ROAStart
<1>5. CASE \E h \in ROAHandles : ROA!ImportState(h)
  <2>1. PICK h \in ROAHandles, o \in Authorizations :
          state = None /\ ROA!Start("import", None, ROA!Settled(h, o))
    BY <1>5 DEF ROA!ImportState
  <2> DEFINE p == ROA!Settled(h, o)
  <2>2. p \in ROA!State /\ p # None /\ p.recovery = None /\ p.handle # None
    BY ROATypes DEF ROA!Settled, ROA!State
  <2>3. state = None /\ ROA!Start("import", None, p)
    BY <2>1
  <2> HIDE DEF p
  <2> QED  BY <2>2, <2>3, ROAStart
<1>6. CASE ROA!CallStep \/ ROA!CallFails \/ ROA!Crash
  BY <1>6, ROAWriteList, ROAReadList, ROADeleteList, ROAPost, ROAVerify, ROACallStep DEF ROA!CallStep
<1>7. CASE \E r \in wire : ROA!Serve(r)
  BY <1>7, ROAServe
<1>8. CASE ROA!OtherChannel
  BY <1>8, ROAOtherChannel
<1> QED
  BY <1>1, <1>2, <1>3, <1>4, <1>5, <1>6, <1>7, <1>8 DEF ROA!Next

LEMMA ROAPromises ==
  ASSUME ROA!Assumption, ROA!IInv PROVE ROA!NoSecondRequest /\ ROA!NoOrphan
<1>1. ~lost /\ late = {} => ROA!AddInv /\ ROA!ClaimInv
  BY ROATypes DEF ROA!SureInv
<1>2. ROA!NoSecondRequest
  BY <1>1 DEF ROA!NoSecondRequest, ROA!AddInv, ROA!Writing
<1>3. ROA!NoOrphan
  BY <1>1 DEF ROA!NoOrphan, ROA!ClaimInv, ROA!Writing, ROA!Deleting, ROA!Pending
<1> QED  BY <1>2, <1>3

\* Only a request that was sent removes or replaces a ROA, and it names only
\* the resource's own.
LEMMA ROATakes ==
  ASSUME ROA!Assumption, ROA!IInv, [ROA!Next]_(ROA!vars) PROVE ROA!NeverTakesForeign
<1> SUFFICES ASSUME NEW h \in ROAHandles, roas[h] # None, by[h] = 0, roas'[h] # roas[h], edits' = edits
             PROVE  h \in imported \cup late
  BY DEF ROA!NeverTakesForeign
<1>1. PICK r \in wire : ROA!Serve(r)
  <2>1. ~ROA!OtherChannel
    BY ROATypes DEF ROA!OtherChannel, ROA!Edit
  <2>2. ~UNCHANGED ROA!vars /\ ~UNCHANGED ROA!service
    BY DEF ROA!vars, ROA!service
  <2>3. ASSUME NEW op, NEW v, NEW p PROVE ~ROA!Start(op, v, p)
    BY <2>2 DEF ROA!Start
  <2>4. /\ \A v : ~ROA!StartCreate(v) /\ ~ROA!StartUpdate(v) /\ ~ROA!ImportState(v)
        /\ ~ROA!StartRead /\ ~ROA!StartDelete
    BY <2>3 DEF ROA!StartCreate, ROA!StartUpdate, ROA!StartRead, ROA!StartDelete, ROA!ImportState
  <2>5. ~ROA!PostTransaction
    BY DEF ROA!PostTransaction, ROA!Post
  <2>6. ~ROA!CallStep /\ ~ROA!CallFails /\ ~ROA!Crash
    BY <2>2, <2>5
    DEF ROA!CallStep, ROA!WriteList, ROA!ReadList, ROA!DeleteList, ROA!Answered, ROA!Verify,
        ROA!CallFails, ROA!Fail, ROA!ListMissing, ROA!NoAnswer, ROA!Unconfirmed, ROA!Crash
  <2> QED  BY <2>1, <2>2, <2>4, <2>6 DEF ROA!Next
<1>2. PICK D \in SUBSET ROAHandles, K \in SUBSET ROAHandles, o \in Authorizations \cup {None} :
        ROAEffect(r, D, K, o)
  BY <1>1, ROAServeCases
<1>3. h \in r.tx.deleteROAs
  BY <1>2, ROATypes DEF ROAEffect
<1> QED  BY <1>3, ROATypes DEF ROA!OwnInv, ROA!Own

\* The ROA's inductive invariant holds in every reachable state: what the
\* resource made, and what it may still make, is the settled handle, the
\* running call's or the pending journal's; and whatever a request, a state or
\* a journal may lead it to delete is its own.
THEOREM ROAInductive == ASSUME ROA!Assumption PROVE ROA!Spec => []ROA!IInv
<1>1. ROA!Init => ROA!IInv
  BY ROAInit
<1>2. ROA!IInv /\ [ROA!Next]_(ROA!vars) => ROA!IInv'
  BY ROAStep
<1> QED  BY <1>1, <1>2, PTL DEF ROA!Spec

\* The ROA's writes: at most one creation is under way or unresolved, a
\* settled or absent resource leaves no request that may still add and no ROA
\* of its own without a state (unless a crash lost a write, a 404 on the
\* inventory hid the ROA, or another channel added one during a write), and no
\* ROA of another channel is removed that was neither imported nor made during
\* a write.
THEOREM ROAIsNeitherLostNorTaken ==
  ASSUME ROA!Assumption
  PROVE  ROA!Spec => /\ [](ROA!NoSecondRequest /\ ROA!NoOrphan)
                     /\ [][ROA!NeverTakesForeign]_(ROA!vars)
<1>1. ROA!IInv => ROA!NoSecondRequest /\ ROA!NoOrphan
  BY ROAPromises
<1>2. ROA!IInv /\ [ROA!Next]_(ROA!vars) => [ROA!NeverTakesForeign]_(ROA!vars)
  BY ROATakes
<1> QED  BY <1>1, <1>2, ROAInductive, PTL DEF ROA!Spec

-----------------------------------------------------------------------------
(* The bundle *)

\* The domains of the constants and variables, and the parts of the invariant.
LEMMA BundleTypes ==
  ASSUME Bundle!Assumption, Bundle!IInv
  PROVE  /\ MaxTransactions \in Nat /\ MaxEdits \in Nat /\ MaxCrashes \in Nat
         /\ None \notin ROAHandles /\ None \notin Contents /\ None \notin ProviderSets
         /\ None \notin Bundle!Answer /\ None \notin Bundle!Plan /\ None \notin Bundle!Journal
         /\ None \notin Bundle!State /\ None \notin Bundle!Call
         /\ Configs \subseteq Bundle!Desired /\ Bundle!ValidConfigs
         /\ roas \in [ROAHandles -> Contents \cup {None}]
         /\ aspas \in [Customers -> ProviderSets \cup {None}]
         /\ by \in [ROAHandles -> 0 .. MaxTransactions]
         /\ wire \subseteq Bundle!Request /\ sent \in 0 .. MaxTransactions /\ edits \in 0 .. MaxEdits
         /\ state \in Bundle!State \cup {None} /\ call \in Bundle!Call \cup {None}
         /\ lost \in BOOLEAN /\ relabelled \in BOOLEAN
         /\ imported \subseteq ROAHandles /\ late \subseteq ROAHandles /\ crashes \in 0 .. MaxCrashes
         /\ Bundle!ServiceInv /\ Bundle!StateInv(state) /\ Bundle!CallInv(state, call)
         /\ Bundle!OwnInv(state, call, imported \cup late)
         /\ ~lost /\ ~relabelled /\ late = {} =>
              Bundle!AddInv(state, call) /\ Bundle!FreshInv(state, call) /\ Bundle!ClaimInv(state, call)
         /\ ~lost /\ ~relabelled /\ edits = 0 => Bundle!QuietInv(state, call)
<1>1. /\ MaxTransactions \in Nat /\ MaxEdits \in Nat /\ MaxCrashes \in Nat
      /\ None \notin ROAHandles /\ None \notin Contents /\ None \notin ProviderSets
      /\ None \notin Bundle!Answer /\ None \notin Bundle!Plan /\ None \notin Bundle!Journal
      /\ None \notin Bundle!State /\ None \notin Bundle!Call
      /\ Configs \subseteq Bundle!Desired /\ Bundle!ValidConfigs
  BY DEF Bundle!Assumption, Bundle!ServiceAssumption
<1>2. /\ roas \in [ROAHandles -> Contents \cup {None}]
      /\ aspas \in [Customers -> ProviderSets \cup {None}]
      /\ by \in [ROAHandles -> 0 .. MaxTransactions]
      /\ wire \subseteq Bundle!Request /\ sent \in 0 .. MaxTransactions /\ edits \in 0 .. MaxEdits
      /\ state \in Bundle!State \cup {None} /\ call \in Bundle!Call \cup {None}
      /\ lost \in BOOLEAN /\ relabelled \in BOOLEAN
      /\ imported \subseteq ROAHandles /\ late \subseteq ROAHandles /\ crashes \in 0 .. MaxCrashes
  BY DEF Bundle!IInv, Bundle!TypeOK, Bundle!ServiceTypeOK, Bundle!ROAs, Bundle!ASPAs
<1>3. /\ Bundle!ServiceInv /\ Bundle!StateInv(state) /\ Bundle!CallInv(state, call)
      /\ Bundle!OwnInv(state, call, imported \cup late)
      /\ ~lost /\ ~relabelled /\ late = {} =>
           Bundle!AddInv(state, call) /\ Bundle!FreshInv(state, call) /\ Bundle!ClaimInv(state, call)
      /\ ~lost /\ ~relabelled /\ edits = 0 => Bundle!QuietInv(state, call)
  BY DEF Bundle!IInv
<1> QED  BY <1>1, <1>2, <1>3

LEMMA BundleTypeOK ==
  ASSUME roas' \in [ROAHandles -> Contents \cup {None}],
         aspas' \in [Customers -> ProviderSets \cup {None}],
         by' \in [ROAHandles -> 0 .. MaxTransactions],
         wire' \subseteq Bundle!Request, sent' \in 0 .. MaxTransactions, edits' \in 0 .. MaxEdits,
         state' \in Bundle!State \cup {None}, call' \in Bundle!Call \cup {None},
         lost' \in BOOLEAN, relabelled' \in BOOLEAN,
         imported' \subseteq ROAHandles, late' \subseteq ROAHandles, crashes' \in 0 .. MaxCrashes
  PROVE  Bundle!TypeOK'
BY DEF Bundle!TypeOK, Bundle!ServiceTypeOK, Bundle!ROAs, Bundle!ASPAs

\* The fields of plans, states and calls.
LEMMA BundlePlanFields ==
  ASSUME NEW p \in Bundle!Plan
  PROVE  /\ p.desired \in Bundle!Desired
         /\ p.desired.roas \in [Labels -> Contents \cup {None}]
         /\ p.desired.aspas \in [Customers -> ProviderSets \cup {None}]
         /\ p.prior \in Bundle!Ownership /\ p.prior.roas \in [Labels -> ROAHandles \cup {None}]
         /\ p.prior.aspas \subseteq Customers
         /\ p.tx \in Bundle!Tx /\ p.tx.addROAs \subseteq Contents /\ p.tx.deleteROAs \subseteq ROAHandles
         /\ p.baseline \subseteq ROAHandles /\ p.retained \in [Labels -> ROAHandles \cup {None}]
<1>1. /\ p.desired \in Bundle!Desired /\ p.prior \in Bundle!Ownership /\ p.tx \in Bundle!Tx
      /\ p.baseline \subseteq ROAHandles /\ p.retained \in [Labels -> ROAHandles \cup {None}]
  BY DEF Bundle!Plan
<1>2. /\ p.desired.roas \in [Labels -> Contents \cup {None}]
      /\ p.desired.aspas \in [Customers -> ProviderSets \cup {None}]
  BY <1>1 DEF Bundle!Desired, Bundle!ASPAs
<1>3. p.prior.roas \in [Labels -> ROAHandles \cup {None}] /\ p.prior.aspas \subseteq Customers
  BY <1>1 DEF Bundle!Ownership
<1>4. p.tx.addROAs \subseteq Contents /\ p.tx.deleteROAs \subseteq ROAHandles
  BY <1>1 DEF Bundle!Tx
<1> QED  BY <1>1, <1>2, <1>3, <1>4

LEMMA BundleStateFields ==
  ASSUME NEW s \in Bundle!State
  PROVE  /\ s.owned \in Bundle!Ownership /\ s.owned.roas \in [Labels -> ROAHandles \cup {None}]
         /\ s.owned.aspas \subseteq Customers
         /\ s.recovery \in Bundle!Journal \cup {None}
         /\ s.recovery # None => s.recovery.plan \in Bundle!Plan /\ s.recovery.returned \in Bundle!Receipt
<1>1. s.owned \in Bundle!Ownership /\ s.recovery \in Bundle!Journal \cup {None}
  BY DEF Bundle!State
<1>2. s.owned.roas \in [Labels -> ROAHandles \cup {None}] /\ s.owned.aspas \subseteq Customers
  BY <1>1 DEF Bundle!Ownership
<1>3. s.recovery # None => s.recovery.plan \in Bundle!Plan /\ s.recovery.returned \in Bundle!Receipt
  BY <1>1 DEF Bundle!Journal
<1> QED  BY <1>1, <1>2, <1>3

LEMMA BundleCallFields ==
  ASSUME NEW q \in Bundle!Call
  PROVE  /\ q.op \in {"write", "read", "import"}
         /\ q.at \in {"list", "aspas", "post", "answer", "verify", "after", "afterASPAs"}
         /\ q.desired \in Bundle!Desired /\ q.prior \in Bundle!State \cup {None}
         /\ q.seen \in [ROAHandles -> Contents \cup {None}] /\ q.plan \in Bundle!Plan \cup {None}
         /\ q.n \in 0 .. MaxTransactions /\ q.answer \in Bundle!Answer \cup {None}
BY DEF Bundle!Call, Bundle!ROAs

\* A step of the resource leaves the inventories and requests alone, and
\* leaves the state s and the call q.
LEMMA BundleMoves ==
  ASSUME Bundle!Assumption, Bundle!IInv,
         NEW s \in Bundle!State \cup {None}, NEW q \in Bundle!Call \cup {None}, NEW I \in SUBSET ROAHandles,
         state' = s, call' = q, UNCHANGED Bundle!service, late' = late, imported' = I,
         lost' \in BOOLEAN, relabelled' \in BOOLEAN, lost => lost', relabelled => relabelled',
         crashes' \in 0 .. MaxCrashes,
         Bundle!StateInv(s), Bundle!CallInv(s, q), Bundle!OwnInv(s, q, I \cup late),
         ~lost' /\ ~relabelled' /\ late = {} =>
           Bundle!AddInv(s, q) /\ Bundle!FreshInv(s, q) /\ Bundle!ClaimInv(s, q),
         ~lost' /\ ~relabelled' /\ edits = 0 => Bundle!QuietInv(s, q)
  PROVE  Bundle!IInv'
<1>1. /\ roas' = roas /\ by' = by /\ aspas' = aspas /\ wire' = wire /\ sent' = sent /\ edits' = edits
      /\ Bundle!Adding' = Bundle!Adding
  BY DEF Bundle!service, Bundle!Adding
<1>2. Bundle!TypeOK'
  BY <1>1, BundleTypes, BundleTypeOK
<1>3. Bundle!ServiceInv'
  BY <1>1, BundleTypes DEF Bundle!ServiceInv, Bundle!UniqueKeys, Bundle!Live
<1>4. Bundle!StateInv(state)'
  BY DEF Bundle!StateInv
<1>5. Bundle!CallInv(state, call)'
  BY <1>1 DEF Bundle!CallInv
<1>6. \A h, J : Bundle!Own(h, J)' <=> Bundle!Own(h, J)
  BY <1>1 DEF Bundle!Own
<1>7. \A p, J : Bundle!PlanOwn(p, J)' <=> Bundle!PlanOwn(p, J)
  BY <1>6 DEF Bundle!PlanOwn
<1>8. Bundle!OwnInv(state, call, imported \cup late)'
  BY <1>1, <1>6, <1>7 DEF Bundle!OwnInv
<1>9. Bundle!PlanOf(state, call)' = Bundle!PlanOf(s, q)
  BY DEF Bundle!PlanOf
<1>10. ASSUME ~lost', ~relabelled', late = {}
       PROVE  (Bundle!AddInv(state, call) /\ Bundle!FreshInv(state, call) /\ Bundle!ClaimInv(state, call))'
  <2>1. Bundle!AddInv(state, call)'
    BY <1>1, <1>9, <1>10 DEF Bundle!AddInv
  <2>2. Bundle!FreshInv(state, call)'
    BY <1>1, <1>9, <1>10 DEF Bundle!FreshInv
  <2>3. Bundle!ClaimInv(state, call)'
    BY <1>1, <1>9, <1>10 DEF Bundle!ClaimInv, Bundle!Ours
  <2> QED  BY <2>1, <2>2, <2>3
<1>11. ASSUME ~lost', ~relabelled', edits = 0
       PROVE  Bundle!QuietInv(state, call)'
  BY <1>1, <1>9, <1>11 DEF Bundle!QuietInv
<1> QED  BY <1>1, <1>2, <1>3, <1>4, <1>5, <1>8, <1>10, <1>11 DEF Bundle!IInv

\* Two labels of a configuration never want the same origin and prefix.
LEMMA BundleLabels ==
  ASSUME Bundle!Assumption, Bundle!IInv, NEW d \in Configs \cup {Bundle!Nothing},
         NEW l \in Labels, NEW k \in Labels, l # k, d.roas[l] # None, d.roas[k] # None
  PROVE  KeyOf[d.roas[l]] # KeyOf[d.roas[k]] /\ d.roas[l] # d.roas[k]
<1>1. d # Bundle!Nothing
  BY DEF Bundle!Nothing
<1> QED  BY <1>1, BundleTypes DEF Bundle!ValidConfigs

LEMMA BundleDesired ==
  ASSUME Bundle!Assumption, Bundle!IInv, NEW d \in Configs \cup {Bundle!Nothing}
  PROVE  /\ d \in Bundle!Desired
         /\ d.roas \in [Labels -> Contents \cup {None}]
         /\ d.aspas \in [Customers -> ProviderSets \cup {None}]
<1>1. Bundle!Nothing \in Bundle!Desired
  BY DEF Bundle!Nothing, Bundle!Desired, Bundle!ASPAs
<1>2. d \in Bundle!Desired
  BY <1>1, BundleTypes
<1> QED  BY <1>2 DEF Bundle!Desired, Bundle!ASPAs

\* The plan of a write, from a settled state's ownership or none.
LEMMA BundlePlans ==
  ASSUME Bundle!Assumption, Bundle!IInv,
         NEW prior \in Bundle!Ownership, Bundle!Injective(prior),
         NEW d \in Configs \cup {Bundle!Nothing},
         NEW R \in [ROAHandles -> Contents \cup {None}],
         NEW S \in [Customers -> ProviderSets \cup {None}],
         NEW p, p = Bundle!PlanRPKIBundle(prior, d, R, S)
  PROVE  /\ p \in Bundle!Plan /\ Bundle!PlanOK(p)
         /\ p.desired = d /\ p.prior = prior /\ p.baseline = Bundle!Live(R)
         /\ p.tx.deleteROAs \subseteq Bundle!Owned(prior)
         /\ p.tx = Bundle!Transaction(prior, d, p.retained, R, S)
         /\ \A l \in Labels : p.retained[l] # None =>
              p.retained[l] \in Bundle!Owned(prior) /\ R[p.retained[l]] = d.roas[l]
<1> DEFINE ret == Bundle!Retained(prior, d, R)
           t == Bundle!Transaction(prior, d, ret, R, S)
<1>1. /\ prior.roas \in [Labels -> ROAHandles \cup {None}] /\ prior.aspas \subseteq Customers
      /\ d \in Bundle!Desired /\ d.roas \in [Labels -> Contents \cup {None}]
      /\ d.aspas \in [Customers -> ProviderSets \cup {None}]
  BY BundleDesired DEF Bundle!Ownership
<1>2. /\ ret \in [Labels -> ROAHandles \cup {None}]
      /\ \A l \in Labels : ret[l] # None =>
           ret[l] = prior.roas[l] /\ d.roas[l] # None /\ R[ret[l]] = d.roas[l]
  BY <1>1 DEF Bundle!Retained
<1>3. p = [desired |-> d, prior |-> prior, baseline |-> Bundle!Live(R), retained |-> ret, tx |-> t]
  BY DEF Bundle!PlanRPKIBundle
<1> HIDE DEF ret
<1>4. /\ t.addROAs = {d.roas[l] : l \in {k \in Labels : d.roas[k] # None /\ ret[k] = None}}
      /\ t.deleteROAs = {prior.roas[l] : l \in {k \in Labels : prior.roas[k] # None /\ ret[k] = None}}
                          \cap Bundle!Live(R)
      /\ t.deleteASPAs = {c \in prior.aspas : S[c] # None /\ S[c] # d.aspas[c]}
      /\ t.addASPAs = [c \in Customers |-> IF S[c] # d.aspas[c] THEN d.aspas[c] ELSE None]
      /\ t = [deleteROAs |-> t.deleteROAs, addROAs |-> t.addROAs,
              deleteASPAs |-> t.deleteASPAs, addASPAs |-> t.addASPAs]
  BY DEF Bundle!Transaction
<1>13. t = Bundle!Transaction(prior, d, ret, R, S)
  OBVIOUS
<1> HIDE DEF t
<1>5. /\ t.addROAs \subseteq Contents /\ t.deleteROAs \subseteq ROAHandles
      /\ t.deleteASPAs \subseteq Customers
      /\ t.addASPAs \in [Customers -> ProviderSets \cup {None}]
  BY <1>1, <1>4 DEF Bundle!Live
<1>6. t \in Bundle!Tx
  BY <1>4, <1>5 DEF Bundle!Tx, Bundle!ASPAs
<1>7. p \in Bundle!Plan
  BY <1>1, <1>2, <1>3, <1>6 DEF Bundle!Plan, Bundle!Live
<1>8. /\ p.desired = d /\ p.prior = prior /\ p.baseline = Bundle!Live(R)
      /\ p.retained = ret /\ p.tx = t
  BY <1>3
<1>9. Bundle!AddedLabels(p) = {k \in Labels : d.roas[k] # None /\ ret[k] = None}
  BY <1>8 DEF Bundle!AddedLabels
<1>10. Bundle!PlanOK(p)
  BY <1>2, <1>4, <1>8, <1>9 DEF Bundle!PlanOK
<1>11. \A l \in Labels : prior.roas[l] # None => prior.roas[l] \in Bundle!Owned(prior)
  BY DEF Bundle!Owned
<1>12. t.deleteROAs \subseteq Bundle!Owned(prior)
  BY <1>4, <1>11
<1> QED  BY <1>2, <1>7, <1>8, <1>10, <1>11, <1>12, <1>13

\* A plan without a conflict that moves no content to another label adds
\* nothing that is there.
LEMMA BundleNotCopied ==
  ASSUME Bundle!Assumption, Bundle!IInv, NEW p \in Bundle!Plan, Bundle!PlanOK(p),
         NEW R \in [ROAHandles -> Contents \cup {None}], NEW S,
         ~Bundle!Conflict(p, R, S), \A h \in p.tx.deleteROAs : R[h] \notin p.tx.addROAs
  PROVE  ~Bundle!Copied(p, R)
<1> SUFFICES ASSUME NEW l \in Bundle!AddedLabels(p), NEW h \in ROAHandles, R[h] = p.desired.roas[l]
             PROVE  FALSE
  BY DEF Bundle!Copied
<1>1. R[h] \in p.tx.addROAs /\ R[h] # None
  BY DEF Bundle!PlanOK, Bundle!AddedLabels
<1>2. h \in Bundle!Live(R) \ p.tx.deleteROAs
  BY <1>1 DEF Bundle!Live
<1> QED  BY <1>2 DEF Bundle!Conflict

\* Such a plan that changes anything is not confirmed by the inventories it
\* was made from.
LEMMA BundleNotDone ==
  ASSUME Bundle!Assumption, Bundle!IInv,
         NEW prior \in Bundle!Ownership, Bundle!Injective(prior),
         NEW d \in Configs \cup {Bundle!Nothing},
         NEW R \in [ROAHandles -> Contents \cup {None}],
         NEW S \in [Customers -> ProviderSets \cup {None}],
         NEW p, p = Bundle!PlanRPKIBundle(prior, d, R, S),
         ~Bundle!Conflict(p, R, S), \A h \in p.tx.deleteROAs : R[h] \notin p.tx.addROAs,
         ~Bundle!Empty(p.tx)
  PROVE  ~Bundle!Done(p, R, S)
<1>0. /\ p \in Bundle!Plan /\ Bundle!PlanOK(p) /\ p.desired = d /\ p.prior = prior
      /\ p.tx = Bundle!Transaction(prior, d, p.retained, R, S)
  BY BundlePlans
<1>1. /\ p \in Bundle!Plan /\ Bundle!PlanOK(p)
      /\ p.desired = d /\ p.prior = prior
      /\ p.tx.deleteROAs = {prior.roas[l] : l \in {k \in Labels : prior.roas[k] # None /\ p.retained[k] = None}}
                             \cap Bundle!Live(R)
      /\ p.tx.deleteASPAs = {c \in prior.aspas : S[c] # None /\ S[c] # d.aspas[c]}
      /\ p.tx.addASPAs = [c \in Customers |-> IF S[c] # d.aspas[c] THEN d.aspas[c] ELSE None]
  BY <1>0 DEF Bundle!Transaction
<1>2. ~Bundle!Copied(p, R)
  BY <1>1, BundleNotCopied
<1> SUFFICES ASSUME Bundle!ROAsConfirmed(p, R), Bundle!ASPAsConfirmed(p, S) PROVE FALSE
  BY DEF Bundle!Done
<1>3. Bundle!AddedLabels(p) = {}
  <2> SUFFICES ASSUME NEW l \in Bundle!AddedLabels(p) PROVE FALSE
    OBVIOUS
  <2>1. PICK h \in ROAHandles : Bundle!Candidates(p, l, R) = {h}
    BY DEF Bundle!ROAsConfirmed
  <2>2. R[h] = p.desired.roas[l]
    BY <2>1 DEF Bundle!Candidates
  <2> QED  BY <1>2, <2>2 DEF Bundle!Copied
<1>4. p.tx.addROAs = {}
  BY <1>1, <1>3 DEF Bundle!PlanOK
<1>5. p.tx.deleteROAs = {}
  <2> SUFFICES ASSUME NEW h \in p.tx.deleteROAs PROVE FALSE
    OBVIOUS
  <2>1. PICK k \in Labels : h = prior.roas[k] /\ prior.roas[k] # None /\ p.retained[k] = None
    BY <1>1
  <2>2. R[h] # None /\ h \in Bundle!Owned(p.prior)
    BY <1>1, <2>1 DEF Bundle!Live, Bundle!Owned
  <2>3. PICK l \in Labels : Bundle!Reconciled(p, R)[l] = h
    BY <2>2 DEF Bundle!ROAsConfirmed
  <2>4. p.desired.roas[l] # None => p.retained[l] # None
    BY <1>3 DEF Bundle!AddedLabels
  <2>5. p.retained[l] = h
    BY <2>1, <2>3, <2>4 DEF Bundle!Reconciled
  <2>6. p.retained[l] = prior.roas[l]
    BY <1>1, <2>1, <2>5 DEF Bundle!PlanOK
  <2>7. l = k
    BY <2>1, <2>5, <2>6 DEF Bundle!Injective
  <2> QED  BY <2>1, <2>5, <2>7
<1>6. p.tx.deleteASPAs = {}
  BY <1>1 DEF Bundle!ASPAsConfirmed, Bundle!Ownership
<1>7. p.tx.addASPAs = [c \in Customers |-> None]
  <2>1. \A c \in Customers : S[c] # d.aspas[c] => d.aspas[c] = None
    BY <1>1 DEF Bundle!ASPAsConfirmed
  <2> QED  BY <1>1, <2>1
<1>8. p.tx = Bundle!NoTx
  <2>1. p.tx \in Bundle!Tx
    BY <1>1, BundlePlanFields
  <2> QED  BY <1>4, <1>5, <1>6, <1>7, <2>1 DEF Bundle!Tx, Bundle!NoTx
<1> QED  BY <1>8 DEF Bundle!Empty

\* What ReconcileRPKIBundle makes of inventories that confirm the ROAs of a plan.
LEMMA BundleReconciles ==
  ASSUME Bundle!Assumption, Bundle!IInv, NEW p \in Bundle!Plan, Bundle!PlanOK(p),
         NEW R \in [ROAHandles -> Contents \cup {None}], Bundle!ROAsConfirmed(p, R),
         NEW c, c = Bundle!Reconciled(p, R)
  PROVE  /\ c \in [Labels -> ROAHandles \cup {None}]
         /\ \A l \in Bundle!AddedLabels(p) :
              c[l] # None /\ Bundle!Candidates(p, l, R) = {c[l]} /\ R[c[l]] = p.desired.roas[l]
         /\ \A l \in Labels : p.retained[l] # None => c[l] = p.retained[l]
         /\ \A l \in Labels : c[l] # None => p.desired.roas[l] # None /\ R[c[l]] = p.desired.roas[l]
         /\ \A l, k \in Labels : c[l] # None /\ c[l] = c[k] => l = k
<1>1. /\ p.desired.roas \in [Labels -> Contents \cup {None}]
      /\ p.retained \in [Labels -> ROAHandles \cup {None}] /\ None \notin ROAHandles
  BY BundlePlanFields, BundleTypes
<1>2. c = [l \in Labels |-> IF p.retained[l] # None THEN p.retained[l]
                            ELSE IF p.desired.roas[l] # None THEN CHOOSE h \in Bundle!Candidates(p, l, R) : TRUE
                            ELSE None]
  BY DEF Bundle!Reconciled
<1>3. ASSUME NEW l \in Bundle!AddedLabels(p)
      PROVE  /\ c[l] \in ROAHandles /\ Bundle!Candidates(p, l, R) = {c[l]}
             /\ R[c[l]] = p.desired.roas[l]
  <2>1. PICK h \in ROAHandles : Bundle!Candidates(p, l, R) = {h}
    BY <1>3 DEF Bundle!ROAsConfirmed
  <2> DEFINE C == Bundle!Candidates(p, l, R)
  <2>2. c[l] = CHOOSE g \in C : TRUE
    BY <1>2 DEF Bundle!AddedLabels
  <2>3. R[h] = p.desired.roas[l]
    BY <2>1 DEF Bundle!Candidates
  <2>4. C = {h}
    BY <2>1
  <2> HIDE DEF C
  <2>5. c[l] = h
    BY <2>2, <2>4
  <2> QED  BY <2>1, <2>3, <2>5
<1>4. ASSUME NEW l \in Labels, l \notin Bundle!AddedLabels(p)
      PROVE  c[l] = p.retained[l]
  <2>1. p.desired.roas[l] = None \/ p.retained[l] # None
    BY <1>4 DEF Bundle!AddedLabels
  <2>2. p.desired.roas[l] = None => p.retained[l] = None
    BY DEF Bundle!PlanOK
  <2> QED  BY <1>2, <2>1, <2>2
<1>5. \A l \in Labels : p.retained[l] # None => l \notin Bundle!AddedLabels(p)
  BY DEF Bundle!AddedLabels
<1>6. c \in [Labels -> ROAHandles \cup {None}]
  <2>1. \A l \in Labels : c[l] \in ROAHandles \cup {None}
    BY <1>1, <1>3, <1>4
  <2> QED  BY <1>2, <2>1
<1>7. \A l \in Labels : c[l] # None => p.desired.roas[l] # None /\ R[c[l]] = p.desired.roas[l]
  <2>1. \A l \in Labels : p.retained[l] # None =>
          p.desired.roas[l] # None /\ R[p.retained[l]] = p.desired.roas[l]
    BY DEF Bundle!PlanOK, Bundle!ROAsConfirmed
  <2>2. \A l \in Bundle!AddedLabels(p) : p.desired.roas[l] # None
    BY DEF Bundle!AddedLabels
  <2> QED  BY <1>3, <1>4, <2>1, <2>2
<1>8. \A l, k \in Labels : c[l] # None /\ c[l] = c[k] => l = k
  <2> SUFFICES ASSUME NEW l \in Labels, NEW k \in Labels, c[l] # None, c[l] = c[k], l # k PROVE FALSE
    OBVIOUS
  <2>1. p.desired.roas[l] # None /\ p.desired.roas[l] = p.desired.roas[k]
    BY <1>7
  <2> QED  BY <2>1, BundleLabels DEF Bundle!PlanOK
<1> QED  BY <1>1, <1>3, <1>4, <1>5, <1>6, <1>7, <1>8

\* The running call's fields and what the invariant says of it.
LEMMA BundleCallNow ==
  ASSUME Bundle!Assumption, Bundle!IInv, call # None
  PROVE  /\ call \in Bundle!Call
         /\ call.op \in {"write", "read", "import"}
         /\ call.at \in {"list", "aspas", "post", "answer", "verify", "after", "afterASPAs"}
         /\ call.desired \in Bundle!Desired /\ call.prior \in Bundle!State \cup {None}
         /\ call.seen \in [ROAHandles -> Contents \cup {None}] /\ call.plan \in Bundle!Plan \cup {None}
         /\ call.n \in 0 .. MaxTransactions /\ call.answer \in Bundle!Answer \cup {None}
         /\ (call.plan # None) = (call.at \in {"post", "answer", "verify", "after", "afterASPAs"})
         /\ Bundle!UniqueKeys(call.seen) /\ call.desired \in Configs \cup {Bundle!Nothing}
         /\ call.op = "write" => call.prior = state /\ Bundle!MayWrite(state)
         /\ call.op = "read" => call.prior = state /\ state # None
         /\ call.op = "import" => /\ state = None /\ call.prior # None
                                  /\ call.prior.recovery = None /\ Bundle!Injective(call.prior.owned)
         /\ call.op # "write" => call.at \in {"list", "aspas"}
         /\ call.plan # None => Bundle!PlanOK(call.plan) /\ call.plan.prior = Bundle!Before(call.prior)
         /\ call.at \in {"list", "aspas", "post"} => call.n = 0 /\ call.answer = None
         /\ call.at \in {"verify", "after", "afterASPAs"} => call.answer # None /\ ~Bundle!IsRejected(call.answer)
         /\ call.n <= sent /\ \A r \in wire : r.n = call.n => r.tx = call.plan.tx
<1>1. call \in Bundle!Call /\ Bundle!CallInv(state, call)
  BY BundleTypes
<1>2. /\ call.op \in {"write", "read", "import"}
      /\ call.at \in {"list", "aspas", "post", "answer", "verify", "after", "afterASPAs"}
      /\ call.desired \in Bundle!Desired /\ call.prior \in Bundle!State \cup {None}
      /\ call.seen \in [ROAHandles -> Contents \cup {None}] /\ call.plan \in Bundle!Plan \cup {None}
      /\ call.n \in 0 .. MaxTransactions /\ call.answer \in Bundle!Answer \cup {None}
  BY <1>1, BundleCallFields
<1> QED  BY <1>1, <1>2 DEF Bundle!CallInv

\* The ownership a plan starts from.
LEMMA BundleBefore ==
  ASSUME Bundle!Assumption, Bundle!IInv
  PROVE  /\ Bundle!Before(state) \in Bundle!Ownership /\ Bundle!Injective(Bundle!Before(state))
         /\ Bundle!Owned(Bundle!Before(state)) = IF state = None THEN {} ELSE Bundle!Owned(state.owned)
         /\ \A h \in Bundle!Owned(Bundle!Before(state)) : Bundle!Own(h, imported \cup late)
<1>1. CASE state = None
  <2>1. Bundle!Before(state) = Bundle!NoOwnership
    BY <1>1 DEF Bundle!Before
  <2>2. Bundle!NoOwnership \in Bundle!Ownership /\ Bundle!Injective(Bundle!NoOwnership)
        /\ Bundle!Owned(Bundle!NoOwnership) = {}
    BY DEF Bundle!NoOwnership, Bundle!Ownership, Bundle!Injective, Bundle!Owned
  <2> QED  BY <1>1, <2>1, <2>2
<1>2. CASE state # None
  <2>1. state \in Bundle!State /\ Bundle!StateInv(state) /\ Bundle!OwnInv(state, call, imported \cup late)
    BY <1>2, BundleTypes
  <2>2. Bundle!Before(state) = state.owned
    BY <1>2 DEF Bundle!Before
  <2>3. state.owned \in Bundle!Ownership
    BY <2>1, BundleStateFields
  <2> QED  BY <1>2, <2>1, <2>2, <2>3 DEF Bundle!StateInv, Bundle!OwnInv
<1> QED  BY <1>1, <1>2

\* A request carries a number from 1.
LEMMA BundleNumbers ==
  ASSUME Bundle!Assumption, Bundle!IInv, NEW r \in wire
  PROVE  r.n \in 1 .. MaxTransactions /\ r.n <= sent /\ r.tx \in Bundle!Tx
<1>1. r \in Bundle!Request /\ Bundle!ServiceInv
  BY BundleTypes
<1> QED  BY <1>1 DEF Bundle!Request, Bundle!ServiceInv

LEMMA BundleStart ==
  ASSUME Bundle!Assumption, Bundle!IInv, NEW op \in {"write", "read", "import"},
         NEW d \in Configs \cup {Bundle!Nothing}, NEW prior \in Bundle!State \cup {None},
         Bundle!Start(op, d, prior),
         op = "write" => prior = state /\ Bundle!MayWrite(state),
         op = "read" => prior = state /\ state # None,
         op = "import" => /\ state = None /\ prior # None
                          /\ prior.recovery = None /\ Bundle!Injective(prior.owned)
  PROVE  Bundle!IInv'
<1> DEFINE q == [op |-> op, at |-> "list", desired |-> d, prior |-> prior, seen |-> roas,
                 plan |-> None, n |-> 0, answer |-> None]
<1>1. /\ call = None /\ call' = q /\ UNCHANGED Bundle!service /\ state' = state
      /\ lost' = lost /\ relabelled' = relabelled /\ imported' = imported /\ late' = late /\ crashes' = crashes
  BY DEF Bundle!Start, Bundle!history
<1>2. q \in Bundle!Call
  <2>1. d \in Bundle!Desired /\ roas \in Bundle!ROAs /\ 0 \in 0 .. MaxTransactions
    BY BundleDesired, BundleTypes DEF Bundle!ROAs
  <2> QED  BY <2>1 DEF Bundle!Call
<1>3. /\ q.op = op /\ q.at = "list" /\ q.desired = d /\ q.prior = prior /\ q.seen = roas
      /\ q.plan = None /\ q.n = 0 /\ q.answer = None
  OBVIOUS
<1>4. q # None
  BY <1>2, BundleTypes
<1> HIDE DEF q
<1>5. 0 <= sent /\ Bundle!UniqueKeys(roas) /\ \A r \in wire : r.n # 0
  BY BundleTypes, BundleNumbers DEF Bundle!ServiceInv
<1>6. Bundle!CallInv(state, q)
  BY <1>3, <1>5 DEF Bundle!CallInv
<1>7. Bundle!PlanOf(state, q) = Bundle!PlanOf(state, call)
  BY <1>1, <1>3 DEF Bundle!PlanOf
<1>8. ~Bundle!Looking(q) /\ ~Bundle!Unsent(q)
  BY <1>3 DEF Bundle!Looking, Bundle!Unsent
<1>9. Bundle!OwnInv(state, q, imported \cup late)
  BY <1>3, BundleTypes DEF Bundle!OwnInv
<1>10. ASSUME ~lost, ~relabelled, late = {}
       PROVE  Bundle!AddInv(state, q) /\ Bundle!FreshInv(state, q) /\ Bundle!ClaimInv(state, q)
  <2>1. Bundle!AddInv(state, call) /\ Bundle!ClaimInv(state, call)
    BY <1>10, BundleTypes
  <2> QED  BY <1>7, <1>8, <2>1 DEF Bundle!AddInv, Bundle!FreshInv, Bundle!ClaimInv
<1>11. ASSUME ~lost, ~relabelled, edits = 0 PROVE Bundle!QuietInv(state, q)
  <2>1. Bundle!QuietInv(state, call)
    BY <1>11, BundleTypes
  <2> QED  BY <1>3, <1>7, <1>8, <2>1 DEF Bundle!QuietInv
<1>12. /\ state \in Bundle!State \cup {None} /\ q \in Bundle!Call \cup {None} /\ imported \in SUBSET ROAHandles
       /\ lost' \in BOOLEAN /\ relabelled' \in BOOLEAN /\ crashes' \in 0 .. MaxCrashes
       /\ Bundle!StateInv(state)
  BY <1>1, <1>2, BundleTypes
<1> QED  BY <1>1, <1>6, <1>9, <1>10, <1>11, <1>12, BundleMoves

LEMMA BundleList == ASSUME Bundle!Assumption, Bundle!IInv, Bundle!ListROAs PROVE Bundle!IInv'
<1> DEFINE next == IF call.at = "list" THEN "aspas" ELSE "afterASPAs"
           q == [call EXCEPT !.seen = roas, !.at = next]
<1>1. /\ call # None /\ call.at \in {"list", "after"} /\ call' = q
      /\ UNCHANGED Bundle!service /\ state' = state
      /\ lost' = lost /\ relabelled' = relabelled /\ imported' = imported /\ late' = late /\ crashes' = crashes
  BY DEF Bundle!ListROAs, Bundle!history
<1>2. q \in Bundle!Call
  <2>1. call \in Bundle!Call /\ roas \in Bundle!ROAs /\ next \in {"aspas", "afterASPAs"}
    BY <1>1, BundleCallNow, BundleTypes DEF Bundle!ROAs
  <2> HIDE DEF next
  <2> QED  BY <2>1 DEF Bundle!Call
<1>3. /\ q.op = call.op /\ q.at = next /\ q.desired = call.desired /\ q.prior = call.prior /\ q.seen = roas
      /\ q.plan = call.plan /\ q.n = call.n /\ q.answer = call.answer
  BY <1>1, BundleCallNow DEF Bundle!Call
<1>4. q # None
  BY <1>2, BundleTypes
<1>5. /\ call.at = "list" => next = "aspas"
      /\ call.at = "after" => next = "afterASPAs"
      /\ next \in {"aspas", "afterASPAs"}
  BY <1>1
<1> HIDE DEF q, next
<1>6. Bundle!UniqueKeys(roas) /\ Bundle!CallInv(state, call) /\ Bundle!OwnInv(state, call, imported \cup late)
  BY BundleTypes DEF Bundle!ServiceInv
<1>7. Bundle!CallInv(state, q)
  <2>1. /\ (q.plan # None) = (q.at \in {"post", "answer", "verify", "after", "afterASPAs"})
        /\ q.op # "write" => q.at \in {"list", "aspas"}
        /\ q.at \in {"list", "aspas", "post"} => q.n = 0 /\ q.answer = None
        /\ q.at \in {"verify", "after", "afterASPAs"} => q.answer # None /\ ~Bundle!IsRejected(q.answer)
    BY <1>1, <1>3, <1>5, BundleCallNow
  <2> QED  BY <1>1, <1>3, <1>6, <2>1, BundleCallNow DEF Bundle!CallInv
<1>8. Bundle!PlanOf(state, q) = Bundle!PlanOf(state, call)
  BY <1>1, <1>3, <1>4 DEF Bundle!PlanOf
<1>9. Bundle!Unsent(q) = Bundle!Unsent(call)
  BY <1>1, <1>3, <1>4 DEF Bundle!Unsent
<1>10. Bundle!OwnInv(state, q, imported \cup late)
  <2>1. \A h \in ROAHandles \ Bundle!Live(q.seen) : Bundle!Own(h, imported \cup late)
    BY <1>3 DEF Bundle!Own, Bundle!Live
  <2> QED  BY <1>1, <1>3, <1>6, <2>1 DEF Bundle!OwnInv
<1>11. ASSUME ~lost, ~relabelled, late = {}
       PROVE  Bundle!AddInv(state, q) /\ Bundle!FreshInv(state, q) /\ Bundle!ClaimInv(state, q)
  <2>1. Bundle!AddInv(state, call) /\ Bundle!ClaimInv(state, call)
    BY <1>11, BundleTypes
  <2>2. Bundle!AddInv(state, q)
    BY <1>1, <1>3, <1>8, <1>9, <2>1 DEF Bundle!AddInv, Bundle!Unsent
  <2> QED  BY <1>3, <1>8, <2>1, <2>2 DEF Bundle!FreshInv, Bundle!ClaimInv
<1>12. ASSUME ~lost, ~relabelled, edits = 0 PROVE Bundle!QuietInv(state, q)
  <2>1. Bundle!QuietInv(state, call)
    BY <1>12, BundleTypes
  <2> QED  BY <1>3, <1>5, <1>8, <1>9, <2>1 DEF Bundle!QuietInv
<1>13. /\ state \in Bundle!State \cup {None} /\ q \in Bundle!Call \cup {None} /\ imported \in SUBSET ROAHandles
       /\ lost' \in BOOLEAN /\ relabelled' \in BOOLEAN /\ crashes' \in 0 .. MaxCrashes
       /\ Bundle!StateInv(state)
  BY <1>1, <1>2, BundleTypes
<1> QED  BY <1>1, <1>7, <1>10, <1>11, <1>12, <1>13, BundleMoves

\* A write goes on with its plan, its answer not a rejection.
LEMMA BundleContinue ==
  ASSUME Bundle!Assumption, Bundle!IInv, call # None, call.plan # None,
         NEW at \in {"answer", "verify", "after"}, NEW a \in Bundle!Answer \cup {None},
         ~Bundle!IsRejected(a), at # "answer" => a # None,
         call' = [call EXCEPT !.at = at, !.answer = a], state' = state,
         UNCHANGED Bundle!service, UNCHANGED Bundle!history, crashes' = crashes
  PROVE  Bundle!IInv'
<1> DEFINE q == [call EXCEPT !.at = at, !.answer = a]
<1>1. lost' = lost /\ relabelled' = relabelled /\ imported' = imported /\ late' = late
  BY DEF Bundle!history
<1>2. call \in Bundle!Call
  BY BundleCallNow
<1>3. /\ q.op = call.op /\ q.at = at /\ q.desired = call.desired /\ q.prior = call.prior
      /\ q.seen = call.seen /\ q.plan = call.plan /\ q.n = call.n /\ q.answer = a
      /\ q \in Bundle!Call
  BY <1>2 DEF Bundle!Call
<1>4. q # None /\ call' = q
  BY <1>3, BundleTypes
<1> HIDE DEF q
<1>5. Bundle!CallInv(state, call) /\ Bundle!OwnInv(state, call, imported \cup late)
  BY BundleTypes
<1>6. call.op = "write" /\ call.at \notin {"list", "aspas"}
  BY BundleCallNow
<1>7. Bundle!CallInv(state, q)
  <2>1. /\ (q.plan # None) = (q.at \in {"post", "answer", "verify", "after", "afterASPAs"})
        /\ q.at \notin {"list", "aspas", "post"}
        /\ q.at \in {"verify", "after", "afterASPAs"} => q.answer # None /\ ~Bundle!IsRejected(q.answer)
    BY <1>3
  <2> QED  BY <1>3, <1>5, <1>6, <2>1, BundleCallNow DEF Bundle!CallInv
<1>8. Bundle!PlanOf(state, q) = Bundle!PlanOf(state, call)
  BY <1>3, <1>4 DEF Bundle!PlanOf
<1>9. /\ Bundle!Unsent(q) => Bundle!Unsent(call)
      /\ ~Bundle!Looking(q)
  BY <1>3, <1>4 DEF Bundle!Unsent, Bundle!Looking
<1>10. Bundle!OwnInv(state, q, imported \cup late)
  BY <1>3, <1>4, <1>5 DEF Bundle!OwnInv
<1>11. ASSUME ~lost, ~relabelled, late = {}
       PROVE  Bundle!AddInv(state, q) /\ Bundle!FreshInv(state, q) /\ Bundle!ClaimInv(state, q)
  <2>1. Bundle!AddInv(state, call) /\ Bundle!ClaimInv(state, call)
    BY <1>11, BundleTypes
  <2>2. Bundle!AddInv(state, q)
    BY <1>3, <1>8, <1>9, <2>1 DEF Bundle!AddInv
  <2> QED  BY <1>8, <1>9, <2>1, <2>2 DEF Bundle!FreshInv, Bundle!ClaimInv
<1>12. ASSUME ~lost, ~relabelled, edits = 0 PROVE Bundle!QuietInv(state, q)
  <2>1. Bundle!QuietInv(state, call)
    BY <1>12, BundleTypes
  <2> QED  BY <1>3, <1>8, <1>9, <2>1 DEF Bundle!QuietInv
<1>13. /\ state \in Bundle!State \cup {None} /\ q \in Bundle!Call \cup {None} /\ imported \in SUBSET ROAHandles
       /\ lost' \in BOOLEAN /\ relabelled' \in BOOLEAN /\ crashes' \in 0 .. MaxCrashes
       /\ Bundle!StateInv(state)
  BY <1>1, <1>3, BundleTypes
<1> QED  BY <1>1, <1>4, <1>7, <1>10, <1>11, <1>12, <1>13, BundleMoves

\* A call that ends with the state it found, its transaction refused or never
\* sent; or its outcome is lost.
LEMMA BundleDrops ==
  ASSUME Bundle!Assumption, Bundle!IInv, call # None, call' = None, state' = state,
         UNCHANGED Bundle!service, imported' = imported, late' = late, relabelled' = relabelled,
         lost' \in BOOLEAN, lost => lost', crashes' \in 0 .. MaxCrashes,
         ~lost' => call.plan = None \/ Bundle!Unsent(call)
  PROVE  Bundle!IInv'
<1>1. Bundle!CallInv(state, None) /\ ~Bundle!Looking(None) /\ ~Bundle!Unsent(None)
  BY DEF Bundle!CallInv, Bundle!Looking, Bundle!Unsent
<1>2. Bundle!OwnInv(state, None, imported \cup late)
  BY BundleTypes DEF Bundle!OwnInv
<1>3. call.plan = None => Bundle!PlanOf(state, None) = Bundle!PlanOf(state, call)
  BY DEF Bundle!PlanOf
<1>4. call.plan # None => Bundle!PlanOf(state, None) = None /\ Bundle!PlanOf(state, call) = call.plan
  BY BundleCallNow DEF Bundle!PlanOf, Bundle!MayWrite
<1>5. ASSUME ~lost', ~relabelled, late = {}
      PROVE  Bundle!AddInv(state, None) /\ Bundle!FreshInv(state, None) /\ Bundle!ClaimInv(state, None)
  <2>1. Bundle!AddInv(state, call) /\ Bundle!ClaimInv(state, call) /\ (call.plan = None \/ Bundle!Unsent(call))
    BY <1>5, BundleTypes
  <2>2. CASE call.plan = None
    BY <1>1, <1>3, <2>1, <2>2 DEF Bundle!AddInv, Bundle!FreshInv, Bundle!ClaimInv
  <2>3. CASE call.plan # None
    <3>1. Bundle!Adding = {} /\ ~Bundle!Copied(call.plan, roas)
      BY <2>1, <2>3 DEF Bundle!AddInv
    <3>2. \A h \in ROAHandles : Bundle!Ours(h) => state # None /\ h \in Bundle!Owned(state.owned)
      BY <1>4, <2>1, <2>3, <3>1 DEF Bundle!ClaimInv, Bundle!Copied
    <3> QED  BY <1>1, <3>1, <3>2 DEF Bundle!AddInv, Bundle!FreshInv, Bundle!ClaimInv
  <2> QED  BY <2>2, <2>3
<1>6. ASSUME ~lost', ~relabelled, edits = 0 PROVE Bundle!QuietInv(state, None)
  <2>1. Bundle!QuietInv(state, call) /\ (call.plan = None \/ Bundle!Unsent(call))
    BY <1>6, BundleTypes
  <2> QED  BY <1>1, <1>3, <1>4, <2>1 DEF Bundle!QuietInv
<1>7. /\ state \in Bundle!State \cup {None} /\ None \in Bundle!Call \cup {None} /\ imported \in SUBSET ROAHandles
      /\ relabelled' \in BOOLEAN /\ Bundle!StateInv(state)
  BY BundleTypes
<1> QED  BY <1>1, <1>2, <1>5, <1>6, <1>7, BundleMoves

\* The state a confirmed plan leaves owns what the plan retained and added.
LEMMA BundleSettles ==
  ASSUME Bundle!Assumption, Bundle!IInv, NEW p \in Bundle!Plan, Bundle!PlanOK(p),
         NEW R \in [ROAHandles -> Contents \cup {None}], Bundle!ROAsConfirmed(p, R),
         Bundle!UniqueKeys(R), NEW s, s = Bundle!SettledFrom(p, R)
  PROVE  /\ s \in Bundle!State \cup {None} /\ Bundle!StateInv(s) /\ (s # None => s.recovery = None)
         /\ \A h \in ROAHandles :
              /\ R[h] # None
              /\ h \in Bundle!Owned(p.prior) \/ \E l \in Bundle!AddedLabels(p) : R[h] = p.desired.roas[l]
              => s # None /\ h \in Bundle!Owned(s.owned)
         /\ \A I : Bundle!PlanOwn(p, I) /\ s # None => \A h \in Bundle!Owned(s.owned) : Bundle!Own(h, I)
<1> DEFINE c == Bundle!Reconciled(p, R)
           cs == {k \in Customers : p.desired.aspas[k] # None}
           own == [roas |-> c, aspas |-> cs]
           t == [owned |-> own, recovery |-> None]
<1>1. /\ c \in [Labels -> ROAHandles \cup {None}]
      /\ \A l \in Bundle!AddedLabels(p) :
           c[l] # None /\ Bundle!Candidates(p, l, R) = {c[l]} /\ R[c[l]] = p.desired.roas[l]
      /\ \A l \in Labels : p.retained[l] # None => c[l] = p.retained[l]
      /\ \A l \in Labels : c[l] # None => p.desired.roas[l] # None /\ R[c[l]] = p.desired.roas[l]
      /\ \A l, k \in Labels : c[l] # None /\ c[l] = c[k] => l = k
  BY BundleReconciles
<1>2. s = IF p.desired = Bundle!Nothing THEN None ELSE t
  BY DEF Bundle!SettledFrom, Bundle!Settled
<1>3. \A h \in Bundle!Owned(p.prior) : R[h] # None => \E l \in Labels : c[l] = h
  BY DEF Bundle!ROAsConfirmed
<1> HIDE DEF c
<1>4. own \in Bundle!Ownership
  BY <1>1 DEF Bundle!Ownership
<1>5. own.roas = c
  OBVIOUS
<1> HIDE DEF own
<1>6. t \in Bundle!State /\ t # None /\ t.owned = own /\ t.recovery = None
  <2>1. t \in Bundle!State
    BY <1>4 DEF Bundle!State
  <2> QED  BY <2>1, BundleTypes
<1> HIDE DEF t
<1>7. Bundle!StateInv(s)
  BY <1>1, <1>2, <1>5, <1>6 DEF Bundle!StateInv, Bundle!Injective
<1>8. \A l \in Labels : c[l] # None => c[l] \in Bundle!Owned(own)
  BY <1>5 DEF Bundle!Owned
<1>9. \A l \in Labels : p.desired.roas[l] # None => s # None
  BY <1>2, <1>6 DEF Bundle!Nothing
<1>10. None \notin ROAHandles /\ p.desired.roas \in [Labels -> Contents \cup {None}]
  BY BundleTypes, BundlePlanFields
<1>11. ASSUME NEW h \in ROAHandles, R[h] # None,
              h \in Bundle!Owned(p.prior) \/ \E l \in Bundle!AddedLabels(p) : R[h] = p.desired.roas[l]
       PROVE  s # None /\ h \in Bundle!Owned(s.owned)
  <2>1. \E l \in Labels : c[l] = h
    <3>1. CASE h \in Bundle!Owned(p.prior)
      BY <1>3, <1>11, <3>1
    <3>2. ASSUME NEW l \in Bundle!AddedLabels(p), R[h] = p.desired.roas[l]
          PROVE  \E k \in Labels : c[k] = h
      <4>1. c[l] \in ROAHandles /\ R[c[l]] = R[h] /\ l \in Labels
        BY <1>1, <3>2 DEF Bundle!AddedLabels
      <4>2. c[l] = h
        BY <1>11, <4>1 DEF Bundle!UniqueKeys, Bundle!Live
      <4> QED  BY <4>1, <4>2
    <3> QED  BY <1>11, <3>1, <3>2
  <2>2. PICK l \in Labels : c[l] = h
    BY <2>1
  <2>3. c[l] # None
    BY <1>10, <2>2
  <2> QED  BY <1>1, <1>2, <1>6, <1>8, <1>9, <2>2, <2>3
<1>12. ASSUME NEW I, Bundle!PlanOwn(p, I), s # None, NEW h \in Bundle!Owned(s.owned)
       PROVE  Bundle!Own(h, I)
  <2>1. s.owned.roas = c
    BY <1>2, <1>5, <1>6, <1>12
  <2>2. PICK l \in Labels : c[l] = h /\ h # None
    BY <1>12, <2>1 DEF Bundle!Owned
  <2>3. h \in ROAHandles
    BY <1>1, <2>2
  <2>4. CASE l \in Bundle!AddedLabels(p)
    <3>1. h \in Bundle!Candidates(p, l, R)
      BY <1>1, <2>2, <2>4
    <3>2. h \in p.baseline => h \in p.tx.deleteROAs
      BY <3>1 DEF Bundle!Candidates
    <3> QED  BY <1>12, <2>3, <3>2 DEF Bundle!PlanOwn
  <2>5. CASE l \notin Bundle!AddedLabels(p)
    <3>1. p.desired.roas[l] # None
      BY <1>1, <2>2
    <3>2. p.retained[l] # None
      BY <2>5, <3>1 DEF Bundle!AddedLabels
    <3>3. p.retained[l] = h
      BY <1>1, <2>2, <3>2
    <3> QED  BY <1>12, <2>3, <3>3 DEF Bundle!PlanOwn
  <2> QED  BY <2>4, <2>5
<1>13. s \in Bundle!State \cup {None} /\ (s # None => s.recovery = None)
  BY <1>2, <1>6
<1> QED  BY <1>7, <1>11, <1>12, <1>13

\* An inventory that confirms a plan's additions is still current.
LEMMA BundleFresh ==
  ASSUME Bundle!Assumption, Bundle!IInv, NEW p \in Bundle!Plan, Bundle!PlanOK(p),
         Bundle!Looking(call), Bundle!PlanOf(state, call) \in {None, p},
         Bundle!ROAsConfirmed(p, call.seen), ~lost, ~relabelled, late = {}
  PROVE  /\ Bundle!Adding = {}
         /\ \A h \in ROAHandles : roas[h] # None => call.seen[h] = roas[h]
<1>1. Bundle!AddInv(state, call) /\ Bundle!FreshInv(state, call)
  BY BundleTypes
<1>2. Bundle!AddedLabels(p) # {} => Bundle!Copied(p, call.seen)
  <2> SUFFICES ASSUME NEW l \in Bundle!AddedLabels(p) PROVE Bundle!Copied(p, call.seen)
    OBVIOUS
  <2>1. PICK h \in ROAHandles : Bundle!Candidates(p, l, call.seen) = {h}
    BY DEF Bundle!ROAsConfirmed
  <2>2. call.seen[h] = p.desired.roas[l]
    BY <2>1 DEF Bundle!Candidates
  <2> QED  BY <2>2 DEF Bundle!Copied
<1>3. Bundle!Adding = {}
  <2> SUFFICES ASSUME NEW r \in Bundle!Adding PROVE FALSE
    OBVIOUS
  <2>1. Bundle!PlanOf(state, call) = p /\ r.tx = p.tx /\ ~Bundle!Copied(p, call.seen)
    BY <1>1 DEF Bundle!AddInv
  <2>2. p.tx.addROAs # {}
    BY <2>1 DEF Bundle!Adding
  <2>3. Bundle!AddedLabels(p) # {}
    BY <2>2 DEF Bundle!PlanOK
  <2> QED  BY <1>2, <2>1, <2>3
<1>4. Bundle!PlanOf(state, call) # None /\ Bundle!AddedLabels(Bundle!PlanOf(state, call)) # {}
        => Bundle!Copied(Bundle!PlanOf(state, call), call.seen)
  BY <1>2
<1> QED  BY <1>1, <1>3, <1>4 DEF Bundle!FreshInv

\* A call that settles a plan its inventories confirm.
LEMMA BundleSettle ==
  ASSUME Bundle!Assumption, Bundle!IInv, NEW p \in Bundle!Plan, Bundle!PlanOK(p),
         p.prior = Bundle!Before(state), Bundle!PlanOf(state, call) \in {None, p}, Bundle!Looking(call),
         Bundle!ROAsConfirmed(p, call.seen), Bundle!ASPAsConfirmed(p, aspas),
         Bundle!PlanOwn(p, imported \cup late), Bundle!Finish(Bundle!SettledFrom(p, call.seen)),
         UNCHANGED <<Bundle!service, lost, imported, late, crashes>>,
         relabelled' \in BOOLEAN, relabelled => relabelled'
  PROVE  Bundle!IInv'
<1> DEFINE s == Bundle!SettledFrom(p, call.seen)
<1>1. call # None /\ call.seen \in [ROAHandles -> Contents \cup {None}] /\ Bundle!UniqueKeys(call.seen)
  BY BundleCallNow DEF Bundle!Looking
<1>2. /\ s \in Bundle!State \cup {None} /\ Bundle!StateInv(s) /\ (s # None => s.recovery = None)
      /\ \A h \in ROAHandles :
           /\ call.seen[h] # None
           /\ h \in Bundle!Owned(p.prior) \/ \E l \in Bundle!AddedLabels(p) : call.seen[h] = p.desired.roas[l]
           => s # None /\ h \in Bundle!Owned(s.owned)
      /\ s # None => \A h \in Bundle!Owned(s.owned) : Bundle!Own(h, imported \cup late)
  BY <1>1, BundleSettles
<1>3. call' = None /\ state' = s
  BY DEF Bundle!Finish
<1> HIDE DEF s
<1>4. Bundle!CallInv(s, None) /\ ~Bundle!Looking(None) /\ ~Bundle!Unsent(None) /\ Bundle!PlanOf(s, None) = None
  BY <1>2 DEF Bundle!CallInv, Bundle!Looking, Bundle!Unsent, Bundle!PlanOf
<1>5. Bundle!OwnInv(s, None, imported \cup late)
  BY <1>2, BundleTypes DEF Bundle!OwnInv
<1>6. ASSUME ~lost, ~relabelled, late = {}
      PROVE  Bundle!AddInv(s, None) /\ Bundle!FreshInv(s, None) /\ Bundle!ClaimInv(s, None)
  <2>1. /\ Bundle!Adding = {}
        /\ \A h \in ROAHandles : roas[h] # None => call.seen[h] = roas[h]
    BY <1>6, BundleFresh
  <2>2. ASSUME NEW h \in ROAHandles, Bundle!Ours(h)
        PROVE  s # None /\ h \in Bundle!Owned(s.owned)
    <3>1. Bundle!ClaimInv(state, call)
      BY <1>6, BundleTypes
    <3>2. call.seen[h] # None /\ call.seen[h] = roas[h]
      BY <2>1, <2>2 DEF Bundle!Ours
    <3>3. state # None /\ h \in Bundle!Owned(state.owned) => h \in Bundle!Owned(p.prior)
      BY BundleBefore
    <3> QED  BY <1>2, <2>2, <3>1, <3>2, <3>3 DEF Bundle!ClaimInv
  <2> QED  BY <1>4, <2>1, <2>2 DEF Bundle!AddInv, Bundle!FreshInv, Bundle!ClaimInv
<1>7. ASSUME ~lost, ~relabelled, edits = 0 PROVE Bundle!QuietInv(s, None)
  <2>1. Bundle!QuietInv(state, call)
    BY <1>7, BundleTypes
  <2>2. wire = {}
    <3> SUFFICES ASSUME wire # {} PROVE FALSE
      OBVIOUS
    <3>1. Bundle!PlanOf(state, call) = p /\ ~Bundle!Done(p, roas, aspas) /\ call.seen = roas
      BY <2>1 DEF Bundle!QuietInv
    <3> QED  BY <3>1 DEF Bundle!Done
  <2> QED  BY <1>1, <1>4, <2>2 DEF Bundle!QuietInv
<1>8. /\ None \in Bundle!Call \cup {None} /\ imported \in SUBSET ROAHandles
      /\ lost' \in BOOLEAN /\ crashes' \in 0 .. MaxCrashes
  BY BundleTypes
<1> QED  BY <1>2, <1>3, <1>4, <1>5, <1>6, <1>7, <1>8, BundleMoves

\* A write that ends unconfirmed keeps its plan in the journal.
LEMMA BundlePends ==
  ASSUME Bundle!Assumption, Bundle!IInv, NEW p \in Bundle!Plan, Bundle!PlanOK(p),
         p.prior = Bundle!Before(state), Bundle!PlanOf(state, call) \in {None, p}, Bundle!MayWrite(state),
         Bundle!PlanOwn(p, imported \cup late), NEW receipt \in Bundle!Receipt,
         Bundle!Finish(Bundle!Pending(state, p, receipt)),
         UNCHANGED <<Bundle!service, lost, imported, late, crashes>>,
         relabelled' \in BOOLEAN, relabelled => relabelled'
  PROVE  Bundle!IInv'
<1> DEFINE own == Bundle!Before(state)
           j == [plan |-> p, returned |-> receipt]
           s == [owned |-> own, recovery |-> j]
<1>1. call' = None /\ state' = s
  BY DEF Bundle!Finish, Bundle!Pending
<1>2. /\ own \in Bundle!Ownership /\ Bundle!Injective(own)
      /\ Bundle!Owned(own) = IF state = None THEN {} ELSE Bundle!Owned(state.owned)
      /\ \A h \in Bundle!Owned(own) : Bundle!Own(h, imported \cup late)
      /\ p.prior = own
  BY BundleBefore
<1> HIDE DEF own
<1>3. j \in Bundle!Journal /\ j.plan = p
  BY DEF Bundle!Journal
<1> HIDE DEF j
<1>4. s \in Bundle!State /\ s.owned = own /\ s.recovery = j
  BY <1>2, <1>3 DEF Bundle!State
<1>5. s # None /\ j # None /\ p # None
  BY <1>3, <1>4, BundleTypes
<1> HIDE DEF s
<1>6. Bundle!StateInv(s)
  BY <1>2, <1>3, <1>4 DEF Bundle!StateInv
<1>7. /\ Bundle!CallInv(s, None) /\ ~Bundle!Looking(None) /\ ~Bundle!Unsent(None)
      /\ Bundle!PlanOf(s, None) = p
  BY <1>3, <1>4, <1>5 DEF Bundle!CallInv, Bundle!Looking, Bundle!Unsent, Bundle!PlanOf
<1>8. Bundle!OwnInv(s, None, imported \cup late)
  BY <1>2, <1>3, <1>4, BundleTypes DEF Bundle!OwnInv
<1>9. ASSUME ~lost, ~relabelled, late = {}
      PROVE  Bundle!AddInv(s, None) /\ Bundle!FreshInv(s, None) /\ Bundle!ClaimInv(s, None)
  <2>1. Bundle!AddInv(state, call) /\ Bundle!ClaimInv(state, call)
    BY <1>9, BundleTypes
  <2>2. Bundle!AddInv(s, None)
    BY <1>5, <1>7, <2>1 DEF Bundle!AddInv
  <2>3. Bundle!ClaimInv(s, None)
    BY <1>2, <1>4, <1>5, <1>7, <2>1 DEF Bundle!ClaimInv
  <2> QED  BY <1>7, <2>2, <2>3 DEF Bundle!FreshInv
<1>10. ASSUME ~lost, ~relabelled, edits = 0 PROVE Bundle!QuietInv(s, None)
  <2>1. Bundle!QuietInv(state, call)
    BY <1>10, BundleTypes
  <2> QED  BY <1>5, <1>7, <2>1 DEF Bundle!QuietInv
<1>11. /\ None \in Bundle!Call \cup {None} /\ imported \in SUBSET ROAHandles
       /\ lost' \in BOOLEAN /\ crashes' \in 0 .. MaxCrashes
  BY BundleTypes
<1> QED  BY <1>1, <1>4, <1>6, <1>7, <1>8, <1>9, <1>10, <1>11, BundleMoves

LEMMA BundleNoReceipt == Bundle!NoReceipt \in Bundle!Receipt
BY DEF Bundle!NoReceipt, Bundle!Receipt

\* A write that ends unconfirmed, and one that ends confirmed.
LEMMA BundleUnresolved ==
  ASSUME Bundle!Assumption, Bundle!IInv, call # None, call.plan # None, call.answer # None,
         Bundle!Finish(Bundle!Pending(call.prior, call.plan, call.answer.receipt)),
         UNCHANGED <<Bundle!service, Bundle!history, crashes>>
  PROVE  Bundle!IInv'
<1>1. /\ call.plan \in Bundle!Plan /\ Bundle!PlanOK(call.plan) /\ call.op = "write"
      /\ call.prior = state /\ call.plan.prior = Bundle!Before(state) /\ Bundle!MayWrite(state)
      /\ call.answer \in Bundle!Answer
  BY BundleCallNow
<1>2. call.answer.receipt \in Bundle!Receipt
  BY <1>1 DEF Bundle!Answer
<1>3. Bundle!PlanOf(state, call) = call.plan
  BY DEF Bundle!PlanOf
<1>4. Bundle!PlanOwn(call.plan, imported \cup late)
  BY BundleTypes DEF Bundle!OwnInv
<1>5. /\ UNCHANGED <<Bundle!service, lost, imported, late, crashes>> /\ relabelled' = relabelled
      /\ relabelled \in BOOLEAN
  BY BundleTypes DEF Bundle!history
<1> QED  BY <1>1, <1>2, <1>3, <1>4, <1>5, BundlePends

LEMMA BundleFinishWrite == ASSUME Bundle!Assumption, Bundle!IInv, Bundle!FinishWrite PROVE Bundle!IInv'
<1> DEFINE j == [plan |-> call.plan, returned |-> call.answer.receipt]
<1>1. /\ call # None /\ call.at = "afterASPAs" /\ Bundle!Confirmed(j, call.seen, aspas)
      /\ Bundle!Finish(Bundle!SettledFrom(call.plan, call.seen))
  BY DEF Bundle!FinishWrite, Bundle!At
<1>2. /\ call.plan # None /\ call.plan \in Bundle!Plan /\ Bundle!PlanOK(call.plan)
      /\ call.plan.prior = Bundle!Before(state)
  BY <1>1, BundleCallNow
<1>3. Bundle!ROAsConfirmed(call.plan, call.seen) /\ Bundle!ASPAsConfirmed(call.plan, aspas)
  BY <1>1 DEF Bundle!Confirmed
<1>4. Bundle!PlanOf(state, call) = call.plan /\ Bundle!Looking(call)
  BY <1>1, <1>2 DEF Bundle!PlanOf, Bundle!Looking
<1>5. Bundle!PlanOwn(call.plan, imported \cup late)
  BY <1>1, <1>2, BundleTypes DEF Bundle!OwnInv
<1>6. /\ UNCHANGED <<Bundle!service, lost, imported, late, crashes>> /\ relabelled' = relabelled
      /\ relabelled \in BOOLEAN
  BY BundleTypes DEF Bundle!history, Bundle!FinishWrite
<1> QED  BY <1>1, <1>2, <1>3, <1>4, <1>5, <1>6, BundleSettle

LEMMA BundleMakePlan == ASSUME Bundle!Assumption, Bundle!IInv, Bundle!MakePlan PROVE Bundle!IInv'
<1> DEFINE own == Bundle!Before(call.prior)
<1>0. PICK p : p = Bundle!PlanRPKIBundle(own, call.desired, call.seen, aspas)
  OBVIOUS
<1> DEFINE q == [call EXCEPT !.plan = p, !.at = "post"]
<1>1. /\ call # None /\ call.op = "write" /\ call.at = "aspas"
      /\ ~Bundle!Conflict(p, call.seen, aspas)
      /\ relabelled' = (relabelled \/ \E h \in p.tx.deleteROAs : call.seen[h] \in p.tx.addROAs)
      /\ IF ~Bundle!Empty(p.tx) THEN call' = q /\ state' = state
         ELSE Bundle!Finish(IF Bundle!Confirmed([plan |-> p, returned |-> Bundle!NoReceipt], call.seen, aspas)
                            THEN Bundle!SettledFrom(p, call.seen)
                            ELSE Bundle!Pending(call.prior, p, Bundle!NoReceipt))
      /\ UNCHANGED <<Bundle!service, lost, imported, late, crashes>>
  BY <1>0 DEF Bundle!MakePlan, Bundle!At
<1>2. /\ call \in Bundle!Call /\ call.prior = state /\ Bundle!MayWrite(state) /\ call.plan = None
      /\ call.seen \in [ROAHandles -> Contents \cup {None}] /\ Bundle!UniqueKeys(call.seen)
      /\ call.desired \in Configs \cup {Bundle!Nothing} /\ call.n = 0 /\ call.answer = None
  BY <1>1, BundleCallNow
<1>3. /\ own = Bundle!Before(state) /\ own \in Bundle!Ownership /\ Bundle!Injective(own)
      /\ \A h \in Bundle!Owned(own) : Bundle!Own(h, imported \cup late)
  BY <1>2, BundleBefore
<1>4. aspas \in [Customers -> ProviderSets \cup {None}]
  BY BundleTypes
<1> HIDE DEF own
<1>5. /\ p \in Bundle!Plan /\ Bundle!PlanOK(p)
      /\ p.desired = call.desired /\ p.prior = own /\ p.baseline = Bundle!Live(call.seen)
      /\ p.tx.deleteROAs \subseteq Bundle!Owned(own)
      /\ \A l \in Labels : p.retained[l] # None => p.retained[l] \in Bundle!Owned(own)
  BY <1>0, <1>2, <1>3, <1>4, BundlePlans
<1>6. p # None
  BY <1>5, BundleTypes
<1>7. ASSUME ~(\E h \in p.tx.deleteROAs : call.seen[h] \in p.tx.addROAs), ~Bundle!Empty(p.tx)
      PROVE  ~Bundle!Done(p, call.seen, aspas)
  BY <1>0, <1>1, <1>2, <1>3, <1>4, <1>7, BundleNotDone
<1>8. ASSUME ~(\E h \in p.tx.deleteROAs : call.seen[h] \in p.tx.addROAs)
      PROVE  ~Bundle!Copied(p, call.seen)
  BY <1>1, <1>2, <1>5, <1>8, BundleNotCopied
<1>9. relabelled' \in BOOLEAN /\ (relabelled => relabelled')
  BY <1>1, BundleTypes
<1>10. Bundle!PlanOf(state, call) = None /\ Bundle!Looking(call)
  BY <1>1, <1>2 DEF Bundle!PlanOf, Bundle!MayWrite, Bundle!Looking
<1>11. Bundle!PlanOwn(p, imported \cup late)
  <2>1. \A h \in ROAHandles \ Bundle!Live(call.seen) : Bundle!Own(h, imported \cup late)
    BY <1>1, BundleTypes DEF Bundle!OwnInv
  <2> SUFFICES ASSUME NEW h \in ROAHandles,
                      h \notin p.baseline \/ h \in p.tx.deleteROAs \/ (\E l \in Labels : p.retained[l] = h)
               PROVE  Bundle!Own(h, imported \cup late)
    BY DEF Bundle!PlanOwn
  <2>2. h # None
    BY BundleTypes
  <2> QED  BY <1>3, <1>5, <2>1, <2>2
<1>12. CASE Bundle!Empty(p.tx) /\ Bundle!Confirmed([plan |-> p, returned |-> Bundle!NoReceipt], call.seen, aspas)
  <2>1. Bundle!ROAsConfirmed(p, call.seen) /\ Bundle!ASPAsConfirmed(p, aspas)
    BY <1>12 DEF Bundle!Confirmed
  <2>2. Bundle!Finish(Bundle!SettledFrom(p, call.seen))
    BY <1>1, <1>12
  <2> QED  BY <1>1, <1>3, <1>5, <1>9, <1>10, <1>11, <2>1, <2>2, BundleSettle
<1>13. CASE Bundle!Empty(p.tx) /\ ~Bundle!Confirmed([plan |-> p, returned |-> Bundle!NoReceipt], call.seen, aspas)
  <2>1. Bundle!Finish(Bundle!Pending(state, p, Bundle!NoReceipt))
    BY <1>1, <1>2, <1>13
  <2> QED  BY <1>1, <1>2, <1>3, <1>5, <1>9, <1>10, <1>11, <2>1, BundleNoReceipt, BundlePends
<1>14. CASE ~Bundle!Empty(p.tx)
  <2>1. /\ q.op = "write" /\ q.at = "post" /\ q.desired = call.desired /\ q.prior = state
        /\ q.seen = call.seen /\ q.plan = p /\ q.n = 0 /\ q.answer = None /\ q \in Bundle!Call
    BY <1>1, <1>2, <1>5 DEF Bundle!Call
  <2>2. q # None /\ call' = q /\ state' = state
    BY <1>1, <1>14, <2>1, BundleTypes
  <2> HIDE DEF q
  <2>3. 0 <= sent /\ \A r \in wire : r.n # 0
    BY BundleTypes, BundleNumbers
  <2>4. Bundle!CallInv(state, q)
    BY <1>2, <1>3, <1>5, <1>6, <2>1, <2>3 DEF Bundle!CallInv
  <2>5. Bundle!PlanOf(state, q) = p /\ ~Bundle!Looking(q) /\ Bundle!Unsent(q)
    BY <1>6, <2>1, <2>2 DEF Bundle!PlanOf, Bundle!Looking, Bundle!Unsent
  <2>6. Bundle!OwnInv(state, q, imported \cup late)
    BY <1>11, <2>1, BundleTypes DEF Bundle!OwnInv
  <2>7. ASSUME ~lost, ~relabelled', late = {}
        PROVE  Bundle!AddInv(state, q) /\ Bundle!FreshInv(state, q) /\ Bundle!ClaimInv(state, q)
    <3>1. Bundle!AddInv(state, call) /\ Bundle!FreshInv(state, call) /\ Bundle!ClaimInv(state, call)
      BY <1>9, <2>7, BundleTypes
    <3>2. Bundle!Adding = {} /\ \A h \in ROAHandles : roas[h] # None => call.seen[h] = roas[h]
      BY <1>10, <3>1 DEF Bundle!AddInv, Bundle!FreshInv
    <3>3. ~Bundle!Copied(p, call.seen)
      BY <1>1, <1>8, <2>7
    <3>4. ~Bundle!Copied(p, roas)
      <4>1. \A l \in Bundle!AddedLabels(p) : p.desired.roas[l] # None
        BY DEF Bundle!AddedLabels
      <4> QED  BY <3>2, <3>3, <4>1 DEF Bundle!Copied
    <3>5. Bundle!ClaimInv(state, q)
      BY <1>10, <3>1 DEF Bundle!ClaimInv
    <3> QED  BY <2>1, <2>5, <3>2, <3>4, <3>5 DEF Bundle!AddInv, Bundle!FreshInv
  <2>8. ASSUME ~lost, ~relabelled', edits = 0 PROVE Bundle!QuietInv(state, q)
    <3>1. Bundle!QuietInv(state, call)
      BY <1>9, <2>8, BundleTypes
    <3>2. wire = {} /\ call.seen = roas
      BY <1>1, <1>10, <3>1 DEF Bundle!QuietInv
    <3>3. ~Bundle!Done(p, roas, aspas)
      BY <1>1, <1>7, <1>14, <2>8, <3>2
    <3> QED  BY <2>1, <2>5, <3>2, <3>3 DEF Bundle!QuietInv
  <2>9. /\ state \in Bundle!State \cup {None} /\ imported \in SUBSET ROAHandles
        /\ lost' \in BOOLEAN /\ crashes' \in 0 .. MaxCrashes /\ Bundle!StateInv(state)
    BY <1>1, BundleTypes
  <2>10. lost' = lost /\ late' = late /\ imported' = imported /\ UNCHANGED Bundle!service
    BY <1>1
  <2> QED  BY <1>9, <2>1, <2>2, <2>4, <2>6, <2>7, <2>8, <2>9, <2>10, BundleMoves
<1> QED  BY <1>12, <1>13, <1>14

\* A refresh that drops what is gone, or settles the journal.
LEMMA BundlePresent ==
  ASSUME Bundle!Assumption, Bundle!IInv, NEW own \in Bundle!Ownership,
         NEW R \in [ROAHandles -> Contents \cup {None}], NEW S
  PROVE  /\ Bundle!Present(own, R, S) \in Bundle!Ownership
         /\ Bundle!Injective(own) => Bundle!Injective(Bundle!Present(own, R, S))
         /\ \A h : h \in Bundle!Owned(Bundle!Present(own, R, S)) <=> h \in Bundle!Owned(own) /\ R[h] # None
<1> DEFINE rs == [l \in Labels |-> IF own.roas[l] # None /\ R[own.roas[l]] # None THEN own.roas[l] ELSE None]
           cs == {c \in own.aspas : S[c] # None}
<1>1. own.roas \in [Labels -> ROAHandles \cup {None}] /\ own.aspas \subseteq Customers
  BY DEF Bundle!Ownership
<1>2. rs \in [Labels -> ROAHandles \cup {None}] /\ cs \subseteq Customers
  BY <1>1
<1>3. Bundle!Present(own, R, S) = [roas |-> rs, aspas |-> cs]
  BY DEF Bundle!Present
<1>4. \A l \in Labels : rs[l] = IF own.roas[l] # None /\ R[own.roas[l]] # None THEN own.roas[l] ELSE None
  OBVIOUS
<1> HIDE DEF rs, cs
<1>5. PICK t : t = Bundle!Present(own, R, S)
  OBVIOUS
<1>6. t \in Bundle!Ownership /\ t.roas = rs
  BY <1>2, <1>3, <1>5 DEF Bundle!Ownership
<1>7. Bundle!Injective(own) => Bundle!Injective(t)
  BY <1>4, <1>6 DEF Bundle!Injective
<1>8. ASSUME NEW h PROVE h \in Bundle!Owned(t) <=> h \in Bundle!Owned(own) /\ R[h] # None
  BY <1>4, <1>6 DEF Bundle!Owned
<1> QED  BY <1>5, <1>6, <1>7, <1>8

LEMMA BundleReadASPAs == ASSUME Bundle!Assumption, Bundle!IInv, Bundle!ReadASPAs PROVE Bundle!IInv'
<1>1. /\ call # None /\ call.op = "read" /\ call.at = "aspas"
      /\ UNCHANGED <<Bundle!service, lost, imported, late, crashes>> /\ relabelled' = relabelled
      /\ relabelled \in BOOLEAN
  BY BundleTypes DEF Bundle!ReadASPAs, Bundle!At, Bundle!history
<1>2. /\ call.prior = state /\ state # None /\ call.plan = None
      /\ call.seen \in [ROAHandles -> Contents \cup {None}] /\ Bundle!Looking(call)
  BY <1>1, BundleCallNow DEF Bundle!Looking
<1>3. /\ state \in Bundle!State /\ Bundle!StateInv(state) /\ Bundle!OwnInv(state, call, imported \cup late)
      /\ state.owned \in Bundle!Ownership
  BY <1>2, BundleTypes, BundleStateFields
<1>4. CASE state.recovery # None
  <2> DEFINE p == state.recovery.plan
  <2>1. /\ Bundle!Confirmed(state.recovery, call.seen, aspas)
        /\ Bundle!Finish(Bundle!SettledFrom(p, call.seen))
    BY <1>2, <1>4 DEF Bundle!ReadASPAs
  <2>2. Bundle!ROAsConfirmed(p, call.seen) /\ Bundle!ASPAsConfirmed(p, aspas)
    BY <2>1 DEF Bundle!Confirmed
  <2>3. p \in Bundle!Plan /\ Bundle!PlanOK(p) /\ p.prior = Bundle!Before(state)
    BY <1>2, <1>3, <1>4, BundleStateFields DEF Bundle!StateInv, Bundle!Before
  <2>4. Bundle!PlanOf(state, call) = p
    BY <1>2, <1>4 DEF Bundle!PlanOf
  <2>5. Bundle!PlanOwn(p, imported \cup late)
    BY <1>2, <1>3, <1>4 DEF Bundle!OwnInv
  <2> HIDE DEF p
  <2> QED  BY <1>1, <1>2, <2>1, <2>2, <2>3, <2>4, <2>5, BundleSettle
<1>5. CASE state.recovery = None
  <2>1. PICK own : own = Bundle!Present(state.owned, call.seen, aspas)
    OBVIOUS
  <2> DEFINE s == [owned |-> own, recovery |-> None]
  <2>2. call' = None /\ state' = s
    BY <1>2, <1>5, <2>1 DEF Bundle!ReadASPAs, Bundle!Finish
  <2>3. /\ own \in Bundle!Ownership
        /\ Bundle!Injective(state.owned) => Bundle!Injective(own)
        /\ \A h : h \in Bundle!Owned(own) <=> h \in Bundle!Owned(state.owned) /\ call.seen[h] # None
    BY <1>2, <1>3, <2>1, BundlePresent
  <2>4. s \in Bundle!State /\ s.owned = own /\ s.recovery = None
    BY <2>3 DEF Bundle!State
  <2>5. s # None
    BY <2>4, BundleTypes
  <2> HIDE DEF s
  <2>6. Bundle!StateInv(s)
    BY <1>2, <1>3, <2>3, <2>4 DEF Bundle!StateInv
  <2>7. /\ Bundle!CallInv(s, None) /\ ~Bundle!Looking(None) /\ ~Bundle!Unsent(None)
        /\ Bundle!PlanOf(s, None) = None /\ Bundle!PlanOf(state, call) = None
    BY <1>2, <1>5, <2>4 DEF Bundle!CallInv, Bundle!Looking, Bundle!Unsent, Bundle!PlanOf
  <2>8. Bundle!OwnInv(s, None, imported \cup late)
    BY <1>2, <1>3, <2>3, <2>4 DEF Bundle!OwnInv
  <2>9. ASSUME ~lost, ~relabelled, late = {}
        PROVE  Bundle!AddInv(s, None) /\ Bundle!FreshInv(s, None) /\ Bundle!ClaimInv(s, None)
    <3>1. Bundle!AddInv(state, call) /\ Bundle!FreshInv(state, call) /\ Bundle!ClaimInv(state, call)
      BY <2>9, BundleTypes
    <3>2. Bundle!AddInv(s, None)
      BY <2>7, <3>1 DEF Bundle!AddInv
    <3>3. \A h \in ROAHandles : roas[h] # None => call.seen[h] = roas[h]
      BY <1>2, <2>7, <3>1 DEF Bundle!FreshInv
    <3>4. Bundle!ClaimInv(s, None)
      BY <2>3, <2>4, <2>5, <2>7, <3>1, <3>3 DEF Bundle!ClaimInv, Bundle!Ours
    <3> QED  BY <2>7, <3>2, <3>4 DEF Bundle!FreshInv
  <2>10. ASSUME ~lost, ~relabelled, edits = 0 PROVE Bundle!QuietInv(s, None)
    <3>1. Bundle!QuietInv(state, call)
      BY <2>10, BundleTypes
    <3> QED  BY <2>7, <3>1 DEF Bundle!QuietInv
  <2>11. /\ None \in Bundle!Call \cup {None} /\ imported \in SUBSET ROAHandles
         /\ lost' \in BOOLEAN /\ crashes' \in 0 .. MaxCrashes
    BY <1>1, BundleTypes
  <2> QED  BY <1>1, <2>2, <2>4, <2>6, <2>7, <2>8, <2>9, <2>10, <2>11, BundleMoves
<1> QED  BY <1>4, <1>5

LEMMA BundleImportASPAs == ASSUME Bundle!Assumption, Bundle!IInv, Bundle!ImportASPAs PROVE Bundle!IInv'
<1> DEFINE s == call.prior
           I == imported \cup Bundle!Owned(s.owned)
<1>1. /\ call # None /\ call.op = "import" /\ call.at = "aspas" /\ call' = None /\ state' = s
      /\ imported' = I
      /\ UNCHANGED Bundle!service /\ lost' = lost /\ late' = late /\ relabelled' = relabelled /\ crashes' = crashes
  BY DEF Bundle!ImportASPAs, Bundle!At, Bundle!Finish
<1>2. /\ state = None /\ s # None /\ s \in Bundle!State /\ s.recovery = None
      /\ Bundle!Injective(s.owned) /\ call.plan = None
  BY <1>1, BundleCallNow
<1> HIDE DEF s
<1>3. I \subseteq ROAHandles
  BY <1>2, BundleStateFields, BundleTypes DEF Bundle!Owned
<1>4. \A h : Bundle!Own(h, imported \cup late) => Bundle!Own(h, I \cup late)
  BY DEF Bundle!Own
<1>5. \A h \in Bundle!Owned(s.owned) : Bundle!Own(h, I \cup late)
  BY DEF Bundle!Own
<1> HIDE DEF I
<1>6. Bundle!StateInv(s)
  BY <1>2 DEF Bundle!StateInv
<1>7. /\ Bundle!CallInv(s, None) /\ ~Bundle!Looking(None) /\ ~Bundle!Unsent(None)
      /\ Bundle!PlanOf(s, None) = None /\ Bundle!PlanOf(state, call) = None
  BY <1>2 DEF Bundle!CallInv, Bundle!Looking, Bundle!Unsent, Bundle!PlanOf
<1>8. Bundle!OwnInv(s, None, I \cup late)
  BY <1>2, <1>4, <1>5, BundleTypes DEF Bundle!OwnInv
<1>9. ASSUME ~lost, ~relabelled, late = {}
      PROVE  Bundle!AddInv(s, None) /\ Bundle!FreshInv(s, None) /\ Bundle!ClaimInv(s, None)
  <2>1. Bundle!AddInv(state, call) /\ Bundle!ClaimInv(state, call)
    BY <1>9, BundleTypes
  <2> QED  BY <1>2, <1>7, <2>1 DEF Bundle!AddInv, Bundle!FreshInv, Bundle!ClaimInv
<1>10. ASSUME ~lost, ~relabelled, edits = 0 PROVE Bundle!QuietInv(s, None)
  <2>1. Bundle!QuietInv(state, call)
    BY <1>10, BundleTypes
  <2> QED  BY <1>7, <2>1 DEF Bundle!QuietInv
<1>11. /\ None \in Bundle!Call \cup {None} /\ I \in SUBSET ROAHandles /\ s \in Bundle!State \cup {None}
       /\ lost' \in BOOLEAN /\ relabelled' \in BOOLEAN /\ crashes' \in 0 .. MaxCrashes
  BY <1>1, <1>2, <1>3, BundleTypes
<1> QED  BY <1>1, <1>6, <1>7, <1>8, <1>9, <1>10, <1>11, BundleMoves

LEMMA BundleUncertain ==
  Bundle!Uncertain \in Bundle!Answer /\ Bundle!Rejected \in Bundle!Answer
  /\ Bundle!Uncertain.kind = "uncertain" /\ Bundle!Rejected.kind = "rejected"
BY BundleNoReceipt DEF Bundle!Uncertain, Bundle!Rejected, Bundle!Answer

\* The transaction goes out.
LEMMA BundlePost == ASSUME Bundle!Assumption, Bundle!IInv, Bundle!PostTransaction PROVE Bundle!IInv'
<1> DEFINE n == sent + 1
           p == call.plan
           new == [n |-> n, tx |-> p.tx, given |-> None]
           q == [call EXCEPT !.at = "answer", !.n = n]
<1>1. /\ call # None /\ call.op = "write" /\ call.at = "post" /\ call' = q /\ state' = state
      /\ sent < MaxTransactions /\ sent' = n /\ wire' = wire \cup {new}
      /\ roas' = roas /\ aspas' = aspas /\ by' = by /\ edits' = edits
      /\ lost' = lost /\ relabelled' = relabelled /\ imported' = imported /\ late' = late /\ crashes' = crashes
  BY DEF Bundle!PostTransaction, Bundle!Post, Bundle!At, Bundle!history
<1>2. /\ call \in Bundle!Call /\ p # None /\ p \in Bundle!Plan /\ Bundle!PlanOK(p)
      /\ call.n = 0 /\ call.answer = None /\ call.prior = state
  BY <1>1, BundleCallNow
<1>3. p.tx \in Bundle!Tx /\ p.desired.roas \in [Labels -> Contents \cup {None}]
  BY <1>2, BundlePlanFields
<1>4. n \in 1 .. MaxTransactions /\ sent < n /\ \A r \in wire : r.n <= sent /\ r.n \in 1 .. MaxTransactions
  <2>1. sent \in 0 .. MaxTransactions /\ MaxTransactions \in Nat
    BY BundleTypes
  <2> QED  BY <1>1, <2>1, BundleNumbers
<1>5. \A r \in wire : r.n # n
  BY <1>4, BundleTypes
<1>6. new \in Bundle!Request /\ new.n = n /\ new.tx = p.tx
  BY <1>3, <1>4 DEF Bundle!Request
<1>7. /\ q.op = "write" /\ q.at = "answer" /\ q.desired = call.desired /\ q.prior = state
      /\ q.seen = call.seen /\ q.plan = p /\ q.n = n /\ q.answer = None /\ q \in Bundle!Call
  <2>1. n \in 0 .. MaxTransactions
    BY <1>4
  <2> HIDE DEF n, p
  <2> QED  BY <1>1, <1>2, <2>1 DEF Bundle!Call, p
<1>8. q # None
  BY <1>7, BundleTypes
<1> HIDE DEF q, new, n, p
<1>9. Bundle!TypeOK'
  <2>1. sent' \in 0 .. MaxTransactions
    BY <1>1, <1>4
  <2> QED  BY <1>1, <1>6, <1>7, <2>1, BundleTypes, BundleTypeOK
<1>10. Bundle!ServiceInv'
  <2>1. Bundle!ServiceInv
    BY BundleTypes
  <2>2. \A o, k \in new.tx.addROAs : KeyOf[o] = KeyOf[k] => o = k
    <3> SUFFICES ASSUME NEW o \in p.tx.addROAs, NEW m \in p.tx.addROAs, KeyOf[o] = KeyOf[m] PROVE o = m
      BY <1>6
    <3>1. PICK l \in Bundle!AddedLabels(p) : o = p.desired.roas[l]
      BY <1>2 DEF Bundle!PlanOK
    <3>2. PICK k \in Bundle!AddedLabels(p) : m = p.desired.roas[k]
      BY <1>2 DEF Bundle!PlanOK
    <3>3. l \in Labels /\ k \in Labels /\ o # None /\ m # None
      BY <3>1, <3>2 DEF Bundle!AddedLabels
    <3> QED  BY <1>2, <3>1, <3>2, <3>3, BundleLabels DEF Bundle!PlanOK
  <2>3. \A r, t \in wire' : r.n = t.n => r = t
    BY <1>1, <1>5, <1>6, <2>1 DEF Bundle!ServiceInv
  <2>4. \A r \in wire' : r.n <= sent'
    <3>1. \A r \in wire : r.n <= n
      BY <1>4, BundleTypes
    <3>2. new.n <= n
      BY <1>4, <1>6
    <3> QED  BY <1>1, <3>1, <3>2
  <2>5. \A r \in wire' : \A o, k \in r.tx.addROAs : KeyOf[o] = KeyOf[k] => o = k
    BY <1>1, <2>1, <2>2 DEF Bundle!ServiceInv
  <2>6. Bundle!UniqueKeys(roas')
    BY <1>1, <2>1 DEF Bundle!ServiceInv, Bundle!UniqueKeys, Bundle!Live
  <2> QED  BY <2>3, <2>4, <2>5, <2>6 DEF Bundle!ServiceInv, Bundle!UniqueKeys, Bundle!Live
<1>11. Bundle!StateInv(state)'
  BY <1>1, BundleTypes DEF Bundle!StateInv
<1>12. Bundle!CallInv(state, call)'
  <2>1. q.n <= sent' /\ \A r \in wire' : r.n = q.n => r.tx = q.plan.tx
    <3>1. n <= n
      BY <1>4
    <3> QED  BY <1>1, <1>5, <1>6, <1>7, <3>1
  <2>2. Bundle!CallInv(state, call)
    BY BundleTypes
  <2> QED  BY <1>1, <1>2, <1>7, <2>1, <2>2 DEF Bundle!CallInv, p
<1>13. Bundle!OwnInv(state, call, imported \cup late)'
  <2>1. Bundle!OwnInv(state, call, imported \cup late)
    BY BundleTypes
  <2>2. Bundle!PlanOwn(p, imported \cup late)
    BY <1>1, <1>2, <2>1 DEF Bundle!OwnInv, p
  <2>3. \A h, J : Bundle!Own(h, J)' <=> Bundle!Own(h, J)
    BY <1>1 DEF Bundle!Own
  <2>4. \A m, J : Bundle!PlanOwn(m, J)' <=> Bundle!PlanOwn(m, J)
    BY <2>3 DEF Bundle!PlanOwn
  <2>5. \A r \in wire' : \A h \in r.tx.deleteROAs : Bundle!Own(h, imported \cup late)
    <3>1. p.tx.deleteROAs \subseteq ROAHandles
      BY <1>2, BundlePlanFields
    <3>2. \A h \in p.tx.deleteROAs : Bundle!Own(h, imported \cup late)
      BY <2>2, <3>1 DEF Bundle!PlanOwn
    <3> QED  BY <1>1, <1>6, <2>1, <3>2 DEF Bundle!OwnInv
  <2> QED  BY <1>1, <1>7, <2>1, <2>2, <2>3, <2>4, <2>5 DEF Bundle!OwnInv
<1>14. Bundle!PlanOf(state, call)' = p /\ Bundle!PlanOf(state, call) = p
  BY <1>1, <1>2, <1>7, <1>8 DEF Bundle!PlanOf, p
<1>15. Bundle!Unsent(call) /\ ~Bundle!Unsent(q) /\ ~Bundle!Looking(q)
  <2>1. n # 0
    BY <1>4
  <2> QED  BY <1>1, <1>2, <1>7, <2>1 DEF Bundle!Unsent, Bundle!Looking, Bundle!IsRejected, p
<1>16. ~Bundle!Unsent(call)' /\ ~Bundle!Looking(call)'
  BY <1>1, <1>15 DEF Bundle!Unsent, Bundle!Looking, Bundle!IsRejected
<1>17. ASSUME ~lost', ~relabelled', late' = {}
       PROVE  (Bundle!AddInv(state, call) /\ Bundle!FreshInv(state, call) /\ Bundle!ClaimInv(state, call))'
  <2>1. Bundle!AddInv(state, call) /\ Bundle!ClaimInv(state, call)
    BY <1>1, <1>17, BundleTypes
  <2>2. Bundle!Adding = {} /\ ~Bundle!Copied(p, roas)
    BY <1>15, <2>1 DEF Bundle!AddInv, p
  <2>3. \A r \in Bundle!Adding' : r = new
    BY <1>1, <2>2 DEF Bundle!Adding
  <2>4. Bundle!AddInv(state, call)'
    BY <1>1, <1>2, <1>6, <1>14, <1>16, <2>2, <2>3 DEF Bundle!AddInv
  <2>5. Bundle!ClaimInv(state, call)'
    BY <1>1, <1>14, <2>1 DEF Bundle!ClaimInv, Bundle!Ours
  <2> QED  BY <1>16, <2>4, <2>5 DEF Bundle!FreshInv
<1>18. ASSUME ~lost', ~relabelled', edits' = 0 PROVE Bundle!QuietInv(state, call)'
  <2>1. Bundle!QuietInv(state, call)
    BY <1>1, <1>18, BundleTypes
  <2>2. wire = {} /\ ~Bundle!Done(p, roas, aspas)
    BY <1>1, <1>15, <2>1 DEF Bundle!QuietInv, p
  <2>3. wire' = {new} /\ call'.at = "answer"
    BY <1>1, <1>7, <2>2
  <2> QED  BY <1>1, <1>2, <1>14, <1>16, <2>2, <2>3 DEF Bundle!QuietInv
<1> QED  BY <1>9, <1>10, <1>11, <1>12, <1>13, <1>17, <1>18 DEF Bundle!IInv

LEMMA BundleCallStep ==
  ASSUME Bundle!Assumption, Bundle!IInv, Bundle!CallStep \/ Bundle!CallFails \/ Bundle!Crash
  PROVE  Bundle!IInv'
<1>1. CASE Bundle!ListROAs
  BY <1>1, BundleList
<1>2. CASE Bundle!MakePlan
  BY <1>2, BundleMakePlan
<1>3. CASE Bundle!Answered
  <2>1. /\ call # None /\ call.op = "write" /\ call.at = "answer" /\ call.answer # None
        /\ UNCHANGED <<Bundle!service, Bundle!history, crashes>>
    BY <1>3 DEF Bundle!Answered, Bundle!At
  <2>2. /\ call \in Bundle!Call /\ call.plan # None /\ call.answer \in Bundle!Answer /\ call.prior = state
    BY <2>1, BundleCallNow
  <2>3. CASE call.answer.kind = "ok"
    <3>1. call' = [call EXCEPT !.at = "verify", !.answer = call.answer] /\ state' = state
      BY <1>3, <2>2, <2>3 DEF Bundle!Answered, Bundle!Goto, Bundle!Call
    <3>2. ~Bundle!IsRejected(call.answer)
      BY <2>3 DEF Bundle!IsRejected
    <3> QED  BY <2>1, <2>2, <3>1, <3>2, BundleContinue
  <2>4. CASE call.answer.kind = "rejected"
    <3>1. call' = None /\ state' = state
      BY <1>3, <2>4 DEF Bundle!Answered, Bundle!netDefinitiveFailure, Bundle!Finish
    <3>2. Bundle!Unsent(call)
      BY <2>1, <2>2, <2>4 DEF Bundle!Unsent, Bundle!IsRejected
    <3>3. /\ UNCHANGED Bundle!service /\ imported' = imported /\ late' = late /\ relabelled' = relabelled
          /\ lost' \in BOOLEAN /\ (lost => lost') /\ crashes' \in 0 .. MaxCrashes
      BY <2>1, BundleTypes DEF Bundle!history
    <3> QED  BY <2>1, <3>1, <3>2, <3>3, BundleDrops
  <2>5. CASE call.answer.kind \notin {"ok", "rejected"}
    <3>1. Bundle!Finish(Bundle!Pending(call.prior, call.plan, call.answer.receipt))
      BY <1>3, <2>5 DEF Bundle!Answered, Bundle!netDefinitiveFailure
    <3> QED  BY <2>1, <2>2, <3>1, BundleUnresolved
  <2> QED  BY <2>3, <2>4, <2>5
<1>4. CASE Bundle!Verify
  <2>1. /\ call # None /\ call.at = "verify" /\ call' = [call EXCEPT !.at = "after"] /\ state' = state
        /\ UNCHANGED <<Bundle!service, Bundle!history, crashes>>
    BY <1>4 DEF Bundle!Verify, Bundle!At, Bundle!Goto
  <2>2. /\ call \in Bundle!Call /\ call.plan # None /\ call.answer # None /\ call.answer \in Bundle!Answer
        /\ ~Bundle!IsRejected(call.answer)
    BY <2>1, BundleCallNow
  <2>3. call' = [call EXCEPT !.at = "after", !.answer = call.answer]
    BY <2>1, <2>2 DEF Bundle!Call
  <2> QED  BY <2>1, <2>2, <2>3, BundleContinue
<1>5. CASE Bundle!FinishWrite
  BY <1>5, BundleFinishWrite
<1>6. CASE Bundle!ReadASPAs
  BY <1>6, BundleReadASPAs
<1>7. CASE Bundle!ImportASPAs
  BY <1>7, BundleImportASPAs
<1>8. CASE Bundle!NoAnswer
  <2>1. /\ call # None /\ call.at \in {"post", "answer"} /\ state' = state
        /\ call' = [call EXCEPT !.at = "answer", !.answer = Bundle!Uncertain]
        /\ UNCHANGED <<Bundle!service, Bundle!history, crashes>>
    BY <1>8 DEF Bundle!NoAnswer
  <2>2. call.plan # None
    BY <2>1, BundleCallNow
  <2>3. Bundle!Uncertain \in Bundle!Answer /\ ~Bundle!IsRejected(Bundle!Uncertain)
    BY BundleUncertain DEF Bundle!IsRejected
  <2> QED  BY <2>1, <2>2, <2>3, BundleContinue
<1>9. CASE Bundle!Unconfirmed
  <2>1. /\ call # None /\ call.at \in {"verify", "after", "afterASPAs"}
        /\ Bundle!Finish(Bundle!Pending(call.prior, call.plan, call.answer.receipt))
        /\ UNCHANGED <<Bundle!service, Bundle!history, crashes>>
    BY <1>9 DEF Bundle!Unconfirmed, Bundle!At
  <2>2. call.plan # None /\ call.answer # None
    BY <2>1, BundleCallNow
  <2> QED  BY <2>1, <2>2, BundleUnresolved
<1>10. ASSUME NEW at \in {"list", "aspas"}, Bundle!Fail(at) PROVE Bundle!IInv'
  <2>1. call # None /\ call.at = at /\ call' = None /\ state' = state
        /\ UNCHANGED <<Bundle!service, Bundle!history, crashes>>
    BY <1>10 DEF Bundle!Fail, Bundle!Finish
  <2>2. call.plan = None
    BY <2>1, BundleCallNow
  <2>3. /\ UNCHANGED Bundle!service /\ imported' = imported /\ late' = late /\ relabelled' = relabelled
        /\ lost' \in BOOLEAN /\ (lost => lost') /\ crashes' \in 0 .. MaxCrashes
    BY <2>1, BundleTypes DEF Bundle!history
  <2> QED  BY <2>1, <2>2, <2>3, BundleDrops
<1>11. CASE Bundle!Crash
  <2>1. /\ call # None /\ call' = None /\ state' = state /\ lost' = (lost \/ call.n # 0)
        /\ crashes < MaxCrashes /\ crashes' = crashes + 1
        /\ UNCHANGED Bundle!service /\ imported' = imported /\ late' = late /\ relabelled' = relabelled
    BY <1>11 DEF Bundle!Crash
  <2>2. lost' \in BOOLEAN /\ (lost => lost') /\ (~lost' => call.n = 0)
    BY <2>1, BundleTypes
  <2>3. crashes' \in 0 .. MaxCrashes
    BY <2>1, BundleTypes
  <2>4. ~lost' => call.plan = None \/ Bundle!Unsent(call)
    BY <2>1, <2>2 DEF Bundle!Unsent
  <2> QED  BY <2>1, <2>2, <2>3, <2>4, BundleDrops
<1>12. CASE Bundle!PostTransaction
  BY <1>12, BundlePost
<1> QED
  BY <1>1, <1>2, <1>3, <1>4, <1>5, <1>6, <1>7, <1>8, <1>9, <1>10, <1>11, <1>12
  DEF Bundle!CallStep, Bundle!CallFails

\* What a request that leaves the wire makes of the ROAs, and what the caller
\* hears.
BundleEffect(r) ==
  /\ roas' \in [ROAHandles -> Contents \cup {None}] /\ by' \in [ROAHandles -> 0 .. MaxTransactions]
  /\ aspas' \in [Customers -> ProviderSets \cup {None}]
  /\ Bundle!UniqueKeys(roas')
  /\ \A h \in ROAHandles :
       \/ roas'[h] \in r.tx.addROAs /\ by'[h] = r.n /\ (roas[h] = None \/ h \in r.tx.deleteROAs)
       \/ roas'[h] = None /\ h \in r.tx.deleteROAs
       \/ roas'[h] = roas[h] /\ by'[h] = by[h]

BundleTold(r) ==
  \/ call' = call
  \/ \E a \in Bundle!Answer :
       /\ call # None /\ call.n = r.n /\ call.at = "answer" /\ call.answer = None
       /\ call' = [call EXCEPT !.answer = a]
       /\ a.kind = "rejected" => wire' = wire \ {r} /\ UNCHANGED <<roas, aspas, by>>

\* A request that takes effect.
LEMMA BundleApply ==
  ASSUME Bundle!Assumption, Bundle!IInv, NEW r \in wire,
         NEW g \in Bundle!Assignments(r.tx), Bundle!Acceptable(r.tx), Bundle!Apply(r, g)
  PROVE  BundleEffect(r)
<1> DEFINE t == r.tx
           mine(h) == {o \in t.addROAs : g[o] = h}
<1>1. /\ t \in Bundle!Tx /\ t.addROAs \subseteq Contents /\ t.deleteROAs \subseteq ROAHandles
      /\ t.addASPAs \in [Customers -> ProviderSets \cup {None}]
      /\ r.n \in 1 .. MaxTransactions /\ None \notin Contents
      /\ roas \in [ROAHandles -> Contents \cup {None}] /\ by \in [ROAHandles -> 0 .. MaxTransactions]
      /\ aspas \in [Customers -> ProviderSets \cup {None}]
      /\ \A o, p \in t.addROAs : KeyOf[o] = KeyOf[p] => o = p
      /\ Bundle!UniqueKeys(roas)
  BY BundleNumbers, BundleTypes DEF Bundle!Tx, Bundle!ASPAs, Bundle!ServiceInv
<1>2. /\ g \in [t.addROAs -> ROAHandles]
      /\ \A o \in t.addROAs : roas[g[o]] = None \/ g[o] \in t.deleteROAs
      /\ \A o, p \in t.addROAs : g[o] = g[p] => o = p
  BY <1>1 DEF Bundle!Assignments, Bundle!Live
<1>3. /\ roas' = [h \in ROAHandles |-> IF mine(h) # {} THEN CHOOSE o \in mine(h) : TRUE
                                       ELSE IF h \in t.deleteROAs THEN None ELSE roas[h]]
      /\ by' = [h \in ROAHandles |-> IF mine(h) # {} THEN r.n ELSE by[h]]
      /\ aspas' = [c \in Customers |-> IF t.addASPAs[c] # None THEN t.addASPAs[c]
                                       ELSE IF c \in t.deleteASPAs THEN None ELSE aspas[c]]
  BY DEF Bundle!Apply
<1>4. aspas' \in [Customers -> ProviderSets \cup {None}]
  BY <1>1, <1>3
<1>5. \A o \in t.addROAs : \A h \in ROAHandles :
        roas[h] # None /\ h \notin t.deleteROAs => KeyOf[roas[h]] # KeyOf[o]
  BY DEF Bundle!Acceptable, Bundle!Live
<1> HIDE DEF t
<1>6. ASSUME NEW h \in ROAHandles
      PROVE  \/ /\ roas'[h] \in t.addROAs /\ g[roas'[h]] = h /\ by'[h] = r.n
                /\ roas[h] = None \/ h \in t.deleteROAs
             \/ roas'[h] = None /\ h \in t.deleteROAs /\ by'[h] = by[h]
             \/ roas'[h] = roas[h] /\ by'[h] = by[h] /\ h \notin t.deleteROAs
  <2>1. roas'[h] = IF mine(h) # {} THEN CHOOSE o \in mine(h) : TRUE
                   ELSE IF h \in t.deleteROAs THEN None ELSE roas[h]
    BY <1>3
  <2>2. by'[h] = IF mine(h) # {} THEN r.n ELSE by[h]
    BY <1>3
  <2>3. CASE mine(h) # {}
    <3> DEFINE S == mine(h)
    <3>1. (CHOOSE o \in S : TRUE) \in S
      <4> HIDE DEF S
      <4> QED  BY <2>3 DEF S
    <3>2. roas'[h] \in S
      BY <2>1, <2>3, <3>1
    <3>3. roas'[h] \in t.addROAs /\ g[roas'[h]] = h
      BY <3>2
    <3> QED  BY <1>2, <2>2, <2>3, <3>3
  <2>4. CASE mine(h) = {}
    BY <2>1, <2>2, <2>4
  <2> QED  BY <2>3, <2>4
<1>7. roas' \in [ROAHandles -> Contents \cup {None}]
  <2>1. \A h \in ROAHandles : roas'[h] \in Contents \cup {None}
    BY <1>1, <1>6
  <2> HIDE DEF mine
  <2> QED  BY <1>3, <2>1
<1>8. by' \in [ROAHandles -> 0 .. MaxTransactions]
  <2>1. r.n \in 0 .. MaxTransactions
    BY <1>1
  <2> HIDE DEF mine
  <2> QED  BY <1>1, <1>3, <2>1
<1> HIDE DEF mine
<1>9. Bundle!UniqueKeys(roas')
  <2> SUFFICES ASSUME NEW h \in ROAHandles, NEW k \in ROAHandles, roas'[h] # None, roas'[k] # None,
                      KeyOf[roas'[h]] = KeyOf[roas'[k]]
               PROVE  h = k
    BY DEF Bundle!UniqueKeys, Bundle!Live
  <2>1. CASE roas'[h] \in t.addROAs /\ g[roas'[h]] = h /\ roas'[k] \in t.addROAs /\ g[roas'[k]] = k
    BY <1>1, <2>1 DEF t
  <2>2. CASE roas'[h] \in t.addROAs /\ roas'[k] = roas[k] /\ k \notin t.deleteROAs
    BY <1>5, <2>2
  <2>3. CASE roas'[k] \in t.addROAs /\ roas'[h] = roas[h] /\ h \notin t.deleteROAs
    BY <1>5, <2>3
  <2>4. CASE roas'[k] = roas[k] /\ roas'[h] = roas[h]
    BY <1>1, <2>4 DEF Bundle!UniqueKeys, Bundle!Live
  <2> QED  BY <1>6, <2>1, <2>2, <2>3, <2>4
<1> QED  BY <1>4, <1>6, <1>7, <1>8, <1>9 DEF BundleEffect, t

LEMMA BundleServeCases ==
  ASSUME Bundle!Assumption, Bundle!IInv, NEW r \in wire, Bundle!Serve(r)
  PROVE  /\ \/ wire' = wire \ {r} /\ BundleEffect(r)
            \/ \E w \in Bundle!Request :
                 /\ w.n = r.n /\ w.tx = r.tx /\ wire' = (wire \ {r}) \cup {w}
                 /\ UNCHANGED <<roas, aspas, by>>
         /\ BundleTold(r)
         /\ UNCHANGED <<sent, edits, state, lost, imported, late, relabelled, crashes>>
<1>1. r \in Bundle!Request /\ r.tx \in Bundle!Tx /\ r.tx.addROAs \subseteq Contents
  BY BundleTypes DEF Bundle!Request, Bundle!Tx
<1>2. UNCHANGED <<roas, aspas, by>> => BundleEffect(r)
  BY BundleTypes DEF BundleEffect, Bundle!ServiceInv, Bundle!UniqueKeys, Bundle!Live
<1>3. ASSUME NEW answers, Bundle!Told(r.n, answers), answers \subseteq Bundle!Answer
      PROVE  /\ \/ call' = call
                \/ \E a \in answers :
                     /\ a \in Bundle!Answer
                     /\ call # None /\ call.n = r.n /\ call.at = "answer" /\ call.answer = None
                     /\ call' = [call EXCEPT !.answer = a]
             /\ UNCHANGED <<state, lost, imported, late, relabelled, crashes>>
  BY <1>3 DEF Bundle!Told, Bundle!history
<1>4. ASSUME NEW g \in Bundle!Assignments(r.tx)
      PROVE  /\ g \in Bundle!Receipt
             /\ Bundle!Readings(g) \subseteq Bundle!Answer
             /\ \A a \in Bundle!Readings(g) : a.kind # "rejected"
  <2>1. g \in [r.tx.addROAs -> ROAHandles]
    BY <1>1 DEF Bundle!Assignments, Bundle!Live, Bundle!Tx
  <2>2. g \in Bundle!Receipt
    BY <1>1, <2>1 DEF Bundle!Receipt
  <2>3. \A some \in SUBSET DOMAIN g : [p \in some |-> g[p]] \in Bundle!Receipt
    <3> SUFFICES ASSUME NEW some \in SUBSET DOMAIN g PROVE [p \in some |-> g[p]] \in Bundle!Receipt
      OBVIOUS
    <3>1. [p \in some |-> g[p]] \in [some -> ROAHandles] /\ some \in SUBSET Contents
      BY <1>1, <2>1
    <3> QED  BY <3>1 DEF Bundle!Receipt
  <2>4. /\ Bundle!Readings(g) \subseteq Bundle!Answer
        /\ \A a \in Bundle!Readings(g) : a.kind # "rejected"
    BY <2>2, <2>3 DEF Bundle!Readings, Bundle!Answer
  <2> QED  BY <2>2, <2>4
<1>5. CASE /\ r.given = None /\ Bundle!Acceptable(r.tx)
           /\ \E g \in Bundle!Assignments(r.tx) : Bundle!Apply(r, g) /\ Bundle!Told(r.n, Bundle!Readings(g))
           /\ wire' = wire \ {r} /\ UNCHANGED <<sent, edits>>
  <2>1. PICK g \in Bundle!Assignments(r.tx) : Bundle!Apply(r, g) /\ Bundle!Told(r.n, Bundle!Readings(g))
    BY <1>5
  <2>2. BundleEffect(r)
    BY <1>5, <2>1, BundleApply
  <2>3. BundleTold(r) /\ UNCHANGED <<state, lost, imported, late, relabelled, crashes>>
    BY <1>3, <1>4, <2>1 DEF BundleTold
  <2> QED  BY <1>5, <2>2, <2>3
<1>6. CASE Bundle!Complete(r) /\ UNCHANGED <<state, call, Bundle!history, crashes>>
  <2>1. /\ Bundle!Acceptable(r.tx) /\ r.given \in Bundle!Assignments(r.tx) /\ Bundle!Apply(r, r.given)
        /\ wire' = wire \ {r} /\ UNCHANGED <<sent, edits, state, call, lost, imported, late, relabelled, crashes>>
    BY <1>6 DEF Bundle!Complete, Bundle!history
  <2>2. BundleEffect(r)
    BY <2>1, BundleApply
  <2>3. BundleTold(r)
    BY <2>1 DEF BundleTold
  <2> QED  BY <2>1, <2>2, <2>3
<1>7. CASE /\ r.given = None /\ Bundle!Acceptable(r.tx)
           /\ \E g \in Bundle!Assignments(r.tx) :
                /\ wire' = (wire \ {r}) \cup {[r EXCEPT !.given = g]}
                /\ Bundle!Told(r.n, Bundle!Readings(g))
           /\ UNCHANGED <<roas, aspas, by, sent, edits>>
  <2>1. PICK g \in Bundle!Assignments(r.tx) :
               /\ wire' = (wire \ {r}) \cup {[r EXCEPT !.given = g]}
               /\ Bundle!Told(r.n, Bundle!Readings(g))
    BY <1>7
  <2> DEFINE w == [r EXCEPT !.given = g]
  <2>2. w \in Bundle!Request /\ w.n = r.n /\ w.tx = r.tx
    BY <1>1, <1>4 DEF Bundle!Request
  <2>3. wire' = (wire \ {r}) \cup {w}
    BY <2>1
  <2>4. BundleTold(r) /\ UNCHANGED <<state, lost, imported, late, relabelled, crashes>>
    BY <1>3, <1>4, <2>1 DEF BundleTold
  <2>5. UNCHANGED <<roas, aspas, by, sent, edits>>
    BY <1>7
  <2> HIDE DEF w
  <2> QED  BY <2>2, <2>3, <2>4, <2>5
<1>8. CASE /\ wire' = wire \ {r}
           /\ IF r.given = None THEN Bundle!Told(r.n, {Bundle!Rejected}) ELSE Bundle!Told(r.n, {})
           /\ UNCHANGED <<roas, aspas, by, sent, edits>>
  <2>1. PICK answers \in {{Bundle!Rejected}, {}} : Bundle!Told(r.n, answers)
    BY <1>8
  <2>2. answers \subseteq Bundle!Answer
    BY BundleUncertain
  <2>3. wire' = wire \ {r} /\ UNCHANGED <<roas, aspas, by, sent, edits>>
    BY <1>8
  <2>4. BundleTold(r) /\ UNCHANGED <<state, lost, imported, late, relabelled, crashes>>
    BY <1>3, <2>1, <2>2, <2>3 DEF BundleTold
  <2> QED  BY <1>2, <2>3, <2>4
<1> QED
  BY <1>5, <1>6, <1>7, <1>8 DEF Bundle!Serve, Bundle!CarryOut, Bundle!AnswerFirst, Bundle!Refuse

\* What the caller hears changes its answer only; a rejection means that
\* nothing was done.
LEMMA BundleHeard ==
  ASSUME Bundle!Assumption, Bundle!IInv, NEW r \in wire, BundleTold(r), state' = state
  PROVE  /\ call' \in Bundle!Call \cup {None} /\ (call' = None) = (call = None)
         /\ call # None =>
              /\ call'.op = call.op /\ call'.at = call.at /\ call'.desired = call.desired
              /\ call'.prior = call.prior /\ call'.seen = call.seen /\ call'.plan = call.plan
              /\ call'.n = call.n
              /\ \/ call'.answer = call.answer
                 \/ /\ call.at = "answer" /\ call.n = r.n
                    /\ Bundle!IsRejected(call'.answer) => wire' = wire \ {r} /\ UNCHANGED <<roas, aspas, by>>
         /\ Bundle!PlanOf(state, call)' = Bundle!PlanOf(state, call)
         /\ Bundle!Looking(call)' = Bundle!Looking(call)
         /\ Bundle!Unsent(call)' =>
              \/ Bundle!Unsent(call)
              \/ /\ call # None /\ call.plan # None /\ call.plan.tx = r.tx
                 /\ wire' = wire \ {r} /\ UNCHANGED <<roas, aspas, by>>
<1>1. ASSUME call # None
      PROVE  /\ call' \in Bundle!Call /\ call' # None
             /\ call'.op = call.op /\ call'.at = call.at /\ call'.desired = call.desired
             /\ call'.prior = call.prior /\ call'.seen = call.seen /\ call'.plan = call.plan
             /\ call'.n = call.n
             /\ \/ call'.answer = call.answer
                \/ /\ call.at = "answer" /\ call.n = r.n
                   /\ Bundle!IsRejected(call'.answer) => wire' = wire \ {r} /\ UNCHANGED <<roas, aspas, by>>
  <2>1. call \in Bundle!Call
    BY <1>1, BundleCallNow
  <2>2. CASE call' = call
    BY <1>1, <2>1, <2>2
  <2>3. ASSUME NEW a \in Bundle!Answer, call.n = r.n, call.at = "answer",
               call' = [call EXCEPT !.answer = a],
               a.kind = "rejected" => wire' = wire \ {r} /\ UNCHANGED <<roas, aspas, by>>
        PROVE  /\ call' \in Bundle!Call
               /\ call'.op = call.op /\ call'.at = call.at /\ call'.desired = call.desired
               /\ call'.prior = call.prior /\ call'.seen = call.seen /\ call'.plan = call.plan
               /\ call'.n = call.n /\ call'.answer = a
    BY <2>1, <2>3 DEF Bundle!Call
  <2>4. CASE \E a \in Bundle!Answer :
               /\ call # None /\ call.n = r.n /\ call.at = "answer" /\ call.answer = None
               /\ call' = [call EXCEPT !.answer = a]
               /\ a.kind = "rejected" => wire' = wire \ {r} /\ UNCHANGED <<roas, aspas, by>>
    BY <2>3, <2>4, BundleTypes DEF Bundle!IsRejected
  <2> QED  BY <2>2, <2>4 DEF BundleTold
<1>2. call = None => call' = None
  BY DEF BundleTold
<1>3. Bundle!PlanOf(state, call)' = Bundle!PlanOf(state, call)
  BY <1>1, <1>2 DEF Bundle!PlanOf
<1>4. Bundle!Looking(call)' = Bundle!Looking(call)
  BY <1>1, <1>2 DEF Bundle!Looking
<1>5. ASSUME Bundle!Unsent(call)', ~Bundle!Unsent(call)
      PROVE  /\ call # None /\ call.plan # None /\ call.plan.tx = r.tx
             /\ wire' = wire \ {r} /\ UNCHANGED <<roas, aspas, by>>
  <2>1. call # None /\ call.plan # None
    BY <1>1, <1>2, <1>5 DEF Bundle!Unsent
  <2>2. call'.answer # call.answer /\ Bundle!IsRejected(call'.answer)
    BY <1>1, <1>5, <2>1 DEF Bundle!Unsent, Bundle!IsRejected
  <2>3. call.n = r.n
    BY <1>1, <2>1, <2>2
  <2> QED  BY <1>1, <2>1, <2>2, <2>3, BundleCallNow
<1> QED  BY <1>1, <1>2, <1>3, <1>4, <1>5

LEMMA BundleServe == ASSUME Bundle!Assumption, Bundle!IInv, NEW r \in wire, Bundle!Serve(r) PROVE Bundle!IInv'
<1> DEFINE done == wire' = wire \ {r} /\ BundleEffect(r)
           p == Bundle!PlanOf(state, call)
<1>1. /\ \/ done
         \/ \E w \in Bundle!Request :
              /\ w.n = r.n /\ w.tx = r.tx /\ wire' = (wire \ {r}) \cup {w}
              /\ UNCHANGED <<roas, aspas, by>>
      /\ BundleTold(r)
      /\ UNCHANGED <<sent, edits, state, lost, imported, late, relabelled, crashes>>
  BY BundleServeCases
<1>2. /\ call' \in Bundle!Call \cup {None} /\ (call' = None) = (call = None)
      /\ call # None =>
           /\ call'.op = call.op /\ call'.at = call.at /\ call'.desired = call.desired
           /\ call'.prior = call.prior /\ call'.seen = call.seen /\ call'.plan = call.plan
           /\ call'.n = call.n
           /\ call'.answer = call.answer \/ call.at = "answer"
      /\ Bundle!PlanOf(state, call)' = Bundle!PlanOf(state, call)
      /\ Bundle!Looking(call)' = Bundle!Looking(call)
      /\ Bundle!Unsent(call)' =>
           \/ Bundle!Unsent(call)
           \/ /\ call # None /\ call.plan # None /\ call.plan.tx = r.tx
              /\ wire' = wire \ {r} /\ UNCHANGED <<roas, aspas, by>>
  BY <1>1, BundleHeard
<1>3. /\ wire' \subseteq Bundle!Request
      /\ \A x \in wire' : \E y \in wire : x.n = y.n /\ x.tx = y.tx /\ (x = y \/ y = r)
      /\ \A x \in wire' : x.n = r.n => r \notin wire' \ {x} /\ ~done
      /\ \A x, y \in wire' : x.n = y.n => x = y
  <2>1. wire \subseteq Bundle!Request /\ \A x, y \in wire : x.n = y.n => x = y
    BY BundleTypes DEF Bundle!ServiceInv
  <2>2. CASE done
    BY <2>1, <2>2
  <2>3. ASSUME NEW w \in Bundle!Request, w.n = r.n, w.tx = r.tx, wire' = (wire \ {r}) \cup {w}, ~done
        PROVE  /\ wire' \subseteq Bundle!Request
               /\ \A x \in wire' : \E y \in wire : x.n = y.n /\ x.tx = y.tx /\ (x = y \/ y = r)
               /\ \A x \in wire' : x.n = r.n => r \notin wire' \ {x} /\ ~done
               /\ \A x, y \in wire' : x.n = y.n => x = y
    <3> HIDE DEF done
    <3> QED  BY <2>1, <2>3
  <2> QED  BY <1>1, <2>2, <2>3
<1>4. \/ BundleEffect(r)
      \/ /\ UNCHANGED <<roas, aspas, by>>
  BY <1>1
<1>5. /\ roas' \in [ROAHandles -> Contents \cup {None}] /\ by' \in [ROAHandles -> 0 .. MaxTransactions]
      /\ aspas' \in [Customers -> ProviderSets \cup {None}] /\ Bundle!UniqueKeys(roas')
  BY <1>4, BundleTypes DEF BundleEffect, Bundle!ServiceInv, Bundle!UniqueKeys, Bundle!Live
<1>6. \A h \in ROAHandles :
        \/ roas'[h] \in r.tx.addROAs /\ by'[h] = r.n
        \/ roas'[h] = None
        \/ roas'[h] = roas[h] /\ by'[h] = by[h]
  BY <1>4 DEF BundleEffect
<1>7. r.n # 0 /\ None \notin Contents /\ r.tx.addROAs \subseteq Contents
  BY BundleNumbers, BundleTypes DEF Bundle!Tx
<1>8. \A h \in ROAHandles : \A J : Bundle!Own(h, J) => Bundle!Own(h, J)'
  BY <1>6, <1>7 DEF Bundle!Own
<1>9. Bundle!TypeOK'
  BY <1>1, <1>2, <1>3, <1>5, BundleTypes, BundleTypeOK
<1>10. Bundle!ServiceInv'
  <2>1. Bundle!ServiceInv
    BY BundleTypes
  <2>2. \A x \in wire' : x.n <= sent' /\ \A o, k \in x.tx.addROAs : KeyOf[o] = KeyOf[k] => o = k
    BY <1>1, <1>3, <2>1 DEF Bundle!ServiceInv
  <2> QED  BY <1>3, <1>5, <2>2 DEF Bundle!ServiceInv, Bundle!UniqueKeys, Bundle!Live
<1>11. Bundle!StateInv(state)'
  BY <1>1, BundleTypes DEF Bundle!StateInv
<1>12. Bundle!CallInv(state, call)'
  <2>1. Bundle!CallInv(state, call)
    BY BundleTypes
  <2> SUFFICES ASSUME call' # None, call # None PROVE Bundle!CallInv(state, call)'
    BY <1>2 DEF Bundle!CallInv
  <2>2. \A x \in wire' : x.n = call'.n => x.tx = call'.plan.tx
    BY <1>2, <1>3, BundleCallNow
  <2>3. /\ call'.at \in {"list", "aspas", "post"} => call'.n = 0 /\ call'.answer = None
        /\ call'.at \in {"verify", "after", "afterASPAs"} => call'.answer # None /\ ~Bundle!IsRejected(call'.answer)
    BY <1>2, BundleCallNow
  <2>4. call'.n <= sent'
    BY <1>1, <1>2, BundleCallNow
  <2> QED  BY <1>1, <1>2, <2>1, <2>2, <2>3, <2>4 DEF Bundle!CallInv
<1>13. \A m \in Bundle!Plan : \A J : Bundle!PlanOwn(m, J) => Bundle!PlanOwn(m, J)'
  BY <1>8 DEF Bundle!PlanOwn
<1>14. Bundle!OwnInv(state, call, imported \cup late)'
  <2>0. PICK I : I = imported \cup late
    OBVIOUS
  <2>1. Bundle!OwnInv(state, call, I)
    BY <2>0, BundleTypes
  <2>2. \A x \in wire' : \A h \in x.tx.deleteROAs : Bundle!Own(h, I)'
    <3> SUFFICES ASSUME NEW x \in wire', NEW h \in x.tx.deleteROAs PROVE Bundle!Own(h, I)'
      OBVIOUS
    <3>1. PICK y \in wire : x.tx = y.tx
      BY <1>3
    <3>2. h \in ROAHandles
      BY <3>1, BundleNumbers DEF Bundle!Tx
    <3>3. Bundle!Own(h, I)
      BY <2>1, <3>1 DEF Bundle!OwnInv
    <3> QED  BY <1>8, <3>2, <3>3
  <2>3. ASSUME state # None
        PROVE  /\ \A h \in Bundle!Owned(state.owned) : Bundle!Own(h, I)'
               /\ state.recovery # None => \A m : m = state.recovery.plan => Bundle!PlanOwn(m, I)'
    <3>1. /\ Bundle!Owned(state.owned) \subseteq ROAHandles
          /\ state.recovery # None => state.recovery.plan \in Bundle!Plan
      BY <2>3, BundleTypes, BundleStateFields DEF Bundle!Owned
    <3> QED  BY <1>8, <1>13, <2>1, <2>3, <3>1 DEF Bundle!OwnInv
  <2>4. ASSUME call # None
        PROVE  /\ call.op = "write" /\ call.at = "aspas"
                    => \A h \in ROAHandles \ Bundle!Live(call.seen) : Bundle!Own(h, I)'
               /\ call.plan # None => \A m : m = call.plan => Bundle!PlanOwn(m, I)'
    <3>1. call.plan # None => call.plan \in Bundle!Plan
      BY <2>4, BundleCallNow
    <3> QED  BY <1>8, <1>13, <2>1, <2>4, <3>1 DEF Bundle!OwnInv
  <2>5. (imported \cup late)' = I
    BY <1>1, <2>0
  <2> QED  BY <1>1, <1>2, <2>2, <2>3, <2>4, <2>5 DEF Bundle!OwnInv, Bundle!Live
<1>15. p = None \/ p \in Bundle!Plan
  <2>1. call # None => call.plan \in Bundle!Plan \cup {None}
    BY BundleCallNow
  <2>2. state # None /\ state.recovery # None => state.recovery.plan \in Bundle!Plan
    BY BundleTypes, BundleStateFields
  <2> QED  BY <2>1, <2>2 DEF Bundle!PlanOf
<1>16. ASSUME ~lost', ~relabelled', late' = {}
       PROVE  (Bundle!AddInv(state, call) /\ Bundle!FreshInv(state, call) /\ Bundle!ClaimInv(state, call))'
  <2>1. Bundle!AddInv(state, call) /\ Bundle!FreshInv(state, call) /\ Bundle!ClaimInv(state, call)
    BY <1>1, <1>16, BundleTypes
  <2>2. PICK m : m = p /\ Bundle!PlanOf(state, call)' = m
    BY <1>2
  <2> HIDE DEF p
  <2>3. m # None => Bundle!PlanOK(m)
    BY <2>2, BundleCallNow, BundleTypes DEF Bundle!PlanOf, Bundle!StateInv, p
  <2>4. \A l \in Bundle!AddedLabels(m) : m.desired.roas[l] # None
    BY DEF Bundle!AddedLabels
  \* Either the request adds the plan's ROAs, or the step only removes some.
  <2>5. r.tx.addROAs # {} =>
          /\ r \in Bundle!Adding /\ Bundle!Adding = {r} /\ m # None /\ r.tx = m.tx
          /\ ~Bundle!Copied(m, roas) /\ (Bundle!Looking(call) => ~Bundle!Copied(m, call.seen))
          /\ Bundle!AddedLabels(m) # {}
    <3> SUFFICES ASSUME r.tx.addROAs # {}
                 PROVE  /\ r \in Bundle!Adding /\ Bundle!Adding = {r} /\ m # None /\ r.tx = m.tx
                        /\ ~Bundle!Copied(m, roas) /\ (Bundle!Looking(call) => ~Bundle!Copied(m, call.seen))
                        /\ Bundle!AddedLabels(m) # {}
      OBVIOUS
    <3>1. r \in Bundle!Adding
      BY DEF Bundle!Adding
    <3>2. \A x \in Bundle!Adding : x = r
      BY <2>1, <3>1 DEF Bundle!AddInv
    <3>3. Bundle!PlanOf(state, call) = m
      BY <2>2 DEF p
    <3>4. /\ m # None /\ r.tx = m.tx /\ ~Bundle!Copied(m, roas)
          /\ (Bundle!Looking(call) => ~Bundle!Copied(m, call.seen))
      BY <2>1, <3>1, <3>3 DEF Bundle!AddInv
    <3>5. Bundle!AddedLabels(m) # {}
      BY <2>3, <3>4 DEF Bundle!PlanOK
    <3> QED  BY <3>1, <3>2, <3>4, <3>5
  <2>6. r.tx.addROAs = {} => \A h \in ROAHandles : roas'[h] = None \/ (roas'[h] = roas[h] /\ by'[h] = by[h])
    BY <1>6
  <2>7. \A x \in Bundle!Adding' : /\ x \in wire' /\ \E y \in Bundle!Adding : x.n = y.n /\ x.tx = y.tx
                                  /\ ~(done /\ r.tx.addROAs # {})
    <3> SUFFICES ASSUME NEW x \in wire', x.tx.addROAs # {}
                 PROVE  (\E y \in Bundle!Adding : x.n = y.n /\ x.tx = y.tx) /\ ~(done /\ r.tx.addROAs # {})
      BY DEF Bundle!Adding
    <3>1. PICK y \in wire : x.n = y.n /\ x.tx = y.tx /\ (x = y \/ y = r)
      BY <1>3
    <3>2. y \in Bundle!Adding
      BY <3>1 DEF Bundle!Adding
    <3>3. ASSUME done, r.tx.addROAs # {} PROVE FALSE
      <4>1. y = r
        BY <2>5, <3>2, <3>3
      <4> HIDE DEF done
      <4> QED  BY <1>3, <3>1, <3>3, <4>1
    <3> QED  BY <3>1, <3>2, <3>3
  <2>8. \A R : ~Bundle!Copied(m, R) <=> ~(\E l \in Bundle!AddedLabels(m), h \in ROAHandles : R[h] = m.desired.roas[l])
    BY DEF Bundle!Copied
  \* What is not copied stays so unless the request adds it.
  <2>9. ~Bundle!Copied(m, roas) /\ ~(done /\ r.tx.addROAs # {}) => ~Bundle!Copied(m, roas')
    <3>1. ~(done /\ r.tx.addROAs # {}) => \A h \in ROAHandles : roas'[h] = None \/ roas'[h] = roas[h]
      <4>1. CASE done
        BY <2>6, <4>1
      <4>2. CASE ~done
        <5>1. roas' = roas
          BY <1>1, <4>2
        <5> QED  BY <5>1
      <4> QED  BY <4>1, <4>2
    <3> HIDE DEF done
    <3> QED  BY <2>4, <2>8, <3>1
  <2>10. Bundle!Unsent(call)' => Bundle!Adding' = {} /\ ~Bundle!Copied(call'.plan, roas')
    <3> SUFFICES ASSUME Bundle!Unsent(call)'
                 PROVE  Bundle!Adding' = {} /\ ~Bundle!Copied(call'.plan, roas')
      OBVIOUS
    <3>1. call # None /\ call.plan # None /\ call'.plan = call.plan
      BY <1>2 DEF Bundle!Unsent
    <3>2. m = call.plan
      BY <2>2, <3>1 DEF Bundle!PlanOf, p
    <3>3. CASE Bundle!Unsent(call)
      <4>1. Bundle!Adding = {} /\ ~Bundle!Copied(m, roas)
        BY <2>1, <3>2, <3>3 DEF Bundle!AddInv
      <4>2. r.tx.addROAs = {}
        BY <2>5, <4>1
      <4>3. Bundle!Adding' = {}
        BY <2>7, <4>1
      <4> QED  BY <2>9, <3>1, <3>2, <4>1, <4>2, <4>3
    <3>4. CASE /\ call.plan.tx = r.tx /\ wire' = wire \ {r} /\ UNCHANGED <<roas, aspas, by>>
      <4>1. CASE r.tx.addROAs # {}
        <5>1. Bundle!Adding' = {}
          BY <2>5, <3>4, <4>1 DEF Bundle!Adding
        <5> QED  BY <2>5, <3>1, <3>2, <3>4, <4>1, <5>1
      <4>2. CASE r.tx.addROAs = {}
        <5>1. Bundle!AddedLabels(m) = {}
          <6>1. m.tx.addROAs = {} /\ Bundle!PlanOK(m)
            BY <2>3, <3>1, <3>2, <3>4, <4>2
          <6>2. m.tx.addROAs = {m.desired.roas[l] : l \in Bundle!AddedLabels(m)}
            BY <6>1 DEF Bundle!PlanOK
          <6> QED  BY <6>1, <6>2
        <5>2. Bundle!Adding = {}
          <6>1. \A x \in Bundle!Adding : x.tx = m.tx /\ x.tx.addROAs # {}
            BY <2>1, <2>2 DEF Bundle!AddInv, Bundle!Adding, p
          <6> QED  BY <3>2, <3>4, <4>2, <6>1
        <5>3. Bundle!Adding' = {}
          BY <2>7, <5>2
        <5> QED  BY <2>8, <3>1, <3>2, <5>1, <5>3
      <4> QED  BY <4>1, <4>2
    <3> QED  BY <1>2, <3>3, <3>4
  <2>11. Bundle!AddInv(state, call)'
    <3>1. \A x, y \in Bundle!Adding' : x = y
      <4> SUFFICES ASSUME NEW x \in Bundle!Adding', NEW y \in Bundle!Adding' PROVE x = y
        OBVIOUS
      <4>1. \E u \in Bundle!Adding : x.n = u.n
        BY <2>7
      <4>2. \E u \in Bundle!Adding : y.n = u.n
        BY <2>7
      <4>3. x.n = y.n
        BY <2>1, <4>1, <4>2 DEF Bundle!AddInv
      <4> QED  BY <1>3, <2>7, <4>3
    <3>2. ASSUME NEW x \in Bundle!Adding'
          PROVE  /\ m # None /\ ~Bundle!Copied(m, roas') /\ x.tx = m.tx
                 /\ Bundle!Looking(call)' => ~Bundle!Copied(m, call'.seen)
      <4>1. Bundle!Adding # {} /\ ~(done /\ r.tx.addROAs # {})
        BY <2>7
      <4>2. m # None /\ ~Bundle!Copied(m, roas) /\ (Bundle!Looking(call) => ~Bundle!Copied(m, call.seen))
            /\ \A y \in Bundle!Adding : y.tx = m.tx
        BY <2>1, <2>2, <4>1 DEF Bundle!AddInv, p
      <4>3. Bundle!Looking(call)' => call'.seen = call.seen
        BY <1>2 DEF Bundle!Looking
      <4> QED  BY <1>2, <2>7, <2>9, <4>1, <4>2, <4>3
    <3> QED  BY <2>2, <2>10, <3>1, <3>2 DEF Bundle!AddInv
  <2>12. Bundle!FreshInv(state, call)'
    <3> SUFFICES ASSUME Bundle!Looking(call),
                        m # None /\ Bundle!AddedLabels(m) # {} => Bundle!Copied(m, call.seen),
                        NEW h \in ROAHandles, roas'[h] # None
                 PROVE  call.seen[h] = roas'[h]
      BY <1>2, <2>2 DEF Bundle!FreshInv, Bundle!Looking
    <3>1. r.tx.addROAs = {}
      BY <2>5
    <3>2. roas'[h] = roas[h]
      BY <2>6, <3>1
    <3> QED  BY <2>1, <2>2, <3>2 DEF Bundle!FreshInv, p
  <2>13. Bundle!ClaimInv(state, call)'
    <3> SUFFICES ASSUME NEW h \in ROAHandles, roas'[h] # None, by'[h] # 0
                 PROVE  \/ state # None /\ h \in Bundle!Owned(state.owned)
                        \/ m # None /\ \E l \in Bundle!AddedLabels(m) : roas'[h] = m.desired.roas[l]
      BY <1>1, <2>2 DEF Bundle!ClaimInv, Bundle!Ours
    <3>1. CASE roas'[h] = roas[h] /\ by'[h] = by[h]
      BY <2>1, <2>2, <3>1 DEF Bundle!ClaimInv, Bundle!Ours, p
    <3>2. CASE roas'[h] \in r.tx.addROAs
      <4>1. m # None /\ roas'[h] \in m.tx.addROAs
        BY <2>5, <3>2
      <4> QED  BY <2>3, <4>1 DEF Bundle!PlanOK
    <3> QED  BY <1>6, <3>1, <3>2
  <2> QED  BY <2>11, <2>12, <2>13
<1>17. ASSUME ~lost', ~relabelled', edits' = 0 PROVE Bundle!QuietInv(state, call)'
  <2>1. Bundle!QuietInv(state, call)
    BY <1>1, <1>17, BundleTypes
  <2>2. wire = {r} /\ p # None /\ ~Bundle!Done(p, roas, aspas) /\ ~Bundle!Unsent(call)
    BY <2>1 DEF Bundle!QuietInv
  <2>3. wire' = {} \/ UNCHANGED <<roas, aspas, by>>
    BY <1>1, <2>2
  <2>4. \A x, y \in wire' : x = y
    BY <1>1, <2>2
  <2>5. Bundle!Unsent(call)' => wire' = {}
    BY <1>2, <2>2
  <2>6. ~(call' # None /\ call'.at = "post")
    BY <1>2, <2>2, BundleCallNow DEF Bundle!Unsent
  <2>7. ~(Bundle!Looking(call) /\ call.op = "write" /\ call.at = "aspas")
    <3> SUFFICES ASSUME call # None, call.op = "write", call.at = "aspas" PROVE FALSE
      BY DEF Bundle!Looking
    <3>1. call.plan = None /\ Bundle!MayWrite(state)
      BY BundleCallNow
    <3> QED  BY <2>2, <3>1 DEF Bundle!PlanOf, Bundle!MayWrite
  <2>8. Bundle!Looking(call) => call.seen = roas /\ call # None
    BY <2>1, <2>2 DEF Bundle!QuietInv, Bundle!Looking
  <2>9. wire' # {} => Bundle!PlanOf(state, call)' # None /\ ~Bundle!Done(Bundle!PlanOf(state, call)', roas', aspas')
    BY <1>2, <2>2, <2>3
  <2> QED  BY <1>2, <2>3, <2>4, <2>5, <2>6, <2>7, <2>8, <2>9 DEF Bundle!QuietInv
<1> QED  BY <1>9, <1>10, <1>11, <1>12, <1>14, <1>16, <1>17 DEF Bundle!IInv

\* What another channel makes is noted, unless the resource looks settled and
\* does not own that handle.
LEMMA BundleEdit ==
  ASSUME Bundle!Assumption, Bundle!IInv, Bundle!OtherChannel
  PROVE  /\ roas' \in [ROAHandles -> Contents \cup {None}] /\ by' \in [ROAHandles -> 0 .. MaxTransactions]
         /\ aspas' \in [Customers -> ProviderSets \cup {None}] /\ Bundle!UniqueKeys(roas')
         /\ edits' \in 0 .. MaxEdits /\ edits' # 0 /\ edits' # edits
         /\ UNCHANGED <<wire, sent, state, call, lost, imported, relabelled, crashes>>
         /\ late \subseteq late' /\ late' \subseteq ROAHandles
         /\ \A h \in ROAHandles :
              \/ roas'[h] = None
              \/ roas'[h] = roas[h] /\ by'[h] = by[h]
              \/ /\ roas[h] = None /\ by'[h] = 0
                 /\ \/ h \in late'
                    \/ /\ call = None /\ wire = {} /\ (state # None => state.recovery = None)
                       /\ state # None => h \notin Bundle!Owned(state.owned)
<1> DEFINE quiet == call = None /\ wire = {} /\ (state # None => state.recovery = None)
           mayAdd == ROAHandles \ (imported \cup IF state = None THEN {} ELSE Bundle!Owned(state.owned))
<1>1. /\ Bundle!Edit(mayAdd)
      /\ late' = IF quiet THEN late ELSE late \cup (Bundle!Live(roas') \ Bundle!Live(roas))
      /\ UNCHANGED <<state, call, lost, imported, relabelled, crashes>>
  BY DEF Bundle!OtherChannel, Bundle!Live
<1>2. /\ roas \in [ROAHandles -> Contents \cup {None}] /\ by \in [ROAHandles -> 0 .. MaxTransactions]
      /\ aspas \in [Customers -> ProviderSets \cup {None}] /\ Bundle!UniqueKeys(roas)
      /\ edits \in 0 .. MaxEdits /\ MaxEdits \in Nat /\ MaxTransactions \in Nat /\ late \subseteq ROAHandles
  BY BundleTypes DEF Bundle!ServiceInv
<1>3. mayAdd \subseteq ROAHandles /\ \A h \in mayAdd : state # None => h \notin Bundle!Owned(state.owned)
  OBVIOUS
<1> HIDE DEF mayAdd
<1>4. edits < MaxEdits /\ edits' = edits + 1 /\ UNCHANGED <<wire, sent>>
  BY <1>1 DEF Bundle!Edit
<1>5. edits' \in 0 .. MaxEdits /\ edits' # 0 /\ edits' # edits
  BY <1>2, <1>4
<1>6. /\ roas' \in [ROAHandles -> Contents \cup {None}] /\ by' \in [ROAHandles -> 0 .. MaxTransactions]
      /\ aspas' \in [Customers -> ProviderSets \cup {None}] /\ Bundle!UniqueKeys(roas')
      /\ \A h \in ROAHandles :
           \/ roas'[h] = None
           \/ roas'[h] = roas[h] /\ by'[h] = by[h]
           \/ roas[h] = None /\ roas'[h] # None /\ by'[h] = 0 /\ h \in mayAdd
  <2>1. CASE (\E h \in Bundle!Live(roas) : roas' = [roas EXCEPT ![h] = None]) /\ UNCHANGED <<aspas, by>>
    <3>1. PICK g \in Bundle!Live(roas) : roas' = [roas EXCEPT ![g] = None]
      BY <2>1
    <3>2. \A h \in ROAHandles : roas'[h] = IF h = g THEN None ELSE roas[h]
      BY <1>2, <3>1
    <3>3. Bundle!UniqueKeys(roas')
      BY <1>2, <3>2 DEF Bundle!UniqueKeys, Bundle!Live
    <3> QED  BY <1>2, <2>1, <3>1, <3>2, <3>3
  <2>2. CASE /\ \E h \in mayAdd \ Bundle!Live(roas), o \in Contents :
                  /\ \A g \in Bundle!Live(roas) : KeyOf[roas[g]] # KeyOf[o]
                  /\ roas' = [roas EXCEPT ![h] = o] /\ by' = [by EXCEPT ![h] = 0]
             /\ UNCHANGED aspas
    <3>1. PICK g \in mayAdd \ Bundle!Live(roas), o \in Contents :
            /\ \A f \in Bundle!Live(roas) : KeyOf[roas[f]] # KeyOf[o]
            /\ roas' = [roas EXCEPT ![g] = o] /\ by' = [by EXCEPT ![g] = 0]
      BY <2>2
    <3>2. /\ g \in ROAHandles /\ roas[g] = None /\ o # None /\ 0 \in 0 .. MaxTransactions
      BY <1>2, <1>3, <3>1, BundleTypes DEF Bundle!Live
    <3>3. \A h \in ROAHandles : /\ roas'[h] = IF h = g THEN o ELSE roas[h]
                                /\ by'[h] = IF h = g THEN 0 ELSE by[h]
      BY <1>2, <3>1
    <3>4. Bundle!UniqueKeys(roas')
      BY <1>2, <3>1, <3>2, <3>3 DEF Bundle!UniqueKeys, Bundle!Live
    <3> QED  BY <1>2, <2>2, <3>1, <3>2, <3>3, <3>4
  <2>3. CASE /\ \E c \in Customers, v \in ProviderSets \cup {None} :
                  v # aspas[c] /\ aspas' = [aspas EXCEPT ![c] = v]
             /\ UNCHANGED <<roas, by>>
    <3>1. aspas' \in [Customers -> ProviderSets \cup {None}]
      BY <1>2, <2>3
    <3>2. roas' = roas /\ by' = by
      BY <2>3
    <3> QED  BY <1>2, <3>1, <3>2
  <2> QED  BY <1>1, <2>1, <2>2, <2>3 DEF Bundle!Edit
<1>7. late \subseteq late' /\ late' \subseteq ROAHandles
  BY <1>1, <1>2 DEF Bundle!Live
<1>8. ASSUME NEW h \in ROAHandles
      PROVE  \/ roas'[h] = None
             \/ roas'[h] = roas[h] /\ by'[h] = by[h]
             \/ /\ roas[h] = None /\ by'[h] = 0
                /\ \/ h \in late'
                   \/ quiet /\ (state # None => h \notin Bundle!Owned(state.owned))
  <2>1. CASE roas[h] = None /\ roas'[h] # None /\ by'[h] = 0 /\ h \in mayAdd
    <3>1. ~quiet => h \in late'
      BY <1>1, <2>1 DEF Bundle!Live
    <3>2. state # None => h \notin Bundle!Owned(state.owned)
      BY <1>3, <2>1
    <3> HIDE DEF quiet
    <3> QED  BY <2>1, <3>1, <3>2
  <2> HIDE DEF quiet
  <2> QED  BY <1>6, <2>1
<1> QED  BY <1>1, <1>4, <1>5, <1>6, <1>7, <1>8

LEMMA BundleOtherChannel == ASSUME Bundle!Assumption, Bundle!IInv, Bundle!OtherChannel PROVE Bundle!IInv'
<1> DEFINE quiet == call = None /\ wire = {} /\ (state # None => state.recovery = None)
           mine(h) == /\ roas[h] = None /\ by'[h] = 0
                      /\ h \in late' \/ (quiet /\ (state # None => h \notin Bundle!Owned(state.owned)))
<1>1. /\ roas' \in [ROAHandles -> Contents \cup {None}] /\ by' \in [ROAHandles -> 0 .. MaxTransactions]
      /\ aspas' \in [Customers -> ProviderSets \cup {None}] /\ Bundle!UniqueKeys(roas')
      /\ edits' \in 0 .. MaxEdits /\ edits' # 0
      /\ UNCHANGED <<wire, sent, state, call, lost, imported, relabelled, crashes>>
      /\ late \subseteq late' /\ late' \subseteq ROAHandles
  BY BundleEdit
<1>2. \A h \in ROAHandles :
        \/ roas'[h] = None
        \/ roas'[h] = roas[h] /\ by'[h] = by[h]
        \/ mine(h)
  BY BundleEdit
<1>3. Bundle!TypeOK'
  BY <1>1, BundleTypes, BundleTypeOK
<1>4. Bundle!ServiceInv'
  BY <1>1, BundleTypes DEF Bundle!ServiceInv, Bundle!UniqueKeys, Bundle!Live
<1>5. Bundle!StateInv(state)' /\ Bundle!CallInv(state, call)'
  BY <1>1, BundleTypes DEF Bundle!StateInv, Bundle!CallInv
<1>6. PICK I : I = imported \cup late
  OBVIOUS
<1>7. PICK J : J = (imported \cup late)'
  OBVIOUS
<1>8. I \subseteq J /\ late' \subseteq J
  BY <1>1, <1>6, <1>7
\* What was the resource's own stays so, and a new ROA is noted unless nothing
\* but the state names a handle, and not that one.
<1>9. \A h \in ROAHandles :
        Bundle!Own(h, I) /\ (~quiet \/ (state # None /\ h \in Bundle!Owned(state.owned))) => Bundle!Own(h, J)'
  BY <1>2, <1>8 DEF Bundle!Own
<1>10. ASSUME ~quiet, NEW p \in Bundle!Plan, Bundle!PlanOwn(p, I) PROVE Bundle!PlanOwn(p, J)'
  <2> HIDE DEF quiet
  <2> QED  BY <1>9, <1>10 DEF Bundle!PlanOwn
<1>11. Bundle!OwnInv(state, call, imported \cup late)'
  <2>1. Bundle!OwnInv(state, call, I)
    BY <1>6, BundleTypes
  <2>2. ASSUME NEW r \in wire, NEW h \in r.tx.deleteROAs PROVE Bundle!Own(h, J)'
    <3>1. h \in ROAHandles /\ Bundle!Own(h, I) /\ ~quiet
      BY <2>1, <2>2, BundleNumbers DEF Bundle!Tx, Bundle!OwnInv
    <3> QED  BY <1>9, <3>1
  <2>3. ASSUME state # None
        PROVE  /\ \A h \in Bundle!Owned(state.owned) : Bundle!Own(h, J)'
               /\ state.recovery # None => \A m : m = state.recovery.plan => Bundle!PlanOwn(m, J)'
    <3>1. /\ Bundle!Owned(state.owned) \subseteq ROAHandles
          /\ state.recovery # None => state.recovery.plan \in Bundle!Plan /\ ~quiet
      BY <2>3, BundleTypes, BundleStateFields DEF Bundle!Owned
    <3> HIDE DEF quiet
    <3> QED  BY <1>9, <1>10, <2>1, <2>3, <3>1 DEF Bundle!OwnInv
  <2>4. ASSUME call # None
        PROVE  /\ call.op = "write" /\ call.at = "aspas"
                    => \A h \in ROAHandles \ Bundle!Live(call.seen) : Bundle!Own(h, J)'
               /\ call.plan # None => \A m : m = call.plan => Bundle!PlanOwn(m, J)'
    <3>1. ~quiet /\ (call.plan # None => call.plan \in Bundle!Plan)
      BY <2>4, BundleCallNow
    <3> HIDE DEF quiet
    <3> QED  BY <1>9, <1>10, <2>1, <2>4, <3>1 DEF Bundle!OwnInv
  <2> QED  BY <1>1, <1>7, <2>2, <2>3, <2>4 DEF Bundle!OwnInv, Bundle!Live
<1>12. Bundle!PlanOf(state, call)' = Bundle!PlanOf(state, call)
  BY <1>1 DEF Bundle!PlanOf
<1>13. Bundle!Adding' = Bundle!Adding
  BY <1>1 DEF Bundle!Adding
<1>14. ASSUME ~lost', ~relabelled', late' = {}
       PROVE  (Bundle!AddInv(state, call) /\ Bundle!FreshInv(state, call) /\ Bundle!ClaimInv(state, call))'
  <2>1. Bundle!AddInv(state, call) /\ Bundle!FreshInv(state, call) /\ Bundle!ClaimInv(state, call)
    BY <1>1, <1>14, BundleTypes
  \* A ROA is added only while nothing is under way.
  <2>2. ~quiet => \A h \in ROAHandles : roas'[h] = None \/ (roas'[h] = roas[h] /\ by'[h] = by[h])
    BY <1>2, <1>14
  <2>3. ~quiet => \A p : ~Bundle!Copied(p, roas) => ~Bundle!Copied(p, roas')
    <3>1. \A p : \A l \in Bundle!AddedLabels(p) : p.desired.roas[l] # None
      BY DEF Bundle!AddedLabels
    <3> HIDE DEF quiet
    <3> QED  BY <2>2, <3>1 DEF Bundle!Copied
  <2>4. quiet => Bundle!Adding = {} /\ call = None
    BY DEF Bundle!Adding
  <2> HIDE DEF quiet
  <2>5. Bundle!AddInv(state, call)'
    <3>1. PICK m : m = Bundle!PlanOf(state, call)
      OBVIOUS
    <3>2. Bundle!Adding # {} => ~Bundle!Copied(m, roas')
      BY <2>1, <2>3, <2>4, <3>1 DEF Bundle!AddInv
    <3>3. ASSUME Bundle!Unsent(call)
          PROVE  Bundle!Adding = {} /\ ~Bundle!Copied(call.plan, roas')
      <4>1. ~quiet
        BY <2>4, <3>3 DEF Bundle!Unsent
      <4> QED  BY <2>1, <2>3, <3>3, <4>1 DEF Bundle!AddInv
    <3>4. Bundle!Unsent(call)' = Bundle!Unsent(call) /\ Bundle!Looking(call)' = Bundle!Looking(call)
      BY <1>1 DEF Bundle!Unsent, Bundle!Looking
    <3> QED  BY <1>1, <1>12, <1>13, <2>1, <3>1, <3>2, <3>3, <3>4 DEF Bundle!AddInv
  <2>6. Bundle!FreshInv(state, call)'
    <3> SUFFICES ASSUME Bundle!Looking(call),
                        LET m == Bundle!PlanOf(state, call) IN
                        m # None /\ Bundle!AddedLabels(m) # {} => Bundle!Copied(m, call.seen),
                        NEW h \in ROAHandles, roas'[h] # None
                 PROVE  call.seen[h] = roas'[h]
      BY <1>1, <1>12 DEF Bundle!FreshInv, Bundle!Looking
    <3>1. ~quiet
      BY <2>4 DEF Bundle!Looking
    <3>2. roas'[h] = roas[h]
      BY <2>2, <3>1
    <3> QED  BY <2>1, <3>2 DEF Bundle!FreshInv
  <2>7. Bundle!ClaimInv(state, call)'
    <3> SUFFICES ASSUME NEW h \in ROAHandles, roas'[h] # None, by'[h] # 0
                 PROVE  \/ state # None /\ h \in Bundle!Owned(state.owned)
                        \/ LET m == Bundle!PlanOf(state, call) IN
                           m # None /\ \E l \in Bundle!AddedLabels(m) : roas'[h] = m.desired.roas[l]
      BY <1>1, <1>12 DEF Bundle!ClaimInv, Bundle!Ours
    <3>1. roas'[h] = roas[h] /\ by'[h] = by[h]
      BY <1>2
    <3> QED  BY <2>1, <3>1 DEF Bundle!ClaimInv, Bundle!Ours
  <2> QED  BY <2>5, <2>6, <2>7
<1> QED  BY <1>1, <1>3, <1>4, <1>5, <1>11, <1>14 DEF Bundle!IInv

LEMMA BundleInit == ASSUME Bundle!Assumption, Bundle!Init PROVE Bundle!IInv
<1>1. /\ roas = [h \in ROAHandles |-> None] /\ aspas = [c \in Customers |-> None]
      /\ by = [h \in ROAHandles |-> 0] /\ wire = {} /\ sent = 0 /\ edits = 0
      /\ state = None /\ call = None /\ lost = FALSE /\ imported = {} /\ late = {}
      /\ relabelled = FALSE /\ crashes = 0
  BY DEF Bundle!Init, Bundle!ServiceInit
<1>2. MaxTransactions \in Nat /\ MaxEdits \in Nat /\ MaxCrashes \in Nat
  BY DEF Bundle!Assumption, Bundle!ServiceAssumption
<1>3. 0 \in 0 .. MaxTransactions /\ 0 \in 0 .. MaxEdits /\ 0 \in 0 .. MaxCrashes
  BY <1>2
<1>4. Bundle!TypeOK
  BY <1>1, <1>3 DEF Bundle!TypeOK, Bundle!ServiceTypeOK, Bundle!ROAs, Bundle!ASPAs
<1>5. Bundle!ServiceInv /\ Bundle!StateInv(state) /\ Bundle!CallInv(state, call)
      /\ Bundle!OwnInv(state, call, imported \cup late)
  BY <1>1
  DEF Bundle!ServiceInv, Bundle!StateInv, Bundle!CallInv, Bundle!OwnInv, Bundle!UniqueKeys, Bundle!Live
<1>6. Bundle!AddInv(state, call) /\ Bundle!FreshInv(state, call) /\ Bundle!ClaimInv(state, call)
      /\ Bundle!QuietInv(state, call)
  BY <1>1
  DEF Bundle!AddInv, Bundle!FreshInv, Bundle!ClaimInv, Bundle!QuietInv, Bundle!Adding, Bundle!Unsent,
      Bundle!Looking, Bundle!Ours
<1> QED  BY <1>4, <1>5, <1>6 DEF Bundle!IInv

LEMMA BundleStep ==
  ASSUME Bundle!Assumption, Bundle!IInv, [Bundle!Next]_(Bundle!vars) PROVE Bundle!IInv'
<1>1. CASE UNCHANGED Bundle!vars
  <2>1. /\ UNCHANGED Bundle!service /\ state' = state /\ call' = call /\ lost' = lost /\ imported' = imported
        /\ late' = late /\ relabelled' = relabelled /\ crashes' = crashes
    BY <1>1 DEF Bundle!vars, Bundle!history
  <2>2. /\ state \in Bundle!State \cup {None} /\ call \in Bundle!Call \cup {None}
        /\ imported \in SUBSET ROAHandles
        /\ lost' \in BOOLEAN /\ relabelled' \in BOOLEAN /\ crashes' \in 0 .. MaxCrashes
    BY <2>1, BundleTypes
  <2> QED  BY <2>1, <2>2, BundleTypes, BundleMoves
<1>2. CASE \E d \in Configs : Bundle!StartWrite(d)
  BY <1>2, BundleTypes, BundleStart DEF Bundle!StartWrite
<1>3. CASE Bundle!StartDelete
  BY <1>3, BundleTypes, BundleStart DEF Bundle!StartDelete
<1>4. CASE Bundle!StartRead
  BY <1>4, BundleTypes, BundleStart DEF Bundle!StartRead
<1>5. CASE \E owned \in Bundle!Ownership : Bundle!StartImport(owned)
  <2>1. PICK owned \in Bundle!Ownership : Bundle!StartImport(owned)
    BY <1>5
  <2> DEFINE p == [owned |-> owned, recovery |-> None]
  <2>2. /\ state = None /\ Bundle!Start("import", Bundle!Nothing, p)
        /\ \A l, k \in Labels : l # k => owned.roas[l] = None \/ owned.roas[l] # owned.roas[k]
    BY <2>1 DEF Bundle!StartImport
  <2>3. p \in Bundle!State /\ p.owned = owned /\ p.recovery = None
    BY DEF Bundle!State
  <2>4. p # None
    BY <2>3, BundleTypes
  <2> HIDE DEF p
  <2>5. Bundle!Injective(p.owned)
    BY <2>2, <2>3 DEF Bundle!Injective
  <2> QED  BY <2>2, <2>3, <2>4, <2>5, BundleStart
<1>6. CASE Bundle!CallStep \/ Bundle!CallFails \/ Bundle!Crash
  BY <1>6, BundleCallStep
<1>7. CASE \E r \in wire : Bundle!Serve(r)
  BY <1>7, BundleServe
<1>8. CASE Bundle!OtherChannel
  BY <1>8, BundleOtherChannel
<1> QED
  BY <1>1, <1>2, <1>3, <1>4, <1>5, <1>6, <1>7, <1>8 DEF Bundle!Next

LEMMA BundlePromises ==
  ASSUME Bundle!Assumption, Bundle!IInv
  PROVE  Bundle!TypeOK /\ Bundle!SettledIsQuiet /\ Bundle!NoOrphan /\ Bundle!OwnsItsOwn
<1>1. call = None /\ (state # None => state.recovery = None) => Bundle!PlanOf(state, call) = None
  BY DEF Bundle!PlanOf
<1>2. Bundle!SettledIsQuiet
  BY <1>1, BundleTypes DEF Bundle!SettledIsQuiet, Bundle!BlocksReplay, Bundle!QuietInv
<1>3. Bundle!NoOrphan
  BY <1>1, BundleTypes DEF Bundle!NoOrphan, Bundle!ClaimInv
<1>4. Bundle!OwnsItsOwn
  BY BundleTypes DEF Bundle!OwnsItsOwn, Bundle!OwnInv, Bundle!Own
<1> QED  BY <1>2, <1>3, <1>4 DEF Bundle!IInv

\* Only a request that was sent removes or replaces a ROA, and it names only
\* the bundle's own.
LEMMA BundleTakes ==
  ASSUME Bundle!Assumption, Bundle!IInv, [Bundle!Next]_(Bundle!vars) PROVE Bundle!NeverTakesForeign
<1> SUFFICES ASSUME NEW h \in ROAHandles, roas[h] # None, by[h] = 0, roas'[h] # roas[h], edits' = edits
             PROVE  h \in imported \cup late
  BY DEF Bundle!NeverTakesForeign
<1>1. PICK r \in wire : Bundle!Serve(r)
  <2>1. ~Bundle!OtherChannel
    BY BundleEdit
  <2>2. ~UNCHANGED Bundle!vars /\ ~UNCHANGED Bundle!service
    BY DEF Bundle!vars, Bundle!service
  <2>3. ASSUME NEW op, NEW d, NEW p PROVE ~Bundle!Start(op, d, p)
    BY <2>2 DEF Bundle!Start
  <2>4. /\ \A d : ~Bundle!StartWrite(d) /\ ~Bundle!StartImport(d)
        /\ ~Bundle!StartRead /\ ~Bundle!StartDelete
    BY <2>3 DEF Bundle!StartWrite, Bundle!StartImport, Bundle!StartRead, Bundle!StartDelete
  <2>5. ~Bundle!PostTransaction
    BY DEF Bundle!PostTransaction, Bundle!Post
  <2>6. ~Bundle!CallStep /\ ~Bundle!CallFails /\ ~Bundle!Crash
    BY <2>2, <2>5
    DEF Bundle!CallStep, Bundle!ListROAs, Bundle!MakePlan, Bundle!Answered, Bundle!Verify,
        Bundle!FinishWrite, Bundle!ReadASPAs, Bundle!ImportASPAs, Bundle!CallFails, Bundle!Fail,
        Bundle!NoAnswer, Bundle!Unconfirmed, Bundle!Crash
  <2> QED  BY <2>1, <2>2, <2>4, <2>6 DEF Bundle!Next
<1>2. BundleEffect(r)
  BY <1>1, BundleServeCases
<1>3. h \in r.tx.deleteROAs
  BY <1>2 DEF BundleEffect
<1> QED  BY <1>3, BundleTypes DEF Bundle!OwnInv, Bundle!Own

\* The bundle's inductive invariant holds in every reachable state: whatever a
\* request, an ownership or a plan may lead it to delete or own is its own;
\* what it made is owned or in the plan that may still take effect; and an
\* inventory that could confirm that plan is still current.
THEOREM BundleInductive == ASSUME Bundle!Assumption PROVE Bundle!Spec => []Bundle!IInv
<1>1. Bundle!Init => Bundle!IInv
  BY BundleInit
<1>2. Bundle!IInv /\ [Bundle!Next]_(Bundle!vars) => Bundle!IInv'
  BY BundleStep
<1> QED  BY <1>1, <1>2, PTL DEF Bundle!Spec

\* The bundle's transactions: a settled or absent bundle has none that can
\* still take effect (unless a crash lost one, another channel wrote, or a plan
\* moved a ROA to another label), it owns every ROA it made, it owns or deletes
\* no ROA of another channel that was neither imported nor made during a write.
THEOREM BundleIsNeitherLostNorTaken ==
  ASSUME Bundle!Assumption
  PROVE  Bundle!Spec => /\ [](Bundle!SettledIsQuiet /\ Bundle!NoOrphan /\ Bundle!OwnsItsOwn)
                        /\ [][Bundle!NeverTakesForeign]_(Bundle!vars)
<1>1. Bundle!IInv => Bundle!SettledIsQuiet /\ Bundle!NoOrphan /\ Bundle!OwnsItsOwn
  BY BundlePromises
<1>2. Bundle!IInv /\ [Bundle!Next]_(Bundle!vars) => [Bundle!NeverTakesForeign]_(Bundle!vars)
  BY BundleTakes
<1> QED  BY <1>1, <1>2, BundleInductive, PTL DEF Bundle!Spec

-----------------------------------------------------------------------------
(* An object of the routing registry *)

LEMMA IRRTypes ==
  ASSUME IRR!Assumption, IRR!IInv
  PROVE  /\ kind \in IRR!Kinds /\ object \in IRR!Object \cup {None} /\ wire \subseteq IRR!Write
         /\ state \in IRR!State \cup {None} /\ call \in IRR!Call \cup {None} /\ sent \in 0 .. MaxWrites
         /\ seen \subseteq IRR!Object \cup {None} /\ edits \in 0 .. MaxEdits /\ MaxWrites \in Nat /\ MaxEdits \in Nat
         /\ None \notin Texts /\ None \notin IRR!Object /\ None \notin IRR!State /\ None \notin IRR!Answer
         /\ None \notin IRR!Call /\ OwnOrg \in Registrants
         /\ IRR!TypeOK /\ IRR!WriteInv /\ IRR!CallInv /\ IRR!AnswerInv /\ IRR!AbsentInv /\ IRR!UncertainIsKept
BY DEF IRR!IInv, IRR!TypeOK, IRR!Assumption

LEMMA IRRKinds ==
  ASSUME kind \in IRR!Kinds
  PROVE  /\ IRR!Resource[kind] \in [verifies : BOOLEAN, keeps : BOOLEAN]
         /\ IRR!Resource[kind].verifies = (kind = "rpsl") /\ IRR!Resource[kind].keeps = (kind = "rpsl")
BY DEF IRR!Resource, IRR!Kinds, IRR!ASSetResource, IRR!RouteSetResource, IRR!AutnumResource, IRR!RouteResource,
       IRR!RPSLResource

\* What an object gives a state.
LEMMA IRRStates ==
  ASSUME IRR!Assumption, OwnOrg \in Registrants
  PROVE  /\ \A o \in IRR!Object : IRR!Settled(o) \in IRR!State /\ ~IRR!Settled(o).pending
         /\ \A t \in Texts : IRR!Pending(t) \in IRR!State /\ IRR!Pending(t).pending
BY DEF IRR!Settled, IRR!Pending, IRR!State, IRR!Object

\* What a step of the call that changes neither the registry nor the wire
\* must leave behind.
LEMMA IRRLocal ==
  ASSUME IRR!Assumption, IRR!IInv, NEW c \in IRR!Call \cup {None}, NEW s \in IRR!State \cup {None},
         call' = c, state' = s, UNCHANGED <<kind, object, wire, sent, edits>>,
         seen' = IF call' = None THEN {} ELSE {object'} \cup (IF call = None THEN {} ELSE seen),
         s # None /\ s.pending => kind = "rpsl",
         c # None =>
           /\ c.n <= sent
           /\ IF c.op \in {"create", "update", "delete"} THEN c.at # "read" ELSE c.at = "read"
           /\ c.op \in {"create", "update"} => c.text # None
           /\ c.op \in {"create", "import"} => s = None
           /\ c.op \in {"update", "delete"} => s # None /\ ~s.pending
           /\ c.at \in {"check", "client", "send", "read"} => c.n = 0 /\ c.answer = None
           /\ c.at \in {"check", "verify"} => kind = "rpsl"
           /\ c.n = 0 \/ (call # None /\ c.n = call.n /\ c.op = call.op)
           /\ c.op = "create" /\ c.at = "send" => object = None
           /\ c.answer \in {None, [kind |-> "uncertain", object |-> None]} \/ (call # None /\ c.answer = call.answer /\ c.n = call.n /\ c.op = call.op),
         kind = "rpsl" /\ edits = 0 =>
           \A w \in wire : w.op = "create" /\ (c = None \/ c.n # w.n) => s # None /\ s.pending
  PROVE  IRR!IInv'
<1> USE IRRTypes
<1>1. seen' \subseteq IRR!Object \cup {None} /\ (c # None => object \in seen') /\ (call # None /\ c # None => seen \subseteq seen')
  OBVIOUS
<1>2. IRR!TypeOK'
  BY <1>1 DEF IRR!TypeOK
<1>3. IRR!WriteInv'
  BY DEF IRR!WriteInv
<1>4. \A w \in wire : w.n # 0
  BY DEF IRR!Write
<1>5. IRR!CallInv'
  <2> SUFFICES ASSUME c # None PROVE IRR!CallInv'
    BY DEF IRR!CallInv
  <2>1. \A w \in wire : w.n = c.n => w.op = c.op
    BY <1>4 DEF IRR!CallInv
  <2> QED  BY <1>1, <2>1 DEF IRR!CallInv, IRR!Writing
<1>6. IRR!AnswerInv'
  <2> SUFFICES ASSUME c # None, c.answer # None PROVE IRR!AnswerInv'
    BY DEF IRR!AnswerInv
  <2>1. CASE c.answer = [kind |-> "uncertain", object |-> None]
    BY <2>1 DEF IRR!AnswerInv
  <2>2. CASE call # None /\ c.answer = call.answer /\ c.n = call.n /\ c.op = call.op
    BY <1>1, <2>2 DEF IRR!AnswerInv
  <2> QED  BY <2>1, <2>2
<1>7. IRR!AbsentInv'
  <2> SUFFICES ASSUME kind = "rpsl", edits = 0, c # None, c.op = "create", c.at = "send" \/ \E w \in wire : w.n = c.n
               PROVE  object = None
    BY DEF IRR!AbsentInv
  <2> QED  BY <1>4 DEF IRR!AbsentInv
<1>8. IRR!UncertainIsKept'
  BY DEF IRR!UncertainIsKept
<1> QED  BY <1>2, <1>3, <1>5, <1>6, <1>7, <1>8 DEF IRR!IInv

\* What a creation on its way says of a running call that is not its own:
\* the call is a refresh.
LEMMA IRROther ==
  ASSUME IRR!Assumption, IRR!IInv, kind = "rpsl", edits = 0, call # None,
         NEW w \in wire, w.op = "create", call.n # w.n
  PROVE  state # None /\ state.pending /\ call.op = "read"
<1> USE IRRTypes
<1>1. state # None /\ state.pending
  BY DEF IRR!UncertainIsKept
<1>2. call.op \in {"create", "update", "delete", "read", "import"}
  BY DEF IRR!Call
<1> QED  BY <1>1, <1>2 DEF IRR!CallInv

LEMMA IRRFinish ==
  ASSUME IRR!Assumption, IRR!IInv, NEW s \in IRR!State \cup {None}, call # None, IRR!Finish(s),
         UNCHANGED <<kind, object, wire, sent, edits>>, seen' = {},
         s # None /\ s.pending => kind = "rpsl",
         \/ s # None /\ s.pending
         \/ /\ call.op = "create" => \A w \in wire : w.n # call.n
            /\ s = state \/ call.op # "read" \/ state = None \/ ~state.pending
  PROVE  IRR!IInv'
<1>1. call' = None /\ state' = s
  BY DEF IRR!Finish
<1>2. ASSUME kind = "rpsl", edits = 0, NEW w \in wire, w.op = "create"
      PROVE  s # None /\ s.pending
  <2>1. call.n = w.n => call.op = "create"
    BY <1>2, IRRTypes DEF IRR!CallInv
  <2> QED  BY <1>2, <2>1, IRROther
<1> QED  BY <1>1, <1>2, IRRLocal

\* A call goes on to its next request.
LEMMA IRRGoto ==
  ASSUME IRR!Assumption, IRR!IInv, NEW at \in {"client", "send", "verify"}, call # None, IRR!Goto(at),
         UNCHANGED <<kind, object, wire, sent, edits>>, seen' = {object} \cup seen,
         IRR!Writing, at \in {"client", "send"} => call.at \in {"check", "client"},
         at = "verify" => kind = "rpsl",
         call.op = "create" /\ at = "send" => object = None
  PROVE  IRR!IInv'
<1>1. call \in IRR!Call /\ state \in IRR!State \cup {None}
  BY IRRTypes
<1>2. PICK c : c = [call EXCEPT !.at = at]
  OBVIOUS
<1>3. /\ c \in IRR!Call /\ c.at = at /\ c.op = call.op /\ c.text = call.text /\ c.n = call.n
      /\ c.answer = call.answer
  BY <1>1, <1>2 DEF IRR!Call
<1>4. call' = c /\ state' = state /\ c # None
  BY <1>2, <1>3, IRRTypes DEF IRR!Goto
<1>5. IRR!CallInv
  BY IRRTypes
<1>6. ASSUME kind = "rpsl", edits = 0, NEW w \in wire, w.op = "create", c.n # w.n
      PROVE  state # None /\ state.pending
  BY <1>3, <1>6, IRROther
<1>7. seen' = IF call' = None THEN {} ELSE {object'} \cup (IF call = None THEN {} ELSE seen)
  BY <1>4
<1>8. /\ c.n <= sent
      /\ IF c.op \in {"create", "update", "delete"} THEN c.at # "read" ELSE c.at = "read"
      /\ c.op \in {"create", "update"} => c.text # None
      /\ c.op \in {"create", "import"} => state = None
      /\ c.op \in {"update", "delete"} => state # None /\ ~state.pending
      /\ c.at \in {"check", "client", "send", "read"} => c.n = 0 /\ c.answer = None
      /\ c.at \in {"check", "verify"} => kind = "rpsl"
  BY <1>3, <1>5 DEF IRR!CallInv, IRR!Writing
<1>9. state # None /\ state.pending => kind = "rpsl"
  BY IRRTypes DEF IRR!TypeOK
<1> QED  BY <1>1, <1>3, <1>4, <1>6, <1>7, <1>8, <1>9, IRRLocal

\* A call starts; only a refresh starts while a receipt is pending.
LEMMA IRRStart ==
  ASSUME IRR!Assumption, IRR!IInv,
         NEW op \in {"create", "update", "delete", "read", "import"},
         NEW at \in {"check", "client", "send", "read"}, NEW text \in Texts \cup {None}, IRR!Start(op, at, text),
         kind' = kind, seen' = IF call' = None THEN {} ELSE {object'} \cup (IF call = None THEN {} ELSE seen),
         (at = "read") = (op \in {"read", "import"}), op \in {"create", "update"} => text # None,
         op \in {"create", "import"} => state = None,
         op \in {"update", "delete"} => state # None /\ ~state.pending,
         at = "check" => kind = "rpsl", op = "create" => at = "client"
  PROVE  IRR!IInv'
<1>1. PICK c : c = [op |-> op, at |-> at, text |-> text, n |-> 0, answer |-> None]
  OBVIOUS
<1>2. /\ c \in IRR!Call /\ c.op = op /\ c.at = at /\ c.text = text /\ c.n = 0 /\ c.answer = None /\ 0 <= sent
  BY <1>1, IRRTypes DEF IRR!Call
<1>3. call = None /\ call' = c /\ c # None /\ UNCHANGED <<object, wire, state, sent, edits>>
  BY <1>1, <1>2, IRRTypes DEF IRR!Start
<1>4. kind = "rpsl" /\ edits = 0 => \A w \in wire : w.op = "create" => state # None /\ state.pending
  BY <1>3, IRRTypes DEF IRR!UncertainIsKept
<1>5. state # None /\ state.pending => kind = "rpsl"
  BY IRRTypes DEF IRR!TypeOK
<1>6. state \in IRR!State \cup {None}
  BY IRRTypes
<1> QED  BY <1>2, <1>3, <1>4, <1>5, <1>6, IRRLocal

LEMMA IRRStarts ==
  ASSUME IRR!Assumption, IRR!IInv,
         kind' = kind, seen' = IF call' = None THEN {} ELSE {object'} \cup (IF call = None THEN {} ELSE seen),
         \/ \E t \in Texts : IRR!StartCreate(t) \/ IRR!StartUpdate(t)
         \/ IRR!StartDelete \/ IRR!StartRead \/ IRR!StartImport
  PROVE  IRR!IInv'
<1> USE IRRTypes
<1>1. state # None => state.pending \in BOOLEAN
  BY DEF IRR!State
<1>2. ASSUME NEW t \in Texts, IRR!StartCreate(t)
      PROVE  IRR!IInv'
  BY <1>2, IRRStart DEF IRR!StartCreate
<1>3. ASSUME NEW t \in Texts, IRR!StartUpdate(t)
      PROVE  IRR!IInv'
  <2>1. PICK at \in {"check", "client", "send"} : IRR!Start("update", at, t) /\ (at = "check" => kind = "rpsl")
    BY <1>3, IRRKinds DEF IRR!StartUpdate, IRR!First
  <2> QED  BY <1>1, <1>3, <2>1, IRRStart DEF IRR!StartUpdate, IRR!MayWrite
<1>4. CASE IRR!StartDelete
  <2>1. PICK at \in {"client", "send"} : IRR!Start("delete", at, None)
    BY <1>4 DEF IRR!StartDelete, IRR!First
  <2> QED  BY <1>1, <1>4, <2>1, IRRStart DEF IRR!StartDelete, IRR!MayWrite
<1>5. CASE IRR!StartRead
  BY <1>5, IRRStart DEF IRR!StartRead
<1>6. CASE IRR!StartImport
  BY <1>6, IRRStart DEF IRR!StartImport
<1> QED  BY <1>2, <1>3, <1>4, <1>5, <1>6

\* What the steps of a call that only answer, verify or read leave behind.
LEMMA IRRCalls ==
  ASSUME IRR!Assumption, IRR!IInv,
         kind' = kind, seen' = IF call' = None THEN {} ELSE {object'} \cup (IF call = None THEN {} ELSE seen),
         \/ IRR!Check \/ IRR!ClientReads \/ IRR!ReadFails \/ IRR!WriteAnswered \/ IRR!DeleteAnswered
         \/ IRR!VerifyWrite \/ IRR!VerifyDelete \/ IRR!Unverified \/ IRR!Read
  PROVE  IRR!IInv'
<1> USE IRRTypes
<1>1. /\ call # None /\ call \in IRR!Call /\ UNCHANGED <<object, wire, sent, edits>>
      /\ state # None => state.pending \in BOOLEAN
  BY DEF IRR!Check, IRR!ClientReads, IRR!ReadFails, IRR!WriteAnswered, IRR!DeleteAnswered,
         IRR!VerifyWrite, IRR!VerifyDelete, IRR!Unverified, IRR!Read, IRR!At, IRR!Unchanged, IRR!State
<1>2. /\ state # None /\ state.pending => kind = "rpsl"
      /\ \A o \in IRR!Object : IRR!Settled(o) \in IRR!State /\ ~IRR!Settled(o).pending
      /\ \A w \in wire : w.n # 0
      /\ IRR!Resource[kind].verifies = (kind = "rpsl") /\ IRR!Resource[kind].keeps = (kind = "rpsl")
  BY IRRStates, IRRKinds DEF IRR!TypeOK, IRR!Write
<1>3. ASSUME NEW s \in IRR!State \cup {None}, IRR!Finish(s), s # None /\ s.pending => kind = "rpsl",
             \/ s # None /\ s.pending
             \/ /\ call.op = "create" => \A w \in wire : w.n # call.n
                /\ s = state \/ call.op # "read" \/ state = None \/ ~state.pending
      PROVE  IRR!IInv'
  <2>1. seen' = {}
    BY <1>3 DEF IRR!Finish
  <2>2. UNCHANGED <<kind, object, wire, sent, edits>>
    BY <1>1
  <2> HIDE IRRTypes
  <2> QED  BY <1>1, <1>3, <2>1, <2>2, IRRFinish
<1>4. ASSUME NEW at \in {"client", "send", "verify"}, IRR!Goto(at), IRR!Writing,
             at \in {"client", "send"} => call.at \in {"check", "client"},
             at = "verify" => kind = "rpsl", call.op = "create" /\ at = "send" => object = None
      PROVE  IRR!IInv'
  <2>1. call' # None
    <3>1. [call EXCEPT !.at = at] \in IRR!Call
      BY <1>1, <1>4 DEF IRR!Call
    <3> QED  BY <1>4, <3>1 DEF IRR!Goto
  <2> QED  BY <1>1, <1>4, <2>1, IRRGoto
<1>5. call.at = "client" => call.n = 0 /\ IRR!Writing
  BY <1>1 DEF IRR!CallInv
<1>6. ASSUME IRR!Fail, IRR!Writing, call.op = "create" => \A w \in wire : w.n # call.n
      PROVE  IRR!IInv'
  <2>1. CASE kind = "rpsl" /\ call.op # "create"
    BY <1>2, <1>4, <1>6, <2>1 DEF IRR!Fail
  <2>2. CASE ~(kind = "rpsl" /\ call.op # "create")
    BY <1>2, <1>3, <1>6, <2>2 DEF IRR!Fail
  <2> QED  BY <2>1, <2>2
<1>7. CASE IRR!Check
  <2>1. object \in IRR!Object /\ call.op = "update" /\ call.at = "check" /\ IRR!Writing
    BY <1>7 DEF IRR!Check, IRR!At, IRR!Writing
  <2>2. CASE object.text = call.text
    BY <1>2, <1>3, <1>7, <2>1, <2>2 DEF IRR!Check
  <2>3. CASE object.text # call.text
    BY <1>4, <1>7, <2>1, <2>3 DEF IRR!Check
  <2> QED  BY <2>2, <2>3
<1>8. CASE IRR!ClientReads
  <2>1. call.at = "client" /\ IRR!Writing /\ \A w \in wire : w.n # call.n
    BY <1>2, <1>5, <1>8 DEF IRR!ClientReads
  <2>2. CASE object = None /\ call.op = "create"
    BY <1>4, <1>8, <2>1, <2>2 DEF IRR!ClientReads
  <2>3. CASE object = None /\ call.op = "delete"
    <3>1. IF kind = "rpsl" THEN IRR!Goto("verify") ELSE IRR!Finish(None)
      BY <1>2, <1>8, <2>3 DEF IRR!ClientReads
    <3> QED  BY <1>3, <1>4, <2>1, <2>3, <3>1
  <2>4. CASE object # None /\ call.op # "create"
    BY <1>4, <1>6, <1>8, <2>1, <2>4 DEF IRR!ClientReads
  <2>5. CASE IRR!Fail
    BY <1>6, <2>1, <2>5
  <2> QED  BY <1>8, <2>2, <2>3, <2>4, <2>5 DEF IRR!ClientReads
<1>9. CASE IRR!ReadFails
  <2>1. CASE call.at = "client" /\ IRR!Fail
    BY <1>2, <1>5, <1>6, <2>1
  <2>2. CASE call.at \in {"check", "read"} /\ IRR!Finish(state)
    <3>1. call.n = 0
      BY <1>1, <2>2 DEF IRR!CallInv
    <3> QED  BY <1>2, <1>3, <2>2, <3>1
  <2> QED  BY <1>9, <2>1, <2>2 DEF IRR!ReadFails
<1>10. CASE IRR!WriteAnswered
  <2>1. call.op \in {"create", "update"} /\ call.at = "answer" /\ call.answer # None /\ IRR!Writing
    BY <1>10 DEF IRR!WriteAnswered, IRR!At, IRR!Writing
  <2>2. CASE kind = "rpsl" /\ call.op = "create" /\ IRR!Definitive(call.answer)
    <3>1. IRR!Finish(state)
      BY <1>2, <1>10, <2>2 DEF IRR!WriteAnswered
    <3>2. \A w \in wire : w.n # call.n
      BY <1>1, <2>1, <2>2 DEF IRR!AnswerInv, IRR!Definitive
    <3> QED  BY <1>2, <1>3, <3>1, <3>2
  <2>3. CASE kind = "rpsl" /\ ~(call.op = "create" /\ IRR!Definitive(call.answer))
    BY <1>2, <1>4, <1>10, <2>1, <2>3 DEF IRR!WriteAnswered
  <2>4. CASE kind # "rpsl"
    <3>1. PICK s : s = IF IRR!Confirmed(call.answer) THEN IRR!Settled(call.answer.object) ELSE state
      OBVIOUS
    <3>2. IRR!Finish(s)
      BY <1>2, <1>10, <2>4, <3>1 DEF IRR!WriteAnswered
    <3>3. IRR!Confirmed(call.answer) => call.answer.object \in IRR!Object
      BY <1>1, <2>1 DEF IRR!AnswerInv, IRR!Confirmed
    <3>4. s \in IRR!State \cup {None} /\ ~(s # None /\ s.pending)
      BY <1>2, <2>4, <3>1, <3>3
    <3> HIDE IRRTypes
    <3>5. call' = None /\ state' = s
      BY <3>2 DEF IRR!Finish
    <3> QED  BY <1>1, <2>4, <3>4, <3>5, IRRLocal
  <2> QED  BY <2>2, <2>3, <2>4
<1>11. CASE IRR!DeleteAnswered
  <2>1. call.op = "delete" /\ IRR!Writing
    BY <1>11 DEF IRR!DeleteAnswered, IRR!At, IRR!Writing
  <2>2. CASE kind = "rpsl"
    BY <1>2, <1>4, <1>11, <2>1, <2>2 DEF IRR!DeleteAnswered
  <2>3. CASE kind # "rpsl"
    <3>1. IRR!Finish(None) \/ IRR!Finish(state)
      BY <1>2, <1>11, <2>3 DEF IRR!DeleteAnswered
    <3> QED  BY <1>2, <1>3, <2>1, <3>1
  <2> QED  BY <2>2, <2>3
<1>12. CASE IRR!VerifyWrite
  <2>1. call.op \in {"create", "update"} /\ object \in IRR!Object /\ IRR!Finish(IRR!Settled(object)) /\ call.at = "verify"
    BY <1>12 DEF IRR!VerifyWrite, IRR!At, IRR!AsWanted
  <2>2. ASSUME kind = "rpsl", edits = 0, NEW w \in wire, w.op = "create" PROVE FALSE
    <3>1. call.n = w.n
      BY <1>1, <2>1, <2>2, IRROther
    <3>2. call.op = "create"
      BY <1>1, <2>2, <3>1 DEF IRR!CallInv
    <3> QED  BY <1>1, <2>1, <2>2, <3>1, <3>2 DEF IRR!AbsentInv
  <2>3. PICK s : s = IRR!Settled(object)
    OBVIOUS
  <2>4. s \in IRR!State /\ ~s.pending /\ call' = None /\ state' = s
    BY <1>2, <2>1, <2>3 DEF IRR!Finish
  <2> HIDE IRRTypes
  <2> QED  BY <1>1, <2>2, <2>4, IRRLocal
<1>13. CASE IRR!VerifyDelete
  BY <1>2, <1>3, <1>13 DEF IRR!VerifyDelete, IRR!At
<1>14. CASE IRR!Unverified
  <2>1. call.op \in {"create", "update", "delete"} /\ call.at = "verify" /\ kind = "rpsl"
    BY <1>1, <1>14 DEF IRR!Unverified, IRR!At, IRR!CallInv
  <2>2. CASE call.op = "create"
    <3>1. call.text \in Texts
      BY <1>1, <2>2 DEF IRR!CallInv, IRR!Call
    <3>2. IRR!Pending(call.text) \in IRR!State /\ IRR!Pending(call.text).pending
      BY <3>1, IRRStates
    <3>3. IRR!Finish(IRR!Pending(call.text))
      BY <1>2, <1>14, <2>1, <2>2 DEF IRR!Unverified
    <3> QED  BY <1>3, <2>1, <3>2, <3>3
  <2>3. CASE call.op # "create"
    BY <1>2, <1>3, <1>14, <2>1, <2>3 DEF IRR!Unverified
  <2> QED  BY <2>2, <2>3
<1>15. CASE IRR!Read
  <2>1. call.op \in {"read", "import"} /\ (state # None => ~state.pending)
    BY <1>15 DEF IRR!Read, IRR!At
  <2>2. CASE object = None /\ IRR!Finish(None)
    BY <1>2, <1>3, <2>1, <2>2
  <2>3. CASE object \in IRR!Object /\ IRR!Finish(IRR!Settled(object))
    BY <1>2, <1>3, <2>1, <2>3
  <2> QED  BY <1>15, <2>2, <2>3 DEF IRR!Read
<1> QED  BY <1>7, <1>8, <1>9, <1>10, <1>11, <1>12, <1>13, <1>14, <1>15

\* The outcome of a write becomes unknown to its call.
LEMMA IRRNoAnswer ==
  ASSUME IRR!Assumption, IRR!IInv,
         kind' = kind, seen' = IF call' = None THEN {} ELSE {object'} \cup (IF call = None THEN {} ELSE seen),
         IRR!NoAnswer
  PROVE  IRR!IInv'
<1>1. /\ call # None /\ call \in IRR!Call /\ UNCHANGED <<object, wire, sent, edits, state>>
      /\ call.at \in {"send", "answer"} /\ state \in IRR!State \cup {None}
      /\ state # None /\ state.pending => kind = "rpsl"
  BY IRRTypes DEF IRR!NoAnswer, IRR!Unchanged, IRR!TypeOK
<1>2. PICK x : x = [kind |-> "uncertain", object |-> None]
  OBVIOUS
<1>3. x \in IRR!Answer
  BY <1>2 DEF IRR!Answer
<1>4. PICK c : c = [call EXCEPT !.at = "answer", !.answer = x]
  OBVIOUS
<1>5. /\ c \in IRR!Call /\ c.at = "answer" /\ c.op = call.op /\ c.text = call.text /\ c.n = call.n /\ c.answer = x
  BY <1>1, <1>3, <1>4 DEF IRR!Call
<1>6. call' = c
  BY <1>2, <1>4 DEF IRR!NoAnswer
<1>7. IRR!CallInv
  BY IRRTypes
<1>8. /\ c.n <= sent
      /\ IF c.op \in {"create", "update", "delete"} THEN c.at # "read" ELSE c.at = "read"
      /\ c.op \in {"create", "update"} => c.text # None
      /\ c.op \in {"create", "import"} => state = None
      /\ c.op \in {"update", "delete"} => state # None /\ ~state.pending
  BY <1>1, <1>5, <1>7 DEF IRR!CallInv, IRR!Writing
<1>9. ASSUME kind = "rpsl", edits = 0, NEW w \in wire, w.op = "create", c = None \/ c.n # w.n
      PROVE  state # None /\ state.pending
  BY <1>1, <1>5, <1>9, IRROther, IRRTypes
<1> QED  BY <1>1, <1>2, <1>5, <1>6, <1>8, <1>9, IRRLocal

LEMMA IRRSend ==
  ASSUME IRR!Assumption, IRR!IInv,
         kind' = kind, seen' = IF call' = None THEN {} ELSE {object'} \cup (IF call = None THEN {} ELSE seen),
         IRR!Send
  PROVE  IRR!IInv'
<1> USE IRRTypes
<1>1. /\ call # None /\ call \in IRR!Call /\ UNCHANGED <<object, state, edits>> /\ call.at = "send"
      /\ sent' = sent + 1 /\ sent' \in 1 .. MaxWrites
  BY DEF IRR!Send
<1>2. PICK n \in 1 .. MaxWrites : n = sent' /\ n = sent + 1
  BY <1>1
<1>3. PICK c : c = [call EXCEPT !.at = "answer", !.n = n]
  OBVIOUS
<1>4. /\ c \in IRR!Call /\ c.at = "answer" /\ c.op = call.op /\ c.text = call.text /\ c.n = n
      /\ c.answer = call.answer /\ c # None
  <2>1. n \in 0 .. MaxWrites
    OBVIOUS
  <2>2. c \in IRR!Call /\ c.at = "answer" /\ c.op = call.op /\ c.text = call.text /\ c.n = n /\ c.answer = call.answer
    <3> HIDE IRRTypes
    <3> QED  BY <1>1, <1>3, <2>1 DEF IRR!Call
  <2> QED  BY <2>2
<1>5. /\ call.op \in {"create", "update", "delete"} /\ call.answer = None /\ call.n = 0
      /\ call.op \in {"create", "update"} => call.text # None
  BY <1>1 DEF IRR!CallInv, IRR!Writing
<1>6. PICK w : w = [n |-> n, op |-> call.op, text |-> call.text]
  OBVIOUS
<1>7. w \in IRR!Write /\ w.n = n /\ w.op = c.op /\ w.text = c.text
  BY <1>1, <1>4, <1>5, <1>6 DEF IRR!Write, IRR!Call
<1>8. call' = c /\ wire' = wire \cup {w}
  BY <1>2, <1>3, <1>6 DEF IRR!Send
<1>9. \A v \in wire : v.n \in 1 .. MaxWrites /\ v.n <= sent /\ v.n # n
  BY <1>2 DEF IRR!WriteInv, IRR!Write
<1>10. IRR!TypeOK'
  <2>1. seen' \subseteq IRR!Object \cup {None}
    BY <1>1
  <2> QED  BY <1>1, <1>4, <1>7, <1>8, <2>1 DEF IRR!TypeOK
<1>11. IRR!WriteInv'
  BY <1>2, <1>4, <1>5, <1>7, <1>8, <1>9 DEF IRR!WriteInv
<1>12. IRR!CallInv'
  BY <1>1, <1>2, <1>4, <1>5, <1>7, <1>8, <1>9 DEF IRR!CallInv, IRR!Writing
<1>13. IRR!AnswerInv'
  BY <1>4, <1>5, <1>8 DEF IRR!AnswerInv
<1>14. IRR!AbsentInv'
  BY <1>1, <1>4, <1>8 DEF IRR!AbsentInv
<1>15. IRR!UncertainIsKept'
  <2> SUFFICES ASSUME kind = "rpsl", edits = 0, NEW v \in wire', v.op = "create"
               PROVE  v = w /\ \A u \in wire' : u.n <= v.n
    BY <1>1, <1>4, <1>7, <1>8 DEF IRR!UncertainIsKept
  <2>1. v \notin wire
    <3> SUFFICES ASSUME v \in wire PROVE FALSE
      OBVIOUS
    <3> QED  BY <1>1, <1>5, <1>9, IRROther
  <2> QED  BY <2>1, <1>2, <1>7, <1>8, <1>9
<1> QED  BY <1>10, <1>11, <1>12, <1>13, <1>14, <1>15 DEF IRR!IInv

\* The registry changes the object or the wire, and its call may hear of it.
LEMMA IRRServed ==
  ASSUME IRR!Assumption, IRR!IInv, NEW w \in wire, NEW kinds \in SUBSET {"done", "accepted", "missing", "refused", "uncertain"},
         NEW o \in IRR!Object \cup {None},
         kind' = kind, seen' = IF call' = None THEN {} ELSE {object'} \cup (IF call = None THEN {} ELSE seen),
         UNCHANGED <<state, sent, edits>>, object' \in IRR!Object \cup {None},
         wire' \in {wire, wire \ {w}}, IRR!Told(w.n, kinds, o),
         "done" \in kinds => o = object' /\ (o = None) = (w.op = "delete"),
         "missing" \in kinds /\ w.op = "delete" => object = None,
         {"done", "missing", "refused"} \cap kinds # {} => wire' = wire \ {w},
         object' # object => IRR!Executable(w) /\ wire' = wire \ {w}
  PROVE  IRR!IInv'
<1> USE IRRTypes
<1>1. /\ call = None => call' = None
      /\ call # None => call' \in IRR!Call /\ call'.at = call.at /\ call'.op = call.op /\ call'.text = call.text /\ call'.n = call.n
      /\ \/ UNCHANGED call
         \/ /\ call # None /\ call.at = "answer" /\ call.n = w.n /\ call.answer = None
            /\ \E k \in kinds : call'.answer = [kind |-> k, object |-> o]
  <2>1. CASE UNCHANGED call
    BY <2>1
  <2>2. ASSUME NEW k \in kinds, call # None, call' = [call EXCEPT !.answer = [kind |-> k, object |-> o]]
        PROVE  /\ call' \in IRR!Call /\ call'.at = call.at /\ call'.op = call.op /\ call'.text = call.text
               /\ call'.n = call.n /\ call'.answer = [kind |-> k, object |-> o]
    <3>1. PICK x : x = [kind |-> k, object |-> o]
      OBVIOUS
    <3>2. x \in IRR!Answer
      BY <3>1 DEF IRR!Answer
    <3>3. call \in IRR!Call /\ call' = [call EXCEPT !.answer = x]
      BY <2>2, <3>1
    <3> HIDE IRRTypes
    <3> QED  BY <3>1, <3>2, <3>3 DEF IRR!Call
  <2> QED  BY <2>1, <2>2 DEF IRR!Told
<1>2. /\ seen' \subseteq IRR!Object \cup {None}
      /\ call # None => object' \in seen' /\ object \in seen' /\ seen \subseteq seen' /\ call' # None
  BY <1>1 DEF IRR!CallInv
<1>3. IRR!TypeOK'
  BY <1>1, <1>2 DEF IRR!TypeOK
<1>4. IRR!WriteInv'
  BY DEF IRR!WriteInv
<1>5. IRR!CallInv'
  <2> SUFFICES ASSUME call # None PROVE IRR!CallInv'
    BY <1>1 DEF IRR!CallInv
  <2>1. call.at \in {"check", "client", "send", "read"} => call'.answer = None
    BY <1>1 DEF IRR!CallInv
  <2> QED  BY <1>1, <1>2, <2>1 DEF IRR!CallInv, IRR!Writing
<1>6. IRR!AnswerInv'
  <2> SUFFICES ASSUME call # None, call'.answer # None PROVE IRR!AnswerInv'
    BY <1>1 DEF IRR!AnswerInv
  <2>1. CASE UNCHANGED call
    BY <1>2, <2>1 DEF IRR!AnswerInv
  <2>2. ASSUME NEW k \in kinds, call.n = w.n, call'.answer = [kind |-> k, object |-> o]
        PROVE  IRR!AnswerInv'
    <3>1. w.op = call.op
      BY <2>2 DEF IRR!CallInv
    <3>2. wire' = wire \ {w} => \A v \in wire' : v.n # call.n
      BY <2>2 DEF IRR!WriteInv
    <3> QED  BY <1>1, <1>2, <2>2, <3>1, <3>2 DEF IRR!AnswerInv
  <2> QED  BY <1>1, <2>1, <2>2
<1>7. IRR!AbsentInv'
  <2> SUFFICES ASSUME kind = "rpsl", edits = 0, call # None, call.op = "create",
                      call.at = "send" \/ \E v \in wire' : v.n = call.n, object' # None
               PROVE  FALSE
    BY <1>1 DEF IRR!AbsentInv
  <2>1. object = None
    BY DEF IRR!AbsentInv
  <2>2. w.op = "create" /\ wire' = wire \ {w}
    BY <2>1 DEF IRR!Executable
  <2>3. call.n = w.n
    BY <2>2, IRROther
  <2>4. call.n # 0
    BY <2>3 DEF IRR!Write
  <2>5. PICK v \in wire' : v.n = call.n
    BY <2>4 DEF IRR!CallInv
  <2> QED  BY <2>2, <2>3, <2>5 DEF IRR!WriteInv
<1>8. IRR!UncertainIsKept'
  BY <1>1 DEF IRR!UncertainIsKept
<1> QED  BY <1>3, <1>4, <1>5, <1>6, <1>7, <1>8 DEF IRR!IInv

LEMMA IRRServe ==
  ASSUME IRR!Assumption, IRR!IInv, NEW w \in wire,
         kind' = kind, seen' = IF call' = None THEN {} ELSE {object'} \cup (IF call = None THEN {} ELSE seen),
         IRR!Execute(w) \/ IRR!Accept(w) \/ IRR!Refuse(w)
  PROVE  IRR!IInv'
<1> USE IRRTypes
<1>1. PICK o : o = IRR!After(w)
  OBVIOUS
<1>2. IRR!Executable(w) => o \in IRR!Object \cup {None} /\ (o = None) = (w.op = "delete")
  <2>1. w.op \in {"create", "update", "delete"} /\ (w.op # "delete" => w.text \in Texts)
    BY DEF IRR!Write, IRR!WriteInv
  <2>2. w.op = "create" => o \in IRR!Object
    BY <1>1, <2>1 DEF IRR!After, IRR!Object
  <2>3. object # None /\ w.op = "update" => o \in IRR!Object
    BY <1>1, <2>1 DEF IRR!After, IRR!Object
  <2> QED  BY <1>1, <2>1, <2>2, <2>3 DEF IRR!Executable, IRR!After
<1>3. CASE IRR!Execute(w)
  <2>1. {"done", "uncertain"} \in SUBSET {"done", "accepted", "missing", "refused", "uncertain"}
    OBVIOUS
  <2>2. object' = o /\ IRR!Told(w.n, {"done", "uncertain"}, o) /\ IRR!Executable(w) /\ wire' = wire \ {w}
    BY <1>1, <1>3 DEF IRR!Execute
  <2> QED  BY <1>2, <1>3, <2>1, <2>2, IRRServed DEF IRR!Execute
<1>4. CASE IRR!Accept(w)
  <2>1. {"accepted"} \in SUBSET {"done", "accepted", "missing", "refused", "uncertain"}
    OBVIOUS
  <2>2. IRR!Told(w.n, {"accepted"}, o) /\ IRR!Executable(w)
    BY <1>1, <1>4 DEF IRR!Accept
  <2> QED  BY <1>2, <1>4, <2>1, <2>2, IRRServed DEF IRR!Accept
<1>5. CASE IRR!Refuse(w)
  <2>1. PICK kinds : kinds = {"refused", "uncertain"} \cup (IF IRR!Executable(w) THEN {} ELSE {"missing"})
    OBVIOUS
  <2>2. kinds \in SUBSET {"done", "accepted", "missing", "refused", "uncertain"} /\ "done" \notin kinds
    BY <2>1
  <2>3. "missing" \in kinds /\ w.op = "delete" => object = None
    BY <2>1 DEF IRR!Executable
  <2>4. IRR!Told(w.n, kinds, None) /\ UNCHANGED <<object, state, sent, edits>> /\ wire' = wire \ {w}
    BY <1>5, <2>1 DEF IRR!Refuse
  <2> QED  BY <2>2, <2>3, <2>4, IRRServed
<1> QED  BY <1>3, <1>4, <1>5

\* Others change the object, and an operator gives a receipt up.
LEMMA IRROthers ==
  ASSUME IRR!Assumption, IRR!IInv,
         kind' = kind, seen' = IF call' = None THEN {} ELSE {object'} \cup (IF call = None THEN {} ELSE seen),
         IRR!Edit \/ IRR!Reconcile
  PROVE  IRR!IInv'
<1> USE IRRTypes
<1>1. CASE IRR!Edit
  <2>1. /\ UNCHANGED <<wire, state, call, sent>> /\ object' \in IRR!Object \cup {None}
        /\ edits' = edits + 1 /\ edits' \in 0 .. MaxEdits /\ edits' # 0
    BY <1>1 DEF IRR!Edit
  <2>2. /\ seen' \subseteq IRR!Object \cup {None} /\ (call # None => object' \in seen' /\ seen \subseteq seen')
    BY <2>1
  <2>3. IRR!TypeOK' /\ IRR!WriteInv'
    BY <2>1, <2>2 DEF IRR!TypeOK, IRR!WriteInv
  <2>4. IRR!CallInv' /\ IRR!AnswerInv'
    BY <2>1, <2>2 DEF IRR!CallInv, IRR!AnswerInv, IRR!Writing
  <2>5. IRR!AbsentInv' /\ IRR!UncertainIsKept'
    BY <2>1 DEF IRR!AbsentInv, IRR!UncertainIsKept
  <2> QED  BY <2>3, <2>4, <2>5 DEF IRR!IInv
<1>2. CASE IRR!Reconcile
  <2>1. /\ call = None /\ state' = None /\ UNCHANGED <<object, wire, call, sent, edits>> /\ seen' = {}
        /\ \A w \in wire : w.op # "create"
    BY <1>2 DEF IRR!Reconcile
  <2> QED  BY <2>1 DEF IRR!IInv, IRR!TypeOK, IRR!WriteInv, IRR!CallInv, IRR!AnswerInv, IRR!AbsentInv,
           IRR!UncertainIsKept
<1> QED  BY <1>1, <1>2

LEMMA IRRInit ==
  ASSUME IRR!Assumption, IRR!Init
  PROVE  IRR!IInv
BY DEF IRR!Init, IRR!Assumption, IRR!IInv, IRR!TypeOK, IRR!WriteInv, IRR!CallInv, IRR!AnswerInv, IRR!AbsentInv,
       IRR!UncertainIsKept

LEMMA IRRStep ==
  ASSUME IRR!Assumption, IRR!IInv, [IRR!Next]_IRR!vars
  PROVE  IRR!IInv'
<1>1. CASE UNCHANGED IRR!vars
  BY <1>1 DEF IRR!vars, IRR!IInv, IRR!TypeOK, IRR!WriteInv, IRR!CallInv, IRR!AnswerInv, IRR!AbsentInv,
       IRR!UncertainIsKept, IRR!Writing
<1>2. CASE IRR!Next
  <2>1. kind' = kind /\ seen' = IF call' = None THEN {} ELSE {object'} \cup (IF call = None THEN {} ELSE seen)
    BY <1>2 DEF IRR!Next
  <2>2. \/ \E t \in Texts : IRR!StartCreate(t) \/ IRR!StartUpdate(t)
        \/ IRR!StartDelete \/ IRR!StartRead \/ IRR!StartImport
        \/ IRR!Reconcile \/ IRR!CallStep
        \/ \E w \in wire : IRR!Execute(w) \/ IRR!Accept(w) \/ IRR!Refuse(w)
        \/ IRR!Edit
    BY <1>2 DEF IRR!Next, IRR!Step
  <2>3. CASE \/ \E t \in Texts : IRR!StartCreate(t) \/ IRR!StartUpdate(t)
             \/ IRR!StartDelete \/ IRR!StartRead \/ IRR!StartImport
    BY <2>1, <2>3, IRRStarts
  <2>4. CASE IRR!CallStep
    BY <2>1, <2>4, IRRCalls, IRRSend, IRRNoAnswer DEF IRR!CallStep
  <2>5. CASE \E w \in wire : IRR!Execute(w) \/ IRR!Accept(w) \/ IRR!Refuse(w)
    BY <2>1, <2>5, IRRServe
  <2>6. CASE IRR!Edit \/ IRR!Reconcile
    BY <2>1, <2>6, IRROthers
  <2> QED  BY <2>2, <2>3, <2>4, <2>5, <2>6
<1> QED  BY <1>1, <1>2

\* A call records what the registry held while it ran.
LEMMA IRRReal ==
  ASSUME IRR!Assumption, IRR!IInv, [IRR!Next]_IRR!vars
  PROVE  IRR!StateIsReal
<1> SUFFICES ASSUME call # None, state' # state
             PROVE  \/ state' = None /\ None \in seen
                    \/ state' # None /\ state'.pending
                    \/ \E o \in seen \ {None} : state' = IRR!Settled(o)
  BY DEF IRR!StateIsReal
<1> USE IRRTypes
<1>1. object \in seen /\ call \in IRR!Call
  BY DEF IRR!CallInv
<1>2. IRR!CallStep
  BY DEF IRR!Next, IRR!Step, IRR!vars, IRR!StartCreate, IRR!StartUpdate, IRR!StartDelete, IRR!StartRead,
         IRR!StartImport, IRR!Start, IRR!Reconcile, IRR!Execute, IRR!Accept, IRR!Refuse, IRR!Edit
<1>3. ASSUME IRR!Fail PROVE FALSE
  BY <1>3 DEF IRR!Fail, IRR!Goto, IRR!Finish
<1>4. CASE IRR!Check
  BY <1>1, <1>4 DEF IRR!Check, IRR!Goto, IRR!Finish
<1>5. CASE IRR!ClientReads
  BY <1>1, <1>3, <1>5 DEF IRR!ClientReads, IRR!Goto, IRR!Finish
<1>6. CASE IRR!ReadFails \/ IRR!Send \/ IRR!NoAnswer
  BY <1>3, <1>6 DEF IRR!ReadFails, IRR!Send, IRR!NoAnswer, IRR!Finish
<1>7. CASE IRR!WriteAnswered
  <2>1. IRR!Confirmed(call.answer) /\ state' = IRR!Settled(call.answer.object)
    BY <1>7 DEF IRR!WriteAnswered, IRR!Goto, IRR!Finish
  <2>2. call.answer.object \in seen \ {None}
    BY <1>7, <2>1 DEF IRR!Confirmed, IRR!AnswerInv, IRR!WriteAnswered, IRR!At
  <2> QED  BY <2>1, <2>2
<1>8. CASE IRR!DeleteAnswered
  <2>1. call.answer.kind \in {"done", "missing"} /\ state' = None /\ call.op = "delete" /\ call.answer # None
    BY <1>8 DEF IRR!DeleteAnswered, IRR!Goto, IRR!Finish, IRR!At
  <2> QED  BY <2>1 DEF IRR!AnswerInv
<1>9. CASE IRR!VerifyWrite \/ IRR!VerifyDelete
  BY <1>1, <1>9 DEF IRR!VerifyWrite, IRR!VerifyDelete, IRR!AsWanted, IRR!Finish
<1>10. CASE IRR!Unverified
  <2>1. call.op = "create" /\ state' = IRR!Pending(call.text)
    BY <1>10 DEF IRR!Unverified, IRR!Finish
  <2>2. call.text \in Texts
    BY <1>1, <2>1 DEF IRR!CallInv, IRR!Call
  <2> QED  BY <2>1, <2>2, IRRStates
<1>11. CASE IRR!Read
  BY <1>1, <1>11 DEF IRR!Read, IRR!Finish
<1> QED  BY <1>2, <1>4, <1>5, <1>6, <1>7, <1>8, <1>9, <1>10, <1>11 DEF IRR!CallStep

\* Of a registry object: an answer only tells what the registry held during
\* the call, and a creation on its way has its call, or a pending state.
THEOREM IRRInductive == ASSUME IRR!Assumption PROVE IRR!Spec => []IRR!IInv
<1>1. IRR!Init => IRR!IInv
  BY IRRInit
<1>2. IRR!IInv /\ [IRR!Next]_(IRR!vars) => IRR!IInv'
  BY IRRStep
<1> QED  BY <1>1, <1>2, PTL DEF IRR!Spec

\* State only takes what the registry held during the call, or a pending
\* receipt; and while nobody else makes the object, a creation that may still
\* take effect is neither forgotten nor followed by another write.
THEOREM IRRStateHolds ==
  ASSUME IRR!Assumption
  PROVE  IRR!Spec => []IRR!UncertainIsKept /\ [][IRR!StateIsReal]_(IRR!vars)
<1>1. IRR!IInv => IRR!UncertainIsKept
  BY DEF IRR!IInv
<1>2. IRR!IInv /\ [IRR!Next]_(IRR!vars) => IRR!StateIsReal
  BY IRRReal
<1> QED  BY <1>1, <1>2, IRRInductive, PTL DEF IRR!Spec
-----------------------------------------------------------------------------
(* A record that is written whole *)

LEMMA WholeTypes ==
  ASSUME Whole!Assumption, Whole!IInv
  PROVE  /\ kind \in Whole!Kinds /\ record \in Whole!Record \cup {None} /\ wire \subseteq Whole!Request
         /\ state \in Whole!Record \cup {None} /\ call \in Whole!Call \cup {None} /\ sent \in 0 .. MaxRequests
         /\ seen \subseteq Whole!Record \cup {None} /\ edits \in 0 .. MaxEdits /\ MaxRequests \in Nat /\ MaxEdits \in Nat
         /\ None \notin Whole!Record /\ None \notin Whole!Answer /\ None \notin Whole!Call /\ EmptyValue \in Values
         /\ Whole!TypeOK /\ Whole!CallInv /\ Whole!SeenInv /\ Whole!WireInv
         /\ \A q \in wire : q.n \in 1 .. MaxRequests /\ q.n <= sent
BY DEF Whole!IInv, Whole!TypeOK, Whole!Assumption, Whole!WireInv, Whole!Request

\* What a step of the call that changes neither the record nor the wire must
\* leave behind.
LEMMA WholeLocal ==
  ASSUME Whole!Assumption, Whole!IInv, NEW c \in Whole!Call \cup {None}, NEW s \in Whole!Record \cup {None},
         call' = c, state' = s, UNCHANGED <<kind, record, wire, sent, edits>>,
         seen' = IF call' = None THEN {} ELSE {record'} \cup (IF call = None THEN {} ELSE seen),
         c # None =>
           /\ c.n <= sent /\ (c.op = "create" => s = None) /\ (c.op \in {"update", "delete"} => s # None)
           /\ c.at \in {"first", "fresh", "send"} => c.n = 0 /\ c.answer = None
           /\ c.at = "first" => c.op \in {"create", "update"} /\ c.fresh = None
           /\ c.at = "fresh" => c.op \in {"create", "update", "delete"} /\ (c.op = "delete" => kind = "delegation")
           /\ c.at \in {"send", "answer"} => c.op \in {"create", "delete"} \/ (c.op = "update" /\ c.fresh # None)
           /\ c.at = "verify" => c.op = "delete"
           /\ c.at = "read" => c.op \in {"read", "import"}
           /\ {c.first, c.fresh} \subseteq {None, record} \cup (IF call = None THEN {} ELSE {call.first, call.fresh})
           /\ c.answer = None \/ (call # None /\ c.answer = call.answer)
           /\ kind = "delegation" /\ c.op = "create" /\ c.at # "first" => c.first # None /\ c.first.mine = EmptyValue
           /\ c.n = 0 \/ (call # None /\ c.n = call.n /\ c.op = call.op /\ c.fresh = call.fresh)
  PROVE  Whole!IInv'
<1> USE WholeTypes
<1>1. /\ seen' \subseteq Whole!Record \cup {None}
      /\ c # None => record \in seen' /\ (call # None => seen \subseteq seen')
  OBVIOUS
<1>2. Whole!TypeOK'
  BY <1>1 DEF Whole!TypeOK
<1>3. Whole!CallInv'
  BY DEF Whole!CallInv
<1>4. Whole!SeenInv'
  <2> SUFFICES ASSUME c # None PROVE Whole!SeenInv'
    BY DEF Whole!SeenInv
  <2>1. {c.first, c.fresh} \ {None} \subseteq seen'
    BY <1>1 DEF Whole!SeenInv
  <2>2. c.answer # None => c.answer.record \in seen' /\ (c.answer.kind = "missing" => None \in seen')
    BY <1>1 DEF Whole!SeenInv
  <2> QED  BY <1>1, <2>1, <2>2 DEF Whole!SeenInv
<1>5. Whole!WireInv'
  <2> SUFFICES ASSUME c # None, NEW q \in wire, q.n = c.n PROVE (q.op = Whole!Op /\ q.other = Whole!PassedOn)'
    BY DEF Whole!WireInv
  <2>1. call # None /\ c.n = call.n /\ c.op = call.op /\ c.fresh = call.fresh
    OBVIOUS
  <2>2. q.op = Whole!Op /\ q.other = Whole!PassedOn
    BY <2>1 DEF Whole!WireInv
  <2> QED  BY <2>1, <2>2 DEF Whole!Op, Whole!PassedOn
<1> QED  BY <1>2, <1>3, <1>4, <1>5 DEF Whole!IInv

LEMMA WholeFinish ==
  ASSUME Whole!Assumption, Whole!IInv, NEW s \in Whole!Record \cup {None}, Whole!Finish(s),
         UNCHANGED <<kind, record, wire, sent, edits>>,
         seen' = IF call' = None THEN {} ELSE {record'} \cup (IF call = None THEN {} ELSE seen)
  PROVE  Whole!IInv'
BY WholeLocal DEF Whole!Finish

\* A call starts.
LEMMA WholeStart ==
  ASSUME Whole!Assumption, Whole!IInv,
         NEW op \in {"create", "update", "delete", "read", "import"}, NEW at \in {"first", "fresh", "send", "read"},
         NEW v \in Values, Whole!Start(op, at, v), kind' = kind,
         seen' = IF call' = None THEN {} ELSE {record'} \cup (IF call = None THEN {} ELSE seen),
         op = "create" => state = None, op \in {"update", "delete"} => state # None,
         at = "first" => op \in {"create", "update"},
         at = "fresh" => op \in {"update", "delete"} /\ (op = "delete" => kind = "delegation"),
         at = "send" => op \in {"create", "delete"}, at = "read" => op \in {"read", "import"},
         op = "create" /\ kind = "delegation" => at = "first"
  PROVE  Whole!IInv'
<1>1. PICK c : c = [op |-> op, at |-> at, want |-> v, first |-> None, fresh |-> None, n |-> 0, answer |-> None]
  OBVIOUS
<1>2. /\ c \in Whole!Call /\ c.op = op /\ c.at = at /\ c.first = None /\ c.fresh = None /\ c.n = 0
      /\ c.answer = None /\ 0 <= sent
  BY <1>1, WholeTypes DEF Whole!Call
<1>3. call' = c /\ UNCHANGED <<record, wire, state, sent, edits>> /\ state \in Whole!Record \cup {None}
  BY <1>1, WholeTypes DEF Whole!Start
<1> QED  BY <1>2, <1>3, WholeLocal

LEMMA WholeStarts ==
  ASSUME Whole!Assumption, Whole!IInv, kind' = kind,
         seen' = IF call' = None THEN {} ELSE {record'} \cup (IF call = None THEN {} ELSE seen),
         \/ \E v \in Values : Whole!StartCreate(v) \/ Whole!StartUpdate(v)
         \/ Whole!StartDelete \/ Whole!StartRead \/ Whole!StartImport \/ Whole!Forget
  PROVE  Whole!IInv'
<1> USE WholeTypes
<1>1. ASSUME NEW v \in Values, Whole!StartCreate(v)
      PROVE  Whole!IInv'
  <2>1. PICK at \in {"first", "send"} : Whole!Start("create", at, v) /\ (kind = "delegation" => at = "first")
    BY <1>1 DEF Whole!StartCreate, Whole!Created
  <2> QED  BY <1>1, <2>1, WholeStart DEF Whole!StartCreate
<1>2. ASSUME NEW v \in Values, Whole!StartUpdate(v)
      PROVE  Whole!IInv'
  <2>1. PICK at \in {"first", "fresh"} : Whole!Start("update", at, v)
    BY <1>2 DEF Whole!StartUpdate
  <2> QED  BY <1>2, <2>1, WholeStart DEF Whole!StartUpdate
<1>3. CASE Whole!StartDelete
  <2>1. PICK at \in {"fresh", "send"} : Whole!Start("delete", at, EmptyValue) /\ (at = "fresh" => kind = "delegation")
    BY <1>3 DEF Whole!StartDelete
  <2> QED  BY <1>3, <2>1, WholeStart DEF Whole!StartDelete
<1>4. CASE Whole!StartRead \/ Whole!StartImport
  BY <1>4, WholeStart DEF Whole!StartRead, Whole!StartImport
<1>5. CASE Whole!Forget
  <2>1. call' = None /\ state' = None /\ UNCHANGED <<record, wire, sent, edits>>
    BY <1>5 DEF Whole!Forget
  <2> QED  BY <2>1, WholeLocal
<1> QED  BY <1>1, <1>2, <1>3, <1>4, <1>5

LEMMA WholeCalls ==
  ASSUME Whole!Assumption, Whole!IInv, kind' = kind,
         seen' = IF call' = None THEN {} ELSE {record'} \cup (IF call = None THEN {} ELSE seen),
         \/ Whole!First \/ Whole!Fresh \/ Whole!ReadFails \/ Whole!NoAnswer \/ Whole!WriteAnswered
         \/ Whole!DeleteAnswered \/ Whole!Verify \/ Whole!Read
  PROVE  Whole!IInv'
<1>1. /\ call # None /\ UNCHANGED <<record, wire, sent, edits>>
  BY DEF Whole!First, Whole!Fresh, Whole!ReadFails, Whole!NoAnswer, Whole!WriteAnswered,
         Whole!DeleteAnswered, Whole!Verify, Whole!Read, Whole!At, Whole!Local
<1>2. call \in Whole!Call /\ state \in Whole!Record \cup {None} /\ record \in Whole!Record \cup {None}
  BY <1>1, WholeTypes
<1>3. ASSUME NEW s \in Whole!Record \cup {None}, Whole!Finish(s)
      PROVE  Whole!IInv'
  BY <1>1, <1>3, WholeFinish
<1>4. Whole!Failed \in Whole!Record \cup {None}
  BY <1>2 DEF Whole!Failed, Whole!Call
<1>5. Whole!CallInv /\ Whole!SeenInv /\ (call.op = "create" => state = None)
  BY <1>1, WholeTypes DEF Whole!TypeOK
<1>6. CASE Whole!First
  <2>1. CASE Whole!Finish(state)
    BY <1>2, <1>3, <2>1
  <2>2. CASE ~Whole!Finish(state)
    <3>1. /\ call.op \in {"create", "update"} /\ call.at = "first" /\ record # None /\ UNCHANGED state
          /\ call.op = "create" => Whole!Takeable(record)
          /\ call' = [call EXCEPT !.at = "fresh", !.first = record]
      BY <1>6, <2>2 DEF Whole!First, Whole!At
    <3>2. PICK c : c = [call EXCEPT !.at = "fresh", !.first = record]
      OBVIOUS
    <3>3. /\ c \in Whole!Call /\ c.at = "fresh" /\ c.first = record /\ c.op = call.op /\ c.fresh = call.fresh
          /\ c.n = call.n /\ c.answer = call.answer
      BY <1>2, <3>2 DEF Whole!Call
    <3>4. call' = c
      BY <3>1, <3>2
    <3> QED  BY <1>1, <1>2, <1>5, <3>1, <3>3, <3>4, WholeLocal DEF Whole!CallInv, Whole!Takeable
  <2> QED  BY <2>1, <2>2
<1>7. CASE Whole!Fresh
  <2>1. CASE record # None /\ Whole!Writable(record)
    <3>1. /\ call.op \in {"create", "update", "delete"} /\ call.at = "fresh" /\ UNCHANGED state
          /\ call' = [call EXCEPT !.at = "send", !.fresh = record]
      BY <1>7, <2>1 DEF Whole!Fresh, Whole!At
    <3>2. PICK c : c = [call EXCEPT !.at = "send", !.fresh = record]
      OBVIOUS
    <3>3. /\ c \in Whole!Call /\ c.at = "send" /\ c.first = call.first /\ c.op = call.op /\ c.fresh = record
          /\ c.n = call.n /\ c.answer = call.answer
      BY <1>2, <3>2 DEF Whole!Call
    <3>4. call' = c
      BY <3>1, <3>2
    <3> QED  BY <1>1, <1>2, <1>5, <2>1, <3>1, <3>3, <3>4, WholeLocal DEF Whole!CallInv, Whole!SeenInv
  <2>2. CASE ~(record # None /\ Whole!Writable(record))
    BY <1>3, <1>4, <1>7, <2>2 DEF Whole!Fresh
  <2> QED  BY <2>1, <2>2
<1>8. CASE Whole!ReadFails \/ Whole!NoAnswer
  BY <1>2, <1>3, <1>4, <1>8 DEF Whole!ReadFails, Whole!NoAnswer
<1>9. CASE Whole!WriteAnswered
  <2>1. call.answer # None => call.answer.record \in Whole!Record \cup {None}
    BY <1>2 DEF Whole!Call, Whole!Answer
  <2> QED  BY <1>3, <1>4, <1>9, <2>1 DEF Whole!WriteAnswered
<1>10. CASE Whole!DeleteAnswered
  <2>1. CASE Whole!Finish(state) \/ Whole!Finish(None)
    BY <1>2, <1>3, <2>1
  <2>2. CASE ~(Whole!Finish(state) \/ Whole!Finish(None))
    <3>1. /\ call.op = "delete" /\ UNCHANGED state /\ call.answer # None
          /\ call' = [call EXCEPT !.at = "verify"]
      BY <1>10, <2>2 DEF Whole!DeleteAnswered, Whole!At
    <3>2. PICK c : c = [call EXCEPT !.at = "verify"]
      OBVIOUS
    <3>3. /\ c \in Whole!Call /\ c.at = "verify" /\ c.first = call.first /\ c.op = call.op /\ c.fresh = call.fresh
          /\ c.n = call.n /\ c.answer = call.answer
      BY <1>2, <3>2 DEF Whole!Call
    <3>4. call' = c
      BY <3>1, <3>2
    <3> QED  BY <1>1, <1>2, <1>5, <3>1, <3>3, <3>4, WholeLocal DEF Whole!CallInv
  <2> QED  BY <2>1, <2>2
<1>11. CASE Whole!Verify
  BY <1>2, <1>3, <1>11 DEF Whole!Verify
<1>12. CASE Whole!Read
  BY <1>2, <1>3, <1>12 DEF Whole!Read
<1> QED  BY <1>6, <1>7, <1>8, <1>9, <1>10, <1>11, <1>12

LEMMA WholeSend ==
  ASSUME Whole!Assumption, Whole!IInv, kind' = kind,
         seen' = IF call' = None THEN {} ELSE {record'} \cup (IF call = None THEN {} ELSE seen),
         Whole!Send
  PROVE  Whole!IInv'
<1> USE WholeTypes
<1>1. /\ call # None /\ call \in Whole!Call /\ UNCHANGED <<record, state, edits>> /\ call.at = "send"
      /\ sent' = sent + 1 /\ sent' \in 1 .. MaxRequests
  BY DEF Whole!Send, Whole!At
<1>2. PICK n \in 1 .. MaxRequests : n = sent' /\ n = sent + 1
  BY <1>1
<1>3. PICK c : c = [call EXCEPT !.at = "answer", !.n = n]
  OBVIOUS
<1>4. /\ c \in Whole!Call /\ c.at = "answer" /\ c.op = call.op /\ c.want = call.want /\ c.n = n
      /\ c.answer = call.answer /\ c.first = call.first /\ c.fresh = call.fresh
  <2>1. n \in 0 .. MaxRequests
    OBVIOUS
  <2> HIDE WholeTypes
  <2> QED  BY <1>1, <1>3, <2>1 DEF Whole!Call
<1>5. call' = c /\ c # None
  BY <1>2, <1>3, <1>4 DEF Whole!Send
<1>6. /\ call.op \in {"create", "delete"} \/ (call.op = "update" /\ call.fresh # None)
      /\ call.answer = None /\ call.n = 0
  BY <1>1 DEF Whole!CallInv
<1>7. /\ Whole!Op \in {"create", "write", "delete"} /\ Whole!PassedOn \in Values
      /\ Whole!Op' = Whole!Op /\ Whole!PassedOn' = Whole!PassedOn
  <2>1. call.fresh # None => call.fresh.other \in Values
    BY <1>1 DEF Whole!Call, Whole!Record
  <2> QED  BY <1>4, <1>5, <1>6, <2>1 DEF Whole!Op, Whole!PassedOn
<1>8. PICK q : q = [n |-> n, op |-> Whole!Op, mine |-> call.want, other |-> Whole!PassedOn]
  OBVIOUS
<1>9. q \in Whole!Request /\ q.n = n /\ q.op = Whole!Op /\ q.other = Whole!PassedOn /\ wire' = wire \cup {q}
  BY <1>1, <1>2, <1>7, <1>8 DEF Whole!Request, Whole!Call, Whole!Send
<1>10. /\ seen' = {record} \cup seen /\ seen' \subseteq Whole!Record \cup {None}
  BY <1>1, <1>5
<1>11. Whole!TypeOK'
  BY <1>1, <1>4, <1>5, <1>9, <1>10 DEF Whole!TypeOK
<1>12. Whole!CallInv'
  BY <1>1, <1>2, <1>4, <1>5, <1>6 DEF Whole!CallInv
<1>13. Whole!SeenInv'
  BY <1>1, <1>4, <1>5, <1>6, <1>10 DEF Whole!SeenInv
<1>14. Whole!WireInv'
  BY <1>1, <1>2, <1>4, <1>5, <1>7, <1>9 DEF Whole!WireInv
<1> QED  BY <1>11, <1>12, <1>13, <1>14 DEF Whole!IInv

\* The record or the wire changes, and a waiting call may hear of it.
LEMMA WholeServed ==
  ASSUME Whole!Assumption, Whole!IInv, kind' = kind,
         seen' = IF call' = None THEN {} ELSE {record'} \cup (IF call = None THEN {} ELSE seen),
         UNCHANGED <<state, sent>>, record' \in Whole!Record \cup {None}, wire' \subseteq wire, edits' \in 0 .. MaxEdits,
         \/ UNCHANGED call
         \/ \E k \in {"done", "missing", "refused"} :
              /\ call # None /\ call.at = "answer"
              /\ call' = [call EXCEPT !.answer = [kind |-> k, record |-> record']]
              /\ k = "missing" => record' = None
  PROVE  Whole!IInv'
<1> USE WholeTypes
<1>1. CASE UNCHANGED call
  <2>1. /\ seen' \subseteq Whole!Record \cup {None} /\ (call # None => seen' = {record'} \cup seen)
    BY <1>1
  <2>2. Whole!TypeOK'
    BY <1>1, <2>1 DEF Whole!TypeOK
  <2>3. Whole!CallInv'
    BY <1>1 DEF Whole!CallInv
  <2>4. Whole!SeenInv'
    BY <1>1, <2>1 DEF Whole!SeenInv
  <2>5. Whole!WireInv'
    BY <1>1 DEF Whole!WireInv, Whole!Op, Whole!PassedOn
  <2> QED  BY <2>2, <2>3, <2>4, <2>5 DEF Whole!IInv
<1>2. ASSUME NEW k \in {"done", "missing", "refused"}, call # None, call.at = "answer",
             call' = [call EXCEPT !.answer = [kind |-> k, record |-> record']],
             k = "missing" => record' = None
      PROVE  Whole!IInv'
  <2>1. PICK x : x = [kind |-> k, record |-> record']
    OBVIOUS
  <2>2. x \in Whole!Answer /\ x.record = record' /\ x.kind = k
    BY <2>1 DEF Whole!Answer
  <2>3. PICK c : c = [call EXCEPT !.answer = x]
    OBVIOUS
  <2>4. call \in Whole!Call
    BY <1>2
  <2>5. /\ c \in Whole!Call /\ c.at = "answer" /\ c.op = call.op /\ c.want = call.want /\ c.n = call.n
        /\ c.answer = x /\ c.first = call.first /\ c.fresh = call.fresh
    <3> HIDE WholeTypes
    <3> QED  BY <1>2, <2>2, <2>3, <2>4 DEF Whole!Call
  <2>6. call' = c /\ c # None
    BY <1>2, <2>1, <2>3, <2>5
  <2>7. /\ seen' = {record'} \cup seen /\ seen' \subseteq Whole!Record \cup {None}
    BY <1>2, <2>6
  <2>8. Whole!TypeOK'
    BY <1>2, <2>5, <2>6, <2>7 DEF Whole!TypeOK
  <2>9. Whole!CallInv'
    BY <1>2, <2>5, <2>6 DEF Whole!CallInv
  <2>10. Whole!SeenInv'
    BY <1>2, <2>2, <2>5, <2>6, <2>7 DEF Whole!SeenInv
  <2>11. Whole!WireInv'
    BY <1>2, <2>5, <2>6 DEF Whole!WireInv, Whole!Op, Whole!PassedOn
  <2> QED  BY <2>8, <2>9, <2>10, <2>11 DEF Whole!IInv
<1> QED  BY <1>1, <1>2

LEMMA WholeServe ==
  ASSUME Whole!Assumption, Whole!IInv, kind' = kind,
         seen' = IF call' = None THEN {} ELSE {record'} \cup (IF call = None THEN {} ELSE seen),
         (\E q \in wire : Whole!CarryOut(q) \/ Whole!AnswerFirst(q) \/ Whole!Refuse(q)) \/ Whole!Edit
  PROVE  Whole!IInv'
<1> USE WholeTypes
<1>1. ASSUME NEW q \in wire, Whole!CarryOut(q) \/ Whole!AnswerFirst(q) \/ Whole!Refuse(q)
      PROVE  Whole!IInv'
  <2>1. /\ UNCHANGED <<state, sent, edits>> /\ wire' \subseteq wire
    BY <1>1 DEF Whole!CarryOut, Whole!AnswerFirst, Whole!Refuse
  <2>2. q.op \in {"create", "write", "delete"} /\ q.mine \in Values /\ q.other \in Values
    BY DEF Whole!Request
  <2>3. record' \in Whole!Record \cup {None}
    BY <1>1, <2>2 DEF Whole!CarryOut, Whole!AnswerFirst, Whole!Refuse, Whole!Record
  <2>4. \E kinds \in SUBSET {"done", "missing", "refused"} :
          Whole!Told(q, kinds) /\ ("missing" \in kinds => record' = None)
    <3>1. CASE Whole!CarryOut(q) \/ Whole!AnswerFirst(q)
      BY <3>1 DEF Whole!CarryOut, Whole!AnswerFirst
    <3>2. CASE Whole!Refuse(q)
      <4>1. PICK kinds : kinds = {"refused"} \cup (IF record = None THEN {"missing"} ELSE {})
        OBVIOUS
      <4>2. kinds \in SUBSET {"done", "missing", "refused"} /\ ("missing" \in kinds => record = None)
        BY <4>1
      <4> QED  BY <3>2, <4>1, <4>2 DEF Whole!Refuse
    <3> QED  BY <1>1, <3>1, <3>2
  <2>5. \/ UNCHANGED call
        \/ \E k \in {"done", "missing", "refused"} :
             /\ call # None /\ call.at = "answer"
             /\ call' = [call EXCEPT !.answer = [kind |-> k, record |-> record']]
             /\ k = "missing" => record' = None
    BY <2>4 DEF Whole!Told, Whole!Waiting
  <2> QED  BY <2>1, <2>3, <2>5, WholeServed
<1>2. CASE Whole!Edit
  <2>1. UNCHANGED <<wire, state, call, sent>> /\ edits' \in 0 .. MaxEdits /\ record' \in Whole!Record \cup {None}
    BY <1>2 DEF Whole!Edit, Whole!Records
  <2> QED  BY <2>1, WholeServed
<1> QED  BY <1>1, <1>2

LEMMA WholeInit ==
  ASSUME Whole!Assumption, Whole!Init
  PROVE  Whole!IInv
BY DEF Whole!Init, Whole!Assumption, Whole!IInv, Whole!TypeOK, Whole!CallInv, Whole!SeenInv, Whole!WireInv,
       Whole!Records

LEMMA WholeStep ==
  ASSUME Whole!Assumption, Whole!IInv, [Whole!Next]_Whole!vars
  PROVE  Whole!IInv'
<1>1. CASE UNCHANGED Whole!vars
  BY <1>1 DEF Whole!vars, Whole!IInv, Whole!TypeOK, Whole!CallInv, Whole!SeenInv, Whole!WireInv, Whole!Op, Whole!PassedOn
<1>2. CASE Whole!Next
  <2>1. kind' = kind /\ seen' = IF call' = None THEN {} ELSE {record'} \cup (IF call = None THEN {} ELSE seen)
    BY <1>2 DEF Whole!Next
  <2> QED  BY <1>2, <2>1, WholeStarts, WholeCalls, WholeSend, WholeServe DEF Whole!Next, Whole!Step, Whole!CallStep
<1> QED  BY <1>1, <1>2

\* A call records what ARIN held while it ran.
LEMMA WholeReal ==
  ASSUME Whole!Assumption, Whole!IInv, [Whole!Next]_Whole!vars
  PROVE  Whole!StateIsReal
<1> SUFFICES ASSUME call # None, state' # state
             PROVE  IF state' # None THEN state' \in seen
                    ELSE \/ \E r \in seen : r = None \/ (kind = "delegation" /\ r.mine = EmptyValue)
                         \/ kind = "customer" /\ call.answer # None /\ call.answer.kind = "done"
  BY DEF Whole!StateIsReal
<1> USE WholeTypes
<1>1. record \in seen /\ call \in Whole!Call
  BY DEF Whole!SeenInv
<1>2. Whole!CallStep
  BY DEF Whole!Next, Whole!Step, Whole!vars, Whole!StartCreate, Whole!StartUpdate, Whole!StartDelete,
         Whole!StartRead, Whole!StartImport, Whole!Start, Whole!Forget, Whole!CarryOut, Whole!AnswerFirst,
         Whole!Refuse, Whole!Edit
<1>3. Whole!Failed = state \/ Whole!Failed \in seen
  BY DEF Whole!Failed, Whole!SeenInv
<1>4. CASE Whole!First \/ Whole!Send
  BY <1>4 DEF Whole!First, Whole!Send, Whole!Finish
<1>5. CASE Whole!Fresh
  <2>1. ~(record # None /\ Whole!Writable(record)) /\ call.at = "fresh"
        /\ state' = IF call.op = "delete" THEN None ELSE Whole!Failed
    BY <1>5 DEF Whole!Fresh, Whole!Finish, Whole!At
  <2>2. call.op = "delete" => record = None
    BY <2>1 DEF Whole!CallInv, Whole!Writable
  <2> QED  BY <1>1, <1>3, <2>1, <2>2
<1>6. CASE Whole!ReadFails \/ Whole!NoAnswer
  BY <1>3, <1>6 DEF Whole!ReadFails, Whole!NoAnswer, Whole!Finish
<1>7. CASE Whole!WriteAnswered
  BY <1>3, <1>7 DEF Whole!WriteAnswered, Whole!Finish, Whole!SeenInv
<1>8. CASE Whole!DeleteAnswered
  <2>1. /\ call.answer # None /\ call.answer.kind # "refused" /\ state' = None
        /\ call.answer.kind = "missing" \/ kind = "customer"
    BY <1>8 DEF Whole!DeleteAnswered, Whole!Finish
  <2>2. call.answer.kind \in {"done", "missing", "refused"}
    BY <1>1, <2>1 DEF Whole!Call, Whole!Answer
  <2> QED  BY <2>1, <2>2 DEF Whole!SeenInv
<1>9. CASE Whole!Verify
  BY <1>1, <1>9 DEF Whole!Verify, Whole!Finish, Whole!Gone
<1>10. CASE Whole!Read
  BY <1>1, <1>10 DEF Whole!Read, Whole!Finish
<1> QED  BY <1>2, <1>4, <1>5, <1>6, <1>7, <1>8, <1>9, <1>10 DEF Whole!CallStep

\* A write passes on what its call read.
LEMMA WholeReads ==
  ASSUME Whole!Assumption, Whole!IInv
  PROVE  Whole!WritesBuildOnReads
<1> USE WholeTypes
<1> SUFFICES ASSUME NEW q \in wire, Whole!Waiting(q), q.op = "write"
             PROVE  /\ \E r \in seen \ {None} : r.other = q.other
                    /\ kind = "delegation" /\ state = None => \E r \in seen \ {None} : r.mine = EmptyValue
  BY DEF Whole!WritesBuildOnReads
<1>1. call # None /\ call.at = "answer" /\ q.op = Whole!Op /\ q.other = Whole!PassedOn
  BY DEF Whole!Waiting, Whole!WireInv
<1>2. call.fresh # None
  BY <1>1 DEF Whole!Op, Whole!CallInv
<1>3. call.fresh \in seen \ {None} /\ q.other = call.fresh.other
  BY <1>1, <1>2 DEF Whole!SeenInv, Whole!PassedOn
<1>4. kind = "delegation" /\ state = None => call.first \in seen \ {None} /\ call.first.mine = EmptyValue
  BY <1>1 DEF Whole!SeenInv, Whole!CallInv
<1> QED  BY <1>3, <1>4

\* Of a record written whole: what its call has read, was told or sends is
\* what ARIN held during the call.
THEOREM WholeInductive == ASSUME Whole!Assumption PROVE Whole!Spec => []Whole!IInv
<1>1. Whole!Init => Whole!IInv
  BY WholeInit
<1>2. Whole!IInv /\ [Whole!Next]_(Whole!vars) => Whole!IInv'
  BY WholeStep
<1> QED  BY <1>1, <1>2, PTL DEF Whole!Spec

\* State only takes records that ARIN held during the call, and a write passes
\* on what such a record says of the fields that are not managed.
THEOREM WholeStateHolds ==
  ASSUME Whole!Assumption
  PROVE  Whole!Spec => []Whole!WritesBuildOnReads /\ [][Whole!StateIsReal]_(Whole!vars)
<1>1. Whole!IInv => Whole!WritesBuildOnReads
  BY WholeReads
<1>2. Whole!IInv /\ [Whole!Next]_(Whole!vars) => Whole!StateIsReal
  BY WholeReal
<1> QED  BY <1>1, <1>2, WholeInductive, PTL DEF Whole!Spec
-----------------------------------------------------------------------------
(* All resources *)

\* The inductive invariant of the managed resource.
HostedIInv ==
  \/ resource = "arin_net" /\ Net!IInv
  \/ resource = "arin_org" /\ Org!IInv
  \/ resource = "arin_rpki_bundle" /\ Bundle!IInv
  \/ resource = "arin_roa" /\ ROA!IInv
  \/ resource = "arin_aspa" /\ ASPA!IInv
  \/ resource = "arin_report_request" /\ Report!IInv
  \/ resource = "arin_ticket_status" /\ Ticket!IInv
  \/ resource = "irr_object" /\ IRR!IInv
  \/ resource = "linked_route" /\ Links!IInv
  \/ resource = "shared_record" /\ Shared!IInv
  \/ resource = "whole_record" /\ Whole!IInv

\* A step is one of the managed resource.
LEMMA HostedMoves ==
  ASSUME [Next]_vars
  PROVE  /\ resource' = resource
         /\ resource = "arin_net" => [Net!Next]_(Net!vars)
         /\ resource = "arin_org" => [Org!Next]_(Org!vars)
         /\ resource = "arin_rpki_bundle" => [Bundle!Next]_(Bundle!vars)
         /\ resource = "arin_roa" => [ROA!Next]_(ROA!vars)
         /\ resource = "arin_aspa" => [ASPA!Next]_(ASPA!vars)
         /\ resource = "arin_report_request" => [Report!Next]_(Report!vars)
         /\ resource = "arin_ticket_status" => [Ticket!Next]_(Ticket!vars)
         /\ resource = "irr_object" => [IRR!Next]_(IRR!vars)
         /\ resource = "linked_route" => [Links!Next]_(Links!vars)
         /\ resource = "shared_record" => [Shared!Next]_(Shared!vars)
         /\ resource = "whole_record" => [Whole!Next]_(Whole!vars)
<1>1. CASE Next
  BY <1>1 DEF Next, NextHosted, NextRegistry
<1>2. CASE UNCHANGED vars
  <2>1. /\ UNCHANGED <<resource, wire, state, call, sent, tickets, named, lost, edits, crashes>>
        /\ UNCHANGED <<registered, orgs, given, roas, aspas, by, imported, late, relabelled>>
        /\ UNCHANGED <<took, dropped, destroys, refreshed, known, ticket, closed, withdrawn>>
        /\ UNCHANGED <<kind, seen, record, holder, object, route, unanswered, managed, absent, made>>
    BY <1>2
    DEF vars, onlyHosted, onlyNet, onlyOrg, inventories, adoptions, onlyASPA, onlyReport, onlyTicket,
        onlyRegistry, onlyLink, onlyShared
  <2>2. UNCHANGED Net!vars /\ UNCHANGED Org!vars
    BY <2>1
    DEF Net!vars, Net!service, Net!history, Net!bounds, Org!vars, Org!service, Org!history, Org!bounds
  <2>3. UNCHANGED Bundle!vars /\ UNCHANGED ROA!vars /\ UNCHANGED ASPA!vars
    BY <2>1
    DEF Bundle!vars, Bundle!service, Bundle!history, ROA!vars, ROA!service, ROA!history,
        ASPA!vars, ASPA!service
  <2>4. UNCHANGED Report!vars /\ UNCHANGED Ticket!vars
    BY <2>1 DEF Report!vars, Ticket!vars
  <2>5. UNCHANGED IRR!vars /\ UNCHANGED Links!vars /\ UNCHANGED Shared!vars /\ UNCHANGED Whole!vars
    BY <2>1 DEF IRR!vars, Links!vars, Shared!vars, Whole!vars
  <2> QED  BY <2>1, <2>2, <2>3, <2>4, <2>5
<1> QED  BY <1>1, <1>2

\* A behaviour of the hosted resources keeps the invariant of the one it is of.
THEOREM HostedInductive == Spec => []HostedIInv
<1> USE PartsAssumption
<1>1. Init => HostedIInv
  <2>1. InitHosted => HostedIInv
    BY NetInit, OrgInit, BundleInit, ROAInit, ASPAInit, ReportInit, TicketInit DEF InitHosted, HostedIInv
  <2>2. InitRegistry => HostedIInv
    BY IRRInit, LinksInit, SharedInit, WholeInit DEF InitRegistry, HostedIInv
  <2> QED  BY <2>1, <2>2 DEF Init
<1>2. HostedIInv /\ [Next]_vars => HostedIInv'
  BY HostedMoves, NetStep, OrgStep, BundleStep, ROAStep, ASPAStep, ReportStep, TicketStep,
     IRRStep, LinksStep, SharedStep, WholeStep DEF HostedIInv
<1> QED  BY <1>1, <1>2, PTL DEF Spec

\* The variables of every hosted resource keep to their domains.
THEOREM HostedTypeCorrect == Spec => []TypeOK
<1>1. HostedIInv => TypeOK
  <2>1. /\ Net!IInv => Net!TypeOK
        /\ Org!IInv => Org!TypeOK
        /\ Bundle!IInv => Bundle!TypeOK
        /\ ROA!IInv => ROA!TypeOK
        /\ ASPA!IInv => ASPA!TypeOK
        /\ Report!IInv => Report!TypeOK
        /\ Ticket!IInv => Ticket!TypeOK
        /\ IRR!IInv => IRR!TypeOK
        /\ Links!IInv => Links!TypeOK
        /\ Shared!IInv => Shared!TypeOK
        /\ Whole!IInv => Whole!TypeOK
    BY DEF Net!IInv, Org!IInv, Bundle!IInv, ROA!IInv, ASPA!IInv, Report!IInv, Ticket!IInv,
           IRR!IInv, Links!IInv, Shared!IInv, Whole!IInv
  <2> SUFFICES ASSUME HostedIInv PROVE TypeOK
    OBVIOUS
  <2>2. CASE resource = "arin_net"
    BY <2>1, <2>2 DEF HostedIInv, TypeOK
  <2>3. CASE resource = "arin_org"
    BY <2>1, <2>3 DEF HostedIInv, TypeOK
  <2>4. CASE resource = "arin_rpki_bundle"
    BY <2>1, <2>4 DEF HostedIInv, TypeOK
  <2>5. CASE resource = "arin_roa"
    BY <2>1, <2>5 DEF HostedIInv, TypeOK
  <2>6. CASE resource = "arin_aspa"
    BY <2>1, <2>6 DEF HostedIInv, TypeOK
  <2>7. CASE resource = "arin_report_request"
    BY <2>1, <2>7 DEF HostedIInv, TypeOK
  <2>8. CASE resource = "arin_ticket_status"
    BY <2>1, <2>8 DEF HostedIInv, TypeOK
  <2>9. CASE resource = "irr_object"
    BY <2>1, <2>9 DEF HostedIInv, TypeOK
  <2>10. CASE resource = "linked_route"
    BY <2>1, <2>10 DEF HostedIInv, TypeOK
  <2>11. CASE resource = "shared_record"
    BY <2>1, <2>11 DEF HostedIInv, TypeOK
  <2>12. CASE resource = "whole_record"
    BY <2>1, <2>12 DEF HostedIInv, TypeOK
  <2> QED  BY <2>2, <2>3, <2>4, <2>5, <2>6, <2>7, <2>8, <2>9, <2>10, <2>11, <2>12 DEF HostedIInv
<1> QED  BY <1>1, HostedInductive, PTL

\* "Block repeat submission", "never replayed": no hosted resource submits a
\* write a second time while the first can still take effect, unless its
\* outcome was lost: by a crash, when the read that verifies an organization's
\* deletion was refused, with the ticket beside a network, or by a 404 on a
\* ROA's inventory.
THEOREM HostedSubmitOnce == Spec => []SubmittedOnce
<1> USE PartsAssumption
<1>1. HostedIInv => SubmittedOnce
  BY NetPromises, OrgPromises, BundlePromises, ROAPromises, ReportPromises DEF HostedIInv, SubmittedOnce
<1> QED  BY <1>1, HostedInductive, PTL

\* "Pending or uncertain writes retain recovery state": nothing a hosted
\* resource has made, or may still make, is forgotten by its Terraform state,
\* unless an outcome was lost in one of the ways HostedSubmitOnce excepts.
THEOREM HostedForgetNothing == Spec => []NothingForgotten
<1> USE PartsAssumption
<1>1. ASPA!IInv => ASPA!NoForgottenCreation
  BY ASPATypes DEF ASPA!NoForgottenCreation, ASPA!CreationInv, ASPA!Adding
<1>2. HostedIInv => NothingForgotten
  BY <1>1, NetPromises, OrgPromises, BundlePromises, ROAPromises, ReportPromises
  DEF HostedIInv, NothingForgotten, Ticket!IInv
<1> QED  BY <1>2, HostedInductive, PTL

\* No step that carries out a hosted resource's write takes what is not its
\* own, however late it comes.
THEOREM HostedTakeOnlyTheirOwn == Spec => TakesOnlyItsOwn
<1> USE PartsAssumption
<1>1. HostedIInv /\ HostedIInv' /\ [Next]_vars =>
        /\ resource = "arin_net" => Net!NoLateRemoval
        /\ resource = "arin_rpki_bundle" => Bundle!NeverTakesForeign /\ Bundle!OwnsItsOwn'
        /\ resource = "arin_roa" => ROA!NeverTakesForeign
        /\ resource = "arin_aspa" => ASPA!NeverTakesForeign /\ ASPA!NeverWithout
        /\ resource = "arin_ticket_status" => Ticket!NeverWithdraws'
  <2> SUFFICES ASSUME HostedIInv, HostedIInv', [Next]_vars
               PROVE  /\ resource = "arin_net" => Net!NoLateRemoval
                      /\ resource = "arin_rpki_bundle" => Bundle!NeverTakesForeign /\ Bundle!OwnsItsOwn'
                      /\ resource = "arin_roa" => ROA!NeverTakesForeign
                      /\ resource = "arin_aspa" => ASPA!NeverTakesForeign /\ ASPA!NeverWithout
                      /\ resource = "arin_ticket_status" => Ticket!NeverWithdraws'
    OBVIOUS
  <2>1. resource' = resource
    BY HostedMoves
  <2>2. resource = "arin_net" => Net!NoLateRemoval
    BY HostedMoves, NetRemoves DEF HostedIInv
  <2>3. resource = "arin_rpki_bundle" => Bundle!NeverTakesForeign
    BY HostedMoves, BundleTakes DEF HostedIInv
  <2>4. resource = "arin_rpki_bundle" => Bundle!OwnsItsOwn'
    <3>1. Bundle!IInv' => Bundle!OwnsItsOwn'
      BY DEF Bundle!IInv, Bundle!OwnInv, Bundle!Own, Bundle!OwnsItsOwn
    <3> QED  BY <2>1, <3>1 DEF HostedIInv
  <2>5. resource = "arin_roa" => ROA!NeverTakesForeign
    BY HostedMoves, ROATakes DEF HostedIInv
  <2>6. resource = "arin_aspa" => ASPA!NeverTakesForeign /\ ASPA!NeverWithout
    BY HostedMoves, ASPAPromises DEF HostedIInv
  <2>7. resource = "arin_ticket_status" => Ticket!NeverWithdraws'
    BY <2>1 DEF HostedIInv, Ticket!IInv
  <2> QED  BY <2>2, <2>3, <2>4, <2>5, <2>6, <2>7
<1> QED  BY <1>1, HostedInductive, PTL DEF Spec, TakesOnlyItsOwn

\* A call on a record of the registry changes state only to what ARIN held
\* while it ran, or to a pending receipt, and what a lost answer or a late
\* write may have made or may yet make stays in state or with a running call.
THEOREM RegistryStateIsReal == Spec => StateIsReal
<1> USE PartsAssumption
<1>1. HostedIInv /\ HostedIInv' /\ [Next]_vars =>
        /\ resource = "irr_object" => IRR!StateIsReal /\ IRR!UncertainIsKept'
        /\ resource = "shared_record" => Shared!OwnershipSeesAbsence /\ Shared!LostAnswerIsTracked'
        /\ resource = "whole_record" => Whole!StateIsReal
  <2> SUFFICES ASSUME HostedIInv, HostedIInv', [Next]_vars
               PROVE  /\ resource = "irr_object" => IRR!StateIsReal /\ IRR!UncertainIsKept'
                      /\ resource = "shared_record" => Shared!OwnershipSeesAbsence /\ Shared!LostAnswerIsTracked'
                      /\ resource = "whole_record" => Whole!StateIsReal
    OBVIOUS
  <2>1. resource' = resource
    BY HostedMoves
  <2>2. resource = "irr_object" => IRR!StateIsReal
    BY HostedMoves, IRRReal DEF HostedIInv
  <2>3. resource = "irr_object" => IRR!UncertainIsKept'
    BY <2>1 DEF HostedIInv, IRR!IInv
  <2>4. resource = "shared_record" => Shared!OwnershipSeesAbsence
    BY HostedMoves, SharedOwnership DEF HostedIInv
  <2>5. resource = "shared_record" => Shared!LostAnswerIsTracked'
    <3>1. Shared!IInv' => Shared!LostAnswerIsTracked'
      BY DEF Shared!IInv, Shared!MadeInv, Shared!LostAnswerIsTracked, Shared!Trying
    <3> QED  BY <2>1, <3>1 DEF HostedIInv
  <2>6. resource = "whole_record" => Whole!StateIsReal
    BY HostedMoves, WholeReal DEF HostedIInv
  <2> QED  BY <2>2, <2>3, <2>4, <2>5, <2>6
<1> QED  BY <1>1, HostedInductive, PTL DEF Spec, StateIsReal

\* A write to a record of the registry changes what it is meant for: a linked
\* route only under the link it expects, one element of a shared record and
\* not its siblings, and of a whole record nothing unmanaged that ARIN did not
\* hold during the call.
THEOREM RegistryWritesAreScoped == Spec => WritesAreScoped
<1> USE PartsAssumption
<1>1. HostedIInv => (resource = "whole_record" => Whole!WritesBuildOnReads)
  BY WholeReads DEF HostedIInv
<1>2. HostedIInv /\ (resource = "whole_record" => Whole!WritesBuildOnReads)' /\ [Next]_vars =>
        /\ resource = "linked_route" => Links!LinkedWritesAreScoped
        /\ resource = "shared_record" => Shared!SiblingsAreSpared
        /\ resource = "whole_record" => Whole!WritesBuildOnReads'
  <2> SUFFICES ASSUME HostedIInv, (resource = "whole_record" => Whole!WritesBuildOnReads)', [Next]_vars
               PROVE  /\ resource = "linked_route" => Links!LinkedWritesAreScoped
                      /\ resource = "shared_record" => Shared!SiblingsAreSpared
                      /\ resource = "whole_record" => Whole!WritesBuildOnReads'
    OBVIOUS
  <2>1. resource' = resource
    BY HostedMoves
  <2>2. resource = "linked_route" => Links!LinkedWritesAreScoped
    BY HostedMoves, LinksScoped DEF HostedIInv
  <2>3. resource = "shared_record" => Shared!SiblingsAreSpared
    BY HostedMoves, SharedSiblings DEF HostedIInv
  <2>4. resource = "whole_record" => Whole!WritesBuildOnReads'
    BY <2>1
  <2> QED  BY <2>2, <2>3, <2>4
<1> QED  BY <1>1, <1>2, HostedInductive, PTL DEF Spec, WritesAreScoped
=============================================================================
