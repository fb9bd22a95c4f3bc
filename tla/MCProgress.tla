----------------------------- MODULE MCProgress -----------------------------
(***************************************************************************)
(* What must happen in the end, under the fairness each part justifies: of *)
(* an organization's lock, and of resources that recover by refreshing.  A *)
(* behaviour is one of one part; instances are small and without symmetry, *)
(* which liveness does not allow.                                          *)
(***************************************************************************)
EXTENDS OrgLock, FiniteSets, TLC

CONSTANTS None, x, y, z, foreign

VARIABLES
  part,
  state, call, wire, sent, lost, crashes, edits,                  \* the resources
  tickets, named, registered, orgs, given, roas, aspas, by, imported, late

\* The lock's calls only add: what they do to the links delays nobody.
Additions == [kind : {"add"}, assoc : Assocs]
Net == INSTANCE NetResource WITH Handles <- {x}, Foreign <- foreign, Names <- {y},
         MaxSubmits <- 2, MaxTickets <- 2, MaxEdits <- 0, MaxCrashes <- 0
Organization == INSTANCE OrgResource WITH Handles <- {x}, Values <- {y, z},
         MaxSubmits <- 3, MaxTickets <- 2, MaxEdits <- 0, MaxCrashes <- 0
ROA == INSTANCE ROAResource WITH Handles <- {x, y}, Objects <- {z, foreign},
         Key <- [o \in {z, foreign} |-> 1], Customers <- {}, ProviderSets <- {},
         MaxSubmits <- 2, MaxEdits <- 0, MaxCrashes <- 1

resources == <<state, call, wire, sent, lost, crashes, edits>>
ticketing == <<tickets, named>>
onlyOrg == <<orgs, given>>
onlyROA == <<roas, aspas, by, imported, late>>
vars == <<part, lockVars, resources, ticketing, registered, onlyOrg, onlyROA>>

\* The variables that a part does not have.
NoLock ==
  /\ entries = None /\ users = None /\ token = None /\ queue = None /\ place = None /\ lock = None
  /\ org = None /\ mutation = None /\ links = None /\ requests = None /\ confirmed = None
  /\ abandoned = None
NoResource ==
  /\ state = None /\ call = None /\ wire = None /\ sent = None /\ lost = None /\ crashes = None
  /\ edits = None
NoTickets == tickets = None /\ named = None
NoNet == registered = None
NoOrg == orgs = None /\ given = None
NoROA == roas = None /\ aspas = None /\ by = None /\ imported = None /\ late = None

Init ==
  \/ part = "lock" /\ LockInit /\ NoResource /\ NoTickets /\ NoNet /\ NoOrg /\ NoROA
  \/ part = "net" /\ Net!Init /\ NoLock /\ NoOrg /\ NoROA
  \/ part = "org" /\ Organization!Init /\ NoLock /\ NoNet /\ NoROA
  \/ part = "roa" /\ ROA!Init /\ NoLock /\ NoTickets /\ NoNet /\ NoOrg

\* A step of one part, and of no other.
LockStep == part = "lock" /\ UNCHANGED <<part, resources, ticketing, registered, onlyOrg, onlyROA>>
NetStep == part = "net" /\ UNCHANGED <<part, lockVars, onlyOrg, onlyROA>>
OrgStep == part = "org" /\ UNCHANGED <<part, lockVars, registered, onlyROA>>
ROAStep == part = "roa" /\ UNCHANGED <<part, lockVars, ticketing, registered, onlyOrg>>

Next ==
  \/ LockStep /\ LockNext
  \/ NetStep /\ Net!Next
  \/ OrgStep /\ Organization!Next
  \/ ROAStep /\ ROA!Next
-----------------------------------------------------------------------------
(* Fairness *)

\* The steps of the running call, but for lost answers and failures of ARIN.
Runs ==
  \/ NetStep /\ Net!CallStep
  \/ OrgStep /\ Organization!CallStep
  \/ ROAStep /\ (ROA!CallStep \/ ROA!CallFails)
TimesOut == (NetStep /\ Net!NoAnswer) \/ (OrgStep /\ Organization!NoAnswer)
Refresh ==
  \/ NetStep /\ Net!StartRead
  \/ OrgStep /\ Organization!StartRead
  \/ ROAStep /\ ROA!StartRead
\* The answers that recovery needs.
RecordRead ==
  \/ NetStep /\ Net!DeleteGet
  \/ OrgStep /\ Organization!ReadGet
  \/ ROAStep /\ ROA!ReadList
TicketRead ==
  \/ NetStep /\ Net!Step({"delete"}, "ticket") /\ Net!ResolveTicket
  \/ OrgStep /\ Organization!Step({"read"}, "ticket") /\ Organization!ReadTicket
Found == NetStep /\ Net!Step({"read"}, "find") /\ Net!ResolveFound
Absent == NetStep /\ Net!Step({"delete"}, "find") /\ Net!ResolveAbsent
Confirmed == NetStep /\ Net!Step({"delete"}, "confirm") /\ Net!ConfirmTicket
DeletionAnswered == NetStep /\ Net!DeletionStatus
Remove == NetStep /\ \E messages \in BOOLEAN : Net!StartDelete(messages)

\* A call that runs goes on, and the HTTP client's timeout ends every wait for
\* an answer; nothing is assumed of the server or of the caller's context.
LockFairness == \A c \in Calls : WF_vars(LockStep /\ CallMoves(c))

\* Repeated refreshes against a service that answers again and again, although
\* single answers may be lost; for a network also repeated applies of its
\* removal, tickets that are closed, and no other channel in the range.
RefreshFairness ==
  /\ WF_vars(Runs) /\ WF_vars(TimesOut) /\ \A t \in 1 .. 2 : WF_vars(NetStep /\ Net!CloseTicket(t))
  /\ SF_vars(Refresh) /\ SF_vars(Remove) /\ SF_vars(RecordRead) /\ SF_vars(TicketRead)
  /\ SF_vars(Found) /\ SF_vars(Absent) /\ SF_vars(Confirmed) /\ SF_vars(DeletionAnswered)

FairSpec == Init /\ [][Next]_vars /\ LockFairness /\ RefreshFairness
-----------------------------------------------------------------------------
(* Properties *)

\* Whoever waits for an organization's lock gets it or gives up, whatever ARIN
\* does: timeouts end every wait, and every path returns what it took.
NobodyStarves ==
  \A c \in Calls :
    (part = "lock" /\ place[c] \in Waiting) ~> (part = "lock" /\ place[c] \notin Waiting)

\* "For pending updates/deletes with known handles, refresh waits for terminal
\* ticket processing and verifies the record": a network's operation with a
\* known ticket is settled, dropped or cleared, and once an organization's
\* ticket is done, or a ROA's write took effect, refreshing ends the recovery.
\* An update stays pending for good only when a deletion that the provider
\* forgot (OrgResource's VerifyRefused) has removed its organization.
RecoveryCompletes ==
  /\ (part = "net" /\ Net!Unresolved) ~> (part = "net" /\ ~Net!Unresolved)
  /\ (part = "org" /\ Organization!Recoverable)
       ~> /\ part = "org"
          /\ \/ state = None \/ state.pending = ""
             \/ lost /\ ~Organization!Present(state.handle)
  /\ (part = "roa" /\ ROA!Recoverable) ~> (part = "roa" /\ ~ROA!Recoverable)
=============================================================================
