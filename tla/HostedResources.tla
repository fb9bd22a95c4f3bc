-------------------------- MODULE HostedResources --------------------------
(***************************************************************************)
(* The resources that ARIN hosts.  They share nothing but ARIN, each with  *)
(* a part of its own there, so a behaviour is one of one resource; what    *)
(* they promise is the same.                                               *)
(* Networks, organizations, RPKI bundles, ROAs and ASPAs, report requests  *)
(* and ticket closures are written by requests that ARIN tickets, reviews  *)
(* or answers uncertainly: a write is submitted once, nothing it does is   *)
(* forgotten, and what is not the resource's own stays untouched.          *)
(* The records of the registry are simply changed: objects of the routing  *)
(* registry, the links of its routes to ROAs, elements that several        *)
(* resources keep in one record, and records written whole.  State says    *)
(* what ARIN held, and a write changes what it is meant for.               *)
(***************************************************************************)
EXTENDS Naturals, Sequences, FiniteSets

CONSTANTS
  None,
  Managed,                                  \* the resources of this instance
  Handles, Foreign, Names,                  \* networks and organizations
  ROAHandles, Contents, KeyOf, Labels, Customers, ProviderSets, Configs,  \* RPKI bundles
  Authorizations, AuthorizationKey, Customer,                  \* a single ROA or ASPA
  Reports, Types, Type, Numbers, Clients,   \* reports and tickets
  Registrants, OwnOrg, Texts,               \* objects of the routing registry
  LinkROAs, RouteTexts, Default,            \* linked routes
  Elements, Values, EmptyValue,             \* shared and whole records
  MaxSubmits, MaxTransactions, MaxTickets, MaxPuts, MaxEdits, MaxCrashes,  \* bounds
  MaxWrites, MaxMutations, MaxRequests

VARIABLES
  resource,                                 \* the resource that is managed
  wire, state, call, sent,                  \* of all resources
  tickets, named, lost, edits, crashes,     \* of several
  registered, orgs, given,                  \* networks and organizations
  roas, aspas, by, imported, late, relabelled, took, dropped, destroys,
  refreshed, known, ticket, closed, withdrawn,
  kind, seen, record, holder,               \* of several records of the registry
  object,                                   \* a routing registry object
  route, unanswered,                        \* a linked route
  managed, absent, made                     \* a shared record

Net == INSTANCE NetResource
Org == INSTANCE OrgResource WITH Values <- Names
Bundle == INSTANCE RPKIBundleResource WITH Handles <- ROAHandles, Objects <- Contents,
            Key <- KeyOf, MaxSubmits <- MaxTransactions
ROA == INSTANCE ROAResource WITH Handles <- ROAHandles, Objects <- Authorizations,
         Key <- AuthorizationKey, Customers <- {}, ProviderSets <- {}
NoKey == [o \in {} |-> None]
ASPA == INSTANCE ASPAResource WITH Handles <- {}, Objects <- {}, Key <- NoKey,
          Customers <- {Customer}
Report == INSTANCE ReportRequest WITH Requests <- Reports
Ticket == INSTANCE TicketStatus
IRR == INSTANCE IRRObject WITH Orgs <- Registrants, Own <- OwnOrg
Links == INSTANCE RouteLinks WITH ROAs <- LinkROAs, Texts <- RouteTexts, abandoned <- unanswered,
           MaxRequests <- MaxMutations
Shared == INSTANCE SharedRecord
Whole == INSTANCE WholeRecord WITH Empty <- EmptyValue

ASSUME PartsAssumption ==
  /\ Net!Assumption /\ Org!Assumption /\ Bundle!Assumption /\ ROA!Assumption
  /\ ASPA!Assumption /\ Report!Assumption /\ Ticket!Assumption
  /\ IRR!Assumption /\ Links!Assumption /\ Shared!Assumption /\ Whole!Assumption

onlyNet == <<registered>>
onlyOrg == <<orgs, given>>
inventories == <<roas, aspas, by>>
adoptions == <<imported, late>>
onlyASPA == <<took, dropped, destroys>>
onlyReport == <<refreshed, known>>
onlyTicket == <<ticket, closed, withdrawn>>
onlyLink == <<route, unanswered>>
onlyShared == <<managed, absent, made>>
onlyRegistry == <<kind, seen, record, holder, object, onlyLink, onlyShared>>
onlyHosted == <<tickets, named, lost, crashes, onlyNet, onlyOrg, inventories, adoptions, relabelled,
                onlyASPA, onlyReport, onlyTicket>>
vars == <<resource, wire, state, call, sent, edits, onlyHosted, onlyRegistry>>

\* The variables that a resource does not have.
NoTickets == tickets = None /\ named = None
NoBounds == edits = None /\ crashes = None
NoNet == registered = None
NoOrg == orgs = None /\ given = None
NoInventories == roas = None /\ aspas = None /\ by = None
NoAdoptions == imported = None /\ late = None
NoASPA == took = None /\ dropped = None /\ destroys = None
NoReport == refreshed = None /\ known = None
NoTicket == ticket = None /\ closed = None /\ withdrawn = None
NoRPKI == NoInventories /\ NoAdoptions /\ relabelled = None /\ NoASPA
NoHosted ==
  NoTickets /\ lost = None /\ crashes = None /\ NoNet /\ NoOrg /\ NoRPKI /\ NoReport /\ NoTicket
NoObject == object = None
NoLink == route = None /\ unanswered = None
NoShared == managed = None /\ absent = None /\ made = None
NoRegistry ==
  kind = None /\ seen = None /\ record = None /\ holder = None /\ NoObject /\ NoLink /\ NoShared

InitHosted ==
  \/ /\ resource = "arin_net" /\ Net!Init
     /\ NoOrg /\ NoRPKI /\ NoReport /\ NoTicket
  \/ /\ resource = "arin_org" /\ Org!Init
     /\ NoNet /\ NoRPKI /\ NoReport /\ NoTicket
  \/ /\ resource = "arin_rpki_bundle" /\ Bundle!Init
     /\ NoTickets /\ NoNet /\ NoOrg /\ NoASPA /\ NoReport /\ NoTicket
  \/ /\ resource = "arin_roa" /\ ROA!Init
     /\ NoTickets /\ NoNet /\ NoOrg /\ relabelled = None /\ NoASPA /\ NoReport /\ NoTicket
  \/ /\ resource = "arin_aspa" /\ ASPA!Init
     /\ NoTickets /\ lost = None /\ NoNet /\ NoOrg /\ NoAdoptions /\ relabelled = None
     /\ NoReport /\ NoTicket
  \/ /\ resource = "arin_report_request" /\ Report!Init
     /\ named = None /\ lost = None /\ NoBounds /\ NoNet /\ NoOrg /\ NoRPKI /\ NoTicket
  \/ /\ resource = "arin_ticket_status" /\ Ticket!Init
     /\ NoTickets /\ lost = None /\ NoBounds /\ NoNet /\ NoOrg /\ NoRPKI /\ NoReport

InitRegistry ==
  \/ /\ resource = "irr_object" /\ IRR!Init
     /\ record = None /\ holder = None /\ NoLink /\ NoShared
  \/ /\ resource = "linked_route" /\ Links!Init
     /\ kind = None /\ seen = None /\ edits = None /\ record = None /\ NoObject /\ NoShared
  \/ /\ resource = "shared_record" /\ Shared!Init
     /\ state = None /\ seen = None /\ NoObject /\ NoLink
  \/ /\ resource = "whole_record" /\ Whole!Init
     /\ holder = None /\ NoObject /\ NoLink /\ NoShared

Init ==
  /\ resource \in Managed
  /\ \/ InitHosted /\ NoRegistry
     \/ InitRegistry /\ NoHosted

NextHosted ==
  /\ UNCHANGED onlyRegistry
  /\ \/ /\ resource = "arin_net" /\ Net!Next
        /\ UNCHANGED <<onlyOrg, inventories, adoptions, relabelled, onlyASPA, onlyReport, onlyTicket>>
     \/ /\ resource = "arin_org" /\ Org!Next
        /\ UNCHANGED <<onlyNet, inventories, adoptions, relabelled, onlyASPA, onlyReport, onlyTicket>>
     \/ /\ resource = "arin_rpki_bundle" /\ Bundle!Next
        /\ UNCHANGED <<tickets, named, onlyNet, onlyOrg, onlyASPA, onlyReport, onlyTicket>>
     \/ /\ resource = "arin_roa" /\ ROA!Next
        /\ UNCHANGED <<tickets, named, onlyNet, onlyOrg, relabelled, onlyASPA, onlyReport, onlyTicket>>
     \/ /\ resource = "arin_aspa" /\ ASPA!Next
        /\ UNCHANGED <<tickets, named, lost, onlyNet, onlyOrg, adoptions, relabelled, onlyReport, onlyTicket>>
     \/ /\ resource = "arin_report_request" /\ Report!Next
        /\ UNCHANGED <<named, lost, edits, crashes, onlyNet, onlyOrg, inventories, adoptions, relabelled,
                       onlyASPA, onlyTicket>>
     \/ /\ resource = "arin_ticket_status" /\ Ticket!Next
        /\ UNCHANGED <<tickets, named, lost, edits, crashes, onlyNet, onlyOrg, inventories, adoptions,
                       relabelled, onlyASPA, onlyReport>>

NextRegistry ==
  /\ UNCHANGED onlyHosted
  /\ \/ /\ resource = "irr_object" /\ IRR!Next
        /\ UNCHANGED <<record, holder, onlyLink, onlyShared>>
     \/ /\ resource = "linked_route" /\ Links!Next
        /\ UNCHANGED <<kind, seen, edits, record, object, onlyShared>>
     \/ /\ resource = "shared_record" /\ Shared!Next
        /\ UNCHANGED <<state, seen, object, onlyLink>>
     \/ /\ resource = "whole_record" /\ Whole!Next
        /\ UNCHANGED <<holder, object, onlyLink, onlyShared>>

Next == UNCHANGED resource /\ (NextHosted \/ NextRegistry)
Spec == Init /\ [][Next]_vars

-----------------------------------------------------------------------------
(* Properties *)

\* The variables of the managed resource keep to their domains.
TypeOK ==
  CASE resource = "arin_net" -> Net!TypeOK
    [] resource = "arin_org" -> Org!TypeOK
    [] resource = "arin_rpki_bundle" -> Bundle!TypeOK
    [] resource = "arin_roa" -> ROA!TypeOK
    [] resource = "arin_aspa" -> ASPA!TypeOK
    [] resource = "arin_report_request" -> Report!TypeOK
    [] resource = "arin_ticket_status" -> Ticket!TypeOK
    [] resource = "irr_object" -> IRR!TypeOK
    [] resource = "linked_route" -> Links!TypeOK
    [] resource = "shared_record" -> Shared!TypeOK
    [] resource = "whole_record" -> Whole!TypeOK

\* "Block repeat submission", "never replayed": a write whose answer is lost,
\* late, malformed or a ticket is never submitted a second time while it can
\* still take effect, by any later call; unless its outcome was lost by a
\* crash, or by a branch of the code that gives it up: an organization's
\* deletion whose verification is refused, a ticket that came beside a
\* network, a ROA in an inventory that is answered with 404.
SubmittedOnce ==
  /\ resource = "arin_net" => Net!NoRepeatedSubmission
  /\ resource = "arin_org" => Org!NoSecondOrganization /\ Org!BlocksRepeats
  /\ resource = "arin_rpki_bundle" => Bundle!SettledIsQuiet
  /\ resource = "arin_roa" => ROA!NoSecondRequest
  /\ resource = "arin_report_request" => Report!OneOutstanding

\* "Pending or uncertain writes retain recovery state": a state that looks
\* settled, or none, has nothing left at ARIN that Terraform does not know:
\* no object of its own, no write that may still take effect, no open ticket,
\* no ticket reported as closed that is not; unless an outcome was lost, in
\* the ways that SubmittedOnce excepts.
NothingForgotten ==
  /\ resource = "arin_net" => Net!NoOrphan /\ Net!SettledIsCreated /\ Net!TicketsKept
  /\ resource = "arin_org" => Org!SettledIsQuiet /\ Org!TicketsKept
  /\ resource = "arin_rpki_bundle" => Bundle!NoOrphan
  /\ resource = "arin_roa" => ROA!NoOrphan
  /\ resource = "arin_aspa" => ASPA!NoForgottenCreation
  /\ resource = "arin_report_request" => Report!SettledIsQuiet
  /\ resource = "arin_ticket_status" => Ticket!SuccessIsClosed

\* "A matching existing authorization requires import": no step of ARIN that
\* carries out a resource's write, however late, changes or removes what other
\* channels made or a later registration, withdraws an unresolved request, or
\* leaves a customer without its ASPA; and no bundle owns what is not its own.
TakesOnlyItsOwn ==
  [][/\ resource = "arin_net" => Net!NoLateRemoval
     /\ resource = "arin_rpki_bundle" => Bundle!NeverTakesForeign /\ Bundle!OwnsItsOwn'
     /\ resource = "arin_roa" => ROA!NeverTakesForeign
     /\ resource = "arin_aspa" => ASPA!NeverTakesForeign /\ ASPA!NeverWithout
     /\ resource = "arin_ticket_status" => Ticket!NeverWithdraws']_vars

\* State is what ARIN held: a call records an object, a record or an absence
\* only if ARIN really was in that state while the call ran, and what a lost
\* answer or a late write may have made or may yet make stays in state, or
\* with a running call, until it is found out.
StateIsReal ==
  [][/\ resource = "irr_object" => IRR!StateIsReal /\ IRR!UncertainIsKept'
     /\ resource = "shared_record" => Shared!OwnershipSeesAbsence /\ Shared!LostAnswerIsTracked'
     /\ resource = "whole_record" => Whole!StateIsReal]_vars

\* A write changes what it is meant for: a linked route only under the link it
\* expects, one element of a shared record and not its siblings, and of a
\* whole record nothing that ARIN did not hold during the call, unless it is
\* managed; whatever other resources and transactions do meanwhile.
WritesAreScoped ==
  [][/\ resource = "linked_route" => Links!LinkedWritesAreScoped
     /\ resource = "shared_record" => Shared!SiblingsAreSpared
     /\ resource = "whole_record" => Whole!WritesBuildOnReads']_vars
=============================================================================
