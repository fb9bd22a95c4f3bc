------------------------- MODULE MCHostedResources -------------------------
(* Small instances of HostedResources for TLC: the resources whose writes  *)
(* are tickets and transactions, and the records of the registry.          *)
EXTENDS HostedResources, TLC

CONSTANTS
  n1, n2,                                   \* names, fields, configurations of one ticket
  o1, o2, o3, l1, l2, c1, p1, p2            \* contents, labels, a customer, providers

\* o1 and o2 authorize the same origin and prefix.  The configurations change
\* the ASPA alone, the ROAs alone, or both.
KeyOfContents == [o \in Contents |-> IF o = o3 THEN 2 ELSE 1]
OneKey == [o \in Authorizations |-> 1]
Config(first, second, providers) ==
  [roas |-> (l1 :> first @@ l2 :> second), aspas |-> (c1 :> providers)]
ThreeConfigs == {Config(o1, o3, p1), Config(o1, o3, p2), Config(o2, None, p2)}
TypeOfReport == [r \in Reports |-> r]

\* No definition chooses among several handles, names, fields, numbers or
\* clients.  The resources share the values, so that the group stays small.
Symmetry == Permutations(Handles) \cup Permutations(ROAHandles) \cup Permutations(Names)

\* Nor between two ROAs, which share their values with the texts of an
\* object, the elements of a record, and two values of a whole record.
RegistrySymmetry == Permutations(LinkROAs)

\* Bound: once the outcome of a write is lost, two requests in all for a network,
\* an organization or a ROA; of what one leaves behind, only foreign objects matter.
HostedBound == resource \in {"arin_net", "arin_org", "arin_roa"} /\ lost => sent <= 2

\* Bound: three requests to a shared record, or two and a change by others; one
\* to a link if it is abandoned, as nothing is promised of it afterwards.
RegistryBound ==
  /\ resource = "shared_record" => sent + edits <= 3
  /\ resource = "linked_route" /\ unanswered # {} => sent <= 1
=============================================================================
