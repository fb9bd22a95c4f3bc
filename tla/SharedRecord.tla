---------------------------- MODULE SharedRecord ----------------------------
(***************************************************************************)
(* Resources that each manage one element of a record ARIN keeps whole:    *)
(* arin_poc_email and arin_poc_phone on a contact, arin_org_poc on an      *)
(* organization and arin_delegation_nameserver on a reverse zone.  They    *)
(* run in parallel on one record.  An element stands for the one resource  *)
(* that manages it, as the documentation requires.                         *)
(*                                                                         *)
(* ARIN carries out a change of an organization's associations by reading  *)
(* and writing the whole collection, so that two at once undo each other   *)
(* (docs/reference/org-pocs.md:42); the client's lock is there for that.   *)
(***************************************************************************)
EXTENDS Naturals, FiniteSets

CONSTANTS
  Elements,     \* e-mail addresses, phones, associations or nameservers
  None,
  MaxRequests,  \* bound: write requests sent
  MaxEdits      \* bound: changes made through other channels

Kinds == {"email", "phone", "org_poc", "nameserver"}
\* Only the phone endpoint's client looks before it adds.
LooksFirst(k) == k = "phone"
\* Only the changes of an organization's associations are serialized.
Locks(k) == k = "org_poc"
\* All clients but the nameservers' read the record again after a change.
Rereads(k) == k # "nameserver"

Ops == {"create", "update", "delete", "read", "import"}
Writes == {"create", "update", "delete"}
\* base: the collection the service took to change it, None before.
\* alone: nothing the process does not wait for landed since.
Request == [n : 1 .. MaxRequests, e : Elements, op : Writes,
            base : (SUBSET Elements) \cup {None}, alone : BOOLEAN]
Call == [op : Ops, at : {"check", "look", "lock", "send", "answer", "reread", "verify", "read"},
         n : 0 .. MaxRequests, answer : {"none", "done", "missing", "refused"}]

Assumption ==
  /\ {MaxRequests, MaxEdits} \subseteq Nat
  /\ None \notin Elements \cup Call

VARIABLES
  kind,         \* the kind of the record
  record,       \* the elements ARIN holds, or None when the record is gone
  wire,         \* requests the service has not carried out
  managed,      \* is the element in Terraform state?
  call,         \* the running call of each resource, or None
  holder,       \* the resource that holds the organization's lock, or None
  sent,         \* the number of requests sent
  absent,       \* history: elements that were absent during their running call
  made,         \* history: elements present through a write Terraform knew of
  edits         \* bound: changes through other channels so far

vars == <<kind, record, wire, managed, call, holder, sent, absent, made, edits>>

Init ==
  /\ kind \in Kinds /\ record \in SUBSET Elements /\ wire = {}
  /\ managed = [e \in Elements |-> FALSE] /\ call = [e \in Elements |-> None]
  /\ holder = None /\ sent = 0 /\ absent = {} /\ made = {} /\ edits = 0

Missing(e) == record = None \/ e \notin record
-----------------------------------------------------------------------------
(* Calls *)

Start(e, op, at) ==
  /\ call[e] = None
  /\ call' = [call EXCEPT ![e] = [op |-> op, at |-> at, n |-> 0, answer |-> "none"]]
  /\ UNCHANGED <<record, wire, managed, holder, sent, edits>>
Begin(e) ==
  \/ ~managed[e] /\ (Start(e, "create", "check") \/ Start(e, "import", "read"))
  \/ managed[e] /\ (Start(e, "delete", "check") \/ Start(e, "read", "read"))
  \* Only a nameserver can be changed in place; the endpoint adds it if need be.
  \/ managed[e] /\ kind = "nameserver" /\ Start(e, "update", "send")

At(e, ops, at) == call[e] # None /\ call[e].op \in ops /\ call[e].at = at
Goto(e, at) == call' = [call EXCEPT ![e].at = at] /\ UNCHANGED managed
Finish(e, m) ==
  /\ call' = [call EXCEPT ![e] = None]
  /\ managed' = [managed EXCEPT ![e] = m]
Released_Never(e) == holder
Released(e) == IF holder = e THEN None ELSE holder
Unlocked(e) == holder' = Released(e)
Local == UNCHANGED <<record, wire, sent, edits>>

\* From the first request on a failed creation keeps the identity in state.
Retained_OnlyConfirmed(e) == call[e].op # "create"
Retained(e) == TRUE
Toward(e) ==
  IF LooksFirst(kind) /\ call[e].op = "create" THEN "look" ELSE IF Locks(kind) THEN "lock" ELSE "send"

\* The resource reads the record: an element that is there must be imported,
\* one that is not needs no removal.
Taken_Never(e) == FALSE
Taken(e) == ~Missing(e)
CheckCreate(e) ==
  /\ At(e, {"create"}, "check")
  /\ IF record = None \/ Taken(e) THEN Finish(e, FALSE) ELSE Goto(e, Toward(e))
  /\ Local /\ UNCHANGED holder
CheckDelete(e) ==
  /\ At(e, {"delete"}, "check")
  /\ IF Missing(e) THEN Finish(e, FALSE) ELSE Goto(e, Toward(e))
  /\ Local /\ UNCHANGED holder
\* AddPOCPhone answers with a phone that appeared in between.
Look(e) ==
  /\ At(e, {"create"}, "look")
  /\ IF record # None /\ Missing(e) THEN Goto(e, "send") ELSE Finish(e, Retained(e))
  /\ Local /\ UNCHANGED holder
Free_Always == TRUE
Free == holder = None
Lock(e) ==
  /\ At(e, Writes, "lock") /\ Free
  /\ Goto(e, "send") /\ holder' = e /\ Local
\* A read that fails, and a cancelled wait for the lock.
ReadFailed_AsAbsent(e) == call[e].at = "look" /\ Retained(e)
ReadFailed(e) == managed[e] \/ (call[e].at = "look" /\ Retained(e))
ReadFails(e) ==
  /\ call[e] # None /\ call[e].at \in {"check", "look", "read", "verify"}
  /\ Finish(e, ReadFailed(e))
  /\ Local /\ UNCHANGED holder
LockFails(e) == At(e, Writes, "lock") /\ Finish(e, Retained(e)) /\ Local /\ UNCHANGED holder

Send(e) ==
  /\ At(e, Writes, "send") /\ sent < MaxRequests
  /\ sent' = sent + 1
  /\ wire' = wire \cup {[n |-> sent', e |-> e, op |-> call[e].op, base |-> None, alone |-> TRUE]}
  /\ call' = [call EXCEPT ![e].at = "answer", ![e].n = sent']
  /\ UNCHANGED <<record, managed, holder, edits>>
\* The request was not sent, or its answer is lost or unusable.
NoAnswer(e) ==
  /\ call[e] # None /\ call[e].at \in {"send", "answer"}
  /\ Finish(e, Retained(e)) /\ Unlocked(e) /\ Local

\* Without a success the client ends; a deletion goes on after a 404.
Answered(e) ==
  /\ At(e, Writes, "answer") /\ call[e].answer # "none" /\ Local
  /\ CASE call[e].answer = "done" /\ Rereads(kind) -> Goto(e, "reread") /\ UNCHANGED holder
       [] call[e].op = "delete" /\ (call[e].answer = "missing" \/ (call[e].answer = "done" /\ ~Rereads(kind))) ->
            Goto(e, "verify") /\ Unlocked(e)
       [] OTHER -> Finish(e, Retained(e)) /\ Unlocked(e)
\* The client compares what it reads, the lock still held.
Reread(e) ==
  /\ At(e, Writes, "reread") /\ Unlocked(e) /\ Local
  /\ IF call[e].op = "delete" /\ Missing(e) THEN Goto(e, "verify") ELSE Finish(e, Retained(e))
RereadFails(e) ==
  /\ At(e, Writes, "reread") /\ Finish(e, Retained(e)) /\ Unlocked(e) /\ Local
\* A deletion ends well only after one more read by the resource.
Verify(e) ==
  /\ At(e, {"delete"}, "verify") /\ Finish(e, ~Missing(e)) /\ Local /\ UNCHANGED holder
Read(e) ==
  /\ At(e, {"read", "import"}, "read") /\ Finish(e, ~Missing(e)) /\ Local /\ UNCHANGED holder
-----------------------------------------------------------------------------
(* ARIN *)

Waiting(q) == call[q.e] # None /\ call[q.e].at = "answer" /\ call[q.e].n = q.n
Told(q, answers) ==
  IF Waiting(q) /\ call[q.e].answer = "none"
  THEN \E a \in answers : call' = [call EXCEPT ![q.e].answer = a]
  ELSE UNCHANGED call

\* The service takes the associations, and writes all of them later.
Take(q) ==
  /\ kind = "org_poc" /\ record # None /\ q.base = None
  /\ wire' = (wire \ {q}) \cup {[q EXCEPT !.base = record]}
  /\ UNCHANGED <<record, managed, call, holder, sent, edits>>
Base(q) == IF kind = "org_poc" THEN q.base ELSE record
Disturbed(w) == {[q EXCEPT !.alone = FALSE] : q \in w}
CarryOut(q) ==
  /\ record # None /\ Base(q) # None
  /\ record' = IF q.op = "delete" THEN Base(q) \ {q.e} ELSE Base(q) \cup {q.e}
  /\ wire' = IF Waiting(q) THEN wire \ {q} ELSE Disturbed(wire \ {q})
  /\ Told(q, {"done"})
  /\ UNCHANGED <<managed, holder, sent, edits>>
Refuse(q) ==
  /\ wire' = wire \ {q}
  /\ Told(q, {"refused"} \cup (IF Missing(q.e) THEN {"missing"} ELSE {}))
  /\ UNCHANGED <<record, managed, holder, sent, edits>>

\* Other channels change an element, or delete the whole record.
Edit ==
  /\ edits < MaxEdits /\ edits' = edits + 1 /\ record # None
  /\ \/ record' = None
     \/ \E e \in Elements : record' \in {record \cup {e}, record \ {e}} \ {record}
  /\ wire' = Disturbed(wire)
  /\ UNCHANGED <<managed, call, holder, sent>>

CallStep(e) ==
  \/ CheckCreate(e) \/ CheckDelete(e) \/ Look(e) \/ Lock(e) \/ LockFails(e) \/ ReadFails(e)
  \/ Send(e) \/ NoAnswer(e) \/ Answered(e) \/ Reread(e) \/ RereadFails(e) \/ Verify(e) \/ Read(e)
Step ==
  \/ \E e \in Elements : Begin(e) \/ CallStep(e)
  \/ \E q \in wire : Take(q) \/ CarryOut(q) \/ Refuse(q)
  \/ Edit

\* The request of q landed in this step.
Landed(q) == record' # record /\ \A r \in wire' : r.n # q.n
KnownWrite(e) == \E q \in wire :
  q.e = e /\ q.op # "delete" /\ Landed(q) /\ (managed[e] \/ (call[e] # None /\ call[e].n = q.n))
History ==
  /\ kind' = kind
  /\ absent' = {e \in Elements :
       call'[e] # None /\ (Missing(e)' \/ (call[e] # None /\ e \in absent))}
  /\ made' = {e \in Elements : ~Missing(e)' /\ (e \in made \/ KnownWrite(e))}
Next == Step /\ History

Spec == Init /\ [][Next]_vars
-----------------------------------------------------------------------------
(* Properties *)

\* Records, requests and calls keep to their domains, and only a call that
\* changes an organization's associations holds the lock.
TypeOK ==
  /\ kind \in Kinds /\ record \in (SUBSET Elements) \cup {None} /\ wire \subseteq Request
  /\ managed \in [Elements -> BOOLEAN] /\ call \in [Elements -> Call \cup {None}]
  /\ sent \in 0 .. MaxRequests /\ {absent, made} \subseteq SUBSET Elements /\ edits \in 0 .. MaxEdits
  /\ holder # None => call[holder] # None /\ call[holder].at \in {"send", "answer", "reread"}

\* Ownership changes hands only at an absence: Terraform takes an element
\* over by creation, or gives one up after a refresh or a deletion, only if
\* ARIN lacked it at some moment of that call, whatever failed, arrived late
\* or was done by others meanwhile.
OwnershipSeesAbsence ==
  \A e \in Elements :
     managed'[e] # managed[e] /\ call[e].op # "import" => e \in absent \/ Missing(e)

\* "The identity is saved even if creation has an uncertain outcome": an
\* element that a call added, even after its answer was lost, is in state or
\* still in the hands of that call.
LostAnswerIsTracked == \A e \in made : managed[e] \/ call[e] # None

\* "The client serializes mutations": a change whose call still waits for it
\* leaves the other elements as they are, although ARIN writes all of an
\* organization's associations at once.  Only other channels, and requests
\* whose calls gave up waiting, can come between.
SiblingsAreSpared ==
  \A q \in wire : Landed(q) /\ Waiting(q) /\ q.alone /\ record' # None =>
     \A f \in Elements \ {q.e} : (f \in record') = (f \in record)
-----------------------------------------------------------------------------
(* The inductive invariant *)

\* A call c of a resource whose element is managed or not.
CallOK(c, m) ==
  /\ c.n <= sent /\ (c.at = "answer" => c.n # 0) /\ (c.at \in {"check", "read"} => c.n = 0)
  /\ m = (c.op \in {"update", "delete", "read"}) /\ (c.at = "read") = (c.op \in {"read", "import"})
  /\ c.op = "update" => kind = "nameserver"
  /\ c.at = "look" => c.op = "create" /\ LooksFirst(kind)
  /\ c.at = "verify" => c.op = "delete"
Trying(c) == c # None /\ c.op = "create" /\ c.at # "check"
Changing(c) == c # None /\ c.at \in {"send", "answer", "reread"}

CallInv ==
  \A e \in Elements :
    (call[e] # None => CallOK(call[e], managed[e])) /\ (Trying(call[e]) => e \in absent)

\* An element that no call has tried to add is made only while managed.
MadeInv == \A e \in made : managed[e] \/ Trying(call[e])

\* Changes of associations are made by the holder of the lock.
LockInv ==
  /\ holder # None => holder \in Elements
  /\ Locks(kind) => \A e \in Elements : Changing(call[e]) => holder = e

RequestInv ==
  /\ \A q, r \in wire : q.n = r.n => q = r
  /\ \A q \in wire : q.n <= sent /\ (q.base # None => kind = "org_poc")
  /\ \A q \in wire : Waiting(q) /\ q.alone /\ q.base # None => q.base = record

IInv == TypeOK /\ CallInv /\ MadeInv /\ LockInv /\ RequestInv
=============================================================================
