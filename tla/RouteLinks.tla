----------------------------- MODULE RouteLinks -----------------------------
(***************************************************************************)
(* One IRR route whose link to a ROA changes, under three resources of one *)
(* provider process: arin_irr_route_metadata, arin_irr_linked_route and    *)
(* the ROA or bundle that owns the link.  Writes to a linked route share   *)
(* the organization lock with RPKI transactions; here the lock is atomic,  *)
(* as OrgLock shows it to be.                                              *)
(***************************************************************************)
EXTENDS Integers, FiniteSets

CONSTANTS
  ROAs,         \* ROA handles
  Texts,        \* description, user remarks and memberships of a route
  Default,      \* the text of a route that a transaction creates
  None,
  MaxRequests   \* bound: mutations sent

Resources == {"metadata", "linked"}
Actors == Resources \cup {"roa"}
Route == [link : ROAs \cup {None}, text : Texts]
Request == [n : 1 .. MaxRequests, by : Actors, op : {"put", "delete", "link", "unlink", "remove"},
            text : Texts \cup {None}, link : ROAs \cup {None}]
Answer == [ok : BOOLEAN, route : Route \cup {None}]
Call == [op : {"put", "delete", "link", "unlink", "remove"},
         at : {"before", "check", "lock", "send", "answer", "verify", "fresh"},
         text : Texts \cup {None}, link : ROAs \cup {None}, saved : Route \cup {None},
         n : 0 .. MaxRequests, answer : Answer \cup {None}]

Assumption ==
  /\ Default \in Texts /\ MaxRequests \in Nat
  /\ None \notin ROAs \cup Texts \cup Actors \cup Route \cup Answer \cup Call

VARIABLES
  route,        \* the route at ARIN, or None
  wire,         \* mutations on their way
  holder,       \* the actor that holds the organization lock, or None
  state,        \* the Terraform state of each resource, or None
  call,         \* the running call of each actor, or None
  sent,         \* mutations so far
  abandoned     \* history: mutations whose call ended without an answer

vars == <<route, wire, holder, state, call, sent, abandoned>>

Init ==
  /\ route \in Route \cup {None} /\ wire = {} /\ holder = None /\ sent = 0 /\ abandoned = {}
  /\ state = [a \in Resources |-> None] /\ call = [a \in Actors |-> None]

\* For a metadata or linked update, link is the expected ROA.
Start(a, op, at, text, link) ==
  /\ call[a] = None
  /\ call' = [call EXCEPT ![a] = [op |-> op, at |-> at, text |-> text, link |-> link,
                                  saved |-> None, n |-> 0, answer |-> None]]
  /\ UNCHANGED <<route, wire, holder, state, sent, abandoned>>

\* A metadata resource may be created on an existing route; a linked route
\* is only imported.
StartMetadata(t, r) == Start("metadata", "put", "before", t, r)
StartLinked(t, r) == state["linked"] # None /\ r # None /\ Start("linked", "put", "before", t, r)
StartDelete(r) == state["linked"] # None /\ r # None /\ Start("linked", "delete", "lock", None, r)
StartTransaction(op, r) ==
  (op = "link") = (r # None) /\ Start("roa", op, "lock", None, r)

\* Read and import, which are one request.
Readable(a) ==
  IF state[a] # None \/ route = None THEN state[a] # None ELSE a = "linked" => route.link # None
Read(a) ==
  /\ call[a] = None /\ Readable(a) /\ state' = [state EXCEPT ![a] = route]
  /\ UNCHANGED <<route, wire, holder, call, sent, abandoned>>
\* Destroying the metadata resource leaves the route alone.
Forget ==
  /\ call["metadata"] = None /\ state["metadata"] # None
  /\ state' = [state EXCEPT !["metadata"] = None]
  /\ UNCHANGED <<route, wire, holder, call, sent, abandoned>>
-----------------------------------------------------------------------------
(* The steps of a call *)

At(a, ops, at) == call[a] # None /\ call[a].op \in ops /\ call[a].at = at
Goto(a, at) == call' = [call EXCEPT ![a].at = at] /\ UNCHANGED <<state, holder>>
Unlocked_Always(a) == None
Unlocked(a) == IF holder = a THEN None ELSE holder
\* The end of a call releases its lock.
Finish(a, s) ==
  /\ call' = [call EXCEPT ![a] = None] /\ holder' = Unlocked(a)
  /\ state' = IF a \in Resources THEN [state EXCEPT ![a] = s] ELSE state
Old(a) == IF a \in Resources THEN state[a] ELSE None
\* A write that fails keeps the route as it was read before.
FailWrite(a) == Finish(a, IF call[a].op = "put" THEN call[a].saved ELSE Old(a))
Local == UNCHANGED <<route, wire, sent, abandoned>>

\* write: the route must exist with the expected link; nothing is sent when
\* it is as wanted.
AfterBefore(a) == IF call[a].link = None THEN "check" ELSE "lock"
Before(a) ==
  /\ At(a, {"put"}, "before")
  /\ IF route = None \/ route.link # call[a].link THEN Finish(a, state[a])
     ELSE IF route.text = call[a].text THEN Finish(a, route)
     ELSE /\ call' = [call EXCEPT ![a].at = AfterBefore(a), ![a].saved = route]
          /\ UNCHANGED <<state, holder>>
  /\ Local

\* UpdateIRRRoute, which takes no lock.
Check(a) ==
  /\ At(a, {"put"}, "check")
  /\ IF route # None /\ route.link = None THEN Goto(a, "send") ELSE FailWrite(a)
  /\ Local

\* UpdateLinkedIRRRoute and DeleteLinkedIRRRoute: lock, read and check;
\* ApplyRPKITransaction: lock.
Free_Always(a) == TRUE
Free(a) == holder = None
Lock(a) ==
  /\ call[a] # None /\ call[a].at = "lock" /\ Free(a)
  /\ CASE a = "roa" \/ (route # None /\ route.link = call[a].link) ->
            /\ holder' = a /\ call' = [call EXCEPT ![a].at = "send"] /\ UNCHANGED state
       [] a # "roa" /\ route = None /\ call[a].op = "delete" -> Finish(a, None)
       [] OTHER -> FailWrite(a)
  /\ Local

Send(a) ==
  /\ call[a] # None /\ call[a].at = "send" /\ sent < MaxRequests /\ sent' = sent + 1
  /\ wire' = wire \cup {[n |-> sent', by |-> a, op |-> call[a].op,
                         text |-> call[a].text, link |-> call[a].link]}
  /\ call' = [call EXCEPT ![a].at = "answer", ![a].n = sent']
  /\ UNCHANGED <<route, holder, state, abandoned>>

\* A read or a request fails, or its answer does not come: the call ends,
\* and a request that was sent goes on without it.
Error(a) ==
  /\ call[a] # None
  /\ \/ call[a].at = "before" /\ Finish(a, state[a])
     \/ call[a].at # "before" /\ FailWrite(a)
  /\ abandoned' = IF call[a].at = "answer" THEN abandoned \cup {call[a].n} ELSE abandoned
  /\ UNCHANGED <<route, wire, sent>>

\* An answer with another link is refused.  A transaction verifies its ROAs.
Answered(a) ==
  /\ call[a] # None /\ call[a].at = "answer" /\ call[a].answer # None
  /\ IF ~call[a].answer.ok THEN FailWrite(a)
     ELSE IF a = "roa" THEN Finish(a, None)
     ELSE IF call[a].op = "delete" THEN Goto(a, "verify")
     ELSE IF call[a].answer.route # None /\ call[a].answer.route.link = call[a].link
     THEN Goto(a, IF call[a].link = None THEN "fresh" ELSE "verify")
     ELSE FailWrite(a)
  /\ Local

AsWanted(a) == route # None /\ route.link = call[a].link /\ route.text = call[a].text
\* Still under the lock.
Verify(a) ==
  /\ call[a] # None /\ call[a].at = "verify"
  /\ CASE call[a].op = "delete" -> Finish(a, IF route = None THEN None ELSE state[a])
       [] OTHER -> IF AsWanted(a)
                   THEN /\ call' = [call EXCEPT ![a].at = "fresh"] /\ holder' = Unlocked(a)
                        /\ UNCHANGED state
                   ELSE FailWrite(a)
  /\ Local
Fresh(a) ==
  /\ At(a, {"put"}, "fresh") /\ Finish(a, IF AsWanted(a) THEN route ELSE call[a].saved) /\ Local
-----------------------------------------------------------------------------
(* ARIN *)

Told(w, answers) ==
  \/ /\ call[w.by] # None /\ call[w.by].at = "answer"
     /\ call[w.by].n = w.n /\ call[w.by].answer = None
     /\ \E x \in answers : call' = [call EXCEPT ![w.by].answer = x]
  \/ UNCHANGED call

Result(w) ==
  CASE w.op = "put" -> IF route = None THEN None ELSE [route EXCEPT !.text = w.text]
    [] w.op \in {"delete", "remove"} -> None
    [] w.op = "link" -> [link |-> w.link, text |-> IF route = None THEN Default ELSE route.text]
    [] w.op = "unlink" -> IF route = None THEN None ELSE [route EXCEPT !.link = None]
Execute(w) ==
  /\ route' = Result(w) /\ wire' = wire \ {w}
  /\ Told(w, {[ok |-> TRUE, route |-> route'], [ok |-> FALSE, route |-> None]})
  /\ UNCHANGED <<holder, state, sent, abandoned>>
Refuse(w) ==
  /\ wire' = wire \ {w} /\ Told(w, {[ok |-> FALSE, route |-> None]})
  /\ UNCHANGED <<route, holder, state, sent, abandoned>>

CallStep(a) ==
  \/ Before(a) \/ Check(a) \/ Lock(a) \/ Send(a) \/ Error(a) \/ Answered(a) \/ Verify(a) \/ Fresh(a)

Next ==
  \/ \E t \in Texts, r \in ROAs \cup {None} : StartMetadata(t, r) \/ StartLinked(t, r)
  \/ \E r \in ROAs \cup {None} :
       StartDelete(r) \/ \E op \in {"link", "unlink", "remove"} : StartTransaction(op, r)
  \/ \E a \in Resources : Read(a)
  \/ Forget
  \/ \E a \in Actors : CallStep(a)
  \/ \E w \in wire : Execute(w) \/ Refuse(w)

Spec == Init /\ [][Next]_vars
-----------------------------------------------------------------------------
(* Properties *)

\* Routes, states, calls and requests keep to their domains, and a call that
\* has sent a linked write or a transaction holds the lock.
TypeOK ==
  /\ route \in Route \cup {None} /\ wire \subseteq Request /\ holder \in Actors \cup {None}
  /\ state \in [Resources -> Route \cup {None}] /\ call \in [Actors -> Call \cup {None}]
  /\ sent \in 0 .. MaxRequests /\ abandoned \subseteq 1 .. MaxRequests
  /\ \A a \in Actors : call[a] # None /\ call[a].at = "answer" /\ (a = "roa" \/ call[a].link # None)
       => holder = a

\* w, whose call waits for it, changes the route in this step.
Writes(w) == w \in wire \ wire' /\ w.op \in {"put", "delete"} /\ route' # route

\* "Changing links must not let a stale planned update mutate another ROA's
\* route": unless a call ended without its answer, a linked update or
\* deletion only changes a route with the link it expects.
LinkedWritesAreScoped ==
  abandoned = {} => \A w \in wire : Writes(w) /\ w.link # None => route.link = w.link

\* The same for an update of a route that is expected to have no link.
UnlinkedWritesAreScoped ==
  abandoned = {} => \A w \in wire : Writes(w) /\ w.link = None => route.link = None
-----------------------------------------------------------------------------
(* The inductive invariant *)

\* A call c of an actor, and one that takes the lock before it sends.
Guarded(a, c) == a = "roa" \/ c.op = "delete" \/ c.link # None
CallOK(a, c) ==
  /\ c.n <= sent /\ (c.at = "answer" => c.n # 0)
  /\ (c.op \in {"put", "delete"}) = (a # "roa") /\ (c.op = "put" => c.text # None)
  /\ c.at \in {"before", "check", "fresh"} => c.op = "put"
  /\ (c.at = "check" => c.link = None) /\ (c.at = "verify" => a # "roa")
  /\ c.at \in {"before", "check", "lock", "send"} => c.answer = None
  /\ c.at \in {"send", "answer", "verify"} /\ Guarded(a, c) => holder = a
CallInv == \A a \in Actors : call[a] # None => CallOK(a, call[a])

RequestInv ==
  \A w \in wire : w.n <= sent /\ (w.op = "put" => w.text # None)

\* Unless a call was abandoned, every mutation on its way has its call waiting for it ...
Awaited(w) ==
  /\ call[w.by] # None /\ call[w.by].at = "answer" /\ call[w.by].answer = None
  /\ call[w.by].n = w.n /\ call[w.by].op = w.op /\ call[w.by].link = w.link
\* ... and the link that a guarded write expects stays as it was checked.
Sending(a) == call[a].at = "send" \/ \E w \in wire : w.by = a
LinkInv ==
  abandoned = {} =>
    /\ \A v, w \in wire : v.by = w.by => v = w
    /\ \A w \in wire : Awaited(w)
    /\ \A a \in Resources : call[a] # None /\ Guarded(a, call[a]) /\ Sending(a) =>
         route # None /\ route.link = call[a].link

IInv == TypeOK /\ CallInv /\ RequestInv /\ LinkInv
=============================================================================
