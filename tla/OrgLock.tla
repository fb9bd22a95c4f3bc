------------------------------- MODULE OrgLock -------------------------------
(***************************************************************************)
(* The lock that serializes mutations of one organization across the calls *)
(* of a provider process, and the POC associations it protects.            *)
(*                                                                         *)
(* The map of locks is guarded by a mutex, so every access to it is one    *)
(* step.  A lock is a channel of capacity one: a call that finds it full   *)
(* queues, and a receive hands the token to the longest waiting call.  The *)
(* server's association endpoints are not atomic: they read the links of   *)
(* an organization and write them back later.                              *)
(***************************************************************************)
EXTENDS Integers, Sequences

CONSTANTS
  Calls,        \* concurrent calls of one provider process
  Orgs,         \* keys: API origin and organization handle
  Locks,        \* organizationLock objects that can be allocated
  Assocs,       \* associations: a POC handle and its function
  OrgMutations, \* the mutations that are called for
  Nil

ASSUME NilAssumption == Nil \notin Calls \cup Locks \cup Orgs

ASSUME OrgMutationsAssumption == OrgMutations \subseteq [kind : {"add", "remove"}, assoc : Assocs]

VARIABLES
  entries,      \* organizationLocks.entries
  users,        \* of each lock, the calls counted in its users field
  token,        \* of each lock, the call whose token is in the channel
  queue,        \* of each lock, the calls blocked on the channel
  place, lock,  \* of each call, its place and its local entry
  org, mutation, \* of each call, the organization and what it does to it
  links,        \* the server's associations
  requests,     \* mutations the server has not finished
  confirmed,    \* history: associations whose addition was confirmed
  abandoned     \* history: organizations with a request nobody waits for

lockMap == <<entries, users, token, queue>>
lockLocals == <<place, lock, org, mutation>>
server == <<links, requests>>
lockHistory == <<confirmed, abandoned>>
lockVars == <<lockMap, lockLocals, server, lockHistory>>

LockInit ==
  /\ entries = [o \in Orgs |-> Nil]
  /\ users = [l \in Locks |-> {}]
  /\ token = [l \in Locks |-> Nil]
  /\ queue = [l \in Locks |-> <<>>]
  /\ place = [c \in Calls |-> "idle"]
  /\ lock = [c \in Calls |-> Nil]
  /\ org = [c \in Calls |-> Nil] /\ mutation = [c \in Calls |-> Nil]
  /\ links = [o \in Orgs |-> {}] /\ requests = {}
  /\ confirmed = [o \in Orgs |-> {}] /\ abandoned = {}

Moves(c, here, there) == place[c] = here /\ place' = [place EXCEPT ![c] = there]
-----------------------------------------------------------------------------
(* lockOrganization *)

\* The entry of the key, or a new lock in an entry of its own.
Find(o, l) ==
  IF entries[o] # Nil
  THEN l = entries[o] /\ UNCHANGED <<entries, token, queue>>
  ELSE /\ users[l] = {}
       /\ entries' = [entries EXCEPT ![o] = l]
       /\ token' = [token EXCEPT ![l] = Nil]
       /\ queue' = [queue EXCEPT ![l] = <<>>]

CountIn_WhenNew(c, l) == IF users[l] = {} THEN {c} ELSE users[l]
CountIn(c, l) == users[l] \cup {c}

\* A call begins: under the mutex, it finds its lock and counts itself in.
LockOrganization(c, o, x, l) ==
  /\ Moves(c, "idle", "select")
  /\ Find(o, l)
  /\ users' = [users EXCEPT ![l] = CountIn(c, l)]
  /\ lock' = [lock EXCEPT ![c] = l]
  /\ org' = [org EXCEPT ![c] = o] /\ mutation' = [mutation EXCEPT ![c] = x]
  /\ UNCHANGED <<server, lockHistory>>

Without(q, c) ==
  IF \E i \in DOMAIN q : q[i] = c
  THEN LET i == CHOOSE j \in DOMAIN q : q[j] = c IN
       SubSeq(q, 1, i - 1) \o SubSeq(q, i + 1, Len(q))
  ELSE q

Select(c) ==
  /\ place[c] = "select"
  /\ IF token[lock[c]] = Nil
     THEN /\ place' = [place EXCEPT ![c] = "held"]
          /\ token' = [token EXCEPT ![lock[c]] = c]
          /\ UNCHANGED queue
     ELSE /\ place' = [place EXCEPT ![c] = "queued"]
          /\ queue' = [queue EXCEPT ![lock[c]] = Append(@, c)]
          /\ UNCHANGED token
  /\ UNCHANGED <<entries, users, lock, org, mutation, server, lockHistory>>

Wake(c) ==
  /\ Moves(c, "queued", "held")
  /\ token[lock[c]] = c
  /\ UNCHANGED <<lockMap, lock, org, mutation, server, lockHistory>>

Cancel_NoRelease(c) ==
  /\ place[c] \in {"select", "queued"} /\ token[lock[c]] # c
  /\ place' = [place EXCEPT ![c] = "idle"]
  /\ queue' = [queue EXCEPT ![lock[c]] = Without(@, c)]
  /\ UNCHANGED <<entries, users, token, lock, org, mutation, server, lockHistory>>

\* ctx.Done was chosen: possible until the token is the call's.
Cancel(c) ==
  /\ place[c] \in {"select", "queued"} /\ token[lock[c]] # c
  /\ place' = [place EXCEPT ![c] = "release"]
  /\ queue' = [queue EXCEPT ![lock[c]] = Without(@, c)]
  /\ UNCHANGED <<entries, users, token, lock, org, mutation, server, lockHistory>>

UnlockOrganization_NoReceive(c) ==
  Moves(c, "unlock", "release") /\ UNCHANGED <<lockMap, lock, org, mutation, server, lockHistory>>

\* The first half of the returned unlock function: receive from the channel.
UnlockOrganization(c) ==
  /\ Moves(c, "unlock", "release")
  /\ LET q == queue[lock[c]] IN
     IF q = <<>>
     THEN token' = [token EXCEPT ![lock[c]] = Nil] /\ UNCHANGED queue
     ELSE /\ token' = [token EXCEPT ![lock[c]] = Head(q)]
          /\ queue' = [queue EXCEPT ![lock[c]] = Tail(q)]
  /\ UNCHANGED <<entries, users, lock, org, mutation, server, lockHistory>>

Unused_Always(l, rest) == TRUE
Unused_Never(l, rest) == FALSE
Unused(l, rest) == rest = {}

\* Under the mutex: count out and drop the entry with its last user.
Release(c) ==
  /\ Moves(c, "release", "idle")
  /\ LET l == lock[c]  rest == users[l] \ {c} IN
     /\ users' = [users EXCEPT ![l] = rest]
     /\ entries' = IF Unused(l, rest) THEN [entries EXCEPT ![org[c]] = Nil] ELSE entries
  /\ lock' = [lock EXCEPT ![c] = Nil]
  /\ org' = [org EXCEPT ![c] = Nil] /\ mutation' = [mutation EXCEPT ![c] = Nil]
  /\ UNCHANGED <<token, queue, server, lockHistory>>
-----------------------------------------------------------------------------
(* mutateOrgPOCs, inside the lock *)

Send(c) ==
  /\ Moves(c, "held", "sent")
  /\ requests' = requests \cup {[call |-> c, org |-> org[c], op |-> mutation[c],
                                read |-> FALSE, base |-> {}]}
  /\ confirmed' = IF mutation[c].kind = "remove"
                  THEN [confirmed EXCEPT ![org[c]] = @ \ {mutation[c].assoc}]
                  ELSE confirmed
  /\ UNCHANGED <<lockMap, lock, org, mutation, links, abandoned>>

\* GetOrganizationPOCs: the addition is confirmed if the link is there.
Verify(c) ==
  /\ Moves(c, "answered", "unlock")
  /\ confirmed' = IF mutation[c].kind = "add" /\ mutation[c].assoc \in links[org[c]]
                  THEN [confirmed EXCEPT ![org[c]] = @ \cup {mutation[c].assoc}]
                  ELSE confirmed
  /\ UNCHANGED <<lockMap, lock, org, mutation, server, abandoned>>

\* A request that fails, is cancelled or times out; its handling may go on.
Abandoned(c) == {[r EXCEPT !.call = Nil] : r \in {s \in requests : s.call = c}}
Fail(c) ==
  /\ place[c] \in {"sent", "answered"}
  /\ place' = [place EXCEPT ![c] = "unlock"]
  /\ requests' = {r \in requests : r.call # c} \cup Abandoned(c)
  /\ abandoned' = IF Abandoned(c) = {} THEN abandoned ELSE abandoned \cup {org[c]}
  /\ UNCHANGED <<lockMap, lock, org, mutation, links, confirmed>>
-----------------------------------------------------------------------------
(* The server *)

ServerRead(r) ==
  /\ ~r.read
  /\ requests' = (requests \ {r}) \cup {[r EXCEPT !.read = TRUE, !.base = links[r.org]]}
  /\ UNCHANGED <<lockMap, lockLocals, links, lockHistory>>

Result(r) ==
  IF r.op.kind = "add" THEN r.base \cup {r.op.assoc} ELSE r.base \ {r.op.assoc}

ServerWrite(r) ==
  /\ r.read
  /\ links' = [links EXCEPT ![r.org] = Result(r)]
  /\ requests' = requests \ {r}
  /\ place' = IF r.call = Nil THEN place ELSE [place EXCEPT ![r.call] = "answered"]
  /\ UNCHANGED <<lockMap, lock, org, mutation, lockHistory>>

CallMoves(c) ==
  \/ Select(c) \/ Wake(c) \/ UnlockOrganization(c) \/ Release(c)
  \/ Send(c) \/ Verify(c) \/ Fail(c)

LockNext ==
  \/ \E c \in Calls, o \in Orgs, x \in OrgMutations, l \in Locks : LockOrganization(c, o, x, l)
  \/ \E c \in Calls : CallMoves(c) \/ Cancel(c)
  \/ \E r \in requests : ServerRead(r) \/ ServerWrite(r)

LockSpec == LockInit /\ [][LockNext]_lockVars

-----------------------------------------------------------------------------
(* Properties *)

Waiting == {"select", "queued"}
Inside == {"held", "sent", "answered", "unlock"}
HasLock == Waiting \cup Inside \cup {"release"}

Request == [call : Calls \cup {Nil}, org : Orgs, op : OrgMutations,
            read : BOOLEAN, base : SUBSET Assocs]

\* Locks, calls and requests have the shape the code gives them; a call has a
\* lock exactly while it is counted.
LockTypeOK ==
  /\ entries \in [Orgs -> Locks \cup {Nil}]
  /\ users \in [Locks -> SUBSET Calls]
  /\ token \in [Locks -> Calls \cup {Nil}]
  /\ queue \in [Locks -> Seq(Calls)]
  /\ place \in [Calls -> {"idle"} \cup HasLock]
  /\ lock \in [Calls -> Locks \cup {Nil}]
  /\ \A c \in Calls : place[c] \in HasLock <=> lock[c] # Nil
  /\ org \in [Calls -> Orgs \cup {Nil}] /\ mutation \in [Calls -> OrgMutations \cup {Nil}]
  /\ \A c \in Calls : lock[c] # Nil => org[c] \in Orgs /\ mutation[c] \in OrgMutations
  /\ links \in [Orgs -> SUBSET Assocs] /\ requests \subseteq Request
  /\ confirmed \in [Orgs -> SUBSET Assocs] /\ abandoned \subseteq Orgs

\* Two calls are never inside the lock of one organization, although its lock
\* object is dropped and allocated anew while other calls come and go.
OneInside ==
  \A c, d \in Calls : place[c] \in Inside /\ place[d] \in Inside /\ org[c] = org[d] => c = d

\* The map holds a lock only for an organization some call is using.
NoEntryLeaked ==
  \A o \in Orgs : entries[o] # Nil => \E c \in Calls : place[c] \in HasLock /\ org[c] = o

\* The lock excludes as long as someone uses it, and is dropped afterwards.
LockIsSound == OneInside /\ NoEntryLeaked

\* No association whose addition was confirmed is lost to another mutation of
\* this process, unless a request on that organization was abandoned: the
\* server may still be handling it when the lock is free again.
NoLostAssociation ==
  \A o \in Orgs \ abandoned : confirmed[o] \subseteq links[o]

-----------------------------------------------------------------------------
(* The inductive invariant: the map, the locals and the counts agree, the   *)
(* call inside has the token, a call has at most one request, and a request *)
(* of an organization without abandoned ones is based on its current links. *)

\* Every user of a lock is counted, and its entry is there while one is.
MapInv ==
  /\ \A c \in Calls : lock[c] # Nil => entries[org[c]] = lock[c]
  /\ \A l \in Locks : users[l] = {c \in Calls : lock[c] = l}
  /\ \A o \in Orgs : entries[o] # Nil =>
       \E c \in Calls : lock[c] = entries[o] /\ org[c] = o
  /\ \A c, d \in Calls : lock[c] # Nil /\ lock[c] = lock[d] => org[c] = org[d]
  /\ \A c \in Calls : place[c] \in Inside => token[lock[c]] = c

\* What the server still handles comes from the call inside, or was abandoned.
RequestInv ==
  /\ \A r \in requests :
       IF r.call = Nil THEN r.org \in abandoned
       ELSE place[r.call] = "sent" /\ r.org = org[r.call] /\ r.op = mutation[r.call]
  /\ \A r, s \in requests : r.call # Nil /\ r.call = s.call => r = s
  /\ \A r \in requests : r.org \notin abandoned /\ r.read => r.base = links[r.org]
  /\ \A c \in Calls : place[c] = "sent" /\ mutation[c].kind = "remove" =>
       mutation[c].assoc \notin confirmed[org[c]]

\* The three together, with what they protect.
LockIInv == LockTypeOK /\ MapInv /\ RequestInv /\ NoLostAssociation
=============================================================================
