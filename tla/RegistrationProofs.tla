-------------------------- MODULE RegistrationProofs --------------------------
(***************************************************************************)
(* Proofs about the registration of organizations and networks: the lock   *)
(* under which an organization's mutations run, the organization resource  *)
(* and the network resource, and the elements of shared records and the    *)
(* links of routes that are changed under that lock, each for every value  *)
(* of its constants and for every length of its behaviours.                *)
(***************************************************************************)
EXTENDS HostedResources, OrgLock, TLAPS

-----------------------------------------------------------------------------
(* The lock of an organization *)

\* A queue without one of its calls is still a queue.
LEMMA LockWithout ==
  ASSUME NEW S, NEW q \in Seq(S), NEW c
  PROVE  Without(q, c) \in Seq(S)
<1>1. CASE \E i \in DOMAIN q : q[i] = c
  <2> DEFINE i == CHOOSE j \in DOMAIN q : q[j] = c
  <2>1. i \in 1 .. Len(q)
    BY <1>1
  <2> HIDE DEF i
  <2>2. SubSeq(q, 1, i - 1) \in Seq(S) /\ SubSeq(q, i + 1, Len(q)) \in Seq(S)
    BY <2>1
  <2>3. SubSeq(q, 1, i - 1) \o SubSeq(q, i + 1, Len(q)) \in Seq(S)
    BY <2>2
  <2> QED  BY <1>1, <2>3 DEF Without, i
<1>2. CASE ~ \E i \in DOMAIN q : q[i] = c
  BY <1>2 DEF Without
<1> QED  BY <1>1, <1>2

\* Requests keep their type through what the call and the server do to them.
LEMMA LockRequests ==
  ASSUME LockTypeOK
  PROVE  /\ \A c \in Calls : lock[c] # Nil =>
              [call |-> c, org |-> org[c], op |-> mutation[c], read |-> FALSE, base |-> {}] \in Request
         /\ \A c \in Calls : Abandoned(c) \subseteq Request
         /\ \A r \in requests : [r EXCEPT !.read = TRUE, !.base = links[r.org]] \in Request
         /\ \A r \in requests : Result(r) \in SUBSET Assocs
<1>1. \A r \in requests : r \in Request
  BY DEF LockTypeOK
<1>2. \A r \in Request : r.org \in Orgs /\ r.op \in OrgMutations /\ r.base \in SUBSET Assocs
  BY DEF Request
<1>3. \A x \in OrgMutations : x.assoc \in Assocs
  BY OrgMutationsAssumption
<1>4. \A r \in requests : Result(r) \in SUBSET Assocs
  BY <1>1, <1>2, <1>3 DEF Result
<1>5. \A r \in Request : [r EXCEPT !.call = Nil] \in Request
  BY DEF Request
<1>6. \A c \in Calls : Abandoned(c) \subseteq Request
  BY <1>1, <1>5 DEF Abandoned
<1>7. \A o \in Orgs : links[o] \in SUBSET Assocs
  BY DEF LockTypeOK
<1>8. \A r \in Request, b \in SUBSET Assocs : [r EXCEPT !.read = TRUE, !.base = b] \in Request
  BY DEF Request
<1>9. \A c \in Calls : lock[c] # Nil =>
        [call |-> c, org |-> org[c], op |-> mutation[c], read |-> FALSE, base |-> {}] \in Request
  BY DEF LockTypeOK, Request
<1> QED  BY <1>1, <1>2, <1>4, <1>6, <1>7, <1>8, <1>9

LEMMA LockTypeInit == LockInit => LockTypeOK
  BY DEF LockInit, LockTypeOK, HasLock, Waiting, Inside

LEMMA LockTypeStep ==
  ASSUME LockTypeOK, RequestInv, [LockNext]_lockVars
  PROVE  LockTypeOK'
<1> USE DEF lockMap, lockLocals, server, lockHistory
<1> USE DEF HasLock, Waiting, Inside
<1>1. ASSUME NEW c \in Calls, NEW o \in Orgs, NEW x \in OrgMutations, NEW l \in Locks,
             LockOrganization(c, o, x, l)
      PROVE  LockTypeOK'
  <2>0. /\ entries \in [Orgs -> Locks \cup {Nil}]
        /\ token \in [Locks -> Calls \cup {Nil}]
        /\ queue \in [Locks -> Seq(Calls)]
    BY DEF LockTypeOK
  <2>1. CASE entries[o] # Nil
    <3>1. entries' = entries /\ token' = token /\ queue' = queue
      BY <1>1, <2>1 DEF LockOrganization, Find
    <3> QED  BY <1>1, <2>0, <3>1, NilAssumption DEF LockTypeOK, LockOrganization, Moves, CountIn
  <2>2. CASE entries[o] = Nil
    <3>1. /\ entries' = [entries EXCEPT ![o] = l]
          /\ token' = [token EXCEPT ![l] = Nil]
          /\ queue' = [queue EXCEPT ![l] = <<>>]
      BY <1>1, <2>2 DEF LockOrganization, Find
    <3>2. entries' \in [Orgs -> Locks \cup {Nil}] /\ token' \in [Locks -> Calls \cup {Nil}]
      BY <2>0, <3>1
    <3>3. queue' \in [Locks -> Seq(Calls)]
      BY <2>0, <3>1
    <3> QED  BY <1>1, <3>2, <3>3, NilAssumption DEF LockTypeOK, LockOrganization, Moves, CountIn
  <2> QED  BY <2>1, <2>2
<1>2. ASSUME NEW c \in Calls, Select(c) PROVE LockTypeOK'
  <2>1. lock[c] \in Locks
    BY <1>2 DEF LockTypeOK, Select
  <2>2. queue \in [Locks -> Seq(Calls)] /\ Append(queue[lock[c]], c) \in Seq(Calls)
    BY <2>1 DEF LockTypeOK
  <2>3. \/ queue' = queue
        \/ queue' = [queue EXCEPT ![lock[c]] = Append(queue[lock[c]], c)]
    BY <1>2 DEF Select
  <2>4. queue' \in [Locks -> Seq(Calls)]
    BY <2>1, <2>2, <2>3
  <2>5. token' \in [Locks -> Calls \cup {Nil}] /\ place' \in [Calls -> {"idle"} \cup HasLock]
    <3>1. token \in [Locks -> Calls \cup {Nil}] /\ place \in [Calls -> {"idle"} \cup HasLock]
      BY DEF LockTypeOK
    <3>2. token' = token \/ token' = [token EXCEPT ![lock[c]] = c]
      BY <1>2 DEF Select
    <3>3. place' = [place EXCEPT ![c] = "held"] \/ place' = [place EXCEPT ![c] = "queued"]
      BY <1>2 DEF Select
    <3> QED  BY <2>1, <3>1, <3>2, <3>3 DEF HasLock
  <2>6. \A d \in Calls : place'[d] \in HasLock <=> lock[d] # Nil
    BY <1>2, <2>1 DEF LockTypeOK, Select
  <2> QED  BY <1>2, <2>4, <2>5, <2>6 DEF LockTypeOK, Select
<1>3. ASSUME NEW c \in Calls, Wake(c) PROVE LockTypeOK'
  BY <1>3 DEF LockTypeOK, Wake, Moves
<1>4. ASSUME NEW c \in Calls, Cancel(c) PROVE LockTypeOK'
  <2>1. lock[c] \in Locks
    BY <1>4 DEF LockTypeOK, Cancel
  <2>2. queue' \in [Locks -> Seq(Calls)]
    BY <1>4, <2>1, LockWithout DEF LockTypeOK, Cancel
  <2> QED  BY <1>4, <2>2 DEF LockTypeOK, Cancel
<1>5. ASSUME NEW c \in Calls, UnlockOrganization(c) PROVE LockTypeOK'
  <2>1. lock[c] \in Locks
    BY <1>5 DEF LockTypeOK, UnlockOrganization, Moves
  <2> DEFINE q == queue[lock[c]]
  <2>2. q \in Seq(Calls) /\ (q # <<>> => Head(q) \in Calls /\ Tail(q) \in Seq(Calls))
    BY <2>1 DEF LockTypeOK
  <2>3. token' \in [Locks -> Calls \cup {Nil}] /\ queue' \in [Locks -> Seq(Calls)]
    BY <1>5, <2>1, <2>2 DEF LockTypeOK, UnlockOrganization
  <2> QED  BY <1>5, <2>3 DEF LockTypeOK, UnlockOrganization, Moves
<1>6. ASSUME NEW c \in Calls, Release(c) PROVE LockTypeOK'
  <2>1. lock[c] \in Locks /\ org[c] \in Orgs
    BY <1>6 DEF LockTypeOK, Release, Moves
  <2>2. entries' \in [Orgs -> Locks \cup {Nil}] /\ users' \in [Locks -> SUBSET Calls]
    BY <1>6, <2>1 DEF LockTypeOK, Release
  <2> QED  BY <1>6, <2>2 DEF LockTypeOK, Release, Moves
<1>7. ASSUME NEW c \in Calls, Send(c) PROVE LockTypeOK'
  <2>1. lock[c] # Nil
    BY <1>7 DEF LockTypeOK, Send, Moves
  <2>2. requests' \subseteq Request
    BY <1>7, <2>1, LockRequests DEF LockTypeOK, Send
  <2>3. confirmed' \in [Orgs -> SUBSET Assocs]
    BY <1>7, <2>1 DEF LockTypeOK, Send
  <2> QED  BY <1>7, <2>2, <2>3 DEF LockTypeOK, Send, Moves
<1>8. ASSUME NEW c \in Calls, Verify(c) PROVE LockTypeOK'
  <2>1. lock[c] # Nil
    BY <1>8 DEF LockTypeOK, Verify, Moves
  <2>2. confirmed' \in [Orgs -> SUBSET Assocs]
    BY <1>8, <2>1 DEF LockTypeOK, Verify
  <2> QED  BY <1>8, <2>2 DEF LockTypeOK, Verify, Moves
<1>9. ASSUME NEW c \in Calls, Fail(c) PROVE LockTypeOK'
  <2>1. lock[c] # Nil
    BY <1>9 DEF LockTypeOK, Fail
  <2>2. requests' \subseteq Request
    BY <1>9, LockRequests DEF LockTypeOK, Fail
  <2>3. abandoned' \subseteq Orgs
    BY <1>9, <2>1 DEF LockTypeOK, Fail
  <2> QED  BY <1>9, <2>2, <2>3 DEF LockTypeOK, Fail
<1>10. ASSUME NEW r \in requests, ServerRead(r) PROVE LockTypeOK'
  <2>1. requests' \subseteq Request
    BY <1>10, LockRequests DEF LockTypeOK, ServerRead
  <2> QED  BY <1>10, <2>1 DEF LockTypeOK, ServerRead
<1>11. ASSUME NEW r \in requests, ServerWrite(r) PROVE LockTypeOK'
  <2>0. r.call # Nil => place[r.call] = "sent"
    BY DEF RequestInv
  <2>1. r \in Request /\ requests' \subseteq Request
    BY <1>11 DEF LockTypeOK, ServerWrite
  <2>2. links' \in [Orgs -> SUBSET Assocs]
    BY <1>11, <2>1, LockRequests DEF LockTypeOK, ServerWrite, Request
  <2> QED  BY <1>11, <2>0, <2>1, <2>2 DEF LockTypeOK, ServerWrite, Request
<1> QED  BY <1>1, <1>2, <1>3, <1>4, <1>5, <1>6, <1>7, <1>8, <1>9, <1>10, <1>11
         DEF LockNext, CallMoves, lockVars, LockTypeOK
-----------------------------------------------------------------------------
(* The lock *)

\* A call that has a lock has the entry of its organization, and counts.
LEMMA LockHolder ==
  ASSUME LockTypeOK, MapInv, NEW c \in Calls, place[c] \in HasLock
  PROVE  /\ lock[c] \in Locks /\ org[c] \in Orgs /\ mutation[c] \in OrgMutations
         /\ entries[org[c]] = lock[c] /\ c \in users[lock[c]]
  BY DEF LockTypeOK, MapInv

LEMMA LockOneInside == LockTypeOK /\ MapInv => OneInside
<1> SUFFICES ASSUME LockTypeOK, MapInv, NEW c \in Calls, NEW d \in Calls,
                    place[c] \in Inside, place[d] \in Inside, org[c] = org[d]
             PROVE  c = d
  BY DEF OneInside
<1>1. lock[c] = lock[d]
  BY LockHolder DEF HasLock
<1> QED  BY <1>1 DEF MapInv

LEMMA LockMapInit == LockInit => MapInv
  BY NilAssumption DEF LockInit, MapInv, Inside

LEMMA LockMapStep ==
  ASSUME LockTypeOK, MapInv, RequestInv, [LockNext]_lockVars
  PROVE  MapInv'
<1> USE DEF lockMap, lockLocals, server, lockHistory
\* What only moves calls that stay inside, or leave.
<1>0. ASSUME UNCHANGED <<entries, users, token, lock, org>>,
             \A d \in Calls : place'[d] \in Inside => token[lock[d]] = d
      PROVE  MapInv'
  BY <1>0 DEF MapInv
<1>1. ASSUME NEW c \in Calls, NEW o \in Orgs, NEW x \in OrgMutations, NEW l \in Locks,
             LockOrganization(c, o, x, l)
      PROVE  MapInv'
  <2>1. place[c] = "idle" /\ lock[c] = Nil /\ l # Nil
    BY <1>1, NilAssumption DEF LockOrganization, Moves, LockTypeOK, HasLock, Waiting, Inside
  <2>2. /\ lock' = [lock EXCEPT ![c] = l] /\ org' = [org EXCEPT ![c] = o]
        /\ users' = [users EXCEPT ![l] = users[l] \cup {c}]
        /\ place' = [place EXCEPT ![c] = "select"]
    BY <1>1 DEF LockOrganization, Moves, CountIn
  <2>3. /\ entries \in [Orgs -> Locks \cup {Nil}] /\ token \in [Locks -> Calls \cup {Nil}]
        /\ lock \in [Calls -> Locks \cup {Nil}] /\ org \in [Calls -> Orgs \cup {Nil}]
        /\ users \in [Locks -> SUBSET Calls] /\ place \in [Calls -> {"idle"} \cup HasLock]
    BY DEF LockTypeOK
  <2>4. /\ lock'[c] = l /\ org'[c] = o /\ place'[c] = "select"
        /\ \A d \in Calls \ {c} : lock'[d] = lock[d] /\ org'[d] = org[d] /\ place'[d] = place[d]
    BY <2>2, <2>3
  <2>5. \A m \in Locks : users'[m] = {d \in Calls : lock'[d] = m}
    <3>1. \A m \in Locks : users'[m] = IF m = l THEN users[l] \cup {c} ELSE users[m]
      BY <2>2, <2>3
    <3> QED  BY <3>1, <2>1, <2>4, NilAssumption DEF MapInv
  <2>6. CASE entries[o] # Nil
    <3>1. l = entries[o] /\ entries' = entries /\ token' = token
      BY <1>1, <2>6 DEF LockOrganization, Find
    <3>2. PICK e \in Calls : lock[e] = l /\ org[e] = o
      BY <2>6, <3>1 DEF MapInv
    <3>3. \A d \in Calls : lock'[d] # Nil => entries'[org'[d]] = lock'[d]
      BY <2>4, <3>1 DEF MapInv
    <3>4. \A p \in Orgs : entries'[p] # Nil =>
            \E d \in Calls : lock'[d] = entries'[p] /\ org'[d] = p
      BY <2>1, <2>4, <3>1 DEF MapInv
    <3>5. \A d, f \in Calls : lock'[d] # Nil /\ lock'[d] = lock'[f] => org'[d] = org'[f]
      BY <2>1, <2>4, <3>2 DEF MapInv
    <3>6. \A d \in Calls : place'[d] \in Inside => token'[lock'[d]] = d
      BY <2>4, <3>1 DEF MapInv, Inside
    <3> QED  BY <2>5, <3>3, <3>4, <3>5, <3>6 DEF MapInv
  <2>7. CASE entries[o] = Nil
    <3>1. /\ users[l] = {} /\ entries' = [entries EXCEPT ![o] = l]
          /\ token' = [token EXCEPT ![l] = Nil]
      BY <1>1, <2>7 DEF LockOrganization, Find
    <3>2. \A d \in Calls : lock[d] # l
      BY <3>1 DEF MapInv
    <3>3. \A d \in Calls : lock[d] # Nil => org[d] # o
      BY <2>7 DEF MapInv
    <3>4. \A p \in Orgs : entries'[p] = IF p = o THEN l ELSE entries[p]
      BY <2>3, <3>1
    <3>5. \A m \in Locks : m # l => token'[m] = token[m]
      BY <2>3, <3>1
    <3>6. \A d \in Calls : lock'[d] # Nil => entries'[org'[d]] = lock'[d]
      BY <2>4, <3>3, <3>4 DEF MapInv, LockTypeOK
    <3>7. \A p \in Orgs : entries'[p] # Nil =>
            \E d \in Calls : lock'[d] = entries'[p] /\ org'[d] = p
      BY <2>1, <2>4, <3>4 DEF MapInv
    <3>8. \A d, f \in Calls : lock'[d] # Nil /\ lock'[d] = lock'[f] => org'[d] = org'[f]
      BY <2>4, <3>2 DEF MapInv
    <3>9. \A d \in Calls : place'[d] \in Inside => token'[lock'[d]] = d
      BY <2>4, <3>2, <3>5, LockHolder DEF MapInv, Inside, HasLock
    <3> QED  BY <2>5, <3>6, <3>7, <3>8, <3>9 DEF MapInv
  <2> QED  BY <2>6, <2>7
<1>2. ASSUME NEW c \in Calls, Select(c) PROVE MapInv'
  <2>1. lock[c] \in Locks
    BY <1>2, LockHolder DEF Select, HasLock, Waiting
  <2>2. CASE token[lock[c]] = Nil
    <3>1. /\ token' = [token EXCEPT ![lock[c]] = c] /\ place' = [place EXCEPT ![c] = "held"]
          /\ UNCHANGED <<entries, users, lock, org>>
      BY <1>2, <2>2 DEF Select
    <3>2. \A d \in Calls : place[d] \in Inside => lock[d] # lock[c]
      BY <2>2, NilAssumption DEF MapInv
    <3>3. \A d \in Calls : place'[d] \in Inside => token'[lock'[d]] = d
      BY <2>1, <3>1, <3>2, LockHolder DEF MapInv, LockTypeOK, HasLock
    <3> QED  BY <3>1, <3>3 DEF MapInv
  <2>3. CASE token[lock[c]] # Nil
    BY <1>0, <1>2, <2>3 DEF Select, MapInv, LockTypeOK, Inside
  <2> QED  BY <2>2, <2>3
<1>3. ASSUME NEW c \in Calls, Wake(c) PROVE MapInv'
  BY <1>0, <1>3 DEF Wake, Moves, MapInv, LockTypeOK
<1>4. ASSUME NEW c \in Calls, Cancel(c) PROVE MapInv'
  BY <1>0, <1>4 DEF Cancel, MapInv, LockTypeOK, Inside
<1>5. ASSUME NEW c \in Calls, UnlockOrganization(c) PROVE MapInv'
  <2>1. /\ lock[c] \in Locks /\ token[lock[c]] = c
        /\ place' = [place EXCEPT ![c] = "release"] /\ UNCHANGED <<entries, users, lock, org>>
    BY <1>5, LockHolder DEF UnlockOrganization, Moves, MapInv, HasLock, Inside
  <2>2. \A m \in Locks : m # lock[c] => token'[m] = token[m]
    BY <1>5, <2>1 DEF UnlockOrganization, LockTypeOK
  <2>3. \A d \in Calls : place'[d] \in Inside => token'[lock'[d]] = d
    BY <2>1, <2>2, LockHolder DEF MapInv, LockTypeOK, HasLock, Inside
  <2> QED  BY <2>1, <2>3 DEF MapInv
<1>6. ASSUME NEW c \in Calls, Release(c) PROVE MapInv'
  <2> DEFINE l == lock[c]
  <2>1. l \in Locks /\ org[c] \in Orgs /\ entries[org[c]] = l /\ l # Nil
    BY <1>6, LockHolder, NilAssumption DEF Release, Moves, HasLock
  <2>2. /\ lock' = [lock EXCEPT ![c] = Nil] /\ org' = [org EXCEPT ![c] = Nil]
        /\ users' = [users EXCEPT ![l] = users[l] \ {c}]
        /\ place' = [place EXCEPT ![c] = "idle"] /\ token' = token
        /\ entries' = IF users[l] \ {c} = {} THEN [entries EXCEPT ![org[c]] = Nil]
                                             ELSE entries
    BY <1>6 DEF Release, Moves, Unused
  <2>3. /\ lock'[c] = Nil /\ place'[c] = "idle"
        /\ \A d \in Calls \ {c} : lock'[d] = lock[d] /\ org'[d] = org[d] /\ place'[d] = place[d]
    BY <2>2 DEF LockTypeOK
  <2>4. \A m \in Locks : users'[m] = {d \in Calls : lock'[d] = m}
    <3>1. \A m \in Locks : users'[m] = IF m = l THEN users[l] \ {c} ELSE users[m]
      BY <2>1, <2>2 DEF LockTypeOK
    <3> QED  BY <2>1, <2>3, <3>1, NilAssumption DEF MapInv
  <2>5. \A d, f \in Calls : lock'[d] # Nil /\ lock'[d] = lock'[f] => org'[d] = org'[f]
    BY <2>3 DEF MapInv
  <2>6. \A d \in Calls : place'[d] \in Inside => token'[lock'[d]] = d
    BY <2>2, <2>3 DEF MapInv, Inside
  <2>7. CASE users[l] \ {c} = {}
    <3>1. \A p \in Orgs : entries'[p] = IF p = org[c] THEN Nil ELSE entries[p]
      BY <2>1, <2>2, <2>7 DEF LockTypeOK
    <3>2. \A d \in Calls \ {c} : lock[d] # l
      BY <2>1, <2>7 DEF MapInv
    <3>3. \A d \in Calls : lock'[d] # Nil => entries'[org'[d]] = lock'[d]
      BY <2>1, <2>3, <3>1, <3>2 DEF MapInv, LockTypeOK
    <3>4. \A p \in Orgs : entries'[p] # Nil =>
            \E d \in Calls : lock'[d] = entries'[p] /\ org'[d] = p
      BY <2>3, <3>1 DEF MapInv
    <3> QED  BY <2>4, <2>5, <2>6, <3>3, <3>4 DEF MapInv
  <2>8. CASE users[l] \ {c} # {}
    <3>1. entries' = entries
      BY <2>2, <2>8
    <3>2. PICK e \in Calls \ {c} : lock[e] = l
      BY <2>1, <2>8 DEF MapInv
    <3>3. org[e] = org[c]
      BY <2>1, <3>2 DEF MapInv
    <3>4. \A d \in Calls : lock'[d] # Nil => entries'[org'[d]] = lock'[d]
      BY <2>3, <3>1 DEF MapInv
    <3>5. \A p \in Orgs : entries'[p] # Nil =>
            \E d \in Calls : lock'[d] = entries'[p] /\ org'[d] = p
      BY <2>1, <2>3, <3>1, <3>2, <3>3 DEF MapInv
    <3> QED  BY <2>4, <2>5, <2>6, <3>4, <3>5 DEF MapInv
  <2> QED  BY <2>7, <2>8
<1>7. ASSUME NEW c \in Calls, Send(c) \/ Verify(c) \/ Fail(c) PROVE MapInv'
  BY <1>0, <1>7 DEF Send, Verify, Fail, Moves, MapInv, LockTypeOK, Inside
<1>8. ASSUME NEW r \in requests, ServerRead(r) PROVE MapInv'
  BY <1>8 DEF ServerRead, MapInv
<1>9. ASSUME NEW r \in requests, ServerWrite(r) PROVE MapInv'
  <2>1. r.call # Nil => place[r.call] = "sent"
    BY DEF RequestInv
  <2> QED  BY <1>0, <1>9, <2>1 DEF ServerWrite, MapInv, LockTypeOK, Inside
<1> QED  BY <1>1, <1>2, <1>3, <1>4, <1>5, <1>6, <1>7, <1>8, <1>9
         DEF LockNext, CallMoves, lockVars, MapInv
-----------------------------------------------------------------------------
(* The associations *)

\* The requests of one organization that still has a call come from that call.
LEMMA LockOneRequest ==
  ASSUME LockTypeOK, MapInv, RequestInv, NEW r \in requests, NEW s \in requests,
         r.org = s.org, r.org \notin abandoned
  PROVE  r = s
<1>1. r.call \in Calls /\ s.call \in Calls /\ r.call # Nil /\ s.call # Nil
  BY DEF LockTypeOK, Request, RequestInv
<1>2. r.call = s.call
  BY <1>1, LockOneInside DEF RequestInv, OneInside, Inside
<1> QED  BY <1>1, <1>2 DEF RequestInv

LEMMA LockRequestStep ==
  ASSUME LockIInv, [LockNext]_lockVars
  PROVE  RequestInv' /\ NoLostAssociation'
<1> USE DEF lockMap, lockLocals, server, lockHistory
<1>0. LockTypeOK /\ MapInv /\ RequestInv /\ NoLostAssociation
  BY DEF LockIInv
\* What moves a call that has no request, or its lock.
<1>1. ASSUME NEW c \in Calls, place[c] # "sent", place'[c] # "sent",
             \A d \in Calls \ {c} : place'[d] = place[d] /\ org'[d] = org[d] /\ mutation'[d] = mutation[d],
             UNCHANGED <<server, lockHistory>>
      PROVE  RequestInv' /\ NoLostAssociation'
  <2>1. \A r \in requests : r.call # Nil => r.call \in Calls \ {c}
    BY <1>0, <1>1 DEF RequestInv, LockTypeOK, Request
  <2> QED  BY <1>0, <1>1, <2>1 DEF RequestInv, NoLostAssociation
<1>2. ASSUME NEW c \in Calls,
             \/ \E o \in Orgs, x \in OrgMutations, l \in Locks : LockOrganization(c, o, x, l)
             \/ Select(c) \/ Wake(c) \/ Cancel(c) \/ UnlockOrganization(c) \/ Release(c)
      PROVE  RequestInv' /\ NoLostAssociation'
  BY <1>0, <1>1, <1>2
  DEF LockOrganization, Select, Wake, Cancel, UnlockOrganization, Release, Moves, LockTypeOK
<1>3. ASSUME NEW c \in Calls, Send(c) PROVE RequestInv' /\ NoLostAssociation'
  <2> DEFINE q == [call |-> c, org |-> org[c], op |-> mutation[c], read |-> FALSE, base |-> {}]
  <2>1. /\ place[c] = "held" /\ place' = [place EXCEPT ![c] = "sent"] /\ requests' = requests \cup {q}
        /\ UNCHANGED <<org, mutation, links, abandoned>>
    BY <1>3 DEF Send, Moves
  <2>2. org[c] \in Orgs /\ c # Nil
    BY <1>0, <2>1, LockHolder, NilAssumption DEF HasLock, Inside
  <2>3. /\ place'[c] = "sent" /\ \A d \in Calls \ {c} : place'[d] = place[d]
        /\ \A r \in requests : r.call # c
    BY <1>0, <2>1, <2>2 DEF LockTypeOK, RequestInv
  <2>4. \A o \in Orgs : confirmed'[o] \subseteq confirmed[o]
    BY <1>0, <1>3, <2>2 DEF Send, LockTypeOK
  <2>5. mutation[c].kind = "remove" => mutation[c].assoc \notin confirmed'[org[c]]
    BY <1>0, <1>3, <2>2 DEF Send, LockTypeOK
  <2>6. \A r \in requests' :
          IF r.call = Nil THEN r.org \in abandoned
          ELSE place'[r.call] = "sent" /\ r.org = org[r.call] /\ r.op = mutation[r.call]
    BY <1>0, <2>1, <2>2, <2>3 DEF RequestInv, LockTypeOK, Request
  <2>7. \A r, s \in requests' : r.call # Nil /\ r.call = s.call => r = s
    <3>1. q.call = c
      OBVIOUS
    <3> HIDE DEF q
    <3> QED  BY <1>0, <2>1, <2>3, <3>1 DEF RequestInv
  <2>8. \A r \in requests' : r.org \notin abandoned /\ r.read => r.base = links[r.org]
    BY <1>0, <2>1 DEF RequestInv
  <2>9. \A d \in Calls : place'[d] = "sent" /\ mutation[d].kind = "remove" =>
          mutation[d].assoc \notin confirmed'[org[d]]
    <3> SUFFICES ASSUME NEW d \in Calls \ {c}, place[d] = "sent", mutation[d].kind = "remove"
                 PROVE  mutation[d].assoc \notin confirmed'[org[d]]
      BY <2>3, <2>5
    <3>1. org[d] \in Orgs
      BY <1>0, LockHolder DEF HasLock, Inside
    <3> QED  BY <1>0, <2>4, <3>1 DEF RequestInv
  <2>10. NoLostAssociation'
    BY <1>0, <2>1, <2>4 DEF NoLostAssociation
  <2> QED  BY <2>1, <2>6, <2>7, <2>8, <2>9, <2>10 DEF RequestInv
<1>4. ASSUME NEW c \in Calls, Verify(c) PROVE RequestInv' /\ NoLostAssociation'
  <2>1. /\ place[c] = "answered" /\ place' = [place EXCEPT ![c] = "unlock"]
        /\ UNCHANGED <<org, mutation, requests, links, abandoned>> /\ org[c] \in Orgs
    BY <1>0, <1>4, LockHolder DEF Verify, Moves, HasLock, Inside
  <2>2. /\ \A d \in Calls \ {c} : place'[d] = place[d]
        /\ place'[c] = "unlock" /\ \A r \in requests : r.call # c \/ r.call = Nil
    BY <1>0, <2>1 DEF LockTypeOK, RequestInv
  <2>3. \A o \in Orgs : confirmed'[o] \subseteq
          IF o = org[c] THEN confirmed[o] \cup links[o] ELSE confirmed[o]
    BY <1>0, <1>4, <2>1 DEF Verify, LockTypeOK
  <2>4. \A d \in Calls : place'[d] = "sent" => org[d] \in Orgs /\ org[d] # org[c]
    <3> SUFFICES ASSUME NEW d \in Calls \ {c}, place[d] = "sent"
                 PROVE  org[d] \in Orgs /\ org[d] # org[c]
      BY <2>2
    <3> QED  BY <1>0, <2>1, LockHolder, LockOneInside DEF OneInside, HasLock, Inside
  <2>5. \A d \in Calls : place'[d] = "sent" /\ mutation[d].kind = "remove" =>
          mutation[d].assoc \notin confirmed'[org[d]]
    BY <1>0, <2>2, <2>3, <2>4 DEF RequestInv
  <2>6. \A r \in requests :
          IF r.call = Nil THEN r.org \in abandoned
          ELSE place'[r.call] = "sent" /\ r.org = org[r.call] /\ r.op = mutation[r.call]
    BY <1>0, <2>2 DEF RequestInv, LockTypeOK, Request
  <2>7. NoLostAssociation'
    BY <1>0, <2>1, <2>3 DEF NoLostAssociation
  <2> QED  BY <1>0, <2>1, <2>5, <2>6, <2>7 DEF RequestInv
<1>5. ASSUME NEW c \in Calls, Fail(c) PROVE RequestInv' /\ NoLostAssociation'
  <2>1. /\ place[c] \in {"sent", "answered"} /\ place' = [place EXCEPT ![c] = "unlock"]
        /\ requests' = {r \in requests : r.call # c} \cup Abandoned(c)
        /\ abandoned' = IF Abandoned(c) = {} THEN abandoned ELSE abandoned \cup {org[c]}
        /\ UNCHANGED <<org, mutation, links, confirmed>>
    BY <1>5 DEF Fail
  <2>2. place'[c] = "unlock" /\ \A d \in Calls \ {c} : place'[d] = place[d]
    BY <1>0, <2>1 DEF LockTypeOK
  <2>3. \A r \in Abandoned(c) : r.call = Nil /\ r.org \in abandoned'
    <3> SUFFICES ASSUME NEW s \in requests, s.call = c,
                        [s EXCEPT !.call = Nil] \in Abandoned(c)
                 PROVE  /\ [s EXCEPT !.call = Nil].call = Nil
                        /\ [s EXCEPT !.call = Nil].org \in abandoned'
      BY DEF Abandoned
    <3>1. s \in Request /\ s.org = org[c]
      BY <1>0, NilAssumption DEF LockTypeOK, RequestInv
    <3> QED  BY <2>1, <3>1 DEF Request
  <2>4. abandoned \subseteq abandoned'
    BY <2>1
  <2>5. \A r \in requests' :
          IF r.call = Nil THEN r.org \in abandoned'
          ELSE place'[r.call] = "sent" /\ r.org = org[r.call] /\ r.op = mutation[r.call]
    BY <1>0, <2>1, <2>2, <2>3, <2>4 DEF RequestInv, LockTypeOK, Request
  <2>6. \A r, s \in requests' : r.call # Nil /\ r.call = s.call => r = s
    BY <1>0, <2>1, <2>3 DEF RequestInv
  <2>7. \A r \in requests' : r.org \notin abandoned' /\ r.read => r.base = links[r.org]
    BY <1>0, <2>1, <2>3, <2>4 DEF RequestInv
  <2>8. \A d \in Calls : place'[d] = "sent" /\ mutation[d].kind = "remove" =>
          mutation[d].assoc \notin confirmed[org[d]]
    BY <1>0, <2>2 DEF RequestInv
  <2>9. NoLostAssociation'
    BY <1>0, <2>1, <2>4 DEF NoLostAssociation
  <2> QED  BY <2>1, <2>5, <2>6, <2>7, <2>8, <2>9 DEF RequestInv
<1>6. ASSUME NEW r \in requests, ServerRead(r) PROVE RequestInv' /\ NoLostAssociation'
  <2> DEFINE q == [r EXCEPT !.read = TRUE, !.base = links[r.org]]
  <2>1. /\ requests' = (requests \ {r}) \cup {q}
        /\ UNCHANGED <<place, org, mutation, links, confirmed, abandoned>>
    BY <1>6 DEF ServerRead
  <2>2. q.call = r.call /\ q.org = r.org /\ q.op = r.op /\ q.base = links[q.org]
    BY <1>0 DEF LockTypeOK, Request
  <2> HIDE DEF q
  <2> QED  BY <1>0, <2>1, <2>2 DEF RequestInv, NoLostAssociation
<1>7. ASSUME NEW r \in requests, ServerWrite(r) PROVE RequestInv' /\ NoLostAssociation'
  <2>1. /\ r.read /\ r \in Request /\ r.org \in Orgs /\ requests' = requests \ {r}
        /\ links' = [links EXCEPT ![r.org] = Result(r)]
        /\ UNCHANGED <<org, mutation, confirmed, abandoned>>
    BY <1>0, <1>7 DEF ServerWrite, LockTypeOK, Request
  <2>2. \A o \in Orgs : links'[o] = IF o = r.org THEN Result(r) ELSE links[o]
    BY <1>0, <2>1 DEF LockTypeOK
  <2>3. \A d \in Calls : place'[d] = "sent" => place[d] = "sent"
    BY <1>0, <1>7 DEF ServerWrite, LockTypeOK
  <2>4. \A s \in requests' : s.call # Nil => s.call # r.call /\ place'[s.call] = place[s.call]
    BY <1>0, <1>7, <2>1 DEF ServerWrite, LockTypeOK, RequestInv, Request
  <2>5. \A s \in requests' : s.org \notin abandoned => s.org # r.org
    BY <1>0, <2>1, LockOneRequest
  <2>6. \A s \in requests' : s.org \notin abandoned /\ s.read => s.base = links'[s.org]
    BY <1>0, <2>1, <2>2, <2>5 DEF RequestInv, LockTypeOK, Request
  <2>7. r.org \notin abandoned => confirmed[r.org] \subseteq Result(r)
    <3> SUFFICES ASSUME r.org \notin abandoned PROVE confirmed[r.org] \subseteq Result(r)
      OBVIOUS
    <3>1. r.base = links[r.org] /\ confirmed[r.org] \subseteq links[r.org]
      BY <1>0, <2>1 DEF RequestInv, NoLostAssociation
    <3>2. /\ r.call \in Calls /\ place[r.call] = "sent"
          /\ r.org = org[r.call] /\ r.op = mutation[r.call]
      BY <1>0, <2>1 DEF RequestInv, Request
    <3>3. r.op.kind = "remove" => r.op.assoc \notin confirmed[r.org]
      BY <1>0, <3>2 DEF RequestInv
    <3>4. r.op.kind \in {"add", "remove"}
      BY <2>1, OrgMutationsAssumption DEF Request
    <3> QED  BY <3>1, <3>3, <3>4 DEF Result
  <2>8. NoLostAssociation'
    BY <1>0, <2>1, <2>2, <2>7 DEF NoLostAssociation
  <2> QED  BY <1>0, <2>1, <2>3, <2>4, <2>6, <2>8 DEF RequestInv
<1>8. CASE UNCHANGED lockVars
  BY <1>0, <1>8 DEF lockVars, RequestInv, NoLostAssociation
<1> QED  BY <1>2, <1>3, <1>4, <1>5, <1>6, <1>7, <1>8 DEF LockNext, CallMoves
-----------------------------------------------------------------------------
(* The theorems *)

\* The map, the locals, the counts and the server's requests always agree.
THEOREM LockInductive == LockSpec => []LockIInv
<1>1. LockInit => LockIInv
  BY LockTypeInit, LockMapInit DEF LockInit, LockIInv, RequestInv, NoLostAssociation
<1>2. LockIInv /\ [LockNext]_lockVars => LockIInv'
  BY LockTypeStep, LockMapStep, LockRequestStep DEF LockIInv
<1> QED  BY <1>1, <1>2, PTL DEF LockSpec

\* The locks, calls and requests always have their types.
THEOREM LockTypeCorrect == LockSpec => []LockTypeOK
<1>1. LockIInv => LockTypeOK
  BY DEF LockIInv
<1> QED  BY <1>1, LockInductive, PTL

\* lockOrganization is a mutual exclusion, whatever is cancelled and however
\* often the entry of an organization is dropped and made anew.
THEOREM LockExcludes == LockSpec => []OneInside
<1>1. LockIInv => OneInside
  BY LockOneInside DEF LockIInv
<1> QED  BY <1>1, LockInductive, PTL

\* organizationLocks holds entries of organizations in use only.
THEOREM MapDoesNotLeak == LockSpec => []NoEntryLeaked
<1>1. LockIInv => NoEntryLeaked
  BY DEF LockIInv, LockTypeOK, MapInv, NoEntryLeaked
<1> QED  BY <1>1, LockInductive, PTL

\* A confirmed association survives every other mutation of the process, unless
\* a request was abandoned.
THEOREM AssociationsSurvive == LockSpec => []NoLostAssociation
<1>1. LockIInv => NoLostAssociation
  BY DEF LockIInv
<1> QED  BY <1>1, LockInductive, PTL

\* The lock excludes as long as someone uses it, and is dropped afterwards.
THEOREM LockWorks == LockSpec => []LockIsSound
BY LockExcludes, MapDoesNotLeak, PTL DEF LockIsSound
-----------------------------------------------------------------------------
(* Organizations *)

\* The domains of the constants and variables, and the parts of the invariant.
LEMMA OrgTypes ==
  ASSUME Org!Assumption, Org!IInv
  PROVE  /\ MaxSubmits \in Nat /\ MaxTickets \in Nat /\ MaxEdits \in Nat /\ MaxCrashes \in Nat
         /\ Org!NoHandle \notin Handles /\ None \notin Org!Org /\ None \notin Org!State
         /\ None \notin Org!Reply /\ None \notin Org!Call
         /\ orgs \in [Handles -> Org!Org \cup {None}] /\ given \subseteq Handles
         /\ \A h \in Handles : orgs[h] # None => h \in given
         /\ wire \subseteq Org!Request
         /\ tickets \in Seq(Org!Ticket) /\ Len(tickets) <= MaxTickets
         /\ state \in Org!State \cup {None} /\ call \in Org!Call \cup {None}
         /\ sent \in 0 .. MaxSubmits /\ named \subseteq Org!Tickets /\ lost \in BOOLEAN
         /\ edits \in 0 .. MaxEdits /\ crashes \in 0 .. MaxCrashes
         /\ Org!RequestInv /\ Org!StateInv /\ Org!CallInv /\ Org!ReplyInv /\ Org!TicketInv
         /\ Org!CreateInv /\ Org!QuietInv
<1>1. /\ MaxSubmits \in Nat /\ MaxTickets \in Nat /\ MaxEdits \in Nat /\ MaxCrashes \in Nat
      /\ Org!NoHandle \notin Handles /\ None \notin Org!Org /\ None \notin Org!State
      /\ None \notin Org!Reply /\ None \notin Org!Call
  BY DEF Org!Assumption
<1>2. Org!TypeOK /\ Org!RequestInv /\ Org!StateInv /\ Org!CallInv /\ Org!ReplyInv /\ Org!TicketInv
      /\ Org!CreateInv /\ Org!QuietInv
  BY DEF Org!IInv
<1> QED  BY <1>1, <1>2 DEF Org!TypeOK

\* The bounds, and the numbers of requests and tickets.
LEMMA OrgBounds ==
  ASSUME Org!Assumption, Org!IInv
  PROVE  /\ MaxSubmits \in Nat /\ MaxTickets \in Nat /\ MaxEdits \in Nat /\ MaxCrashes \in Nat
         /\ sent \in Nat /\ sent <= MaxSubmits /\ 0 \in 0 .. MaxSubmits
         /\ \A r \in Org!Request : r.n \in 1 .. MaxSubmits /\ r.n # 0
         /\ \A t \in Org!Tickets : t # Org!NoTicket
<1>1. MaxSubmits \in Nat /\ MaxTickets \in Nat /\ MaxEdits \in Nat /\ MaxCrashes \in Nat
  BY DEF Org!Assumption
<1>2. sent \in 0 .. MaxSubmits
  BY DEF Org!IInv, Org!TypeOK
<1>3. \A r \in Org!Request : r.n \in 1 .. MaxSubmits
  BY DEF Org!Request
<1> QED  BY <1>1, <1>2, <1>3 DEF Org!Tickets, Org!NoTicket

\* The service's requests are well-formed, on their way or behind a ticket.
LEMMA OrgRequests ==
  ASSUME Org!Assumption, Org!IInv
  PROVE  /\ \A t \in DOMAIN tickets : t \in Org!Tickets /\ tickets[t] \in Org!Ticket
         /\ \A r : r \in Org!Requests <=> r \in wire \/ \E t \in DOMAIN tickets : tickets[t].request = r
         /\ \A r : r \in Org!Outstanding <=>
              \/ r \in wire
              \/ \E t \in DOMAIN tickets : tickets[t].status = "open" /\ tickets[t].request = r
         /\ \A r \in Org!Requests : r \in Org!Request
         /\ \A r \in Org!Outstanding : r \in Org!Requests
         /\ \A t \in DOMAIN tickets :
              tickets[t].status = "open" <=> tickets[t].request \in Org!Outstanding
<1>1. \A t \in DOMAIN tickets : t \in 1 .. Len(tickets) /\ tickets[t] \in Org!Ticket
  BY OrgTypes
<1>2. \A t \in DOMAIN tickets : t \in Org!Tickets
  BY <1>1, OrgTypes DEF Org!Tickets
<1>3. \A r : r \in Org!Requests <=> r \in wire \/ \E t \in DOMAIN tickets : tickets[t].request = r
  BY DEF Org!Requests
<1>4. \A r : r \in Org!Outstanding <=>
        \/ r \in wire
        \/ \E t \in DOMAIN tickets : tickets[t].status = "open" /\ tickets[t].request = r
  BY DEF Org!Outstanding
<1>5. \A r \in Org!Requests : r \in Org!Request
  BY <1>1, <1>3, OrgTypes DEF Org!Ticket
<1>6. \A t \in DOMAIN tickets :
        tickets[t].status = "open" <=> tickets[t].request \in Org!Outstanding
  BY <1>4, OrgTypes DEF Org!RequestInv
<1> QED  BY <1>1, <1>2, <1>3, <1>4, <1>5, <1>6

\* What the state of an idle resource keeps: the pending operation is the only
\* write that can still take effect, and its ticket the only open one named.
OrgKept(s) ==
  /\ s # None => Org!Sound(s)
  /\ ~lost => \A t \in named : tickets[t].status = "open" => s # None /\ s.ticket = t
  /\ ~lost =>
       /\ s = None => Org!Mine = {} /\ Org!Creations = {}
       /\ s # None /\ s.pending = "create" => Org!Told(s.handle, s.ticket)
       /\ s # None /\ s.pending # "create" => Org!Creations = {} /\ Org!Mine \subseteq {s.handle}
  /\ ~lost /\ edits = 0 =>
       /\ \A r \in Org!Outstanding :
            /\ s # None /\ Org!Requested(r, s.pending, s)
            /\ s.ticket # Org!NoTicket => tickets[s.ticket].status = "open"
       /\ s # None /\ s.pending = "" /\ Org!Present(s.handle) => orgs[s.handle].value = s.value

\* The state keeps what is known until a call has sent its request.
LEMMA OrgKeepsState ==
  ASSUME Org!Assumption, Org!IInv, ~Org!Sent
  PROVE  OrgKept(state)
<1>1. call # None /\ call.reply # None => call.reply.ticket = Org!NoTicket
  BY OrgTypes DEF Org!Sent, Org!ReplyInv, Org!Uncertain, Org!Reply_
<1>2. ~lost => \A t \in named : tickets[t].status = "open" => state # None /\ state.ticket = t
  <2> SUFFICES ASSUME ~lost, NEW t \in named, tickets[t].status = "open"
               PROVE  state # None /\ state.ticket = t
    OBVIOUS
  <2>1. t # Org!NoTicket
    BY OrgTypes DEF Org!Tickets, Org!NoTicket
  <2> QED  BY <1>1, <2>1, OrgTypes DEF Org!TicketInv
<1>3. state # None => Org!Sound(state)
  BY OrgTypes DEF Org!StateInv
<1>4. ~lost =>
       /\ state = None => Org!Mine = {} /\ Org!Creations = {}
       /\ state # None /\ state.pending = "create" => Org!Told(state.handle, state.ticket)
       /\ state # None /\ state.pending # "create" => Org!Creations = {} /\ Org!Mine \subseteq {state.handle}
  BY OrgTypes DEF Org!CreateInv
<1>5. ~lost /\ edits = 0 =>
       /\ \A r \in Org!Outstanding :
            /\ state # None /\ Org!Requested(r, state.pending, state)
            /\ state.ticket # Org!NoTicket => tickets[state.ticket].status = "open"
       /\ state # None /\ state.pending = "" /\ Org!Present(state.handle)
            => orgs[state.handle].value = state.value
  BY OrgTypes DEF Org!QuietInv
<1> QED  BY <1>2, <1>3, <1>4, <1>5 DEF OrgKept

\* A call that has sent nothing, or that ends, may leave any state that keeps
\* what is known.
LEMMA OrgIdle ==
  ASSUME Org!Assumption, Org!IInv, NEW s \in Org!State \cup {None}, OrgKept(s),
         NEW q \in Org!Call \cup {None},
         state' = s, call' = q, UNCHANGED <<orgs, given, wire, tickets, sent, named, edits>>,
         lost' \in BOOLEAN, lost => lost', crashes' \in 0 .. MaxCrashes,
         q # None => q.n = 0 /\ q.reply \in {None, Org!Uncertain},
         q # None /\ ~lost /\ edits = 0 /\ q.at = "submit" /\ q.op # "create" => Org!Present(q.m.handle),
         Org!CallInv'
  PROVE  Org!IInv'
<1>1. Org!TypeOK'
  BY OrgTypes DEF Org!TypeOK
<1>2. Org!RequestInv' /\ Org!StateInv'
  <2>1. Org!RequestInv'
    BY OrgTypes DEF Org!RequestInv, Org!Requests
  <2>2. Org!StateInv'
    BY DEF OrgKept, Org!StateInv, Org!Sound
  <2> QED  BY <2>1, <2>2
<1>3. call' # None /\ call'.reply # None =>
        /\ call'.reply = Org!Uncertain /\ call'.reply.kind = "uncertain"
        /\ call'.reply.handle = Org!NoHandle /\ call'.reply.ticket = Org!NoTicket
  BY DEF Org!Uncertain, Org!Reply_
<1>11. Org!ReplyInv'
  BY <1>3 DEF Org!ReplyInv
<1>4. Org!TicketInv'
  BY DEF OrgKept, Org!TicketInv
<1>5. Org!Outstanding' = Org!Outstanding /\ Org!Mine' = Org!Mine /\ Org!Creations' = Org!Creations
  BY DEF Org!Outstanding, Org!Mine, Org!Creations
<1>6. \A h, t : Org!Told(h, t)' <=> Org!Told(h, t)
  BY <1>5 DEF Org!Told
<1>7. \A h : Org!Present(h)' <=> Org!Present(h)
  BY DEF Org!Present
<1>8. ~Org!Sent'
  BY DEF Org!Sent
<1>9. Org!CreateInv'
  <2> SUFFICES ASSUME ~lost' PROVE Org!CreateInv'
    BY DEF Org!CreateInv
  <2>1. ~lost /\ lost' = FALSE
    BY OrgTypes
  <2>2. Org!NoSecondOrganization'
    BY <1>5, <2>1, OrgTypes DEF Org!CreateInv, Org!NoSecondOrganization
  <2>3. call' # None /\ call'.op = "create" => state' = None
    BY DEF Org!CallInv
  <2>4. call' # None /\ call'.op = "create" => Org!Creations = {} /\ Org!Mine = {}
    BY <2>1, <2>3 DEF OrgKept
  <2>5. call' # None /\ call'.reply # None => Org!Told(call'.reply.handle, call'.reply.ticket)
          /\ call'.reply.kind = "uncertain"
    BY <1>3 DEF Org!Told
  <2> QED  BY <1>5, <1>6, <1>8, <2>1, <2>2, <2>4, <2>5 DEF OrgKept, Org!CreateInv, Org!netDefinitiveFailure
<1>10. Org!QuietInv'
  <2> SUFFICES ASSUME ~lost', edits' = 0 PROVE Org!QuietInv'
    BY DEF Org!QuietInv
  <2>1. ~lost /\ edits = 0
    BY OrgTypes
  <2>2. \A r \in Org!Outstanding :
          /\ \A p \in Org!Outstanding : p = r
          /\ r.op # "create" => Org!Present(r.handle)
          /\ r.op = "update" => orgs[r.handle].value # r.value
    BY <2>1, OrgTypes DEF Org!QuietInv
  <2> QED  BY <1>5, <1>7, <1>8, <2>1, <2>2 DEF OrgKept, Org!QuietInv
<1> QED  BY <1>1, <1>2, <1>4, <1>9, <1>10, <1>11 DEF Org!IInv

\* A call starts from the state, from a plan, or from an imported handle.
LEMMA OrgStart ==
  ASSUME Org!Assumption, Org!IInv, NEW op, NEW at, NEW m \in Org!State,
         op \in Org!Ops \cup {"read"}, at \in {"ticket", "get", "current", "submit"},
         Org!Start(op, at, m),
         \/ op = "create" /\ at = "submit" /\ state = None /\ m = Org!orgState(Org!NoHandle, m.value)
         \/ /\ op = "update" /\ at = "current" /\ state # None /\ state.pending = ""
            /\ m = [state EXCEPT !.value = m.value] /\ m.value # state.value
         \/ op \in {"read", "delete"} /\ at = Org!FirstRead(m) /\ state # None /\ m = state /\ Org!Readable(m)
         \/ /\ op = "read" /\ at = "get" /\ state = None /\ m.handle \in given
            /\ m.pending = "" /\ m.ticket = Org!NoTicket
  PROVE  Org!IInv'
<1> DEFINE q == [op |-> op, at |-> at, m |-> m, n |-> 0, reply |-> None]
<1>1. q \in Org!Call /\ q.op = op /\ q.at = at /\ q.m = m /\ q.n = 0 /\ q.reply = None
  BY OrgBounds DEF Org!Call
<1>2. /\ call = None /\ call' = q
      /\ UNCHANGED <<orgs, given, wire, tickets, state, sent, named, lost, edits, crashes>>
  BY DEF Org!Start, Org!service, Org!history, Org!bounds
<1> HIDE DEF q
<1>3. OrgKept(state)
  BY <1>2, OrgKeepsState DEF Org!Sent
<1>4. q # None
  BY <1>1, OrgTypes
<1>5. \A r \in Org!Requests' : r.n # 0
  <2>1. Org!Requests' = Org!Requests
    BY <1>2 DEF Org!Requests
  <2> QED  BY <2>1, OrgBounds, OrgRequests
<1>6. op = "read" => Org!Sound(m)
  BY OrgTypes DEF Org!Sound, Org!StateInv
<1>7. at = "get" => m.handle # Org!NoHandle /\ m.ticket = Org!NoTicket
  <2>1. CASE op \in {"read", "delete"} /\ at = Org!FirstRead(m) /\ state # None /\ m = state /\ Org!Readable(m)
    <3>1. Org!Sound(m)
      BY <2>1, OrgTypes DEF Org!StateInv
    <3> QED  BY <2>1, <3>1 DEF Org!FirstRead, Org!Readable, Org!Sound
  <2>2. CASE op = "read" /\ m.handle \in given /\ m.pending = "" /\ m.ticket = Org!NoTicket
    BY <2>2, OrgTypes
  <2> QED  BY <2>1, <2>2
<1>8. at = "ticket" => m.pending # "" /\ m.ticket # Org!NoTicket
  BY DEF Org!FirstRead
<1>9. Org!Sound(m)' <=> Org!Sound(m)
  BY <1>2 DEF Org!Sound
<1>10. Org!CallInv'
  <2>1. call' # None /\ call'.op = op /\ call'.at = at /\ call'.m = m /\ call'.n = 0 /\ call'.reply = None
    BY <1>1, <1>2, <1>4
  <2>2. state' = state /\ sent' = sent /\ tickets' = tickets /\ sent \in Nat
    BY <1>2, OrgBounds
  <2>3. op = "create" => at = "submit" /\ state = None /\ m = Org!orgState(Org!NoHandle, m.value)
    OBVIOUS
  <2>4. op = "update" =>
          /\ at = "current" /\ state # None /\ state.pending = ""
          /\ m = [state EXCEPT !.value = m.value] /\ m.value # state.value
    OBVIOUS
  <2>5. op = "delete" => at \in {"ticket", "get"} /\ state # None /\ m = state
    BY DEF Org!FirstRead
  <2>6. op = "read" =>
          at \in {"ticket", "get"} /\ Org!Sound(m)' /\ (IF state = None THEN m.pending = "" ELSE m = state)
    BY <1>6, <1>9 DEF Org!FirstRead
  <2>7. at = "get" => m.handle # Org!NoHandle /\ (m.ticket # Org!NoTicket => Org!Terminal(m.ticket)')
    BY <1>7
  <2>8. 0 <= sent'
    <3>1. sent' = sent /\ sent \in Nat
      BY <2>2
    <3> QED  BY ONLY <3>1
  <2>9. op \in {"create", "update", "delete", "read"}
    BY DEF Org!Ops
  <2> QED  BY <1>5, <1>8, <2>1, <2>2, <2>3, <2>4, <2>5, <2>6, <2>7, <2>8, <2>9 DEF Org!CallInv, Org!orgState
<1>12. q.at = "submit" => q.op = "create"
  BY <1>1 DEF Org!FirstRead
<1>11. crashes' \in 0 .. MaxCrashes /\ lost' \in BOOLEAN /\ (lost => lost') /\ state \in Org!State \cup {None}
  BY <1>2, OrgTypes
<1> QED  BY <1>1, <1>2, <1>3, <1>10, <1>11, <1>12, OrgIdle

\* A settled state has no ticket and is one of the resource's.
LEMMA OrgSettled ==
  ASSUME NEW h \in Handles \cup {Org!NoHandle}, NEW value \in Names
  PROVE  /\ Org!orgState(h, value) \in Org!State /\ Org!orgState(h, value).handle = h
         /\ Org!orgState(h, value).value = value
         /\ Org!orgState(h, value).pending = "" /\ Org!orgState(h, value).ticket = Org!NoTicket
BY DEF Org!orgState, Org!State

\* Importing the organization that a done ticket registered settles the state.
LEMMA OrgRecover ==
  ASSUME Org!Assumption, Org!IInv, NEW h \in Handles, Org!Recover(h)
  PROVE  Org!IInv'
<1> DEFINE s == Org!orgState(h, orgs[h].value)
<1>1. /\ state # None /\ state.pending = "create" /\ state.handle = Org!NoHandle
      /\ state.ticket # Org!NoTicket /\ tickets[state.ticket].status = "done"
      /\ Org!Present(h) /\ orgs[h].mine /\ call = None
      /\ state' = s /\ UNCHANGED <<orgs, given, wire, tickets, call, sent, named, lost, edits, crashes>>
  BY DEF Org!Recover, Org!service, Org!history, Org!bounds
<1>2. orgs[h] # None /\ orgs[h] \in Org!Org /\ orgs[h].value \in Names
  BY <1>1, OrgTypes DEF Org!Present, Org!Org
<1>3. s \in Org!State /\ s.handle = h /\ s.value = orgs[h].value /\ s.pending = "" /\ s.ticket = Org!NoTicket
  BY <1>2, OrgSettled
<1> HIDE DEF s
<1>4. OrgKept(state)
  BY <1>1, OrgKeepsState DEF Org!Sent
<1>5. s # None /\ Org!Sound(s)
  BY <1>2, <1>3, OrgTypes DEF Org!Sound
<1>6. ~lost => \A t \in named : tickets[t].status # "open"
  BY <1>1, <1>4 DEF OrgKept
<1>7. ~lost => Org!Creations = {} /\ Org!Mine \subseteq {h}
  <2> SUFFICES ASSUME ~lost PROVE Org!Creations = {} /\ Org!Mine \subseteq {h}
    OBVIOUS
  <2>1. Org!Told(state.handle, state.ticket)
    BY <1>1, <1>4 DEF OrgKept
  <2>2. h \in Org!Mine
    BY <1>1, <1>2 DEF Org!Mine
  <2> QED  BY <1>1, <2>1, <2>2 DEF Org!Told
<1>8. ~lost /\ edits = 0 => Org!Outstanding = {}
  BY <1>1, <1>4 DEF OrgKept
<1>9. OrgKept(s)
  BY <1>3, <1>5, <1>6, <1>7, <1>8 DEF OrgKept
<1>10. Org!CallInv'
  BY <1>1 DEF Org!CallInv
<1>11. crashes' \in 0 .. MaxCrashes /\ lost' \in BOOLEAN /\ (lost => lost')
  BY <1>1, OrgTypes
<1> QED  BY <1>1, <1>3, <1>9, <1>10, <1>11, OrgIdle

\* Calls begin: Create, Read, Update, Delete, import, and the recovery.
LEMMA OrgBegin == ASSUME Org!Assumption, Org!IInv, Org!Begin PROVE Org!IInv'
<1>1. ASSUME NEW value \in Names, Org!StartCreate(value) PROVE Org!IInv'
  <2> DEFINE m == Org!orgState(Org!NoHandle, value)
  <2>1. m \in Org!State /\ m.value = value
    BY OrgSettled
  <2>2. state = None /\ Org!Start("create", "submit", m)
    BY <1>1 DEF Org!StartCreate
  <2>3. m = Org!orgState(Org!NoHandle, m.value)
    BY <2>1
  <2> HIDE DEF m
  <2> QED  BY <2>1, <2>2, <2>3, OrgStart DEF Org!Ops
<1>2. ASSUME NEW value \in Names, Org!StartUpdate(value) PROVE Org!IInv'
  <2> DEFINE m == [state EXCEPT !.value = value]
  <2>1. state # None /\ state.pending = "" /\ value # state.value /\ Org!Start("update", "current", m)
    BY <1>2 DEF Org!StartUpdate, Org!MayUpdate
  <2>2. state \in Org!State
    BY <2>1, OrgTypes
  <2>3. m \in Org!State /\ m.value = value /\ m = [state EXCEPT !.value = m.value]
    BY <2>2 DEF Org!State
  <2> HIDE DEF m
  <2> QED  BY <2>1, <2>3, OrgStart DEF Org!Ops
<1>3. CASE Org!StartRead
  <2>1. state # None /\ state \in Org!State /\ Org!Readable(state) /\ Org!FirstRead(state) \in {"ticket", "get"}
    BY <1>3, OrgTypes DEF Org!StartRead, Org!FirstRead
  <2> QED  BY <1>3, <2>1, OrgStart DEF Org!StartRead
<1>4. CASE Org!StartDelete
  <2>1. state # None /\ state \in Org!State /\ Org!Readable(state) /\ Org!FirstRead(state) \in {"ticket", "get"}
    BY <1>4, OrgTypes DEF Org!StartDelete, Org!FirstRead
  <2> QED  BY <1>4, <2>1, OrgStart DEF Org!StartDelete, Org!Ops
<1>5. ASSUME NEW h \in Handles, Org!ImportState(h) PROVE Org!IInv'
  <2>1. PICK value \in Names : state = None /\ h \in given /\ Org!Start("read", "get", Org!orgState(h, value))
    BY <1>5 DEF Org!ImportState
  <2> DEFINE m == Org!orgState(h, value)
  <2>2. m \in Org!State /\ m.handle = h /\ m.pending = "" /\ m.ticket = Org!NoTicket
    BY OrgSettled
  <2>3. Org!Start("read", "get", m)
    BY <2>1
  <2> HIDE DEF m
  <2> QED  BY <2>1, <2>2, <2>3, OrgStart
<1> QED  BY <1>1, <1>2, <1>3, <1>4, <1>5, OrgRecover DEF Org!Begin

\* A call ends with a state that keeps what is known.
LEMMA OrgFinish ==
  ASSUME Org!Assumption, Org!IInv, NEW s \in Org!State \cup {None}, OrgKept(s),
         Org!Finish(s), UNCHANGED <<Org!service, Org!history, Org!bounds>>
  PROVE  Org!IInv'
<1>1. call' = None /\ state' = s
      /\ UNCHANGED <<orgs, given, wire, tickets, sent, named, lost, edits, crashes>>
  BY DEF Org!Finish, Org!service, Org!history, Org!bounds
<1>2. Org!CallInv'
  BY <1>1 DEF Org!CallInv
<1>3. crashes' \in 0 .. MaxCrashes /\ lost' \in BOOLEAN /\ (lost => lost')
  BY <1>1, OrgTypes
<1> QED  BY <1>1, <1>2, <1>3, OrgIdle

\* A call that has sent nothing goes on to an earlier stage than the answer.
LEMMA OrgGoto ==
  ASSUME Org!Assumption, Org!IInv, NEW at \in {"get", "submit"}, call # None,
         call.at \in {"ticket", "get", "current"},
         Org!Goto(at), UNCHANGED <<Org!service, Org!history, Org!bounds>>,
         at = "get" => /\ call.op \in {"read", "delete"} /\ call.m.handle # Org!NoHandle
                       /\ Org!Terminal(call.m.ticket),
         at = "submit" => /\ call.op \in {"update", "delete"} /\ call.m.pending = ""
                          /\ Org!Present(call.m.handle)
  PROVE  Org!IInv'
<1> DEFINE q == [call EXCEPT !.at = at]
<1>1. call \in Org!Call /\ call.n = 0 /\ call.reply = None
  BY OrgTypes DEF Org!CallInv
<1>2. q \in Org!Call /\ q.at = at /\ q.op = call.op /\ q.m = call.m /\ q.n = 0 /\ q.reply = None
  BY <1>1 DEF Org!Call
<1>3. call' = q /\ UNCHANGED <<orgs, given, wire, tickets, state, sent, named, lost, edits, crashes>>
  BY DEF Org!Goto, Org!service, Org!history, Org!bounds
<1> HIDE DEF q
<1>4. OrgKept(state) /\ state \in Org!State \cup {None}
  BY <1>1, OrgKeepsState, OrgTypes DEF Org!Sent
<1>5. call' # None /\ q # None
  BY <1>2, <1>3, OrgTypes
<1>6. Org!CallInv'
  <2>1. Org!CallInv /\ call # None
    BY OrgTypes
  <2>2. Org!Requests' = Org!Requests /\ sent' = sent /\ tickets' = tickets /\ state' = state
    BY <1>3 DEF Org!Requests
  <2>3. \A m : (Org!Sound(m)' <=> Org!Sound(m)) /\ \A t : Org!Terminal(t)' <=> Org!Terminal(t)
    BY <1>3 DEF Org!Sound, Org!Terminal
  <2>4. call.m.pending = "" /\ call.op = "delete" => state.pending = ""
    BY <2>1 DEF Org!CallInv
  <2>5. CASE at = "get"
    BY <1>1, <1>2, <1>3, <1>5, <2>1, <2>2, <2>3, <2>5 DEF Org!CallInv, Org!Requested
  <2>6. CASE at = "submit"
    BY <1>1, <1>2, <1>3, <1>5, <2>1, <2>2, <2>3, <2>4, <2>6 DEF Org!CallInv, Org!Requested
  <2> QED  BY <2>5, <2>6
<1>7. crashes' \in 0 .. MaxCrashes /\ lost' \in BOOLEAN /\ (lost => lost')
  BY <1>3, OrgTypes
<1> QED  BY <1>2, <1>3, <1>4, <1>6, <1>7, OrgIdle

\* A refresh: what it drops is gone, and what it takes as settled is quiet.
LEMMA OrgRefresh ==
  ASSUME Org!Assumption, Org!IInv, Org!ReadGet
  PROVE  Org!IInv'
<1> DEFINE s == Org!Refreshed(call.m)
           m == call.m
<1>1. call # None /\ call.op = "read" /\ call.at = "get" /\ Org!Finish(s)
      /\ UNCHANGED <<Org!service, Org!history, Org!bounds>>
  BY DEF Org!ReadGet, Org!Step
<1>2. /\ call \in Org!Call /\ m \in Org!State /\ Org!Sound(m) /\ m.handle \in Handles
      /\ m.ticket # Org!NoTicket => Org!Terminal(m.ticket)
      /\ IF state = None THEN m.pending = "" ELSE m = state
  <2>1. call \in Org!Call /\ m \in Org!State
    BY <1>1, OrgTypes DEF Org!Call
  <2>2. /\ Org!Sound(m) /\ m.handle # Org!NoHandle
        /\ m.ticket # Org!NoTicket => Org!Terminal(m.ticket)
        /\ IF state = None THEN m.pending = "" ELSE m = state
    BY <1>1, OrgTypes DEF Org!CallInv
  <2> QED  BY <2>1, <2>2, OrgTypes DEF Org!Sound
<1>3. OrgKept(state)
  <2>1. ~Org!Sent
    BY <1>1, OrgTypes DEF Org!CallInv, Org!Sent
  <2> QED  BY <2>1, OrgKeepsState
<1>4. state # None => state \in Org!State
  BY OrgTypes
<1> DEFINE a == Org!orgState(m.handle, orgs[m.handle].value)
<1>5. Org!Present(m.handle) => orgs[m.handle].mine /\ orgs[m.handle].value \in Names
  BY OrgTypes DEF Org!Present, Org!Org, Org!RequestInv
<1>6. Org!Present(m.handle) =>
         /\ a \in Org!State /\ a.handle = m.handle /\ a.pending = ""
         /\ a.ticket = Org!NoTicket /\ a.value = orgs[m.handle].value
  BY <1>2, <1>5, OrgSettled
<1>7. \/ s = m /\ m.pending # ""
      \/ s = None /\ ~Org!Present(m.handle) /\ m.pending \notin {"create", "update"}
      \/ /\ s = a /\ Org!Present(m.handle) /\ m.pending # "delete"
         /\ ~(m.pending = "update" /\ m.ticket = Org!NoTicket /\ m.value # a.value)
  BY DEF Org!Refreshed
<1> HIDE DEF s, m, a
<1>8. \A t \in named : ~lost => tickets[t].status # "open" \/ state # None
  BY <1>3 DEF OrgKept
<1>9. ~lost /\ Org!Present(m.handle) => state # None
  <2> SUFFICES ASSUME ~lost, Org!Present(m.handle) PROVE state # None
    OBVIOUS
  <2>1. m.handle \in Org!Mine
    BY <1>2, <1>5 DEF Org!Mine, Org!Present
  <2> QED  BY <1>3, <2>1 DEF OrgKept
<1>10. ~lost => \A t \in named : tickets[t].status # "open"
  <2> SUFFICES ASSUME ~lost, NEW t \in named, tickets[t].status = "open" PROVE FALSE
    OBVIOUS
  <2>1. state # None /\ state.ticket = t
    BY <1>3 DEF OrgKept
  <2>2. m.ticket = t /\ t # Org!NoTicket
    BY <1>2, <2>1, OrgBounds, OrgTypes
  <2> QED  BY <1>2, <2>2 DEF Org!Terminal
<1>11. CASE s = None /\ ~Org!Present(m.handle) /\ m.pending \notin {"create", "update"}
  <2>1. ~lost => Org!Mine = {} /\ Org!Creations = {}
    <3> SUFFICES ASSUME ~lost PROVE Org!Mine = {} /\ Org!Creations = {}
      OBVIOUS
    <3>1. CASE state = None
      BY <1>3, <3>1 DEF OrgKept
    <3>2. CASE state # None
      BY <1>2, <1>3, <1>11, <3>2 DEF OrgKept, Org!Mine, Org!Present
    <3> QED  BY <3>1, <3>2
  <2>2. ~lost /\ edits = 0 => Org!Outstanding = {}
    <3> SUFFICES ASSUME ~lost, edits = 0, NEW r \in Org!Outstanding PROVE FALSE
      OBVIOUS
    <3>1. state # None /\ m = state /\ r.op = m.pending /\ r.op # "create" /\ r.handle = m.handle
      BY <1>2, <1>3, <1>11 DEF OrgKept, Org!Requested
    <3>2. Org!Present(r.handle)
      BY <3>1, OrgTypes DEF Org!QuietInv
    <3> QED  BY <1>11, <3>1, <3>2
  <2>3. OrgKept(s)
    BY <1>10, <1>11, <2>1, <2>2 DEF OrgKept
  <2> QED  BY <1>1, <1>11, <2>3, OrgFinish
<1>12. CASE s = m /\ m.pending # ""
  BY <1>1, <1>2, <1>3, <1>12, OrgFinish
<1>13. CASE /\ s = a /\ Org!Present(m.handle) /\ m.pending # "delete"
            /\ ~(m.pending = "update" /\ m.ticket = Org!NoTicket /\ m.value # a.value)
  <2>1. ~lost => m = state
    BY <1>2, <1>9, <1>13
  <2>2. ~lost => Org!Creations = {} /\ Org!Mine \subseteq {m.handle}
    <3>1. CASE m.pending = "create"
      <4> SUFFICES ASSUME ~lost PROVE Org!Creations = {} /\ Org!Mine \subseteq {m.handle}
        OBVIOUS
      <4>1. Org!Told(m.handle, m.ticket) /\ m.handle # Org!NoHandle
        BY <1>2, <1>3, <1>9, <1>13, <2>1, <3>1, OrgTypes DEF OrgKept
      <4>2. CASE m.ticket = Org!NoTicket
        BY <4>1, <4>2 DEF Org!Told
      <4>3. CASE m.ticket # Org!NoTicket
        <5>1. tickets[m.ticket].status # "open" /\ tickets[m.ticket].request.handle = m.handle
          BY <1>2, <4>1, <4>3 DEF Org!Terminal, Org!Sound
        <5> QED  BY <4>1, <4>3, <5>1 DEF Org!Told
      <4> QED  BY <4>2, <4>3
    <3>2. CASE m.pending # "create"
      BY <1>3, <1>9, <1>13, <2>1, <3>2 DEF OrgKept
    <3> QED  BY <3>1, <3>2
  <2>3. ~lost /\ edits = 0 => Org!Outstanding = {}
    <3> SUFFICES ASSUME ~lost, edits = 0, NEW r \in Org!Outstanding PROVE FALSE
      OBVIOUS
    <3>1. /\ m = state /\ Org!Requested(r, m.pending, m)
          /\ m.ticket # Org!NoTicket => tickets[m.ticket].status = "open"
      BY <1>3, <2>1 DEF OrgKept
    <3>2. m.ticket = Org!NoTicket
      BY <1>2, <3>1 DEF Org!Terminal
    <3>3. r.op = m.pending /\ r.value = m.value /\ (r.op # "create" => r.handle = m.handle)
      BY <3>1 DEF Org!Requested
    <3>4. r.op \in Org!Ops /\ r \notin Org!Creations
      BY <2>2, OrgRequests DEF Org!Request
    <3>5. r.op = "update"
      BY <1>13, <3>3, <3>4 DEF Org!Ops, Org!Creations
    <3>6. orgs[r.handle].value # r.value
      BY <3>5, OrgTypes DEF Org!QuietInv
    <3> QED  BY <1>6, <1>13, <3>2, <3>3, <3>5, <3>6
  <2>4. s \in Org!State /\ s # None /\ Org!Sound(s)
    BY <1>6, <1>13, OrgTypes DEF Org!Sound, Org!Present
  <2>5. OrgKept(s)
    BY <1>6, <1>10, <1>13, <2>2, <2>3, <2>4 DEF OrgKept
  <2> QED  BY <1>1, <2>4, <2>5, OrgFinish
<1> QED  BY <1>7, <1>11, <1>12, <1>13

\* From a settled state that has lost its organization nothing is left.
LEMMA OrgGone ==
  ASSUME Org!Assumption, Org!IInv, state # None, ~Org!Present(state.handle),
         state.pending \in {"", "delete"},
         ~lost => \A t \in named : tickets[t].status # "open",
         ~lost /\ edits = 0 =>
           \A r \in Org!Outstanding : r.op # "create" /\ r.handle = state.handle
  PROVE  OrgKept(None)
<1>1. ~lost => Org!Creations = {} /\ Org!Mine \subseteq {state.handle}
  BY OrgTypes DEF Org!CreateInv
<1>2. ~lost => Org!Mine = {}
  BY <1>1 DEF Org!Mine, Org!Present
<1>3. ~lost /\ edits = 0 => Org!Outstanding = {}
  <2> SUFFICES ASSUME ~lost, edits = 0, NEW r \in Org!Outstanding PROVE FALSE
    OBVIOUS
  <2>1. r.op # "create" => Org!Present(r.handle)
    BY OrgTypes DEF Org!QuietInv
  <2> QED  BY <2>1
<1> QED  BY <1>1, <1>2, <1>3 DEF OrgKept

\* A call about to write, or that has written, answers for all that is still
\* to take effect, and started from a settled state or from none.
LEMMA OrgWrites ==
  ASSUME Org!Assumption, Org!IInv, call # None, call.at \in {"current", "submit", "answer", "verify"}
  PROVE  /\ call.op \in Org!Ops /\ (call.op = "create" <=> state = None)
         /\ call.op = "create" => call.m.handle = Org!NoHandle
         /\ call.op # "create" =>
              /\ state \in Org!State /\ Org!Sound(state) /\ state.handle \in given
              /\ state.pending = "" /\ state.ticket = Org!NoTicket
              /\ call.m.handle = state.handle /\ call.m.pending = "" /\ call.m.ticket = Org!NoTicket
         /\ call.op = "delete" => call.m = state
         /\ call \in Org!Call /\ call.m \in Org!State
         /\ ~lost => \A t \in named : tickets[t].status = "open" =>
                                        call.reply # None /\ call.reply.ticket = t
         /\ ~lost /\ edits = 0 =>
              \A r \in Org!Outstanding : Org!Sent /\ r.n = call.n /\ Org!Requested(r, call.op, call.m)
<1>1. call \in Org!Call /\ call.m \in Org!State /\ call.op \in {"create", "update", "delete", "read"}
  BY OrgTypes DEF Org!Call, Org!Ops
<1>2. call.op # "read"
  BY OrgTypes DEF Org!CallInv
<1>3. /\ call.op = "create" => state = None /\ call.m = Org!orgState(Org!NoHandle, call.m.value)
      /\ call.op # "create" => state # None /\ state.pending = ""
  BY <1>1, <1>2, OrgTypes DEF Org!CallInv
<1>4. call.op # "create" =>
        /\ state \in Org!State /\ Org!Sound(state) /\ state.handle \in given
        /\ state.ticket = Org!NoTicket
  BY <1>3, OrgTypes DEF Org!StateInv, Org!Sound
<1>5. call.op = "delete" => call.m = state
  BY <1>2, OrgTypes DEF Org!CallInv
<1>6. call.op = "update" => call.m = [state EXCEPT !.value = call.m.value]
  BY <1>2, OrgTypes DEF Org!CallInv
<1>7. call.op # "create" =>
        call.m.handle = state.handle /\ call.m.pending = "" /\ call.m.ticket = Org!NoTicket
  BY <1>1, <1>2, <1>3, <1>4, <1>5, <1>6 DEF Org!State
<1>10. call.op = "create" => call.m.handle = Org!NoHandle
  <2>1. \A value : Org!orgState(Org!NoHandle, value).handle = Org!NoHandle
    BY DEF Org!orgState
  <2> QED  BY <1>3, <2>1
<1>8. ~lost => \A t \in named : tickets[t].status = "open" =>
                                  call.reply # None /\ call.reply.ticket = t
  <2> SUFFICES ASSUME ~lost, NEW t \in named, tickets[t].status = "open"
               PROVE  call.reply # None /\ call.reply.ticket = t
    OBVIOUS
  <2>1. t # Org!NoTicket
    BY OrgBounds, OrgTypes
  <2> QED  BY <1>3, <1>4, <2>1, OrgTypes DEF Org!TicketInv
<1>9. ~lost /\ edits = 0 =>
        \A r \in Org!Outstanding : Org!Sent /\ r.n = call.n /\ Org!Requested(r, call.op, call.m)
  <2> SUFFICES ASSUME ~lost, edits = 0, NEW r \in Org!Outstanding
               PROVE  Org!Sent /\ r.n = call.n /\ Org!Requested(r, call.op, call.m)
    OBVIOUS
  <2>1. r.op \in Org!Ops /\ r \in Org!Requests
    BY OrgRequests DEF Org!Request
  <2>2. IF Org!Sent THEN r.n = call.n ELSE state # None /\ Org!Requested(r, state.pending, state)
    BY OrgTypes DEF Org!QuietInv
  <2>3. Org!Sent
    BY <1>3, <2>1, <2>2 DEF Org!Requested, Org!Ops
  <2> QED  BY <2>1, <2>2, <2>3, OrgTypes DEF Org!CallInv
<1> QED  BY <1>1, <1>2, <1>3, <1>4, <1>5, <1>7, <1>8, <1>9, <1>10 DEF Org!Ops

\* What is known of the write goes to the pending state.
LEMMA OrgPending ==
  ASSUME Org!Assumption, Org!IInv, call # None, call.at \in {"current", "answer", "verify"},
         NEW a \in Org!Reply,
         \/ a = call.reply
         \/ /\ a = Org!Uncertain /\ call.op # "create"
            /\ call.reply # None => call.reply.ticket = Org!NoTicket
  PROVE  OrgKept(Org!pendingOrg(call.m, call.op, a)) /\ Org!pendingOrg(call.m, call.op, a) \in Org!State
<1> DEFINE s == Org!pendingOrg(call.m, call.op, a)
<1>1. /\ a.handle # Org!NoHandle => a.handle \in given /\ (call.op # "create" => a.handle = call.m.handle)
      /\ a.ticket # Org!NoTicket =>
           /\ a.ticket \in DOMAIN tickets /\ tickets[a.ticket].request.n = call.n
           /\ a.handle # Org!NoHandle => tickets[a.ticket].request.handle = a.handle
      /\ a.handle \in Handles \cup {Org!NoHandle} /\ a.ticket \in Org!Tickets \cup {Org!NoTicket}
  <2>1. CASE a = call.reply
    BY <2>1, OrgTypes DEF Org!ReplyInv, Org!Reply
  <2>2. CASE a = Org!Uncertain
    BY <2>2 DEF Org!Uncertain, Org!Reply_
  <2> QED  BY <2>1, <2>2
<1>2. call.op \in Org!Ops /\ call.m \in Org!State
  BY OrgWrites
<1>3. /\ s \in Org!State /\ s.handle = IF a.handle # Org!NoHandle THEN a.handle ELSE call.m.handle
      /\ s.value = call.m.value /\ s.pending = call.op /\ s.ticket = a.ticket
  BY <1>1, <1>2 DEF Org!pendingOrg, Org!State
<1>4. s # None
  BY <1>3, OrgTypes
<1> HIDE DEF s
<1>5. call.op # "create" => s.handle = call.m.handle /\ s.handle = state.handle /\ s.handle \in given
  BY <1>1, <1>3, OrgWrites
<1>6. call.op = "create" => s.handle = a.handle
  BY <1>3, OrgWrites
<1>7. a.ticket # Org!NoTicket =>
        /\ tickets[a.ticket].request.op = call.op
        /\ call.op # "create" => tickets[a.ticket].request.handle = call.m.handle
  BY <1>1, OrgRequests, OrgTypes DEF Org!CallInv, Org!Requested
<1>8. Org!Sound(s)
  <2>1. s.handle \in given \/ (s.pending = "create" /\ s.handle = Org!NoHandle)
    BY <1>1, <1>3, <1>5, <1>6
  <2>2. s.pending # ""
    BY <1>2, <1>3 DEF Org!Ops
  <2>3. s.ticket # Org!NoTicket /\ s.handle # Org!NoHandle => tickets[s.ticket].request.handle = s.handle
    BY <1>1, <1>3, <1>5, <1>6, <1>7
  <2> QED  BY <1>1, <1>3, <1>7, <2>1, <2>2, <2>3 DEF Org!Sound
<1>9. ~lost => \A t \in named : tickets[t].status = "open" => s # None /\ s.ticket = t
  <2> SUFFICES ASSUME ~lost, NEW t \in named, tickets[t].status = "open" PROVE s.ticket = t
    BY <1>4
  <2>1. call.reply # None /\ call.reply.ticket = t /\ t # Org!NoTicket
    BY OrgWrites, OrgBounds, OrgTypes
  <2> QED  BY <1>3, <2>1
<1>10. ~lost =>
       /\ s.pending = "create" => Org!Told(s.handle, s.ticket)
       /\ s.pending # "create" => Org!Creations = {} /\ Org!Mine \subseteq {s.handle}
  <2> SUFFICES ASSUME ~lost
               PROVE  /\ call.op = "create" => Org!Told(s.handle, s.ticket)
                      /\ call.op # "create" => Org!Creations = {} /\ Org!Mine \subseteq {s.handle}
    BY <1>3
  <2>1. call.op # "create" => Org!Creations = {} /\ Org!Mine \subseteq {s.handle}
    BY <1>5, OrgWrites, OrgTypes DEF Org!CreateInv
  <2>2. call.op = "create" => Org!Told(s.handle, s.ticket)
    BY <1>3, <1>6, OrgTypes DEF Org!CreateInv
  <2> QED  BY <2>1, <2>2
<1>11. ~lost /\ edits = 0 =>
         \A r \in Org!Outstanding :
            /\ Org!Requested(r, s.pending, s)
            /\ s.ticket # Org!NoTicket => tickets[s.ticket].status = "open"
  <2> SUFFICES ASSUME ~lost, edits = 0, NEW r \in Org!Outstanding
               PROVE  /\ Org!Requested(r, s.pending, s)
                      /\ s.ticket # Org!NoTicket => tickets[s.ticket].status = "open"
    OBVIOUS
  <2>1. Org!Sent /\ Org!Requested(r, call.op, call.m)
    BY OrgWrites
  <2>2. Org!Requested(r, s.pending, s)
    BY <1>3, <1>5, <2>1 DEF Org!Requested
  <2>3. a.ticket # Org!NoTicket => a = call.reply
    BY DEF Org!Uncertain, Org!Reply_
  <2>4. s.ticket # Org!NoTicket => tickets[s.ticket].status = "open"
    BY <1>3, <2>1, <2>3, OrgTypes DEF Org!QuietInv
  <2> QED  BY <2>2, <2>4
<1>12. s.pending # ""
  BY <1>2, <1>3 DEF Org!Ops
<1>13. OrgKept(s)
  BY <1>4, <1>8, <1>9, <1>10, <1>11, <1>12 DEF OrgKept
<1> QED  BY <1>3, <1>13 DEF s

\* The steps of a call before its answer.
LEMMA OrgReads ==
  ASSUME Org!Assumption, Org!IInv,
         Org!ReadTicket \/ Org!DeleteGet \/ Org!UpdateCurrent \/ Org!Fail("ticket") \/ Org!Fail("get")
  PROVE  Org!IInv'
<1>1. call # None /\ call.at \in {"ticket", "get", "current"} /\ UNCHANGED <<Org!service, Org!history, Org!bounds>>
  BY DEF Org!ReadTicket, Org!DeleteGet, Org!UpdateCurrent, Org!Fail, Org!Step
<1>2. ~Org!Sent
  BY <1>1, OrgTypes DEF Org!CallInv, Org!Sent
<1>3. OrgKept(state) /\ state \in Org!State \cup {None}
  BY <1>2, OrgKeepsState, OrgTypes
<1>4. ASSUME Org!Finish(state) PROVE Org!IInv'
  BY <1>1, <1>3, <1>4, OrgFinish
<1>5. CASE Org!ReadTicket
  BY <1>1, <1>4, <1>5, OrgGoto DEF Org!ReadTicket, Org!Step, Org!PendingTicket
<1>6. CASE Org!Fail("ticket") \/ Org!Fail("get")
  BY <1>4, <1>6 DEF Org!Fail
<1>7. CASE Org!DeleteGet
  <2>1. call.op = "delete" /\ call.at = "get" /\ state # None /\ call.m = state
    BY <1>7, OrgTypes DEF Org!DeleteGet, Org!Step, Org!CallInv
  <2>2. ASSUME Org!Finish(None), ~Org!Present(state.handle), state.pending \in {"", "delete"}
        PROVE  Org!IInv'
    <3>1. ~lost => \A t \in named : tickets[t].status # "open"
      <4> SUFFICES ASSUME ~lost, NEW t \in named, tickets[t].status = "open" PROVE FALSE
        OBVIOUS
      <4>1. state.ticket = t /\ t # Org!NoTicket
        BY <1>3, OrgBounds, OrgTypes DEF OrgKept
      <4>2. Org!Terminal(call.m.ticket)
        BY <1>1, <2>1, <4>1, OrgTypes DEF Org!CallInv
      <4> QED  BY <2>1, <4>1, <4>2 DEF Org!Terminal
    <3>2. ~lost /\ edits = 0 => \A r \in Org!Outstanding : r.op # "create" /\ r.handle = state.handle
      BY <1>3, <2>2 DEF OrgKept, Org!Requested
    <3> QED  BY <1>1, <2>1, <2>2, <3>1, <3>2, OrgGone, OrgFinish
  <2>3. CASE state.pending = ""
    BY <1>1, <1>7, <2>1, <2>2, <2>3, OrgGoto DEF Org!DeleteGet
  <2>4. CASE state.pending # ""
    BY <1>4, <1>7, <2>1, <2>2, <2>4 DEF Org!DeleteGet
  <2> QED  BY <2>3, <2>4
<1>8. CASE Org!UpdateCurrent
  <2>1. call.op = "update" /\ call.at = "current" /\ call.m.pending = ""
    BY <1>8, OrgWrites DEF Org!UpdateCurrent, Org!Step
  <2>2. CASE Org!Present(call.m.handle) /\ Org!Goto("submit")
    BY <1>1, <2>1, <2>2, OrgGoto
  <2>3. CASE Org!Finish(Org!pendingOrg(call.m, "update", Org!Uncertain))
    <3>1. Org!Uncertain \in Org!Reply
      BY DEF Org!Uncertain, Org!Reply_, Org!Reply
    <3>2. call.reply = None
      BY <1>1, <2>1, OrgTypes DEF Org!CallInv
    <3> QED  BY <1>1, <2>1, <2>3, <3>1, <3>2, OrgPending, OrgFinish
  <2> QED  BY <1>4, <1>8, <2>2, <2>3 DEF Org!UpdateCurrent
<1> QED  BY <1>5, <1>6, <1>7, <1>8

\* A request that was never sent has an uncertain outcome, and sends nothing.
LEMMA OrgUnsent == ASSUME Org!Assumption, Org!IInv, Org!Unsent PROVE Org!IInv'
<1> DEFINE q == [call EXCEPT !.at = "answer", !.reply = Org!Uncertain]
<1>1. /\ call \in Org!Call /\ call # None /\ call.at = "submit" /\ call.n = 0 /\ call' = q
      /\ UNCHANGED <<orgs, given, wire, tickets, state, sent, named, lost, edits, crashes>>
  BY OrgTypes DEF Org!Unsent, Org!CallInv, Org!service, Org!history, Org!bounds
<1>2. q \in Org!Call /\ q.at = "answer" /\ q.op = call.op /\ q.m = call.m /\ q.n = 0 /\ q.reply = Org!Uncertain
  BY <1>1 DEF Org!Call, Org!Uncertain, Org!Reply_, Org!Reply
<1> HIDE DEF q
<1>3. OrgKept(state) /\ state \in Org!State \cup {None}
  BY <1>1, OrgKeepsState, OrgTypes DEF Org!Sent
<1>4. Org!CallInv'
  <2>1. Org!CallInv /\ call # None /\ call' = q /\ q # None
    BY <1>1, <1>2, OrgTypes
  <2>2. Org!Requests' = Org!Requests /\ sent' = sent /\ state' = state
    BY <1>1 DEF Org!Requests
  <2>3. \A m : Org!Sound(m)' <=> Org!Sound(m)
    BY <1>1 DEF Org!Sound
  <2> QED  BY <1>1, <1>2, <2>1, <2>2, <2>3 DEF Org!CallInv, Org!Requested
<1>5. crashes' \in 0 .. MaxCrashes /\ lost' \in BOOLEAN /\ (lost => lost')
  BY <1>1, OrgTypes
<1> QED  BY <1>1, <1>2, <1>3, <1>4, <1>5, OrgIdle

\* Once an outcome is lost, nothing is promised of what state knows.
LEMMA OrgLosesOutcome ==
  ASSUME Org!Assumption, Org!IInv, lost' = TRUE, call' = None, crashes' \in 0 .. MaxCrashes,
         UNCHANGED <<orgs, given, wire, tickets, state, sent, named, edits>>
  PROVE  Org!IInv'
<1>1. Org!TypeOK'
  BY OrgTypes DEF Org!TypeOK
<1>2. Org!RequestInv'
  BY OrgTypes DEF Org!RequestInv, Org!Requests
<1>3. Org!StateInv'
  BY OrgTypes DEF Org!StateInv, Org!Sound
<1>4. Org!CallInv' /\ Org!ReplyInv'
  BY DEF Org!CallInv, Org!ReplyInv
<1>5. Org!TicketInv' /\ Org!CreateInv' /\ Org!QuietInv'
  BY DEF Org!TicketInv, Org!CreateInv, Org!QuietInv
<1> QED  BY <1>1, <1>2, <1>3, <1>4, <1>5 DEF Org!IInv

\* A crash loses an outcome only during a submission.
LEMMA OrgCrash == ASSUME Org!Assumption, Org!IInv, Org!Crash PROVE Org!IInv'
<1>1. /\ call # None /\ call' = None /\ crashes < MaxCrashes /\ crashes' = crashes + 1
      /\ lost' = (lost \/ call.n # 0)
      /\ UNCHANGED <<orgs, given, wire, tickets, state, sent, named, edits>>
  BY DEF Org!Crash, Org!service
<1>2. crashes' \in 0 .. MaxCrashes
  BY <1>1, OrgTypes
<1>3. Org!CallInv'
  BY <1>1 DEF Org!CallInv
<1>4. lost' \in BOOLEAN /\ (lost => lost')
  BY <1>1, OrgTypes
<1>5. CASE call.n = 0
  <2>1. OrgKept(state) /\ state \in Org!State \cup {None}
    BY <1>5, OrgKeepsState, OrgTypes DEF Org!Sent
  <2> QED  BY <1>1, <1>2, <1>3, <1>4, <2>1, OrgIdle
<1>6. CASE call.n # 0
  <2>1. lost' = TRUE
    BY <1>1, <1>6
  <2> QED  BY <1>1, <1>2, <2>1, OrgLosesOutcome
<1> QED  BY <1>5, <1>6

\* An answer other than an uncertain one is that of a request.
LEMMA OrgAnswered ==
  ASSUME Org!Assumption, Org!IInv, call # None, call.reply # None
  PROVE  /\ call.reply \in Org!Reply
         /\ call.reply.kind # "uncertain" => Org!Sent
         /\ call.at \in {"answer", "verify"}
<1>1. call.reply \in Org!Reply
  BY OrgTypes DEF Org!Call
<1>3. call.at \in {"answer", "verify"}
  BY OrgTypes DEF Org!Call, Org!CallInv
<1>2. Org!Uncertain.kind = "uncertain"
  BY DEF Org!Uncertain, Org!Reply_
<1> QED  BY <1>1, <1>2, <1>3, OrgTypes DEF Org!ReplyInv, Org!Sent

\* A call that has sent its request awaits or verifies the answer.
LEMMA OrgSentAt ==
  ASSUME Org!Assumption, Org!IInv, Org!Sent
  PROVE  call # None /\ call.at \in {"answer", "verify"}
BY OrgTypes DEF Org!Sent, Org!Call, Org!CallInv

\* A refused write leaves the state as it was.
LEMMA OrgRefused ==
  ASSUME Org!Assumption, Org!IInv, call # None, call.at = "answer", call.reply # None,
         Org!netDefinitiveFailure(call.reply)
  PROVE  OrgKept(state)
<1>1. call.reply.ticket = Org!NoTicket
  BY OrgTypes DEF Org!ReplyInv, Org!netDefinitiveFailure
<1>2. ~lost => \A t \in named : tickets[t].status # "open"
  BY <1>1, OrgWrites, OrgBounds, OrgTypes
<1>3. Org!Sent
  BY OrgAnswered DEF Org!netDefinitiveFailure
<1>4. state # None => Org!Sound(state) /\ state.pending = "" /\ state.pending # "create"
  BY OrgWrites
<1>5. ~lost =>
       /\ state = None => Org!Mine = {} /\ Org!Creations = {}
       /\ state # None => Org!Creations = {} /\ Org!Mine \subseteq {state.handle}
  BY <1>4, OrgWrites, OrgTypes DEF Org!CreateInv
<1>6. ~lost /\ edits = 0 => Org!Outstanding = {}
  BY <1>3, OrgTypes DEF Org!QuietInv
<1>7. ~lost /\ edits = 0 /\ state # None /\ Org!Present(state.handle) => orgs[state.handle].value = state.value
  BY <1>4, OrgTypes DEF Org!QuietInv
<1> QED  BY <1>2, <1>4, <1>5, <1>6, <1>7 DEF OrgKept

\* The answer of a creation or an update settles the state or leaves it pending.
LEMMA OrgWriteAnswered == ASSUME Org!Assumption, Org!IInv, Org!WriteAnswered PROVE Org!IInv'
<1> DEFINE a == call.reply
           s == Org!orgState(a.handle, call.m.value)
<1>1. /\ call # None /\ call.op \in {"create", "update"} /\ call.at = "answer" /\ a # None
      /\ UNCHANGED <<Org!service, Org!history, Org!bounds>>
      /\ Org!Finish(IF Org!orgWriteComplete(a) THEN s
                  ELSE IF Org!netDefinitiveFailure(a) THEN state
                  ELSE Org!pendingOrg(call.m, call.op, a))
  BY DEF Org!WriteAnswered, Org!Answered, Org!Step
<1>2. a \in Org!Reply
  BY <1>1, OrgAnswered
<1>3. CASE Org!orgWriteComplete(a)
  <2>1. a.kind = "ok" /\ a.handle # Org!NoHandle /\ a.ticket = Org!NoTicket
    BY <1>3 DEF Org!orgWriteComplete
  <2>2. a.handle \in given /\ a.handle \in Handles /\ call.m.value \in Names
    BY <1>1, <2>1, OrgWrites, OrgTypes DEF Org!ReplyInv, Org!State
  <2>3. /\ s \in Org!State /\ s.handle = a.handle /\ s.value = call.m.value
        /\ s.pending = "" /\ s.ticket = Org!NoTicket
    BY <2>2, OrgSettled
  <2> HIDE DEF s
  <2>4. s # None /\ Org!Sound(s)
    BY <2>2, <2>3, OrgTypes DEF Org!Sound
  <2>5. ~lost => \A t \in named : tickets[t].status # "open"
    BY <1>1, <2>1, OrgWrites, OrgBounds, OrgTypes
  <2>6. ~lost => Org!Creations = {} /\ Org!Mine \subseteq {a.handle}
    <3>1. CASE call.op = "create"
      BY <1>1, <2>1, <3>1, OrgTypes DEF Org!CreateInv, Org!Told
    <3>2. CASE call.op = "update"
      <4>1. state # None /\ state.pending # "create" /\ a.handle = state.handle
        BY <1>1, <2>1, <3>2, OrgWrites, OrgTypes DEF Org!ReplyInv
      <4> QED  BY <4>1, OrgTypes DEF Org!CreateInv
    <3> QED  BY <1>1, <3>1, <3>2
  <2>7. Org!Sent
    BY <1>1, <2>1, OrgAnswered
  <2>8. ~lost /\ edits = 0 => Org!Outstanding = {}
    BY <1>1, <1>3, <2>7, OrgTypes DEF Org!QuietInv
  <2>9. ~lost /\ edits = 0 /\ Org!Present(a.handle) => orgs[a.handle].value = call.m.value
    BY <1>1, <1>3, <2>7, OrgTypes DEF Org!QuietInv
  <2>10. OrgKept(s)
    BY <2>3, <2>4, <2>5, <2>6, <2>8, <2>9 DEF OrgKept
  <2> QED  BY <1>1, <1>3, <2>3, <2>10, OrgFinish
<1>4. CASE ~Org!orgWriteComplete(a) /\ Org!netDefinitiveFailure(a)
  BY <1>1, <1>4, OrgRefused, OrgFinish, OrgTypes
<1>5. CASE ~Org!orgWriteComplete(a) /\ ~Org!netDefinitiveFailure(a)
  BY <1>1, <1>2, <1>5, OrgPending, OrgFinish
<1> QED  BY <1>3, <1>4, <1>5

\* A running call hears or verifies more; what is known stays.
LEMMA OrgHears ==
  ASSUME Org!Assumption, Org!IInv, call # None, call.at = "answer",
         NEW q \in Org!Call, call' = q, q.op = call.op, q.m = call.m, q.n = call.n,
         q.at \in {"answer", "verify"}, q.reply # None,
         UNCHANGED <<orgs, given, wire, tickets, state, sent, named, lost, edits, crashes>>,
         \/ call.reply = None /\ q.reply = Org!Uncertain /\ q.at = "answer"
         \/ q.reply = call.reply /\ call.op = "delete" /\ q.reply.ticket = Org!NoTicket
  PROVE  Org!IInv'
<1>1. q # None /\ state' = state /\ sent' = sent
  BY OrgTypes
<1>2. /\ Org!Uncertain.kind = "uncertain" /\ Org!Uncertain.handle = Org!NoHandle
      /\ Org!Uncertain.ticket = Org!NoTicket
  BY DEF Org!Uncertain, Org!Reply_
<1>3. Org!TypeOK'
  BY OrgTypes DEF Org!TypeOK
<1>4. Org!RequestInv'
  BY OrgTypes DEF Org!RequestInv, Org!Requests
<1>5. Org!StateInv'
  BY OrgTypes DEF Org!StateInv, Org!Sound
<1>6. /\ Org!Requests' = Org!Requests /\ Org!Outstanding' = Org!Outstanding
      /\ Org!Mine' = Org!Mine /\ Org!Creations' = Org!Creations
  BY DEF Org!Requests, Org!Outstanding, Org!Mine, Org!Creations
<1>7. Org!CallInv'
  <2>1. Org!CallInv
    BY OrgTypes
  <2>2. \A m : Org!Sound(m)' <=> Org!Sound(m)
    BY DEF Org!Sound
  <2> QED  BY <1>1, <1>2, <1>6, <2>1, <2>2 DEF Org!CallInv, Org!Requested
<1>8. Org!ReplyInv'
  BY <1>1, <1>2, OrgTypes DEF Org!ReplyInv
<1>9. Org!TicketInv'
  BY <1>1, OrgTypes DEF Org!TicketInv
<1>10. Org!Sent' <=> Org!Sent
  BY <1>1 DEF Org!Sent
<1>11. \A h, t : Org!Told(h, t)' <=> Org!Told(h, t)
  BY <1>6 DEF Org!Told
<1>12. \A h : Org!Present(h)' <=> Org!Present(h)
  BY DEF Org!Present
<1>13. Org!Told(Org!NoHandle, Org!NoTicket)
  BY DEF Org!Told
<1>14. Org!CreateInv'
  <2> SUFFICES ASSUME ~lost PROVE Org!CreateInv'
    BY DEF Org!CreateInv
  <2>1. Org!NoSecondOrganization'
    BY <1>6, OrgTypes DEF Org!CreateInv, Org!NoSecondOrganization
  <2> QED  BY <1>1, <1>2, <1>6, <1>10, <1>11, <1>12, <1>13, <2>1, OrgTypes
            DEF Org!CreateInv, Org!netDefinitiveFailure
<1>15. Org!QuietInv'
  <2> SUFFICES ASSUME ~lost, edits = 0 PROVE Org!QuietInv'
    BY DEF Org!QuietInv
  <2> QED  BY <1>1, <1>2, <1>6, <1>10, <1>12, OrgTypes
            DEF Org!QuietInv, Org!netDefinitiveFailure, Org!orgWriteComplete
<1> QED  BY <1>3, <1>4, <1>5, <1>7, <1>8, <1>9, <1>14, <1>15 DEF Org!IInv

\* A call that hears nothing takes the outcome as uncertain.
LEMMA OrgNoAnswer == ASSUME Org!Assumption, Org!IInv, Org!NoAnswer PROVE Org!IInv'
<1> DEFINE q == [call EXCEPT !.reply = Org!Uncertain]
<1>1. /\ call \in Org!Call /\ call # None /\ call.at = "answer" /\ call.reply = None /\ call' = q
      /\ UNCHANGED <<orgs, given, wire, tickets, state, sent, named, lost, edits, crashes>>
  BY OrgTypes DEF Org!NoAnswer, Org!service, Org!history, Org!bounds
<1>2. Org!Uncertain \in Org!Reply
  BY DEF Org!Uncertain, Org!Reply_, Org!Reply
<1>3. /\ q \in Org!Call /\ q.at = "answer" /\ q.op = call.op /\ q.m = call.m /\ q.n = call.n
      /\ q.reply = Org!Uncertain
  BY <1>1, <1>2 DEF Org!Call
<1>4. q.reply # None
  BY <1>2, <1>3, OrgTypes
<1> HIDE DEF q
<1> QED  BY <1>1, <1>3, <1>4, OrgHears

\* The answer of a deletion: absence, a refusal, a pending marker, or a read.
LEMMA OrgDeleteAnswered == ASSUME Org!Assumption, Org!IInv, Org!DeleteAnswered PROVE Org!IInv'
<1> DEFINE a == call.reply
<1>1. /\ call # None /\ call.op = "delete" /\ call.at = "answer" /\ a # None
      /\ UNCHANGED <<Org!service, Org!history, Org!bounds>>
      /\ IF a.kind = "ok" /\ a.ticket = Org!NoTicket THEN Org!Goto("verify")
         ELSE Org!Finish(CASE a.kind = "missing" -> None
                         [] a.kind = "rejected" -> state
                         [] OTHER -> Org!pendingOrg(call.m, "delete", a))
  BY DEF Org!DeleteAnswered, Org!Answered, Org!Step
<1>2. a \in Org!Reply
  BY <1>1, OrgAnswered
<1>3. CASE a.kind = "ok" /\ a.ticket = Org!NoTicket
  <2> DEFINE q == [call EXCEPT !.at = "verify"]
  <2>1. call' = q /\ UNCHANGED <<orgs, given, wire, tickets, state, sent, named, lost, edits, crashes>>
    BY <1>1, <1>3 DEF Org!Goto, Org!service, Org!history, Org!bounds
  <2>2. call \in Org!Call
    BY <1>1, OrgTypes
  <2>3. /\ q \in Org!Call /\ q.at = "verify" /\ q.op = call.op /\ q.m = call.m /\ q.n = call.n
        /\ q.reply = a
    BY <2>2 DEF Org!Call
  <2> HIDE DEF q
  <2> QED  BY <1>1, <1>3, <2>1, <2>3, OrgHears
<1>4. CASE a.kind = "missing"
  <2>1. Org!Finish(None) /\ a.ticket = Org!NoTicket
    BY <1>1, <1>4, OrgTypes DEF Org!ReplyInv
  <2>2. state # None /\ state.pending = "" /\ call.m.handle = state.handle
    BY <1>1, OrgWrites
  <2>3. ~lost => ~Org!Present(state.handle)
    BY <1>1, <1>4, <2>2, OrgTypes DEF Org!CreateInv
  <2>4. ~lost => \A t \in named : tickets[t].status # "open"
    BY <1>1, <2>1, OrgWrites, OrgBounds, OrgTypes
  <2>5. ~lost /\ edits = 0 => Org!Outstanding = {}
    BY <1>1, <1>4, OrgAnswered, OrgTypes DEF Org!QuietInv, Org!netDefinitiveFailure
  <2>8. OrgKept(None)
    <3>1. CASE lost
      BY <3>1 DEF OrgKept
    <3>2. CASE ~lost
      BY <2>2, <2>3, <2>4, <2>5, <3>2, OrgGone
    <3> QED  BY <3>1, <3>2
  <2> QED  BY <1>1, <2>1, <2>8, OrgFinish
<1>5. CASE a.kind = "rejected"
  <2>1. Org!Finish(state)
    BY <1>1, <1>5
  <2>2. OrgKept(state)
    BY <1>1, <1>5, OrgRefused DEF Org!netDefinitiveFailure
  <2> QED  BY <1>1, <2>1, <2>2, OrgFinish, OrgTypes
<1>6. CASE ~(a.kind = "ok" /\ a.ticket = Org!NoTicket) /\ a.kind \notin {"missing", "rejected"}
  <2>1. Org!Finish(Org!pendingOrg(call.m, "delete", a))
    BY <1>1, <1>6
  <2> QED  BY <1>1, <1>2, <2>1, OrgPending, OrgFinish
<1> QED  BY <1>3, <1>4, <1>5, <1>6

\* The read after an accepted deletion finds it done, or leaves it pending.
LEMMA OrgVerify == ASSUME Org!Assumption, Org!IInv, Org!Verify PROVE Org!IInv'
<1>1. /\ call # None /\ call.op = "delete" /\ call.at = "verify"
      /\ UNCHANGED <<Org!service, Org!history, Org!bounds>>
      /\ \/ Org!Finish(None) /\ ~Org!Present(call.m.handle)
         \/ Org!Finish(Org!pendingOrg(call.m, "delete", Org!Uncertain))
  BY DEF Org!Verify, Org!Step
<1>2. call.reply # None /\ call.reply.ticket = Org!NoTicket
  BY <1>1, OrgTypes DEF Org!CallInv
<1>3. CASE Org!Finish(Org!pendingOrg(call.m, "delete", Org!Uncertain))
  <2>1. Org!Uncertain \in Org!Reply
    BY DEF Org!Uncertain, Org!Reply_, Org!Reply
  <2> QED  BY <1>1, <1>2, <1>3, <2>1, OrgPending, OrgFinish
<1>4. CASE Org!Finish(None) /\ ~Org!Present(call.m.handle)
  <2>1. state # None /\ state.pending = "" /\ call.m.handle = state.handle
    BY <1>1, OrgWrites
  <2>2. ~lost => \A t \in named : tickets[t].status # "open"
    BY <1>1, <1>2, OrgWrites, OrgBounds, OrgTypes
  <2>3. ~lost /\ edits = 0 => \A r \in Org!Outstanding : r.op # "create" /\ r.handle = state.handle
    BY <1>1, <2>1, OrgWrites DEF Org!Requested
  <2> QED  BY <1>1, <1>4, <2>1, <2>2, <2>3, OrgGone, OrgFinish
<1> QED  BY <1>1, <1>3, <1>4

\* A refused verification forgets a deletion that is still to be carried out,
\* and nothing else.
LEMMA OrgVerifyRefused == ASSUME Org!Assumption, Org!IInv, Org!VerifyRefused PROVE Org!IInv'
<1>1. /\ call # None /\ call.op = "delete" /\ call.at = "verify"
      /\ call' = None /\ state' = state /\ lost' = (lost \/ Org!Outstanding # {})
      /\ UNCHANGED <<orgs, given, wire, tickets, sent, named, edits, crashes>>
  BY DEF Org!VerifyRefused, Org!Step, Org!Finish, Org!service, Org!bounds
<1>2. CASE Org!Outstanding # {}
  <2>1. lost' = TRUE
    BY <1>1, <1>2
  <2> QED  BY <1>1, <2>1, OrgLosesOutcome, OrgTypes
<1>3. CASE Org!Outstanding = {}
  <2>1. state # None /\ state.pending = "" /\ call.reply # None /\ call.reply.ticket = Org!NoTicket
    BY <1>1, OrgTypes DEF Org!CallInv
  <2>2. \A t \in named : t # Org!NoTicket
    BY OrgBounds, OrgTypes
  <2>3. ~lost => \A t \in named : tickets[t].status = "open" => state.ticket = t
    BY <2>1, <2>2, OrgTypes DEF Org!TicketInv
  <2>4. ~lost => Org!Creations = {} /\ Org!Mine \subseteq {state.handle}
    BY <2>1, OrgTypes DEF Org!CreateInv
  <2>5. ~lost /\ edits = 0 /\ Org!Present(state.handle) => orgs[state.handle].value = state.value
    BY <1>1, <2>1, OrgTypes DEF Org!QuietInv
  <2>6. OrgKept(state)
    BY <1>3, <2>1, <2>3, <2>4, <2>5, OrgTypes DEF OrgKept, Org!StateInv
  <2>7. Org!CallInv' /\ lost' \in BOOLEAN /\ (lost => lost')
    BY <1>1, OrgTypes DEF Org!CallInv
  <2> QED  BY <1>1, <2>6, <2>7, OrgIdle, OrgTypes
<1> QED  BY <1>2, <1>3

\* A request gets a new number, and no other can still take effect.
LEMMA OrgSubmit == ASSUME Org!Assumption, Org!IInv, Org!Submit PROVE Org!IInv'
<1> DEFINE q == [call EXCEPT !.at = "answer", !.n = sent + 1]
           r == [n |-> sent + 1, op |-> call.op, handle |-> call.m.handle, value |-> call.m.value]
<1>1. /\ call # None /\ call.at = "submit" /\ sent < MaxSubmits /\ sent' = sent + 1
      /\ wire' = wire \cup {r} /\ call' = q
      /\ UNCHANGED <<orgs, given, tickets, state, named, lost, edits, crashes>>
  BY DEF Org!Submit, Org!bounds
<1>2. call \in Org!Call /\ call.op \in Org!Ops /\ call.m \in Org!State
  BY <1>1, OrgWrites
<1>3. call.n = 0 /\ call.reply = None
  BY <1>1, OrgTypes DEF Org!CallInv
<1>4. sent + 1 \in 1 .. MaxSubmits /\ sent + 1 \in 0 .. MaxSubmits /\ sent + 1 # 0
  BY <1>1, OrgBounds
<1>5. /\ q \in Org!Call /\ q.at = "answer" /\ q.op = call.op /\ q.m = call.m /\ q.n = sent + 1
      /\ q.reply = None
  BY <1>2, <1>3, <1>4 DEF Org!Call
<1>6. /\ r \in Org!Request /\ r.n = sent + 1 /\ r.op = call.op /\ r.handle = call.m.handle
      /\ r.value = call.m.value
  BY <1>2, <1>4 DEF Org!Request, Org!State
<1> HIDE DEF q, r
<1>7. q # None
  BY <1>5, OrgTypes
<1>8. \A p \in Org!Requests : p.n <= sent /\ p.n # sent + 1 /\ p.n \in Nat
  BY OrgRequests, OrgBounds, OrgTypes DEF Org!RequestInv
<1>9. Org!Requests' = Org!Requests \cup {r} /\ Org!Outstanding' = Org!Outstanding \cup {r} /\ Org!Mine' = Org!Mine
  BY <1>1 DEF Org!Requests, Org!Outstanding, Org!Mine
<1>10. Org!TypeOK'
  BY <1>1, <1>4, <1>5, <1>6, OrgTypes DEF Org!TypeOK
<1>11. Org!RequestInv'
  <2>1. IF r.op = "create" THEN r.handle = Org!NoHandle ELSE r.handle \in given
    BY <1>1, <1>6, OrgWrites
  <2>2. \A p \in wire : p \in Org!Requests
    BY OrgRequests
  <2>3. \A t \in DOMAIN tickets : tickets[t].request \in Org!Requests
    BY OrgRequests
  <2>4. \A p \in Org!Requests' : p.n <= sent'
    BY <1>1, <1>6, <1>8, <1>9, OrgBounds
  <2>5. \A p \in wire' :
       /\ IF p.op = "create" THEN p.handle = Org!NoHandle ELSE p.handle \in given
       /\ \A u \in wire' : u.n = p.n => u = p
       /\ \A t \in DOMAIN tickets : tickets[t].request.n # p.n
    BY <1>1, <1>6, <1>8, <2>1, <2>2, <2>3, OrgTypes DEF Org!RequestInv
  <2> QED  BY <1>1, <2>4, <2>5, OrgTypes DEF Org!RequestInv
<1>12. Org!StateInv'
  BY <1>1, OrgTypes DEF Org!StateInv, Org!Sound
<1>13. Org!Requested(r, call.op, call.m)
  BY <1>6 DEF Org!Requested
<1>14. Org!CallInv'
  <2>1. Org!CallInv
    BY OrgTypes
  <2>2. \A m : Org!Sound(m)' <=> Org!Sound(m)
    BY <1>1 DEF Org!Sound
  <2>3. \A p \in Org!Requests' : p.n = q.n => Org!Requested(p, q.op, q.m)
    BY <1>5, <1>6, <1>8, <1>9, <1>13
  <2>4. call'.n <= sent' /\ state' = state
    BY <1>1, <1>5, OrgBounds
  <2>5. \A p \in Org!Requests' : p.n = call'.n => Org!Requested(p, call.op, call.m)'
    BY <1>1, <1>5, <2>3 DEF Org!Requested
  <2> QED  BY <1>1, <1>5, <1>7, <2>1, <2>2, <2>4, <2>5 DEF Org!CallInv
<1>15. Org!ReplyInv' /\ Org!Sent'
  BY <1>1, <1>4, <1>5, <1>7 DEF Org!ReplyInv, Org!Sent
<1>16. ~lost => \A t \in named : tickets[t].status # "open"
  BY <1>1, <1>3, OrgWrites
<1>17. Org!TicketInv'
  BY <1>1, <1>16 DEF Org!TicketInv
<1>18. ~Org!Sent
  BY <1>3 DEF Org!Sent
<1>19. Org!CreateInv'
  <2> SUFFICES ASSUME ~lost PROVE Org!CreateInv'
    BY <1>1 DEF Org!CreateInv
  <2>1. Org!Creations' = IF call.op = "create" THEN Org!Creations \cup {r} ELSE Org!Creations
    BY <1>6, <1>9 DEF Org!Creations
  <2>2. CASE call.op = "create"
    <3>1. state = None /\ Org!Mine = {} /\ Org!Creations = {}
      BY <1>1, <1>18, <2>2, OrgWrites, OrgTypes DEF Org!CreateInv
    <3>2. Org!Creations' = {r} /\ Org!Mine' = {}
      BY <1>9, <2>1, <2>2, <3>1
    <3>3. Org!NoSecondOrganization'
      BY <1>1, <3>2 DEF Org!NoSecondOrganization, Org!Creations
    <3> QED  BY <1>1, <1>5, <1>6, <1>15, <3>1, <3>2, <3>3 DEF Org!CreateInv
  <2>3. CASE call.op # "create"
    <3>1. state # None /\ state.pending = "" /\ Org!Creations = {} /\ Org!Mine \subseteq {state.handle}
      BY <1>1, <2>3, OrgWrites, OrgTypes DEF Org!CreateInv
    <3>2. Org!Creations' = {} /\ Org!Mine' \subseteq {state.handle}
      BY <1>9, <2>1, <2>3, <3>1
    <3>3. Org!NoSecondOrganization'
      BY <3>2 DEF Org!NoSecondOrganization, Org!Creations
    <3> QED  BY <1>1, <1>5, <2>3, <3>1, <3>2, <3>3 DEF Org!CreateInv
  <2> QED  BY <2>2, <2>3
<1>20. Org!QuietInv'
  <2> SUFFICES ASSUME ~lost, edits = 0 PROVE Org!QuietInv'
    BY <1>1 DEF Org!QuietInv
  <2>1. Org!Outstanding' = {r}
    BY <1>1, <1>9, <1>18, OrgWrites
  <2>2. call.op # "create" => /\ Org!Present(call.m.handle)
                              /\ call.op = "update" => orgs[call.m.handle].value # call.m.value
    <3>1. call.op # "create" => /\ Org!Present(call.m.handle) /\ call.m.handle = state.handle
                                /\ state # None /\ state.pending = ""
      BY <1>1, OrgWrites, OrgTypes DEF Org!QuietInv
    <3>2. call.op # "create" => orgs[state.handle].value = state.value
      BY <1>18, <3>1, OrgTypes DEF Org!QuietInv
    <3>3. call.op = "update" => call.m.value # state.value
      BY <1>1, OrgTypes DEF Org!CallInv
    <3> QED  BY <3>1, <3>2, <3>3
  <2>3. state # None =>
          /\ state.ticket = Org!NoTicket
          /\ Org!Present(state.handle) => orgs[state.handle].value = state.value
    BY <1>1, <1>18, OrgWrites, OrgTypes DEF Org!QuietInv
  <2>4. \A h : Org!Present(h)' <=> Org!Present(h)
    BY <1>1 DEF Org!Present
  <2>5. /\ call'.reply = None /\ call'.at # "submit" /\ call'.n = sent + 1
        /\ state' = state /\ orgs' = orgs /\ tickets' = tickets
    BY <1>1, <1>5
  <2> QED  BY <1>6, <1>15, <2>1, <2>2, <2>3, <2>4, <2>5 DEF Org!QuietInv
<1> QED  BY <1>10, <1>11, <1>12, <1>14, <1>15, <1>17, <1>19, <1>20 DEF Org!IInv

\* The call that sent the request r hears a.
OrgHeard(r, a) ==
  /\ call # None /\ call.n = r.n /\ call.at = "answer" /\ call.reply = None
  /\ call' = [call EXCEPT !.reply = a]

\* An answer reaches its call, in one of the readings the client makes of it,
\* or nobody.
LEMMA OrgAnswer ==
  ASSUME Org!Assumption, Org!IInv, NEW r \in wire, NEW reply \in Org!Reply, Org!Answer(r, reply)
  PROVE  /\ UNCHANGED <<state, sent, lost, edits, crashes>>
         /\ \/ call' = call /\ named' = named
            \/ \E a \in Org!Reply :
                 /\ OrgHeard(r, a) /\ named' = named \cup ({reply.ticket} \ {Org!NoTicket})
                 /\ a.ticket = reply.ticket /\ a.handle \in {reply.handle, Org!NoHandle}
                 /\ a.kind \in {reply.kind, "uncertain"}
                 /\ a.kind # "uncertain" => a.handle = reply.handle
<1>1. UNCHANGED <<state, sent, lost, edits, crashes>>
  BY DEF Org!Answer, Org!bounds
<1>2. CASE UNCHANGED <<call, named>>
  BY <1>1, <1>2
<1>3. CASE /\ call # None /\ call.n = r.n /\ call.at = "answer" /\ call.reply = None
           /\ \E reading \in Org!Readings(reply) : call' = [call EXCEPT !.reply = reading]
           /\ named' = named \cup ({reply.ticket} \ {Org!NoTicket})
  <2>1. PICK a \in Org!Readings(reply) : call' = [call EXCEPT !.reply = a]
    BY <1>3
  <2>2. /\ a \in Org!Reply /\ a.ticket = reply.ticket /\ a.handle \in {reply.handle, Org!NoHandle}
        /\ a.kind \in {reply.kind, "uncertain"}
        /\ a.kind # "uncertain" => a.handle = reply.handle
    BY <2>1 DEF Org!Readings, Org!Unverified, Org!Malformed, Org!Reply
  <2> QED  BY <1>1, <1>3, <2>1, <2>2 DEF OrgHeard
<1> QED  BY <1>2, <1>3 DEF Org!Answer

\* A step of the service keeps what state and calls say of requests.
LEMMA OrgServes ==
  ASSUME Org!Assumption, Org!IInv, NEW r \in Org!Requests,
         given \subseteq given',
         \A t \in DOMAIN tickets : /\ t \in DOMAIN tickets' /\ tickets'[t].request = tickets[t].request
                                   /\ tickets[t].status # "open" => tickets'[t].status # "open",
         UNCHANGED <<state, sent>>,
         \A p \in Org!Requests' : \E u \in Org!Requests :
            p.n = u.n /\ p.op = u.op /\ p.value = u.value /\ (u.op # "create" => p.handle = u.handle),
         \/ call' = call
         \/ \E a \in Org!Reply : OrgHeard(r, a)
  PROVE  /\ Org!StateInv' /\ Org!CallInv'
         /\ call' \in Org!Call \cup {None} /\ (Org!Sent' <=> Org!Sent)
         /\ call' = call => Org!ReplyInv'
<1>1. \A m : Org!Sound(m) => Org!Sound(m)'
  BY DEF Org!Sound
<1>2. Org!StateInv'
  BY <1>1, OrgTypes DEF Org!StateInv
<1>4. call # None => \A p \in Org!Requests' : p.n = call.n => Org!Requested(p, call.op, call.m)
  <2> SUFFICES ASSUME call # None, NEW p \in Org!Requests', p.n = call.n
               PROVE  Org!Requested(p, call.op, call.m)
    OBVIOUS
  <2>1. PICK u \in Org!Requests :
          p.n = u.n /\ p.op = u.op /\ p.value = u.value /\ (u.op # "create" => p.handle = u.handle)
    OBVIOUS
  <2>2. Org!Requested(u, call.op, call.m)
    BY <2>1, OrgTypes DEF Org!CallInv
  <2> QED  BY <2>1, <2>2 DEF Org!Requested
<1>5. \A t : t \in DOMAIN tickets /\ Org!Terminal(t) => Org!Terminal(t)'
  BY DEF Org!Terminal
<1>6. \/ call' = None /\ call = None
      \/ /\ call' # None /\ call # None /\ call' \in Org!Call /\ call'.op = call.op /\ call'.at = call.at
         /\ call'.m = call.m /\ call'.n = call.n
         /\ call'.reply = call.reply \/ call.at = "answer"
  <2>1. CASE call' = call
    BY <2>1, OrgTypes
  <2>2. CASE \E a \in Org!Reply : OrgHeard(r, a)
    <3>1. PICK a \in Org!Reply : OrgHeard(r, a)
      BY <2>2
    <3>2. call \in Org!Call /\ call # None /\ call.at = "answer" /\ call' = [call EXCEPT !.reply = a]
      BY <3>1, OrgTypes DEF OrgHeard
    <3>3. /\ call' \in Org!Call /\ call'.op = call.op /\ call'.at = call.at
          /\ call'.m = call.m /\ call'.n = call.n
      BY <3>2 DEF Org!Call
    <3> QED  BY <3>2, <3>3, OrgTypes
  <2> QED  BY <2>1, <2>2
<1>7. call # None => Org!Sound(call.m) \/ call.op \in {"create", "update"}
  BY OrgTypes DEF Org!CallInv, Org!StateInv, Org!Call, Org!Ops
<1>8. Org!CallInv'
  <2> SUFFICES ASSUME call' # None PROVE Org!CallInv'
    BY DEF Org!CallInv
  <2>1. /\ call # None /\ call'.op = call.op /\ call'.at = call.at
        /\ call'.m = call.m /\ call'.n = call.n
        /\ call'.reply = call.reply \/ call.at = "answer"
    BY <1>6
  <2>2. Org!CallInv
    BY OrgTypes
  <2>3. call.at = "get" /\ call.m.ticket # Org!NoTicket => Org!Terminal(call.m.ticket)'
    <3>1. call.at = "get" => Org!Sound(call.m)
      BY <1>7, <2>1, <2>2 DEF Org!CallInv
    <3> QED  BY <1>5, <2>1, <2>2, <3>1 DEF Org!CallInv, Org!Sound
  <2>4. \A p \in Org!Requests' : p.n = call.n => Org!Requested(p, call.op, call.m)'
    BY <1>4, <2>1 DEF Org!Requested
  <2> QED  BY <1>1, <2>1, <2>2, <2>3, <2>4, OrgBounds DEF Org!CallInv
<1>9. Org!Sent' <=> Org!Sent
  BY <1>6 DEF Org!Sent
<1>10. call' = call => Org!ReplyInv'
  BY OrgTypes DEF Org!ReplyInv
<1> QED  BY <1>2, <1>6, <1>8, <1>9, <1>10

\* What a request that can still take effect leaves open.
LEMMA OrgStillOpen ==
  ASSUME Org!Assumption, Org!IInv, NEW r \in Org!Outstanding
  PROVE  /\ r \in Org!Request /\ r \in Org!Requests /\ r.op \in Org!Ops
         /\ call # None /\ call.n = r.n => Org!Requested(r, call.op, call.m) /\ Org!Sent
         /\ ~lost /\ r.op = "create" =>
              /\ Org!Creations = {r} /\ Org!Mine = {} /\ ~(state = None /\ ~Org!Sent)
              /\ state # None => state.pending = "create"
              /\ call # None /\ call.op = "create" /\ call.reply # None
                   => ~Org!netDefinitiveFailure(call.reply)
         /\ ~lost /\ edits = 0 =>
              /\ Org!Outstanding = {r}
              /\ call # None /\ call.at \in {"current", "submit", "answer", "verify"} =>
                   Org!Sent /\ call.n = r.n
              /\ state # None /\ state.pending = "" => Org!Sent /\ call.n = r.n
<1>1. r \in Org!Request /\ r \in Org!Requests /\ r.op \in Org!Ops /\ r.n # 0
  BY OrgRequests, OrgBounds DEF Org!Request
<1>2. call # None /\ call.n = r.n => Org!Requested(r, call.op, call.m) /\ Org!Sent
  BY <1>1, OrgTypes DEF Org!CallInv, Org!Sent
<1>3. ~lost /\ r.op = "create" =>
        /\ Org!Creations = {r} /\ Org!Mine = {} /\ ~(state = None /\ ~Org!Sent)
        /\ state # None => state.pending = "create"
        /\ call # None /\ call.op = "create" /\ call.reply # None => ~Org!netDefinitiveFailure(call.reply)
  <2> SUFFICES ASSUME ~lost, r.op = "create"
               PROVE  /\ Org!Creations = {r} /\ Org!Mine = {} /\ ~(state = None /\ ~Org!Sent)
                      /\ state # None => state.pending = "create"
                      /\ call # None /\ call.op = "create" /\ call.reply # None
                           => ~Org!netDefinitiveFailure(call.reply)
    OBVIOUS
  <2>1. r \in Org!Creations
    BY DEF Org!Creations
  <2>2. \A c \in Org!Creations : c = r
    BY OrgTypes DEF Org!CreateInv, Org!NoSecondOrganization, Org!Creations
  <2>3. Org!Mine = {}
    BY OrgTypes DEF Org!CreateInv, Org!NoSecondOrganization
  <2> QED  BY <2>1, <2>2, <2>3, OrgTypes DEF Org!CreateInv
<1>4. ~lost /\ edits = 0 => Org!Outstanding = {r}
  BY OrgTypes DEF Org!QuietInv
<1>5. ~lost /\ edits = 0 /\ call # None /\ call.at \in {"current", "submit", "answer", "verify"} =>
        Org!Sent /\ call.n = r.n
  BY OrgWrites
<1>6. ~lost /\ edits = 0 /\ state # None /\ state.pending = "" => Org!Sent /\ call.n = r.n
  BY <1>1, OrgTypes DEF Org!QuietInv, Org!Requested, Org!Ops
<1> QED  BY <1>1, <1>2, <1>3, <1>4, <1>5, <1>6

\* The service carries out a request, now or when it closes its ticket.
LEMMA OrgEffect ==
  ASSUME Org!Assumption, Org!IInv, NEW r \in Org!Outstanding, NEW h \in Handles, Org!Effect(r, h),
         r.op # "create" => h = r.handle /\ Org!Present(h),
         r.op = "create" => orgs[h] = None \/ h = r.handle,
         \A t \in DOMAIN tickets : t \in DOMAIN tickets' /\ tickets'[t].request = tickets[t].request,
         \A t \in DOMAIN tickets : IF tickets[t].request = r THEN r.handle = h
                                   ELSE tickets'[t] = tickets[t],
         Org!Outstanding' = Org!Outstanding \ {r},
         UNCHANGED <<state, lost, edits>>, Org!Sent' <=> Org!Sent,
         \/ call' = call
         \/ \E a \in Org!Reply :
                    /\ OrgHeard(r, a) /\ a.ticket = Org!NoTicket /\ a.handle \in {h, Org!NoHandle}
                    /\ a.kind \in {"ok", "uncertain"}
  PROVE  Org!CreateInv' /\ Org!QuietInv'
<1>1. Org!Creations' = Org!Creations \ {r}
  BY DEF Org!Creations
<1>2. /\ r.op = "create" => orgs' = [orgs EXCEPT ![h] = [value |-> r.value, mine |-> TRUE]]
      /\ r.op = "update" => orgs' = [orgs EXCEPT ![h].value = r.value]
      /\ r.op = "delete" => orgs' = [orgs EXCEPT ![h] = None]
      /\ r.op \in {"create", "update", "delete"} /\ r.value \in Names
  BY OrgStillOpen DEF Org!Effect, Org!Ops, Org!Request
<1>3. /\ orgs \in [Handles -> Org!Org \cup {None}]
      /\ r.op = "update" => orgs[h] \in Org!Org
  BY OrgTypes DEF Org!Present
<1>4. /\ r.op = "update" => orgs'[h] \in Org!Org /\ orgs'[h].value = r.value /\ orgs'[h].mine = orgs[h].mine
      /\ r.op = "create" => orgs'[h].value = r.value /\ orgs'[h] \in Org!Org
      /\ r.op = "delete" => orgs'[h] = None
      /\ \A g \in Handles : g # h => orgs'[g] = orgs[g]
  <2>1. CASE r.op = "create"
    <3> DEFINE o == [value |-> r.value, mine |-> TRUE]
    <3>1. o \in Org!Org /\ o.value = r.value
      BY <1>2 DEF Org!Org
    <3> HIDE DEF o
    <3>2. orgs' = [orgs EXCEPT ![h] = o]
      BY <1>2, <2>1 DEF o
    <3> QED  BY <1>3, <2>1, <3>1, <3>2
  <2>2. CASE r.op = "update"
    BY <1>2, <1>3, <2>2 DEF Org!Org
  <2>3. CASE r.op = "delete"
    BY <1>2, <1>3, <2>3
  <2> QED  BY <1>2, <2>1, <2>2, <2>3
<1>5. \A g : Org!Present(g)' => g \in Handles /\ (Org!Present(g) \/ (g = h /\ r.op = "create"))
  BY <1>4, OrgTypes DEF Org!Present
<1>6. /\ r.op = "create" => Org!Mine' \subseteq Org!Mine \cup {h}
      /\ r.op # "create" => Org!Mine' \subseteq Org!Mine
  BY <1>2, <1>3, <1>4, OrgTypes DEF Org!Mine, Org!Present
<1>7. \/ call' = call
      \/ \E a \in Org!Reply :
           /\ call # None /\ call' # None /\ call.n = r.n /\ call.at = "answer" /\ call'.at = "answer"
           /\ call'.op = call.op /\ call'.m = call.m /\ call'.n = call.n /\ call'.reply = a
           /\ a.ticket = Org!NoTicket /\ a.handle \in {h, Org!NoHandle} /\ a.kind \in {"ok", "uncertain"}
  <2>1. CASE call' = call
    BY <2>1
  <2>2. CASE \E a \in Org!Reply :
           /\ OrgHeard(r, a) /\ a.ticket = Org!NoTicket
           /\ a.handle \in {h, Org!NoHandle} /\ a.kind \in {"ok", "uncertain"}
    <3>1. PICK a \in Org!Reply :
             /\ OrgHeard(r, a) /\ a.ticket = Org!NoTicket
             /\ a.handle \in {h, Org!NoHandle} /\ a.kind \in {"ok", "uncertain"}
      BY <2>2
    <3>2. call \in Org!Call /\ call # None /\ call' = [call EXCEPT !.reply = a]
      BY <3>1, OrgTypes DEF OrgHeard
    <3>3. /\ call' \in Org!Call /\ call'.op = call.op /\ call'.at = call.at
          /\ call'.m = call.m /\ call'.n = call.n /\ call'.reply = a
      BY <3>2 DEF Org!Call
    <3>4. call' # None
      BY <3>3, OrgTypes
    <3> QED  BY <3>1, <3>3, <3>4 DEF OrgHeard
  <2> QED  BY <2>1, <2>2
<1>8. Org!CreateInv'
  <2> SUFFICES ASSUME ~lost PROVE Org!CreateInv'
    BY DEF Org!CreateInv
  <2>1. CASE r.op = "create"
    <3>1. Org!Creations' = {} /\ Org!Mine' \subseteq {h}
      BY <1>1, <1>6, <2>1, OrgStillOpen
    <3>2. Org!NoSecondOrganization'
      BY <3>1 DEF Org!NoSecondOrganization, Org!Creations
    <3>3. \A g, t : (t # Org!NoTicket => t \in DOMAIN tickets) /\ Org!Told(g, t) => Org!Told(g, t)'
      <4> SUFFICES ASSUME NEW g, NEW t, t # Org!NoTicket => t \in DOMAIN tickets, Org!Told(g, t)
                   PROVE  Org!Told(g, t)'
        OBVIOUS
      <4>1. r \in Org!Creations
        BY <2>1 DEF Org!Creations
      <4>2. t # Org!NoTicket => tickets[t].request = r /\ tickets'[t].request.handle = h
        BY <2>1, <4>1, OrgStillOpen DEF Org!Told
      <4>3. t = Org!NoTicket => g = Org!NoHandle
        BY <4>1 DEF Org!Told
      <4> QED  BY <3>1, <4>2, <4>3 DEF Org!Told
    <3>4. state # None => state.pending = "create" /\ Org!Told(state.handle, state.ticket)'
      <4>1. state # None => state.pending = "create" /\ Org!Told(state.handle, state.ticket) /\ Org!Sound(state)
        BY <2>1, OrgStillOpen, OrgTypes DEF Org!CreateInv, Org!StateInv
      <4> QED  BY <3>3, <4>1 DEF Org!Sound
    <3>5. call' # None /\ call'.op = "create" /\ call'.reply # None =>
            Org!Told(call.reply.handle, call.reply.ticket)' /\ ~Org!netDefinitiveFailure(call'.reply)
      <4>1. CASE call' = call
        <5> SUFFICES ASSUME call # None, call.op = "create", call.reply # None
                     PROVE  /\ Org!Told(call.reply.handle, call.reply.ticket)'
                            /\ ~Org!netDefinitiveFailure(call.reply)
          BY <4>1
        <5>1. Org!Told(call.reply.handle, call.reply.ticket)
          BY OrgTypes DEF Org!CreateInv
        <5>2. call.reply.ticket # Org!NoTicket => call.reply.ticket \in DOMAIN tickets
          BY OrgTypes DEF Org!ReplyInv
        <5>3. Org!Told(call.reply.handle, call.reply.ticket)'
          BY <3>3, <4>1, <5>1, <5>2
        <5> QED  BY <2>1, <5>3, OrgStillOpen
      <4>2. CASE call' # call
        <5>1. call'.reply.ticket = Org!NoTicket /\ call'.reply.handle \in {h, Org!NoHandle}
              /\ call'.reply.kind \in {"ok", "uncertain"}
          BY <1>7, <4>2
        <5> QED  BY <3>1, <5>1 DEF Org!Told, Org!netDefinitiveFailure
      <4> QED  BY <4>1, <4>2
    <3>6. call' # None /\ call'.reply # None /\ call'.reply.kind = "missing" => ~Org!Present(call.m.handle)'
      <4> SUFFICES ASSUME call' # None, call'.reply # None, call'.reply.kind = "missing"
                   PROVE  ~Org!Present(call.m.handle)'
        OBVIOUS
      <4>1. call' = call
        BY <1>7
      <4>2. call.at \in {"answer", "verify"}
        BY <4>1, OrgAnswered
      <4>3. call.op = "create" /\ call.m.handle = Org!NoHandle
        BY <2>1, <4>1, <4>2, OrgStillOpen, OrgWrites
      <4>4. Org!NoHandle \notin Handles
        BY OrgTypes
      <4> QED  BY <4>1, <4>3, <4>4 DEF Org!Present
    <3> QED  BY <2>1, <3>1, <3>2, <3>4, <3>5, <3>6, OrgStillOpen DEF Org!CreateInv
  <2>2. CASE r.op # "create"
    <3>1. Org!Creations' = Org!Creations /\ Org!Mine' \subseteq Org!Mine /\ r \notin Org!Creations
      BY <1>1, <1>6, <2>2 DEF Org!Creations
    <3>2. Org!NoSecondOrganization'
      <4>1. \A g, k \in Org!Mine : g = k
        BY OrgTypes DEF Org!CreateInv, Org!NoSecondOrganization
      <4>2. \A c, d \in Org!Outstanding : c.op = "create" /\ d.op = "create" => c = d
        BY OrgTypes DEF Org!CreateInv, Org!NoSecondOrganization
      <4>3. Org!Mine # {} => \A c \in Org!Outstanding : c.op # "create"
        BY OrgTypes DEF Org!CreateInv, Org!NoSecondOrganization
      <4> QED  BY <3>1, <4>1, <4>2, <4>3 DEF Org!NoSecondOrganization
    <3>3. \A g, t : (t # Org!NoTicket => t \in DOMAIN tickets) /\ Org!Told(g, t) => Org!Told(g, t)'
      <4> SUFFICES ASSUME NEW g, NEW t, t # Org!NoTicket => t \in DOMAIN tickets, Org!Told(g, t)
                   PROVE  Org!Told(g, t)'
        OBVIOUS
      <4>1. CASE t = Org!NoTicket
        BY <3>1, <4>1 DEF Org!Told
      <4>2. CASE t # Org!NoTicket
        BY <3>1, <4>2 DEF Org!Told
      <4> QED  BY <4>1, <4>2
    <3>4. state # None =>
            IF state.pending = "create" THEN Org!Told(state.handle, state.ticket)'
            ELSE Org!Creations' = {} /\ Org!Mine' \subseteq {state.handle}
      <4>1. state # None =>
              /\ Org!Sound(state)
              /\ IF state.pending = "create" THEN Org!Told(state.handle, state.ticket)
                 ELSE Org!Creations = {} /\ Org!Mine \subseteq {state.handle}
        BY OrgTypes DEF Org!CreateInv, Org!StateInv
      <4> QED  BY <3>1, <3>3, <4>1 DEF Org!Sound
    <3>5. call' = call \/ (call.op # "create" /\ call'.op # "create" /\ call'.reply.kind # "missing")
      BY <1>7, <2>2, OrgStillOpen DEF Org!Requested
    <3>6. call' # None /\ call'.op = "create" =>
            /\ \A c \in Org!Creations' : c.n = call'.n
            /\ call'.reply # None => Org!Told(call.reply.handle, call.reply.ticket)'
            /\ call'.reply # None /\ Org!netDefinitiveFailure(call'.reply)
                 => Org!Mine' = {} /\ Org!Creations' = {}
      <4> SUFFICES ASSUME call # None, call.op = "create", call' = call
                   PROVE  /\ \A c \in Org!Creations' : c.n = call.n
                          /\ call.reply # None => Org!Told(call.reply.handle, call.reply.ticket)'
                          /\ call.reply # None /\ Org!netDefinitiveFailure(call.reply)
                               => Org!Mine' = {} /\ Org!Creations' = {}
        BY <3>5
      <4>1. call.reply # None =>
              /\ Org!Told(call.reply.handle, call.reply.ticket)
              /\ Org!netDefinitiveFailure(call.reply) => Org!Mine = {} /\ Org!Creations = {}
        BY OrgTypes DEF Org!CreateInv
      <4>2. call.reply # None /\ call.reply.ticket # Org!NoTicket => call.reply.ticket \in DOMAIN tickets
        BY OrgTypes DEF Org!ReplyInv
      <4>3. \A c \in Org!Creations : c.n = call.n
        BY OrgTypes DEF Org!CreateInv
      <4> QED  BY <3>1, <3>3, <4>1, <4>2, <4>3
    <3>7. call' # None /\ call'.reply # None /\ call'.reply.kind = "missing" => ~Org!Present(call.m.handle)'
      <4> SUFFICES ASSUME call' = call, call # None, call.reply # None, call.reply.kind = "missing"
                   PROVE  ~Org!Present(call.m.handle)'
        BY <3>5
      <4>1. ~Org!Present(call.m.handle)
        BY OrgTypes DEF Org!CreateInv
      <4> QED  BY <1>5, <2>2, <4>1
    <3>8. state = None /\ ~Org!Sent => Org!Mine' = {} /\ Org!Creations' = {}
      BY <3>1, OrgTypes DEF Org!CreateInv
    <3> QED  BY <3>2, <3>4, <3>6, <3>7, <3>8 DEF Org!CreateInv
  <2> QED  BY <2>1, <2>2
<1>9. Org!QuietInv'
  <2> SUFFICES ASSUME ~lost, edits = 0 PROVE Org!QuietInv'
    BY DEF Org!QuietInv
  <2>1. Org!Outstanding = {r} /\ Org!Outstanding' = {}
    BY OrgStillOpen
  <2>2. call' # None /\ call'.reply # None => ~Org!netDefinitiveFailure(call'.reply)
    <3>1. CASE call' = call
      <4> SUFFICES ASSUME call # None, call.reply # None, Org!netDefinitiveFailure(call.reply) PROVE FALSE
        BY <3>1
      <4>1. Org!Sent
        BY OrgAnswered DEF Org!netDefinitiveFailure
      <4> QED  BY <4>1, OrgTypes DEF Org!QuietInv
    <3>2. CASE call' # call
      BY <1>7, <3>2 DEF Org!netDefinitiveFailure
    <3> QED  BY <3>1, <3>2
  <2>3. state # None /\ state.pending = "" /\ Org!Present(state.handle)' => Org!Sent /\ call'.op = "update"
    <3> SUFFICES ASSUME state # None, state.pending = "", Org!Present(state.handle)'
                 PROVE  Org!Sent /\ call'.op = "update"
      OBVIOUS
    <3>1. Org!Sent /\ call # None /\ call.n = r.n /\ call.at \in {"answer", "verify"}
      BY OrgStillOpen, OrgSentAt
    <3>2. Org!Requested(r, call.op, call.m) /\ call.op # "create" /\ call.m.handle = state.handle
      BY <3>1, OrgStillOpen, OrgWrites
    <3>3. r.op = call.op /\ h = state.handle /\ call'.op = call.op
      BY <1>7, <3>2 DEF Org!Requested
    <3>4. r.op # "delete"
      BY <1>4, <3>3 DEF Org!Present
    <3> QED  BY <1>2, <3>1, <3>2, <3>3, <3>4
  <2>4. ~(call' # None /\ call'.at = "submit")
    <3> SUFFICES ASSUME call # None, call.at = "submit" PROVE FALSE
      BY <1>7
    <3> QED  BY OrgStillOpen, OrgSentAt
  <2>5. Org!Sent' /\ call'.reply # None /\ call'.op # "delete" /\ Org!orgWriteComplete(call'.reply)
        => orgs'[call'.reply.handle].value = call'.m.value
    <3>1. CASE call' = call
      BY <3>1, OrgTypes DEF Org!QuietInv
    <3>2. CASE call' # call
      <4>1. PICK a \in Org!Reply :
           /\ call # None /\ call.n = r.n /\ call'.op = call.op /\ call'.m = call.m /\ call'.reply = a
           /\ a.handle \in {h, Org!NoHandle}
        BY <1>7, <3>2
      <4>2. r.op = call'.op /\ r.value = call'.m.value
        BY <4>1, OrgStillOpen DEF Org!Requested
      <4> QED  BY <1>2, <1>4, <4>1, <4>2 DEF Org!orgWriteComplete
    <3> QED  BY <3>1, <3>2
  <2> QED  BY <2>1, <2>2, <2>3, <2>4, <2>5 DEF Org!QuietInv, Org!Sent
<1> QED  BY <1>8, <1>9

\* The service refuses a request, or lets its ticket fail.
LEMMA OrgDropped ==
  ASSUME Org!Assumption, Org!IInv, NEW r \in Org!Outstanding, orgs' = orgs,
         \A t \in DOMAIN tickets :
            /\ t \in DOMAIN tickets' /\ tickets'[t].request = tickets[t].request
            /\ tickets[t].request # r => tickets'[t] = tickets[t],
         Org!Outstanding' = Org!Outstanding \ {r},
         UNCHANGED <<state, lost, edits>>, Org!Sent' <=> Org!Sent,
         \/ call' = call
         \/ \E a \in Org!Reply :
                    /\ OrgHeard(r, a) /\ a.ticket = Org!NoTicket /\ a.handle = Org!NoHandle
                    /\ a.kind \in {"rejected", "missing", "uncertain"}
                    /\ a.kind = "missing" => ~Org!Present(r.handle)
  PROVE  Org!CreateInv' /\ Org!QuietInv'
<1>1. Org!Creations' = Org!Creations \ {r} /\ Org!Mine' = Org!Mine
  BY DEF Org!Creations, Org!Mine
<1>2. \A h : Org!Present(h)' <=> Org!Present(h)
  BY DEF Org!Present
<1>3. \/ call' = call
      \/ /\ call # None /\ call' # None /\ call.n = r.n /\ call.at = "answer" /\ call'.at = "answer"
         /\ call'.op = call.op /\ call'.m = call.m /\ call'.n = call.n
         /\ call'.reply.ticket = Org!NoTicket /\ call'.reply.handle = Org!NoHandle
         /\ call'.reply.kind \in {"rejected", "missing", "uncertain"}
         /\ call'.reply.kind = "missing" => ~Org!Present(r.handle)
  <2>1. CASE call' = call
    BY <2>1
  <2>2. CASE call' # call
    <3>1. PICK a \in Org!Reply :
             /\ OrgHeard(r, a) /\ a.ticket = Org!NoTicket /\ a.handle = Org!NoHandle
             /\ a.kind \in {"rejected", "missing", "uncertain"}
             /\ a.kind = "missing" => ~Org!Present(r.handle)
      BY <2>2
    <3>2. OrgHeard(r, a)
      BY <3>1
    <3>3. call \in Org!Call /\ call # None /\ call' = [call EXCEPT !.reply = a]
      BY <3>2, OrgTypes DEF OrgHeard
    <3>4. /\ call' \in Org!Call /\ call'.op = call.op /\ call'.at = call.at
          /\ call'.m = call.m /\ call'.n = call.n /\ call'.reply = a
      BY <3>3 DEF Org!Call
    <3>5. call' # None
      BY <3>4, OrgTypes
    <3>6. call # None /\ call.n = r.n /\ call.at = "answer"
      BY <3>2 DEF OrgHeard
    <3> QED  BY <3>1, <3>4, <3>5, <3>6
  <2> QED  BY <2>1, <2>2
<1>4. Org!CreateInv'
  <2> SUFFICES ASSUME ~lost PROVE Org!CreateInv'
    BY DEF Org!CreateInv
  <2>1. Org!NoSecondOrganization'
    <3>1. \A g, k \in Org!Mine : g = k
      BY OrgTypes DEF Org!CreateInv, Org!NoSecondOrganization
    <3>2. \A c, d \in Org!Outstanding : c.op = "create" /\ d.op = "create" => c = d
      BY OrgTypes DEF Org!CreateInv, Org!NoSecondOrganization
    <3>3. Org!Mine # {} => \A c \in Org!Outstanding : c.op # "create"
      BY OrgTypes DEF Org!CreateInv, Org!NoSecondOrganization
    <3> QED  BY <1>1, <3>1, <3>2, <3>3 DEF Org!NoSecondOrganization
  <2>2. \A g, t : (t # Org!NoTicket => t \in DOMAIN tickets) /\ Org!Told(g, t) => Org!Told(g, t)'
    <3> SUFFICES ASSUME NEW g, NEW t, t # Org!NoTicket => t \in DOMAIN tickets, Org!Told(g, t)
                 PROVE  Org!Told(g, t)'
      OBVIOUS
    <3>1. CASE t = Org!NoTicket
      BY <1>1, <3>1 DEF Org!Told
    <3>2. CASE t # Org!NoTicket
      BY <1>1, <3>2 DEF Org!Told
    <3> QED  BY <3>1, <3>2
  <2>3. state # None =>
          IF state.pending = "create" THEN Org!Told(state.handle, state.ticket)'
          ELSE Org!Creations' = {} /\ Org!Mine' \subseteq {state.handle}
    <3>1. state # None =>
            /\ Org!Sound(state)
            /\ IF state.pending = "create" THEN Org!Told(state.handle, state.ticket)
               ELSE Org!Creations = {} /\ Org!Mine \subseteq {state.handle}
      BY OrgTypes DEF Org!CreateInv, Org!StateInv
    <3> QED  BY <1>1, <2>2, <3>1 DEF Org!Sound
  <2>4. call' # None /\ call'.op = "create" =>
          /\ \A c \in Org!Creations' : c.n = call'.n
          /\ call'.reply # None => Org!Told(call.reply.handle, call.reply.ticket)'
          /\ call'.reply # None /\ Org!netDefinitiveFailure(call'.reply)
               => Org!Mine' = {} /\ Org!Creations' = {}
    <3> SUFFICES ASSUME call' # None, call'.op = "create"
                 PROVE  /\ \A c \in Org!Creations' : c.n = call'.n
                        /\ call'.reply # None => Org!Told(call.reply.handle, call.reply.ticket)'
                        /\ call'.reply # None /\ Org!netDefinitiveFailure(call'.reply)
                             => Org!Mine' = {} /\ Org!Creations' = {}
      OBVIOUS
    <3>1. \A c \in Org!Creations : c.n = call.n
      BY <1>3, OrgTypes DEF Org!CreateInv
    <3>2. CASE call' = call
      <4>1. call.reply # None =>
              /\ Org!Told(call.reply.handle, call.reply.ticket)
              /\ Org!netDefinitiveFailure(call.reply) => Org!Mine = {} /\ Org!Creations = {}
        BY <3>2, OrgTypes DEF Org!CreateInv
      <4>2. call.reply # None /\ call.reply.ticket # Org!NoTicket => call.reply.ticket \in DOMAIN tickets
        BY <3>2, OrgTypes DEF Org!ReplyInv
      <4> QED  BY <1>1, <2>2, <3>1, <3>2, <4>1, <4>2
    <3>3. CASE call' # call
      <4>1. Org!Mine = {} /\ Org!Creations = {r}
        BY <1>3, <3>3, OrgStillOpen DEF Org!Requested
      <4> QED  BY <1>1, <1>3, <3>3, <4>1 DEF Org!Told
    <3> QED  BY <3>2, <3>3
  <2>5. call' # None /\ call'.reply # None /\ call'.reply.kind = "missing" => ~Org!Present(call.m.handle)'
    <3> SUFFICES ASSUME call' # None, call'.reply # None, call'.reply.kind = "missing"
                 PROVE  ~Org!Present(call.m.handle)'
      OBVIOUS
    <3>1. CASE call' = call
      <4>1. ~Org!Present(call.m.handle)
        BY <3>1, OrgTypes DEF Org!CreateInv
      <4> QED  BY <1>2, <3>1, <4>1
    <3>2. CASE call' # call
      <4>1. ~Org!Present(r.handle) /\ Org!Requested(r, call.op, call.m) /\ call' # None
            /\ call # None /\ call.at = "answer" /\ call'.m = call.m
        BY <1>3, <3>2, OrgStillOpen
      <4>2. call.op = "create" => call.m.handle = Org!NoHandle
        BY <4>1, OrgWrites
      <4>3. ~Org!Present(Org!NoHandle)
        BY OrgTypes DEF Org!Present
      <4> QED  BY <1>2, <4>1, <4>2, <4>3 DEF Org!Requested
    <3> QED  BY <3>1, <3>2
  <2>6. state = None /\ ~Org!Sent => Org!Mine' = {} /\ Org!Creations' = {}
    BY <1>1, OrgTypes DEF Org!CreateInv
  <2> QED  BY <2>1, <2>3, <2>4, <2>5, <2>6 DEF Org!CreateInv
<1>5. Org!QuietInv'
  <2> SUFFICES ASSUME ~lost, edits = 0 PROVE Org!QuietInv'
    BY DEF Org!QuietInv
  <2>1. Org!Outstanding = {r} /\ Org!Outstanding' = {}
    BY OrgStillOpen
  <2>2. state # None /\ state.pending = "" /\ Org!Present(state.handle) => orgs[state.handle].value = state.value
    BY <2>1, OrgTypes DEF Org!QuietInv
  <2>3. ~(call' # None /\ call'.at = "submit")
    <3> SUFFICES ASSUME call # None, call.at = "submit" PROVE FALSE
      BY <1>3
    <3> QED  BY OrgStillOpen, OrgSentAt
  <2>4. Org!Sent' /\ call'.reply # None /\ call'.op # "delete" => ~Org!orgWriteComplete(call'.reply)
    <3>1. CASE call' = call
      BY <3>1, OrgTypes DEF Org!QuietInv
    <3>2. CASE call' # call
      BY <1>3, <3>2 DEF Org!orgWriteComplete
    <3> QED  BY <3>1, <3>2
  <2> QED  BY <1>2, <2>1, <2>2, <2>3, <2>4 DEF Org!QuietInv
<1> QED  BY <1>4, <1>5

\* Carrying out a request leaves well-formed organizations of the resource's.
LEMMA OrgEffectTyped ==
  ASSUME Org!Assumption, Org!IInv, NEW r \in Org!Request, NEW h \in Handles, Org!Effect(r, h),
         r.op # "create" => Org!Present(h)
  PROVE  /\ orgs' \in [Handles -> Org!Org \cup {None}]
         /\ \A g \in Handles : orgs'[g] # None =>
              orgs'[g].mine /\ (orgs[g] # None \/ (g = h /\ r.op = "create"))
<1>1. /\ r.op = "create" => orgs' = [orgs EXCEPT ![h] = [value |-> r.value, mine |-> TRUE]]
      /\ r.op = "update" => orgs' = [orgs EXCEPT ![h].value = r.value]
      /\ r.op = "delete" => orgs' = [orgs EXCEPT ![h] = None]
      /\ r.op \in {"create", "update", "delete"} /\ r.value \in Names
  BY DEF Org!Effect, Org!Ops, Org!Request
<1>2. /\ orgs \in [Handles -> Org!Org \cup {None}]
      /\ \A g \in Handles : orgs[g] # None => orgs[g].mine
  BY OrgTypes DEF Org!RequestInv
<1>3. CASE r.op = "create"
  <2> DEFINE o == [value |-> r.value, mine |-> TRUE]
  <2>1. o \in Org!Org /\ o.mine
    BY <1>1 DEF Org!Org
  <2> HIDE DEF o
  <2>2. orgs' = [orgs EXCEPT ![h] = o]
    BY <1>1, <1>3 DEF o
  <2> QED  BY <1>2, <1>3, <2>1, <2>2
<1>4. CASE r.op = "update"
  <2> DEFINE o == [orgs[h] EXCEPT !.value = r.value]
  <2>1. orgs[h] # None /\ orgs[h] \in Org!Org
    BY <1>2, <1>4 DEF Org!Present
  <2>2. o \in Org!Org /\ o.mine = orgs[h].mine
    BY <1>1, <2>1 DEF Org!Org
  <2>3. orgs' = [orgs EXCEPT ![h] = o]
    BY <1>1, <1>4
  <2> HIDE DEF o
  <2> QED  BY <1>2, <2>1, <2>2, <2>3
<1>5. CASE r.op = "delete"
  BY <1>1, <1>2, <1>5
<1> QED  BY <1>1, <1>3, <1>4, <1>5

\* The numbers and names of requests survive when one is taken off its way and
\* tickets close.
LEMMA OrgRequestsKept ==
  ASSUME Org!Assumption, Org!IInv, wire' \subseteq wire, given \subseteq given',
         DOMAIN tickets' = DOMAIN tickets,
         \A t \in DOMAIN tickets : tickets'[t].request = tickets[t].request,
         sent' = sent, named' = named,
         \A g \in Handles : orgs'[g] # None => orgs'[g].mine
  PROVE  Org!RequestInv' /\ Org!Requests' \subseteq Org!Requests
<1>1. Org!Requests' \subseteq Org!Requests
  BY DEF Org!Requests
<1>2. Org!RequestInv
  BY OrgTypes
<1>3. \A p \in Org!Requests' : p.n <= sent'
  BY <1>1, <1>2 DEF Org!RequestInv
<1>4. \A p \in wire' :
       /\ IF p.op = "create" THEN p.handle = Org!NoHandle ELSE p.handle \in given'
       /\ \A q \in wire' : q.n = p.n => q = p
       /\ \A t \in DOMAIN tickets' : tickets'[t].request.n # p.n
  BY <1>2 DEF Org!RequestInv
<1>5. \A t \in DOMAIN tickets' :
       /\ tickets'[t].request.handle \in given'
       /\ \A u \in DOMAIN tickets' : tickets'[u].request.n = tickets'[t].request.n => u = t
  BY <1>2 DEF Org!RequestInv
<1> QED  BY <1>1, <1>2, <1>3, <1>4, <1>5 DEF Org!RequestInv

\* What can still take effect when a request is taken off its way.
LEMMA OrgTakenOff ==
  ASSUME Org!Assumption, Org!IInv, NEW r \in wire, wire' = wire \ {r}, tickets' = tickets
  PROVE  /\ r \in Org!Outstanding /\ r \in Org!Request /\ r \in Org!Requests
         /\ Org!Outstanding' = Org!Outstanding \ {r}
         /\ \A t \in DOMAIN tickets : tickets[t].request # r
<1>1. \A t \in DOMAIN tickets : tickets[t].request # r
  BY OrgTypes DEF Org!RequestInv
<1>2. Org!Outstanding' = Org!Outstanding \ {r}
  BY <1>1 DEF Org!Outstanding
<1> QED  BY <1>1, <1>2, OrgRequests

\* A call that hears an answer without a ticket.
LEMMA OrgHeardReply ==
  ASSUME Org!Assumption, Org!IInv, NEW r \in Org!Requests, NEW a \in Org!Reply, OrgHeard(r, a),
         given \subseteq given',
         a.kind \in {"rejected", "missing"} => a.handle = Org!NoHandle,
         a.ticket = Org!NoTicket,
         a.handle # Org!NoHandle => a.handle \in given' /\ (r.op # "create" => a.handle = r.handle)
  PROVE  Org!ReplyInv'
<1>1. /\ call \in Org!Call /\ call # None /\ call.n = r.n /\ call' = [call EXCEPT !.reply = a]
      /\ r.n # 0 /\ Org!Requested(r, call.op, call.m)
  BY OrgRequests, OrgBounds, OrgTypes DEF OrgHeard, Org!CallInv
<1>2. call'.op = call.op /\ call'.m = call.m /\ call'.n = call.n /\ call'.reply = a
  BY <1>1 DEF Org!Call
<1> QED  BY <1>1, <1>2 DEF Org!ReplyInv, Org!Requested

\* An open ticket stays known while a call hears an answer without a ticket.
LEMMA OrgTicketsKnown ==
  ASSUME Org!Assumption, Org!IInv, UNCHANGED <<state, lost, named>>,
         \A t \in named : tickets'[t].status = "open" => tickets[t].status = "open",
         \/ call' = call
         \/ \E r \in wire, a \in Org!Reply : OrgHeard(r, a)
  PROVE  Org!TicketInv'
<1>1. CASE call' = call
  BY <1>1, OrgTypes DEF Org!TicketInv
<1>2. CASE \E r \in wire, a \in Org!Reply : OrgHeard(r, a)
  <2>1. call # None /\ call.reply = None
    BY <1>2 DEF OrgHeard
  <2> QED  BY <2>1, OrgTypes DEF Org!TicketInv
<1> QED  BY <1>1, <1>2

\* The service carries out a request, and its call may hear of it.
LEMMA OrgCarryOut == ASSUME Org!Assumption, Org!IInv, NEW r \in wire, Org!CarryOut(r) PROVE Org!IInv'
<1>1. PICK h \in Handles : Org!Target(r, h) /\ Org!Effect(r, h) /\ Org!Answer(r, Org!Reply_("ok", h, Org!NoTicket))
  BY DEF Org!CarryOut
<1>2. wire' = wire \ {r} /\ tickets' = tickets
  BY DEF Org!CarryOut
<1>3. /\ r.op = "create" => h \in Handles \ given /\ given' = given \cup {h}
      /\ r.op # "create" => h = r.handle /\ Org!Present(h) /\ given' = given
  BY <1>1 DEF Org!Target
<1> DEFINE reply == Org!Reply_("ok", h, Org!NoTicket)
<1>4. /\ reply \in Org!Reply /\ reply.kind = "ok" /\ reply.handle = h /\ reply.ticket = Org!NoTicket
      /\ Org!Answer(r, reply)
  BY <1>1 DEF Org!Reply, Org!Reply_
<1> HIDE DEF reply
<1>5. /\ UNCHANGED <<state, sent, lost, edits, crashes, named>>
      /\ \/ call' = call
         \/ \E a \in Org!Reply :
              /\ OrgHeard(r, a) /\ a.ticket = Org!NoTicket /\ a.handle \in {h, Org!NoHandle}
              /\ a.kind \in {"ok", "uncertain"}
  BY <1>4, OrgAnswer
<1>6. /\ r \in Org!Outstanding /\ r \in Org!Request /\ r \in Org!Requests
      /\ Org!Outstanding' = Org!Outstanding \ {r}
      /\ \A t \in DOMAIN tickets : tickets[t].request # r
  BY <1>2, OrgTakenOff
<1>7. /\ orgs' \in [Handles -> Org!Org \cup {None}]
      /\ \A g \in Handles : orgs'[g] # None =>
           orgs'[g].mine /\ (orgs[g] # None \/ (g = h /\ r.op = "create"))
  BY <1>1, <1>3, <1>6, OrgEffectTyped
<1>8. given \subseteq given' /\ given' \subseteq Handles /\ h \in given'
  BY <1>3, OrgTypes DEF Org!Present
<1>9. Org!RequestInv' /\ Org!Requests' \subseteq Org!Requests
  BY <1>2, <1>5, <1>7, <1>8, OrgRequestsKept
<1>10. /\ Org!StateInv' /\ Org!CallInv' /\ call' \in Org!Call \cup {None} /\ (Org!Sent' <=> Org!Sent)
       /\ call' = call => Org!ReplyInv'
  BY <1>2, <1>5, <1>6, <1>8, <1>9, OrgServes
<1>11. Org!ReplyInv'
  BY <1>3, <1>5, <1>6, <1>8, <1>10, OrgHeardReply
<1>12. Org!TicketInv'
  BY <1>2, <1>5, OrgTicketsKnown
<1>13. Org!CreateInv' /\ Org!QuietInv'
  <2>1. r.op = "create" => orgs[h] = None
    BY <1>3, OrgTypes
  <2> QED  BY <1>1, <1>2, <1>3, <1>5, <1>6, <1>10, <2>1, OrgEffect
<1>14. Org!TypeOK'
  BY <1>2, <1>3, <1>5, <1>7, <1>8, <1>10, OrgTypes DEF Org!TypeOK
<1> QED  BY <1>9, <1>10, <1>11, <1>12, <1>13, <1>14 DEF Org!IInv

\* The service refuses a request, and its call may hear of it.
LEMMA OrgRefuse == ASSUME Org!Assumption, Org!IInv, NEW r \in wire, Org!Refuse(r) PROVE Org!IInv'
<1>1. wire' = wire \ {r} /\ UNCHANGED <<orgs, given, tickets>>
  BY DEF Org!Refuse
<1>2. PICK refusal \in {"rejected", "missing"} :
        /\ Org!Answer(r, Org!Reply_(refusal, Org!NoHandle, Org!NoTicket))
        /\ refusal = "missing" => ~Org!Present(r.handle)
  BY DEF Org!Refuse
<1> DEFINE reply == Org!Reply_(refusal, Org!NoHandle, Org!NoTicket)
<1>3. /\ reply \in Org!Reply /\ reply.kind = refusal /\ reply.handle = Org!NoHandle
      /\ reply.ticket = Org!NoTicket /\ Org!Answer(r, reply)
  BY <1>2 DEF Org!Reply, Org!Reply_
<1> HIDE DEF reply
<1>4. /\ UNCHANGED <<state, sent, lost, edits, crashes, named>>
      /\ \/ call' = call
         \/ \E a \in Org!Reply :
              /\ OrgHeard(r, a) /\ a.ticket = Org!NoTicket /\ a.handle = Org!NoHandle
              /\ a.kind \in {refusal, "uncertain"}
  BY <1>3, OrgAnswer
<1>5. \/ call' = call
      \/ \E a \in Org!Reply :
           /\ OrgHeard(r, a) /\ a.ticket = Org!NoTicket /\ a.handle = Org!NoHandle
           /\ a.kind \in {"rejected", "missing", "uncertain"}
           /\ a.kind = "missing" => ~Org!Present(r.handle)
  BY <1>2, <1>4
<1>6. /\ r \in Org!Outstanding /\ r \in Org!Request /\ r \in Org!Requests
      /\ Org!Outstanding' = Org!Outstanding \ {r}
      /\ \A t \in DOMAIN tickets : tickets[t].request # r
  BY <1>1, OrgTakenOff
<1>7. Org!RequestInv' /\ Org!Requests' \subseteq Org!Requests
  BY <1>1, <1>4, OrgRequestsKept, OrgTypes DEF Org!RequestInv
<1>8. /\ Org!StateInv' /\ Org!CallInv' /\ call' \in Org!Call \cup {None} /\ (Org!Sent' <=> Org!Sent)
      /\ call' = call => Org!ReplyInv'
  BY <1>1, <1>4, <1>6, <1>7, OrgServes
<1>9. Org!ReplyInv'
  BY <1>1, <1>4, <1>6, <1>8, OrgHeardReply
<1>10. Org!TicketInv'
  BY <1>1, <1>4, OrgTicketsKnown
<1>11. Org!CreateInv' /\ Org!QuietInv'
  BY <1>1, <1>4, <1>5, <1>6, <1>8, OrgDropped
<1>12. Org!TypeOK'
  BY <1>1, <1>4, <1>8, OrgTypes DEF Org!TypeOK
<1> QED  BY <1>7, <1>8, <1>9, <1>10, <1>11, <1>12 DEF Org!IInv

\* A review ends, and the request behind its ticket takes effect or fails.
LEMMA OrgCloseTicket == ASSUME Org!Assumption, Org!IInv, NEW t, Org!CloseTicket(t) PROVE Org!IInv'
<1> DEFINE r == tickets[t].request
<1>1. /\ t \in DOMAIN tickets /\ tickets[t].status = "open"
      /\ UNCHANGED <<given, wire, state, call, sent, named, lost, edits, crashes>>
      /\ \/ /\ r.op = "create" \/ Org!Present(r.handle)
            /\ Org!Effect(r, r.handle) /\ tickets' = [tickets EXCEPT ![t].status = "done"]
         \/ orgs' = orgs /\ tickets' = [tickets EXCEPT ![t].status = "failed"]
  BY DEF Org!CloseTicket, Org!history, Org!bounds
<1>2. /\ r \in Org!Outstanding /\ r \in Org!Request /\ r \in Org!Requests
      /\ r.handle \in given /\ r.handle \in Handles
  BY <1>1, OrgRequests, OrgTypes DEF Org!RequestInv
<1>3. PICK status \in {"done", "failed"} : tickets' = [tickets EXCEPT ![t].status = status]
  BY <1>1
<1>4. /\ tickets \in Seq(Org!Ticket) /\ tickets[t] \in Org!Ticket /\ t \in 1 .. Len(tickets)
      /\ DOMAIN tickets = 1 .. Len(tickets)
  BY <1>1, OrgRequests, OrgTypes
<1> DEFINE k == [tickets[t] EXCEPT !.status = status]
<1>5. k \in Org!Ticket /\ k.request = r /\ k.status = status
  BY <1>4 DEF Org!Ticket
<1>6. tickets' = [tickets EXCEPT ![t] = k]
  BY <1>3, <1>4
<1> HIDE DEF k
<1>7. tickets' \in Seq(Org!Ticket) /\ Len(tickets') = Len(tickets) /\ DOMAIN tickets' = DOMAIN tickets
  BY <1>4, <1>5, <1>6
<1>8. /\ tickets'[t] = k
      /\ \A u \in DOMAIN tickets : u # t => tickets'[u] = tickets[u]
  BY <1>4, <1>6
<1>9. \A u \in DOMAIN tickets :
        /\ tickets'[u].request = tickets[u].request
        /\ tickets[u].status # "open" => tickets'[u].status # "open"
        /\ tickets'[u].status = "open" => tickets[u].status = "open" /\ u # t
  BY <1>1, <1>5, <1>8
<1>10. \A u \in DOMAIN tickets : tickets[u].request = r => u = t
  BY <1>1, OrgTypes DEF Org!RequestInv
<1>11. Org!Outstanding' = Org!Outstanding \ {r}
  <2>1. \A p : p \in Org!Outstanding' <=>
          \/ p \in wire
          \/ \E u \in DOMAIN tickets : tickets'[u].status = "open" /\ tickets'[u].request = p
    BY <1>1, <1>7 DEF Org!Outstanding
  <2>2. \A p : p \in Org!Outstanding <=>
          \/ p \in wire
          \/ \E u \in DOMAIN tickets : tickets[u].status = "open" /\ tickets[u].request = p
    BY OrgRequests
  <2>3. r \notin wire
    BY <1>1, OrgTypes DEF Org!RequestInv
  <2>4. \A u \in DOMAIN tickets : tickets'[u].status = "open" <=> tickets[u].status = "open" /\ u # t
    BY <1>8, <1>9
  <2> QED  BY <1>1, <1>9, <1>10, <2>1, <2>2, <2>3, <2>4
<1>12. /\ orgs' \in [Handles -> Org!Org \cup {None}]
       /\ \A g \in Handles : orgs'[g] # None => orgs'[g].mine /\ g \in given
  <2>1. CASE orgs' = orgs
    BY <2>1, OrgTypes DEF Org!RequestInv
  <2>2. CASE Org!Effect(r, r.handle) /\ (r.op = "create" \/ Org!Present(r.handle))
    <3>1. /\ orgs' \in [Handles -> Org!Org \cup {None}]
          /\ \A g \in Handles : orgs'[g] # None =>
               orgs'[g].mine /\ (orgs[g] # None \/ (g = r.handle /\ r.op = "create"))
      BY <1>2, <2>2, OrgEffectTyped
    <3> QED  BY <1>2, <3>1, OrgTypes
  <2> QED  BY <1>1, <2>1, <2>2
<1>18. \A u \in DOMAIN tickets :
         /\ u \in DOMAIN tickets' /\ tickets'[u].request = tickets[u].request
         /\ tickets[u].request # r => tickets'[u] = tickets[u]
  BY <1>7, <1>8, <1>9
<1> HIDE DEF r
<1>13. Org!RequestInv' /\ Org!Requests' \subseteq Org!Requests
  BY <1>1, <1>7, <1>9, <1>12, OrgRequestsKept
<1>14. /\ Org!StateInv' /\ Org!CallInv' /\ (Org!Sent' <=> Org!Sent) /\ Org!ReplyInv'
  BY <1>1, <1>2, <1>7, <1>9, <1>13, OrgServes
<1>15. Org!TicketInv'
  BY <1>1, <1>9, OrgTicketsKnown, OrgTypes DEF Org!RequestInv
<1>16. Org!CreateInv' /\ Org!QuietInv'
  <2>1. CASE orgs' = orgs
    BY <1>1, <1>2, <1>11, <1>14, <1>18, <2>1, OrgDropped
  <2>2. CASE Org!Effect(r, r.handle) /\ (r.op = "create" \/ Org!Present(r.handle))
    BY <1>1, <1>2, <1>11, <1>14, <1>18, <2>2, OrgEffect
  <2> QED  BY <1>1, <2>1, <2>2 DEF r
<1>17. Org!TypeOK'
  BY <1>1, <1>7, <1>12, OrgTypes DEF Org!TypeOK
<1> QED  BY <1>13, <1>14, <1>15, <1>16, <1>17 DEF Org!IInv

\* Another channel edits an organization: only what it edits is given up.
LEMMA OrgEdit == ASSUME Org!Assumption, Org!IInv, NEW h \in Handles, Org!Edit(h) PROVE Org!IInv'
<1>1. /\ edits < MaxEdits /\ edits' = edits + 1 /\ orgs[h] # None
      /\ UNCHANGED <<given, wire, tickets, state, call, sent, named, lost, crashes>>
      /\ \/ orgs' = [orgs EXCEPT ![h] = None]
         \/ \E value \in Names : orgs' = [orgs EXCEPT ![h].value = value]
  BY DEF Org!Edit, Org!history, Org!Present
<1>2. edits' \in 0 .. MaxEdits /\ edits' # 0
  BY <1>1, OrgTypes
<1>3. /\ orgs \in [Handles -> Org!Org \cup {None}] /\ orgs[h] \in Org!Org
      /\ \A g \in Handles : orgs[g] # None => orgs[g].mine
  BY <1>1, OrgTypes DEF Org!RequestInv
<1>4. /\ orgs' \in [Handles -> Org!Org \cup {None}]
      /\ \A g \in Handles : orgs'[g] # None => orgs[g] # None /\ orgs'[g].mine /\ orgs[g].mine
  <2>1. CASE orgs' = [orgs EXCEPT ![h] = None]
    BY <1>3, <2>1
  <2>2. ASSUME NEW value \in Names, orgs' = [orgs EXCEPT ![h].value = value]
        PROVE  /\ orgs' \in [Handles -> Org!Org \cup {None}]
               /\ \A g \in Handles : orgs'[g] # None => orgs[g] # None /\ orgs'[g].mine /\ orgs[g].mine
    <3> DEFINE o == [orgs[h] EXCEPT !.value = value]
    <3>1. o \in Org!Org /\ o.mine = orgs[h].mine
      BY <1>3 DEF Org!Org
    <3>2. orgs' = [orgs EXCEPT ![h] = o]
      BY <2>2
    <3> HIDE DEF o
    <3> QED  BY <1>1, <1>3, <3>1, <3>2
  <2> QED  BY <1>1, <2>1, <2>2
<1>5. Org!RequestInv'
  BY <1>1, <1>4, OrgRequestsKept
<1>6. Org!Mine' \subseteq Org!Mine /\ Org!Outstanding' = Org!Outstanding /\ Org!Creations' = Org!Creations
      /\ Org!Requests' = Org!Requests
  BY <1>1, <1>4 DEF Org!Mine, Org!Outstanding, Org!Creations, Org!Requests
<1>7. Org!StateInv' /\ Org!CallInv' /\ Org!ReplyInv' /\ (Org!Sent' <=> Org!Sent)
  <2>1. \A m : Org!Sound(m)' <=> Org!Sound(m)
    BY <1>1 DEF Org!Sound
  <2>2. \A t : Org!Terminal(t)' <=> Org!Terminal(t)
    BY <1>1 DEF Org!Terminal
  <2>3. Org!StateInv'
    BY <1>1, <2>1, OrgTypes DEF Org!StateInv
  <2>4. Org!CallInv'
    BY <1>1, <1>6, <2>1, <2>2, OrgTypes DEF Org!CallInv, Org!Requested
  <2>5. Org!ReplyInv'
    BY <1>1, OrgTypes DEF Org!ReplyInv
  <2> QED  BY <1>1, <2>3, <2>4, <2>5 DEF Org!Sent
<1>8. Org!TicketInv'
  BY <1>1, OrgTypes DEF Org!TicketInv
<1>9. Org!CreateInv'
  <2>1. \A g, t : Org!Told(g, t) => Org!Told(g, t)'
    BY <1>1, <1>6 DEF Org!Told
  <2>2. \A g : Org!Present(g)' => Org!Present(g)
    BY <1>4 DEF Org!Present
  <2>3. Org!NoSecondOrganization => Org!NoSecondOrganization'
    BY <1>1, <1>6 DEF Org!NoSecondOrganization
  <2> QED  BY <1>1, <1>6, <1>7, <2>1, <2>2, <2>3, OrgTypes DEF Org!CreateInv
<1>10. Org!QuietInv'
  BY <1>2 DEF Org!QuietInv
<1>11. Org!TypeOK'
  BY <1>1, <1>2, <1>4, OrgTypes DEF Org!TypeOK
<1> QED  BY <1>5, <1>7, <1>8, <1>9, <1>10, <1>11 DEF Org!IInv

\* The service accepts a deletion that it carries out later.
LEMMA OrgAcceptDeletion ==
  ASSUME Org!Assumption, Org!IInv, NEW r \in wire, Org!AcceptDeletion(r)
  PROVE  Org!IInv'
<1>1. /\ r.op = "delete" /\ UNCHANGED <<orgs, given, wire, tickets>>
      /\ Org!Answer(r, Org!Reply_("ok", Org!NoHandle, Org!NoTicket))
  BY DEF Org!AcceptDeletion, Org!service
<1> DEFINE reply == Org!Reply_("ok", Org!NoHandle, Org!NoTicket)
<1>2. /\ reply \in Org!Reply /\ reply.kind = "ok" /\ reply.handle = Org!NoHandle
      /\ reply.ticket = Org!NoTicket /\ Org!Answer(r, reply)
  BY <1>1 DEF Org!Reply, Org!Reply_
<1> HIDE DEF reply
<1>3. /\ UNCHANGED <<state, sent, lost, edits, crashes, named>>
      /\ \/ call' = call
         \/ \E a \in Org!Reply :
              /\ OrgHeard(r, a) /\ a.ticket = Org!NoTicket /\ a.handle = Org!NoHandle
              /\ a.kind \in {"ok", "uncertain"}
  BY <1>2, OrgAnswer
<1>4. r \in Org!Outstanding /\ r \in Org!Requests
  BY OrgRequests
<1>5. Org!RequestInv' /\ Org!Requests' \subseteq Org!Requests
  BY <1>1, <1>3, OrgRequestsKept, OrgTypes DEF Org!RequestInv
<1>6. /\ Org!StateInv' /\ Org!CallInv' /\ call' \in Org!Call \cup {None} /\ (Org!Sent' <=> Org!Sent)
      /\ call' = call => Org!ReplyInv'
  BY <1>1, <1>3, <1>4, <1>5, OrgServes
<1>7. Org!ReplyInv'
  BY <1>1, <1>3, <1>4, <1>6, OrgHeardReply
<1>8. Org!TicketInv'
  BY <1>1, <1>3, OrgTicketsKnown
<1>9. Org!TypeOK'
  BY <1>1, <1>3, <1>6, OrgTypes DEF Org!TypeOK
<1>10. Org!Outstanding' = Org!Outstanding /\ Org!Mine' = Org!Mine /\ Org!Creations' = Org!Creations
  BY <1>1 DEF Org!Outstanding, Org!Mine, Org!Creations
<1>11. \A g, t : Org!Told(g, t)' <=> Org!Told(g, t)
  BY <1>1, <1>10 DEF Org!Told
<1>12. \A g : Org!Present(g)' <=> Org!Present(g)
  BY <1>1 DEF Org!Present
<1>13. Org!NoSecondOrganization' <=> Org!NoSecondOrganization
  BY <1>3, <1>10 DEF Org!NoSecondOrganization
<1>14. CASE call' = call
  <2>1. Org!CreateInv'
    BY <1>3, <1>6, <1>10, <1>11, <1>12, <1>13, <1>14, OrgTypes DEF Org!CreateInv
  <2>2. Org!QuietInv'
    BY <1>1, <1>3, <1>6, <1>10, <1>12, <1>14, OrgTypes DEF Org!QuietInv, Org!Requested
  <2> QED  BY <1>5, <1>6, <1>7, <1>8, <1>9, <2>1, <2>2 DEF Org!IInv
<1>15. CASE call' # call
  <2>1. PICK a \in Org!Reply :
          /\ OrgHeard(r, a) /\ a.ticket = Org!NoTicket /\ a.handle = Org!NoHandle
          /\ a.kind \in {"ok", "uncertain"}
    BY <1>3, <1>15
  <2>2. call \in Org!Call /\ call # None /\ call.at = "answer" /\ call.reply = None /\ call.n = r.n
        /\ call' = [call EXCEPT !.reply = a]
    BY <2>1, OrgTypes DEF OrgHeard
  <2>3. /\ call' \in Org!Call /\ call'.op = call.op /\ call'.at = "answer" /\ call'.m = call.m
        /\ call'.n = call.n /\ call'.reply = a
    BY <2>2 DEF Org!Call
  <2>4. call' # None /\ a # None
    BY <2>3, OrgTypes
  <2>5. call.op = "delete"
    BY <1>1, <1>4, <2>2, OrgStillOpen DEF Org!Requested
  <2>6. Org!CreateInv'
    BY <1>3, <1>6, <1>10, <1>11, <1>12, <1>13, <2>1, <2>2, <2>3, <2>4, <2>5, OrgTypes DEF Org!CreateInv
  <2>7. Org!QuietInv'
    BY <1>1, <1>3, <1>6, <1>10, <1>12, <2>1, <2>2, <2>3, <2>4, <2>5, OrgTypes
       DEF Org!QuietInv, Org!Requested, Org!netDefinitiveFailure
  <2> QED  BY <1>5, <1>6, <1>7, <1>8, <1>9, <2>6, <2>7 DEF Org!IInv
<1> QED  BY <1>14, <1>15

\* A request goes behind a ticket, of which its call may hear.
LEMMA OrgOpenTicket == ASSUME Org!Assumption, Org!IInv, NEW r \in wire, Org!OpenTicket(r) PROVE Org!IInv'
<1> DEFINE t == Len(tickets) + 1
<1>1. PICK h \in Handles :
        /\ Org!Target(r, h)
        /\ tickets' = Append(tickets, [request |-> [r EXCEPT !.handle = h], status |-> "open"])
        /\ \E shown \in {h, Org!NoHandle} : Org!Answer(r, Org!Reply_("ok", shown, Len(tickets')))
  BY DEF Org!OpenTicket
<1>2. Len(tickets) < MaxTickets /\ wire' = wire \ {r} /\ orgs' = orgs
  BY DEF Org!OpenTicket
<1>3. /\ r.op = "create" => h \in Handles \ given /\ given' = given \cup {h}
      /\ r.op # "create" => h = r.handle /\ Org!Present(h) /\ given' = given
  BY <1>1 DEF Org!Target
<1>4. given \subseteq given' /\ given' \subseteq Handles /\ h \in given'
  BY <1>3, OrgTypes DEF Org!Present
<1>5. r \in Org!Outstanding /\ r \in Org!Requests /\ r \in Org!Request
  BY OrgRequests
<1> DEFINE q == [r EXCEPT !.handle = h]
           k == [request |-> q, status |-> "open"]
<1>6. q \in Org!Request /\ q.n = r.n /\ q.op = r.op /\ q.value = r.value /\ q.handle = h
  BY <1>5 DEF Org!Request
<1>7. k \in Org!Ticket /\ k.request = q /\ k.status = "open"
  BY <1>6 DEF Org!Ticket
<1>8. tickets' = Append(tickets, k)
  BY <1>1
<1>9. r.op # "create" => q = r
  BY <1>3, <1>5 DEF Org!Request
<1> HIDE DEF q, k
<1>10. /\ tickets \in Seq(Org!Ticket) /\ Len(tickets) \in Nat /\ DOMAIN tickets = 1 .. Len(tickets)
       /\ tickets' \in Seq(Org!Ticket) /\ Len(tickets') = t /\ DOMAIN tickets' = DOMAIN tickets \cup {t}
       /\ t \notin DOMAIN tickets /\ tickets'[t] = k
       /\ \A u \in DOMAIN tickets : tickets'[u] = tickets[u]
  BY <1>7, <1>8, OrgTypes
<1>11. t \in Org!Tickets /\ t # Org!NoTicket /\ t <= MaxTickets
  BY <1>2, <1>10, OrgBounds DEF Org!Tickets, Org!NoTicket
<1> HIDE DEF t
<1>12. PICK shown \in {h, Org!NoHandle} : Org!Answer(r, Org!Reply_("ok", shown, t))
  BY <1>1, <1>10
<1> DEFINE reply == Org!Reply_("ok", shown, t)
<1>13. /\ reply \in Org!Reply /\ reply.kind = "ok" /\ reply.handle = shown /\ reply.ticket = t
       /\ Org!Answer(r, reply)
  BY <1>11, <1>12 DEF Org!Reply, Org!Reply_
<1> HIDE DEF reply
<1>14. /\ UNCHANGED <<state, sent, lost, edits, crashes>>
       /\ \/ call' = call /\ named' = named
          \/ \E a \in Org!Reply :
               /\ OrgHeard(r, a) /\ named' = named \cup {t}
               /\ a.ticket = t /\ a.handle \in {h, Org!NoHandle} /\ a.kind \in {"ok", "uncertain"}
  BY <1>11, <1>13, OrgAnswer
<1>15. \A u \in DOMAIN tickets : tickets[u].request.n # r.n
  BY OrgTypes DEF Org!RequestInv
<1>16. /\ Org!Requests' = (Org!Requests \ {r}) \cup {q}
       /\ Org!Outstanding' = (Org!Outstanding \ {r}) \cup {q}
  <2>1. \A p : p \in Org!Requests' <=>
          p \in wire' \/ \E u \in DOMAIN tickets' : tickets'[u].request = p
    BY DEF Org!Requests
  <2>2. \A p : p \in Org!Outstanding' <=>
          \/ p \in wire'
          \/ \E u \in DOMAIN tickets' : tickets'[u].status = "open" /\ tickets'[u].request = p
    BY DEF Org!Outstanding
  <2>3. \A p : p \in Org!Requests' <=> p \in Org!Requests \ {r} \/ p = q
    BY <1>2, <1>7, <1>10, <1>15, <2>1, OrgRequests
  <2>4. \A p : p \in Org!Outstanding' <=> p \in Org!Outstanding \ {r} \/ p = q
    BY <1>2, <1>7, <1>10, <1>15, <2>2, OrgRequests
  <2> QED  BY <2>3, <2>4
<1>17. Org!RequestInv'
  <2>1. Org!RequestInv
    BY OrgTypes
  <2>2. \A p \in Org!Requests' : p.n <= sent'
    BY <1>5, <1>6, <1>14, <1>16, <2>1 DEF Org!RequestInv
  <2>3. \A p \in wire' : p \in wire /\ p.n # r.n
    BY <1>2, <2>1 DEF Org!RequestInv
  <2>4. \A p \in wire' :
         /\ IF p.op = "create" THEN p.handle = Org!NoHandle ELSE p.handle \in given'
         /\ \A v \in wire' : v.n = p.n => v = p
         /\ \A u \in DOMAIN tickets' : tickets'[u].request.n # p.n
    BY <1>4, <1>6, <1>7, <1>10, <2>1, <2>3 DEF Org!RequestInv
  <2>5. \A u \in DOMAIN tickets' :
         /\ tickets'[u].request.handle \in given'
         /\ \A v \in DOMAIN tickets' : tickets'[v].request.n = tickets'[u].request.n => v = u
    BY <1>4, <1>6, <1>7, <1>10, <1>15, <2>1 DEF Org!RequestInv
  <2>6. named' \subseteq DOMAIN tickets'
    BY <1>10, <1>14, <2>1 DEF Org!RequestInv
  <2> QED  BY <1>2, <2>1, <2>2, <2>4, <2>5, <2>6 DEF Org!RequestInv
<1>18. \A u \in DOMAIN tickets :
         /\ u \in DOMAIN tickets' /\ tickets'[u].request = tickets[u].request
         /\ tickets[u].status # "open" => tickets'[u].status # "open"
  BY <1>10
<1>19. \A p \in Org!Requests' : \E u \in Org!Requests :
         p.n = u.n /\ p.op = u.op /\ p.value = u.value /\ (u.op # "create" => p.handle = u.handle)
  BY <1>3, <1>5, <1>6, <1>16
<1>20. /\ Org!StateInv' /\ Org!CallInv' /\ call' \in Org!Call \cup {None} /\ (Org!Sent' <=> Org!Sent)
       /\ call' = call => Org!ReplyInv'
  BY <1>4, <1>5, <1>14, <1>18, <1>19, OrgServes
<1>21. Org!TypeOK'
  <2>1. named' \subseteq Org!Tickets
    BY <1>11, <1>14, OrgTypes
  <2>2. Len(tickets') <= MaxTickets
    BY <1>10, <1>11
  <2> QED  BY <1>2, <1>4, <1>10, <1>14, <1>20, <2>1, <2>2, OrgTypes DEF Org!TypeOK
\* What was heard before says nothing of a request that is still on its way.
<1>22. \/ call' = call /\ named' = named
       \/ /\ call # None /\ call' # None /\ call.n = r.n /\ call.at = "answer" /\ call'.at = "answer"
          /\ call'.op = call.op /\ call'.m = call.m /\ call'.n = call.n /\ call.reply = None
          /\ call'.reply # None /\ call'.reply.ticket = t /\ call'.reply.handle \in {h, Org!NoHandle}
          /\ call'.reply.kind \in {"ok", "uncertain"} /\ named' = named \cup {t}
          /\ Org!Requested(r, call.op, call.m) /\ Org!Sent
  <2>1. CASE call' = call /\ named' = named
    BY <2>1
  <2>2. CASE ~(call' = call /\ named' = named)
    <3>1. PICK a \in Org!Reply :
               /\ OrgHeard(r, a) /\ named' = named \cup {t}
               /\ a.ticket = t /\ a.handle \in {h, Org!NoHandle} /\ a.kind \in {"ok", "uncertain"}
      BY <1>14, <2>2
    <3>2. call \in Org!Call /\ call # None /\ call.at = "answer" /\ call.reply = None /\ call.n = r.n
          /\ call' = [call EXCEPT !.reply = a]
      BY <3>1, OrgTypes DEF OrgHeard
    <3>3. /\ call' \in Org!Call /\ call'.op = call.op /\ call'.at = "answer" /\ call'.m = call.m
          /\ call'.n = call.n /\ call'.reply = a
      BY <3>2 DEF Org!Call
    <3>4. call' # None /\ a # None
      BY <3>3, OrgTypes
    <3> QED  BY <1>5, <3>1, <3>2, <3>3, <3>4, OrgStillOpen
  <2> QED  BY <2>1, <2>2
<1>23. Org!ReplyInv'
  <2>1. CASE call' = call
    BY <1>20, <2>1
  <2>2. CASE call' # call
    <3>1. r.n # 0
      BY <1>5, OrgBounds
    <3> QED  BY <1>3, <1>4, <1>6, <1>7, <1>10, <1>22, <2>2, <3>1 DEF Org!ReplyInv, Org!Requested
  <2> QED  BY <2>1, <2>2
<1>24. Org!TicketInv'
  <2>1. CASE call' = call /\ named' = named
    BY <1>10, <1>14, <2>1, OrgTypes DEF Org!TicketInv, Org!RequestInv
  <2>2. CASE ~(call' = call /\ named' = named)
    BY <1>10, <1>14, <1>22, <2>2, OrgTypes DEF Org!TicketInv, Org!RequestInv
  <2> QED  BY <2>1, <2>2
<1>25. Org!Mine' = Org!Mine /\ \A g : Org!Present(g)' <=> Org!Present(g)
  BY <1>2 DEF Org!Mine, Org!Present
<1>26. \A g, u : (u # Org!NoTicket => u \in DOMAIN tickets) /\ ~lost /\ Org!Told(g, u) => Org!Told(g, u)'
  <2> SUFFICES ASSUME NEW g, NEW u, u # Org!NoTicket => u \in DOMAIN tickets, ~lost, Org!Told(g, u)
               PROVE  Org!Told(g, u)'
    OBVIOUS
  <2>1. CASE r.op = "create"
    <3>1. r \in Org!Creations
      BY <1>5, <2>1 DEF Org!Creations
    <3>2. u = Org!NoTicket /\ g = Org!NoHandle
      BY <1>15, <3>1 DEF Org!Told
    <3> QED  BY <3>2 DEF Org!Told
  <2>2. CASE r.op # "create"
    <3>1. Org!Creations' = Org!Creations
      BY <1>5, <1>9, <1>16, <2>2 DEF Org!Creations
    <3> QED  BY <1>10, <1>25, <3>1 DEF Org!Told
  <2> QED  BY <2>1, <2>2
<1>27. ~lost => Org!CreateInv'
  <2> SUFFICES ASSUME ~lost PROVE Org!CreateInv'
    OBVIOUS
  <2>1. /\ r.op = "create" => Org!Creations = {r} /\ Org!Creations' = {q} /\ Org!Mine = {}
        /\ r.op # "create" => Org!Creations' = Org!Creations
    BY <1>5, <1>6, <1>9, <1>16, OrgStillOpen DEF Org!Creations
  <2>2. Org!NoSecondOrganization'
    <3>1. Org!NoSecondOrganization
      BY OrgTypes DEF Org!CreateInv
    <3>2. CASE r.op = "create"
      BY <1>25, <2>1, <3>2 DEF Org!NoSecondOrganization, Org!Creations
    <3>3. CASE r.op # "create"
      BY <1>5, <1>9, <1>14, <1>16, <1>25, <3>1, <3>3 DEF Org!NoSecondOrganization
    <3> QED  BY <3>2, <3>3
  <2>3. state = None /\ ~Org!Sent => Org!Mine' = {} /\ Org!Creations' = {}
    BY <1>5, <1>25, <2>1, OrgStillOpen, OrgTypes DEF Org!CreateInv
  <2>4. state # None =>
          IF state.pending = "create" THEN Org!Told(state.handle, state.ticket)'
          ELSE Org!Creations' = {} /\ Org!Mine' \subseteq {state.handle}
    <3>1. state # None =>
            /\ Org!Sound(state)
            /\ IF state.pending = "create" THEN Org!Told(state.handle, state.ticket)
               ELSE Org!Creations = {} /\ Org!Mine \subseteq {state.handle}
      BY OrgTypes DEF Org!CreateInv, Org!StateInv
    <3>2. state # None /\ state.ticket # Org!NoTicket => state.ticket \in DOMAIN tickets
      BY <3>1 DEF Org!Sound
    <3>3. state # None /\ state.pending = "create" => Org!Told(state.handle, state.ticket)'
      BY <1>14, <1>26, <3>1, <3>2
    <3> QED  BY <1>25, <2>1, <3>1, <3>3
  <2>5. call' # None /\ call'.op = "create" =>
          /\ \A c \in Org!Creations' : c.n = call'.n
          /\ call'.reply # None => Org!Told(call.reply.handle, call.reply.ticket)'
          /\ call'.reply # None /\ Org!netDefinitiveFailure(call'.reply)
               => Org!Mine' = {} /\ Org!Creations' = {}
    <3> SUFFICES ASSUME call' # None, call'.op = "create"
                 PROVE  /\ \A c \in Org!Creations' : c.n = call'.n
                        /\ call'.reply # None => Org!Told(call.reply.handle, call.reply.ticket)'
                        /\ call'.reply # None /\ Org!netDefinitiveFailure(call'.reply)
                             => Org!Mine' = {} /\ Org!Creations' = {}
      OBVIOUS
    <3>1. \A c \in Org!Creations : c.n = call.n
      BY <1>22, OrgTypes DEF Org!CreateInv
    <3>2. \A c \in Org!Creations' : c.n = call'.n
      BY <1>6, <1>22, <2>1, <3>1
    <3>3. CASE call' = call
      <4>1. call.reply # None =>
              /\ Org!Told(call.reply.handle, call.reply.ticket)
              /\ Org!netDefinitiveFailure(call.reply) => Org!Mine = {} /\ Org!Creations = {}
        BY <3>3, OrgTypes DEF Org!CreateInv
      <4>2. call.reply # None /\ call.reply.ticket # Org!NoTicket => call.reply.ticket \in DOMAIN tickets
        BY <3>3, OrgTypes DEF Org!ReplyInv
      <4>3. call.reply # None => Org!Told(call.reply.handle, call.reply.ticket)'
        BY <1>26, <3>3, <4>1, <4>2
      <4> QED  BY <1>25, <2>1, <3>2, <3>3, <4>1, <4>3
    <3>4. CASE call' # call
      <4>1. r.op = "create"
        BY <1>22, <3>4 DEF Org!Requested
      <4>2. Org!Told(call.reply.handle, call.reply.ticket)'
        BY <1>7, <1>10, <1>11, <1>22, <1>25, <2>1, <3>4, <4>1 DEF Org!Told
      <4> QED  BY <1>22, <3>2, <3>4, <4>2 DEF Org!netDefinitiveFailure
    <3> QED  BY <3>3, <3>4
  <2>6. call' # None /\ call'.reply # None /\ call'.reply.kind = "missing" => ~Org!Present(call.m.handle)'
    <3> SUFFICES ASSUME call' # None, call'.reply # None, call'.reply.kind = "missing"
                 PROVE  ~Org!Present(call.m.handle)'
      OBVIOUS
    <3>1. call' = call
      BY <1>22
    <3> QED  BY <1>25, <3>1, OrgTypes DEF Org!CreateInv
  <2> QED  BY <1>14, <1>20, <2>2, <2>3, <2>4, <2>5, <2>6 DEF Org!CreateInv
<1>28. ~lost /\ edits = 0 => Org!QuietInv'
  <2> SUFFICES ASSUME ~lost, edits = 0 PROVE Org!QuietInv'
    OBVIOUS
  <2>1. Org!Outstanding = {r} /\ Org!Outstanding' = {q}
    BY <1>5, <1>16, OrgStillOpen
  <2>2. /\ IF Org!Sent THEN r.n = call.n ELSE state # None /\ Org!Requested(r, state.pending, state)
        /\ r.op # "create" => Org!Present(r.handle)
        /\ r.op = "update" => orgs[r.handle].value # r.value
        /\ state # None /\ state.ticket # Org!NoTicket => tickets[state.ticket].status = "open"
    BY <1>5, OrgTypes DEF Org!QuietInv
  <2>3. IF Org!Sent THEN q.n = call'.n ELSE state # None /\ Org!Requested(q, state.pending, state)
    BY <1>6, <1>9, <1>22, <2>2, OrgTypes DEF Org!Requested, Org!Sent
  <2>4. state # None /\ state.ticket # Org!NoTicket => tickets'[state.ticket].status = "open"
    <3>1. state # None /\ state.ticket # Org!NoTicket => state.ticket \in DOMAIN tickets
      BY OrgTypes DEF Org!StateInv, Org!Sound
    <3> QED  BY <1>10, <2>2, <3>1
  <2>5. Org!Sent' /\ call'.reply # None =>
          /\ ~Org!netDefinitiveFailure(call'.reply)
          /\ call'.reply.ticket # Org!NoTicket => tickets'[call'.reply.ticket].status = "open"
          /\ call'.op # "delete" => ~Org!orgWriteComplete(call'.reply)
    <3>1. CASE call' = call
      <4>1. Org!Sent /\ call.reply # None =>
          /\ ~Org!netDefinitiveFailure(call.reply)
          /\ call.reply.ticket # Org!NoTicket => tickets[call.reply.ticket].status = "open"
          /\ call.op # "delete" => ~Org!orgWriteComplete(call.reply)
        BY <1>5, OrgTypes DEF Org!QuietInv
      <4>2. Org!Sent /\ call.reply # None /\ call.reply.ticket # Org!NoTicket =>
              call.reply.ticket \in DOMAIN tickets
        BY OrgTypes DEF Org!ReplyInv, Org!Sent
      <4> QED  BY <1>10, <1>20, <3>1, <4>1, <4>2
    <3>2. CASE call' # call
      BY <1>7, <1>10, <1>11, <1>22, <3>2 DEF Org!netDefinitiveFailure, Org!orgWriteComplete
    <3> QED  BY <3>1, <3>2
  <2>6. state # None /\ state.pending = "" /\ Org!Present(state.handle) => orgs[state.handle].value = state.value
    BY <1>5, OrgTypes DEF Org!QuietInv
  <2>7. ~(call' # None /\ call'.at = "submit")
    <3> SUFFICES ASSUME call # None, call.at = "submit" PROVE FALSE
      BY <1>22
    <3> QED  BY <1>5, OrgStillOpen, OrgSentAt
  <2>8. /\ r.op # "create" => Org!Present(q.handle)' /\ q.handle = r.handle
        /\ q.op = "update" => orgs'[q.handle].value # q.value
    BY <1>2, <1>6, <1>9, <1>25, <2>2
  <2> QED  BY <1>2, <1>6, <1>14, <1>20, <1>25, <2>1, <2>3, <2>4, <2>5, <2>6, <2>7, <2>8
           DEF Org!QuietInv, Org!Requested
<1>29. Org!CreateInv' /\ Org!QuietInv'
  BY <1>14, <1>27, <1>28 DEF Org!CreateInv, Org!QuietInv
<1> QED  BY <1>17, <1>20, <1>21, <1>23, <1>24, <1>29 DEF Org!IInv

\* The resource starts without organizations, requests, tickets or state.
LEMMA OrgInit == ASSUME Org!Assumption, Org!Init PROVE Org!IInv
<1>1. /\ orgs = [h \in Handles |-> None] /\ given = {} /\ wire = {} /\ tickets = << >>
      /\ state = None /\ call = None /\ sent = 0 /\ named = {} /\ lost = FALSE
      /\ edits = 0 /\ crashes = 0
  BY DEF Org!Init
<1>2. MaxSubmits \in Nat /\ MaxTickets \in Nat /\ MaxEdits \in Nat /\ MaxCrashes \in Nat
  BY DEF Org!Assumption
<1>3. 0 \in 0 .. MaxSubmits /\ 0 \in 0 .. MaxEdits /\ 0 \in 0 .. MaxCrashes
  BY <1>2
<1>4. tickets \in Seq(Org!Ticket) /\ Len(tickets) = 0 /\ DOMAIN tickets = {} /\ Len(tickets) <= MaxTickets
  BY <1>1, <1>2
<1>5. Org!TypeOK
  BY <1>1, <1>3, <1>4 DEF Org!TypeOK
<1>6. Org!Outstanding = {} /\ Org!Requests = {} /\ Org!Mine = {} /\ Org!Creations = {}
  BY <1>1, <1>4 DEF Org!Outstanding, Org!Requests, Org!Mine, Org!Creations
<1>7. Org!RequestInv /\ Org!StateInv /\ Org!CallInv /\ Org!ReplyInv /\ Org!TicketInv
  BY <1>1, <1>4, <1>6 DEF Org!RequestInv, Org!StateInv, Org!CallInv, Org!ReplyInv, Org!TicketInv
<1>8. Org!CreateInv /\ Org!QuietInv
  BY <1>1, <1>6 DEF Org!CreateInv, Org!QuietInv, Org!NoSecondOrganization, Org!Sent
<1> QED  BY <1>5, <1>7, <1>8 DEF Org!IInv

\* Every step keeps the inductive invariant.
LEMMA OrgStep ==
  ASSUME Org!Assumption, Org!IInv, [Org!Next]_(Org!vars) PROVE Org!IInv'
<1>1. CASE UNCHANGED Org!vars
  <2>1. UNCHANGED <<orgs, given, wire, tickets, state, call, sent, named, lost, edits, crashes>>
    BY <1>1 DEF Org!vars, Org!service, Org!history, Org!bounds
  <2>2. Org!TypeOK'
    BY <2>1, OrgTypes DEF Org!TypeOK
  <2>3. /\ Org!Requests' = Org!Requests /\ Org!Outstanding' = Org!Outstanding
        /\ Org!Mine' = Org!Mine /\ (Org!Sent' <=> Org!Sent)
    BY <2>1 DEF Org!Requests, Org!Outstanding, Org!Mine, Org!Sent
  <2>4. Org!Creations' = Org!Creations
    BY <2>3 DEF Org!Creations
  <2>5. /\ \A m : Org!Sound(m)' <=> Org!Sound(m)
        /\ \A t : Org!Terminal(t)' <=> Org!Terminal(t)
        /\ \A h : Org!Present(h)' <=> Org!Present(h)
    BY <2>1 DEF Org!Sound, Org!Terminal, Org!Present
  <2>6. /\ \A g, t : Org!Told(g, t)' <=> Org!Told(g, t)
        /\ Org!NoSecondOrganization' <=> Org!NoSecondOrganization
    BY <2>1, <2>3, <2>4 DEF Org!Told, Org!NoSecondOrganization
  <2>7. Org!RequestInv' /\ Org!StateInv'
    BY <2>1, <2>3, <2>5, OrgTypes DEF Org!RequestInv, Org!StateInv
  <2>11. Org!CallInv'
    <3>1. Org!CallInv /\ \A r, op, m : Org!Requested(r, op, m)' <=> Org!Requested(r, op, m)
      BY OrgTypes DEF Org!Requested
    <3> QED  BY <2>1, <2>3, <2>5, <3>1 DEF Org!CallInv
  <2>8. Org!ReplyInv' /\ Org!TicketInv'
    BY <2>1, OrgTypes DEF Org!ReplyInv, Org!TicketInv
  <2>9. Org!CreateInv'
    BY <2>1, <2>3, <2>4, <2>5, <2>6, OrgTypes DEF Org!CreateInv
  <2>10. Org!QuietInv'
    <3>1. Org!QuietInv /\ \A r, op, m : Org!Requested(r, op, m)' <=> Org!Requested(r, op, m)
      BY OrgTypes DEF Org!Requested
    <3> QED  BY <2>1, <2>3, <2>5, <3>1 DEF Org!QuietInv
  <2> QED  BY <2>2, <2>7, <2>8, <2>9, <2>10, <2>11 DEF Org!IInv
<1>2. CASE Org!Begin \/ Org!Crash
  BY <1>2, OrgBegin, OrgCrash
<1>3. CASE Org!CallStep
  BY <1>3, OrgReads, OrgRefresh, OrgSubmit, OrgUnsent, OrgWriteAnswered, OrgDeleteAnswered, OrgVerify
  DEF Org!CallStep
<1>4. CASE Org!CallFails
  BY <1>4, OrgReads, OrgNoAnswer, OrgVerifyRefused DEF Org!CallFails
<1>5. CASE \E r \in wire : Org!Receive(r)
  BY <1>5, OrgCarryOut, OrgOpenTicket, OrgAcceptDeletion, OrgRefuse DEF Org!Receive
<1>6. CASE \E t \in Org!Tickets : Org!CloseTicket(t)
  BY <1>6, OrgCloseTicket
<1>7. CASE \E h \in Handles : Org!Edit(h)
  BY <1>7, OrgEdit
<1> QED  BY <1>1, <1>2, <1>3, <1>4, <1>5, <1>6, <1>7 DEF Org!Next

\* A promise about a state that no call works on follows from what it keeps.
LEMMA OrgPromises ==
  ASSUME Org!Assumption, Org!IInv
  PROVE  /\ Org!NoSecondOrganization /\ Org!SettledIsQuiet /\ Org!BlocksRepeats
         /\ Org!TicketsKept
<1>1. call = None => OrgKept(state)
  BY OrgKeepsState DEF Org!Sent
<1>2. Org!NoSecondOrganization
  BY OrgTypes DEF Org!CreateInv, Org!NoSecondOrganization
<1>3. Org!SettledIsQuiet
  <2> SUFFICES ASSUME ~lost, edits = 0, call = None
               PROVE  /\ state = None => Org!Mine = {} /\ \A r \in Org!Outstanding : r.op # "create"
                      /\ state # None /\ state.pending = "" => Org!Outstanding = {}
    BY OrgTypes DEF Org!SettledIsQuiet
  <2>1. OrgKept(state)
    BY <1>1
  <2>2. state = None => Org!Mine = {} /\ \A r \in Org!Outstanding : r.op # "create"
    BY <2>1 DEF OrgKept, Org!Creations
  <2>3. \A r \in Org!Outstanding : r.op = state.pending
    BY <2>1 DEF OrgKept, Org!Requested
  <2>4. \A r \in Org!Outstanding : r.op # ""
    BY OrgRequests DEF Org!Request, Org!Ops
  <2> QED  BY <2>2, <2>3, <2>4
<1>4. Org!BlocksRepeats
  BY OrgTypes DEF Org!QuietInv, Org!BlocksRepeats, Org!OneOfAKind
<1>5. Org!TicketsKept
  BY <1>1 DEF OrgKept, Org!TicketsKept
<1> QED  BY <1>2, <1>3, <1>4, <1>5

\* The organization's inductive invariant holds in every reachable state:
\* requests keep their numbers behind tickets and, until an outcome is lost (by
\* a crash, or when the read that verifies an accepted deletion is refused),
\* every open ticket that an answer named is in the state or the running call
\* and, while nobody else edits, so is every write that can still take effect.
THEOREM OrgInductive == ASSUME Org!Assumption PROVE Org!Spec => []Org!IInv
<1>1. Org!Init => Org!IInv
  BY OrgInit
<1>2. Org!IInv /\ [Org!Next]_(Org!vars) => Org!IInv'
  BY OrgStep
<1> QED  BY <1>1, <1>2, PTL DEF Org!Spec

\* The organization's writes: unless a crash lost an outcome or the read that
\* verifies an accepted deletion was refused, the resource never has two
\* organizations, registered or still to come, and never loses the ticket of
\* an open review; and while nobody else edits organizations, a settled
\* resource has no write outstanding and none is submitted twice.
THEOREM OrgIsRegisteredOnce ==
  ASSUME Org!Assumption
  PROVE  Org!Spec =>
           []( /\ Org!NoSecondOrganization /\ Org!SettledIsQuiet
               /\ Org!BlocksRepeats /\ Org!TicketsKept )
<1>1. Org!IInv =>
        /\ Org!NoSecondOrganization /\ Org!SettledIsQuiet
        /\ Org!BlocksRepeats /\ Org!TicketsKept
  BY OrgPromises
<1> QED  BY <1>1, OrgInductive, PTL
-----------------------------------------------------------------------------
(* Networks *)

\* The domains of the constants and variables, and the parts of the invariant.
LEMMA NetTypes ==
  ASSUME Net!Assumption, Net!IInv
  PROVE  /\ Foreign \notin Handles /\ None \notin Net!Net /\ None \notin Net!State
         /\ None \notin Net!Reply /\ None \notin Net!Call
         /\ registered \in Net!Net \cup {None} /\ wire \subseteq Net!Request
         /\ tickets \in Seq(Net!Ticket) /\ Len(tickets) <= MaxTickets
         /\ state \in Net!State \cup {None} /\ call \in Net!Call \cup {None}
         /\ sent \in 0 .. MaxSubmits /\ named \subseteq Net!Tickets /\ lost \in BOOLEAN
         /\ edits \in 0 .. MaxEdits /\ crashes \in 0 .. MaxCrashes
         /\ Net!RequestInv /\ Net!StateInv /\ Net!CallInv /\ Net!ReplyInv /\ Net!TicketInv
         /\ Net!CreateInv /\ Net!DeleteInv
<1>1. /\ Foreign \notin Handles /\ None \notin Net!Net /\ None \notin Net!State
      /\ None \notin Net!Reply /\ None \notin Net!Call
  BY DEF Net!Assumption
<1>2. Net!TypeOK /\ Net!RequestInv /\ Net!StateInv /\ Net!CallInv /\ Net!ReplyInv /\ Net!TicketInv
      /\ Net!CreateInv /\ Net!DeleteInv
  BY DEF Net!IInv
<1> QED  BY <1>1, <1>2 DEF Net!TypeOK

\* The bounds, and the numbers of requests and tickets.
LEMMA NetBounds ==
  ASSUME Net!Assumption, Net!IInv
  PROVE  /\ MaxSubmits \in Nat /\ MaxTickets \in Nat /\ MaxEdits \in Nat /\ MaxCrashes \in Nat
         /\ sent \in Nat /\ sent <= MaxSubmits /\ 0 \in 0 .. MaxSubmits
         /\ \A r \in Net!Request : r.n \in 1 .. MaxSubmits /\ r.n # 0
         /\ \A t \in Net!Tickets : t # Net!NoTicket
<1>1. MaxSubmits \in Nat /\ MaxTickets \in Nat /\ MaxEdits \in Nat /\ MaxCrashes \in Nat
  BY DEF Net!Assumption
<1>2. sent \in 0 .. MaxSubmits
  BY DEF Net!IInv, Net!TypeOK
<1>3. \A r \in Net!Request : r.n \in 1 .. MaxSubmits
  BY DEF Net!Request, Net!Sends
<1> QED  BY <1>1, <1>2, <1>3 DEF Net!Tickets, Net!NoTicket

\* The service's requests are well-formed, on their way or behind a ticket.
LEMMA NetRequests ==
  ASSUME Net!Assumption, Net!IInv
  PROVE  /\ \A t \in DOMAIN tickets : t \in Net!Tickets /\ t # Net!NoTicket /\ tickets[t] \in Net!Ticket
         /\ \A r : r \in Net!Requests <=> r \in wire \/ \E t \in DOMAIN tickets : tickets[t].request = r
         /\ \A op, r : r \in Net!Outstanding(op) <=>
              /\ r.op = op
              /\ \/ r \in wire
                 \/ \E t \in DOMAIN tickets : tickets[t].status = "open" /\ tickets[t].request = r
         /\ \A r \in Net!Requests : r \in Net!Request
         /\ \A op : \A r \in Net!Outstanding(op) : r \in Net!Requests /\ r.op = op
         /\ \A t \in DOMAIN tickets :
              tickets[t].status = "open" <=> tickets[t].request \in Net!Outstanding(tickets[t].request.op)
<1>1. \A t \in DOMAIN tickets : t \in 1 .. Len(tickets) /\ tickets[t] \in Net!Ticket
  BY NetTypes
<1>2. \A t \in DOMAIN tickets : t \in Net!Tickets
  BY <1>1, NetBounds, NetTypes DEF Net!Tickets
<1>3. \A r : r \in Net!Requests <=> r \in wire \/ \E t \in DOMAIN tickets : tickets[t].request = r
  BY DEF Net!Requests
<1>4. \A op, r : r \in Net!Outstanding(op) <=>
        /\ r.op = op
        /\ \/ r \in wire
           \/ \E t \in DOMAIN tickets : tickets[t].status = "open" /\ tickets[t].request = r
  BY DEF Net!Outstanding
<1>5. \A r \in Net!Requests : r \in Net!Request
  BY <1>1, <1>3, NetTypes DEF Net!Ticket
<1>6. \A t \in DOMAIN tickets :
        tickets[t].status = "open" <=> tickets[t].request \in Net!Outstanding(tickets[t].request.op)
  BY <1>4, NetTypes DEF Net!RequestInv
<1> QED  BY <1>1, <1>2, <1>3, <1>4, <1>5, <1>6, NetBounds

\* What the state of an idle resource keeps: the network and the writes that
\* may still take effect are its own, or it has them pending.
NetKept(s) ==
  /\ s # None => Net!Sound(s)
  /\ ~lost => \A t \in named : tickets[t].status = "open" => s # None /\ s.ticket = t
  /\ ~lost =>
       /\ s = None => ~Net!Own /\ Net!Outstanding("create") = {}
       /\ s # None /\ s.pending = "create" => Net!Told(s.ticket)
       /\ s # None /\ s.pending # "create" => Net!Known(s.id)
       /\ \A r \in Net!Outstanding("delete") :
            Net!Own /\ r.of = registered.by => s # None /\ Net!Covers(s, r)

\* An open ticket that an answer named is that of a request of its kind.
LEMMA NetOpenTicket ==
  ASSUME Net!Assumption, Net!IInv, NEW t \in named, tickets[t].status = "open", NEW m \in Net!State,
         Net!Sound(m), m.ticket = t
  PROVE  /\ m.pending \in {"create", "delete"} /\ tickets[t].request.op = m.pending
         /\ tickets[t].request \in Net!Outstanding(m.pending)
<1>1. t \in DOMAIN tickets /\ t # Net!NoTicket
  BY NetRequests, NetTypes DEF Net!RequestInv
<1> QED  BY <1>1, NetRequests DEF Net!Sound, Net!State

\* The state keeps what is known until a call has sent its request.
LEMMA NetKeepsState ==
  ASSUME Net!Assumption, Net!IInv, Net!Sent => call.op = "update"
  PROVE  NetKept(state)
<1>1. state # None => Net!Sound(state)
  BY NetTypes DEF Net!StateInv
<1>2. ~lost => \A t \in named : tickets[t].status = "open" => state # None /\ state.ticket = t
  <2> SUFFICES ASSUME ~lost, NEW t \in named, tickets[t].status = "open"
               PROVE  state # None /\ state.ticket = t
    OBVIOUS
  <2>1. t \in DOMAIN tickets /\ t # Net!NoTicket
    BY NetRequests, NetTypes DEF Net!RequestInv
  <2>2. CASE call # None /\ call.m.ticket = t
    <3>1. ~Net!Sent
      <4>1. call.op = "update" => call.m.ticket = Net!NoTicket
        BY <2>2, NetTypes DEF Net!CallInv, Net!Sound, Net!State
      <4> QED  BY <2>1, <2>2, <4>1
    <3> QED  BY <2>1, <2>2, <3>1, NetTypes DEF Net!Sent, Net!CallInv
  <2>3. CASE call # None /\ call.at = "answer" /\ call.reply # None /\ call.reply.ticket = t
    <3>1. call.n # 0
      BY <2>1, <2>3, NetTypes DEF Net!ReplyInv, Net!Uncertain
    <3>2. tickets[t].request.n = call.n /\ tickets[t].request \in Net!Requests
      BY <2>1, <2>3, NetRequests, NetTypes DEF Net!ReplyInv
    <3>3. tickets[t].request.op = "update"
      BY <2>3, <3>1, <3>2, NetTypes DEF Net!Sent, Net!CallInv
    <3> QED  BY <2>1, <3>3, NetTypes DEF Net!RequestInv
  <2> QED  BY <2>2, <2>3, NetTypes DEF Net!TicketInv
<1>3. ~lost =>
        /\ state = None => ~Net!Own /\ Net!Outstanding("create") = {}
        /\ state # None /\ state.pending = "create" => Net!Told(state.ticket)
        /\ state # None /\ state.pending # "create" => Net!Known(state.id)
  <2>1. state = None => ~Net!Sent
    BY NetTypes DEF Net!CallInv, Net!Sent
  <2> QED  BY <2>1, NetTypes DEF Net!CreateInv
<1>4. ~lost => \A r \in Net!Outstanding("delete") :
        Net!Own /\ r.of = registered.by => state # None /\ Net!Covers(state, r)
  BY NetTypes DEF Net!DeleteInv
<1> QED  BY <1>1, <1>2, <1>3, <1>4 DEF NetKept

\* A call's messages to and from its own memory leave requests and tickets.
LEMMA NetSame ==
  ASSUME Net!Assumption, Net!IInv, UNCHANGED <<registered, wire, tickets>>
  PROVE  /\ Net!Requests' = Net!Requests /\ (Net!Own' <=> Net!Own)
         /\ \A op : Net!Outstanding(op)' = Net!Outstanding(op)
         /\ \A m : Net!Sound(m)' <=> Net!Sound(m)
         /\ \A t : Net!Told(t)' <=> Net!Told(t)
         /\ \A id : (Net!Known(id)' <=> Net!Known(id)) /\ (Net!Visible(id)' <=> Net!Visible(id))
         /\ \A m, r : Net!Covers(m, r)' <=> Net!Covers(m, r)
         /\ UNCHANGED <<sent, named>> => Net!RequestInv'
<1>1. Net!Requests' = Net!Requests /\ (Net!Own' <=> Net!Own)
  BY DEF Net!Requests, Net!Own
<1>2. \A op : Net!Outstanding(op)' = Net!Outstanding(op)
  BY DEF Net!Outstanding
<1>3. \A m : Net!Sound(m)' <=> Net!Sound(m)
  BY DEF Net!Sound
<1>4. /\ \A t : Net!Told(t)' <=> Net!Told(t)
      /\ \A id : Net!Known(id)' <=> Net!Known(id)
  BY <1>1, <1>2 DEF Net!Told, Net!Known
<1>5. /\ \A id : Net!Visible(id)' <=> Net!Visible(id)
      /\ \A m, r : Net!Covers(m, r)' <=> Net!Covers(m, r)
  BY DEF Net!Visible, Net!Covers
<1>6. UNCHANGED <<sent, named>> => Net!RequestInv'
  <2> SUFFICES ASSUME UNCHANGED <<sent, named>> PROVE Net!RequestInv'
    OBVIOUS
  <2>1. Net!RequestInv
    BY NetTypes
  <2> QED  BY <1>1, <1>2, <2>1 DEF Net!RequestInv
<1> QED  BY <1>1, <1>2, <1>3, <1>4, <1>5, <1>6

\* A call that begins, or that ends, may leave any state that keeps what is
\* known.
LEMMA NetIdle ==
  ASSUME Net!Assumption, Net!IInv, NEW s \in Net!State \cup {None}, NetKept(s),
         NEW q \in Net!Call \cup {None},
         state' = s, call' = q, UNCHANGED <<registered, wire, tickets, sent, named, edits>>,
         lost' \in BOOLEAN, lost => lost', crashes' \in 0 .. MaxCrashes,
         q # None => q.n = 0 /\ q.reply = None /\ q.at # "confirm" /\ Net!CallInv',
         q # None /\ ~lost /\ q.m.pending # "create" => Net!Known(q.m.id)
  PROVE  Net!IInv'
<1>1. Net!TypeOK'
  BY NetTypes DEF Net!TypeOK
<1>2. Net!RequestInv' /\ Net!Requests' = Net!Requests /\ (Net!Own' <=> Net!Own)
      /\ \A op : Net!Outstanding(op)' = Net!Outstanding(op)
  BY NetSame
<1>3. /\ \A m : Net!Sound(m)' <=> Net!Sound(m)
      /\ \A t : Net!Told(t)' <=> Net!Told(t)
      /\ \A id : (Net!Known(id)' <=> Net!Known(id)) /\ (Net!Visible(id)' <=> Net!Visible(id))
      /\ \A m, r : Net!Covers(m, r)' <=> Net!Covers(m, r)
  BY NetSame
<1>4. Net!StateInv'
  BY <1>3 DEF Net!StateInv, NetKept
<1>5. Net!CallInv'
  BY DEF Net!CallInv
<1>6. Net!ReplyInv' /\ ~Net!Sent'
  BY DEF Net!ReplyInv, Net!Sent
<1>7. Net!TicketInv'
  BY DEF Net!TicketInv, NetKept
<1>8. Net!CreateInv'
  <2> SUFFICES ASSUME ~lost PROVE Net!CreateInv'
    BY DEF Net!CreateInv
  <2>1. /\ \A r, p \in Net!Outstanding("create") : r = p
        /\ Net!Outstanding("create") # {} => ~Net!Own
    BY NetTypes DEF Net!CreateInv
  <2>2. q # None /\ q.op = "create" => Net!Outstanding("create") = {}
    BY DEF Net!CallInv, NetKept
  <2>3. s # None => IF s.pending = "create" THEN Net!Told(s.ticket) ELSE Net!Known(s.id)
    BY DEF NetKept
  <2>4. s = None => ~Net!Own /\ Net!Outstanding("create") = {}
    BY DEF NetKept
  <2> QED  BY <1>2, <1>3, <2>1, <2>2, <2>3, <2>4 DEF Net!CreateInv
<1>9. Net!DeleteInv'
  <2> SUFFICES ASSUME ~lost PROVE Net!DeleteInv'
    BY DEF Net!DeleteInv
  <2>1. \A r, p \in Net!Outstanding("delete") : r = p \/ r.of # p.of \/ r.of = 0
    BY NetTypes DEF Net!DeleteInv
  <2>2. \A r \in Net!Outstanding("delete") :
          (\E t \in named : tickets[t].request = r) /\ Net!Visible(r.handle) => registered.by = r.of
    BY NetTypes DEF Net!DeleteInv
  <2>3. \A r \in Net!Outstanding("delete") :
          Net!Own /\ r.of = registered.by => s # None /\ Net!Covers(s, r)
    BY DEF NetKept
  <2> QED  BY <1>2, <1>3, <1>6, <2>1, <2>2, <2>3 DEF Net!DeleteInv
<1> QED  BY <1>1, <1>2, <1>4, <1>5, <1>6, <1>7, <1>8, <1>9 DEF Net!IInv

\* A call ends with a state that keeps what is known.
LEMMA NetFinish ==
  ASSUME Net!Assumption, Net!IInv, NEW s \in Net!State \cup {None}, NetKept(s),
         Net!Finish(s), UNCHANGED <<Net!service, Net!history, Net!bounds>>
  PROVE  Net!IInv'
<1>1. call' = None /\ state' = s
      /\ UNCHANGED <<registered, wire, tickets, sent, named, lost, edits, crashes>>
  BY DEF Net!Finish, Net!service, Net!history, Net!bounds
<1>2. crashes' \in 0 .. MaxCrashes /\ lost' \in BOOLEAN /\ (lost => lost')
  BY <1>1, NetTypes
<1> QED  BY <1>1, <1>2, NetIdle

\* A call that has sent nothing, or that still waits for what it sent, goes on
\* and takes along what it knows.
LEMMA NetGoes ==
  ASSUME Net!Assumption, Net!IInv, call # None, NEW q \in Net!Call,
         call' = q, UNCHANGED <<registered, wire, tickets, state, sent, named, lost, edits, crashes>>,
         q.op = call.op, q.n = call.n, Net!CallInv', Net!ReplyInv',
         q.reply = call.reply \/ (call.reply = None /\ q.reply = Net!Uncertain),
         ~lost => \A t \in named : tickets[t].status = "open" =>
                    \/ state # None /\ state.ticket = t
                    \/ q.m.ticket = t
                    \/ q.at = "answer" /\ q.reply # None /\ q.reply.ticket = t,
         ~lost /\ q.m.pending # "create" => Net!Known(q.m.id),
         ~lost /\ q.at = "confirm" => ~Net!Own,
         ~lost /\ Net!Sent /\ q.op = "delete" =>
           \A r \in Net!Outstanding("delete") : r.n = q.n /\ Net!Own /\ r.of = registered.by =>
             /\ q.at \in {"verify", "confirm"} => Net!Covers(q.m, r)
             /\ q.at = "answer" /\ q.reply # None /\ q.reply.ticket # Net!NoTicket =>
                  tickets[q.reply.ticket].request = r
  PROVE  Net!IInv'
<1>1. q # None /\ (Net!Sent' <=> Net!Sent)
  BY NetTypes DEF Net!Sent
<1>2. Net!TypeOK'
  BY NetTypes DEF Net!TypeOK
<1>3. Net!RequestInv' /\ Net!Requests' = Net!Requests /\ (Net!Own' <=> Net!Own)
      /\ \A op : Net!Outstanding(op)' = Net!Outstanding(op)
  BY NetSame
<1>4. /\ \A m : Net!Sound(m)' <=> Net!Sound(m)
      /\ \A t : Net!Told(t)' <=> Net!Told(t)
      /\ \A id : (Net!Known(id)' <=> Net!Known(id)) /\ (Net!Visible(id)' <=> Net!Visible(id))
      /\ \A m, r : Net!Covers(m, r)' <=> Net!Covers(m, r)
  BY NetSame
<1>5. Net!StateInv'
  BY <1>4, NetTypes DEF Net!StateInv
<1>6. Net!TicketInv'
  BY <1>1 DEF Net!TicketInv
<1>7. Net!CreateInv'
  <2> SUFFICES ASSUME ~lost PROVE Net!CreateInv'
    BY DEF Net!CreateInv
  <2>1. Net!Uncertain.net = None /\ Net!Uncertain.kind = "uncertain"
        /\ Net!Uncertain.ticket = Net!NoTicket /\ Net!Told(Net!NoTicket)
    BY DEF Net!Uncertain, Net!Told
  <2>2. q.op = "create" =>
          /\ \A r \in Net!Outstanding("create") : r.n = q.n
          /\ q.reply # None =>
               /\ Net!Told(q.reply.ticket)
               /\ q.reply.net # None /\ q.reply.ticket = Net!NoTicket => Net!Known(q.reply.net.handle)
               /\ q.reply.kind = "rejected" => ~Net!Own /\ Net!Outstanding("create") = {}
    BY <2>1, NetTypes DEF Net!CreateInv
  <2>3. /\ \A r, p \in Net!Outstanding("create") : r = p
        /\ Net!Outstanding("create") # {} => ~Net!Own
        /\ state = None /\ ~Net!Sent => ~Net!Own /\ Net!Outstanding("create") = {}
        /\ state # None => IF state.pending = "create" THEN Net!Told(state.ticket) ELSE Net!Known(state.id)
    BY NetTypes DEF Net!CreateInv
  <2> QED  BY <1>1, <1>3, <1>4, <2>2, <2>3 DEF Net!CreateInv
<1>8. Net!DeleteInv'
  <2> SUFFICES ASSUME ~lost PROVE Net!DeleteInv'
    BY DEF Net!DeleteInv
  <2>1. /\ \A r, p \in Net!Outstanding("delete") : r = p \/ r.of # p.of \/ r.of = 0
        /\ \A r \in Net!Outstanding("delete") : Net!Own /\ r.of = registered.by =>
             \/ state # None /\ Net!Covers(state, r)
             \/ Net!Sent /\ r.n = call.n /\ call.op = "delete"
        /\ \A r \in Net!Outstanding("delete") :
             /\ (Net!Sent /\ r.n = call.n) \/ \E t \in named : tickets[t].request = r
             /\ Net!Visible(r.handle)
             => registered.by = r.of
    BY NetTypes DEF Net!DeleteInv
  <2> QED  BY <1>1, <1>3, <1>4, <2>1 DEF Net!DeleteInv
<1> QED  BY <1>2, <1>3, <1>5, <1>6, <1>7, <1>8 DEF Net!IInv

\* A call starts from the state, from a plan, or from an imported handle.
LEMMA NetStart ==
  ASSUME Net!Assumption, Net!IInv, NEW op, NEW at, NEW m \in Net!State, NEW messages \in BOOLEAN,
         Net!Start(op, at, m, messages),
         \/ op = "create" /\ at = "find" /\ state = None /\ m = Net!pendingNet(m.name, Net!NoTicket)
         \/ op \in {"read", "delete"} /\ at = Net!FirstRead(m) /\ state # None /\ m = state
         \/ op = "update" /\ at = "get" /\ state # None /\ state.pending = "" /\ m = [state EXCEPT !.name = m.name]
         \/ op = "read" /\ at = "get" /\ state = None /\ m.id \in Handles /\ m.pending = "" /\ m.ticket = Net!NoTicket
  PROVE  Net!IInv'
<1> DEFINE q == [op |-> op, at |-> at, m |-> m, n |-> 0, reply |-> None, messages |-> messages]
<1>1. at \in {"find", "get"} /\ op \in {"create", "read", "update", "delete"}
  BY DEF Net!FirstRead
<1>2. q \in Net!Call /\ q.op = op /\ q.at = at /\ q.m = m /\ q.n = 0 /\ q.reply = None
  BY <1>1, NetBounds DEF Net!Call
<1>3. /\ call = None /\ call' = q
      /\ UNCHANGED <<registered, wire, tickets, state, sent, named, lost, edits, crashes>>
  BY DEF Net!Start, Net!service, Net!history, Net!bounds
<1> HIDE DEF q
<1>4. ~Net!Sent
  BY <1>3 DEF Net!Sent
<1>5. NetKept(state)
  BY <1>4, NetKeepsState
<1>6. q # None
  BY <1>2, NetTypes
<1>7. /\ op = "create" => m.pending = "create" /\ m.ticket = Net!NoTicket
      /\ state # None => m.id = state.id /\ m.pending = state.pending /\ m.ticket = state.ticket
      /\ op # "create" /\ state = None => m.id \in Handles /\ m.pending = "" /\ m.ticket = Net!NoTicket
  <2>1. op = "create" => m.pending = "create" /\ m.ticket = Net!NoTicket
    BY DEF Net!pendingNet
  <2>2. state # None => state \in Net!State
    BY NetTypes
  <2>3. state # None => m.id = state.id /\ m.pending = state.pending /\ m.ticket = state.ticket
    BY <2>2 DEF Net!State
  <2> QED  BY <2>1, <2>3
<1>12. Net!Sound(m)
  <2>1. state # None => Net!Sound(state)
    BY <1>5 DEF NetKept
  <2> QED  BY <1>7, <2>1 DEF Net!Sound
<1>8. ~lost /\ m.pending # "create" => Net!Known(m.id)
  <2>1. state = None /\ ~lost => \A id : Net!Known(id)
    BY <1>5 DEF NetKept, Net!Known
  <2> QED  BY <1>5, <1>7, <2>1 DEF NetKept
<1>9. \A r \in Net!Requests' : r.n # 0
  <2>1. Net!Requests' = Net!Requests
    BY <1>3, NetSame
  <2> QED  BY <2>1, NetBounds, NetRequests
<1>10. Net!CallInv'
  <2>1. call' # None /\ call'.op = op /\ call'.at = at /\ call'.m = m /\ call'.n = 0 /\ call'.reply = None
    BY <1>2, <1>3, <1>6
  <2>2. Net!Sound(call.m)'
    BY <1>3, <1>12, <2>1 DEF Net!Sound
  <2>3. 0 <= sent'
    <3>1. sent' = sent /\ sent \in Nat
      BY <1>3, NetBounds
    <3> QED  BY ONLY <3>1
  <2>4. /\ op = "create" => state = None /\ m = Net!pendingNet(m.name, Net!NoTicket) /\ at = "find"
        /\ op = "update" => state # None /\ state.pending = "" /\ m = [state EXCEPT !.name = m.name] /\ at = "get"
        /\ op = "read" => IF state = None THEN m.pending = "" ELSE m = state
        /\ op = "delete" => state # None /\ m = state
    OBVIOUS
  <2>5. op # "create" => (at \in {"find", "ticket"} <=> m.pending = "create")
    BY <2>4, NetTypes DEF Net!FirstRead, Net!State
  <2>6. m.ticket # Net!NoTicket => state # None /\ m.ticket = state.ticket
    BY <1>7
  <2> QED  BY <1>1, <1>3, <1>9, <2>1, <2>2, <2>3, <2>4, <2>5, <2>6 DEF Net!CallInv
<1>11. crashes' \in 0 .. MaxCrashes /\ lost' \in BOOLEAN /\ (lost => lost') /\ state \in Net!State \cup {None}
  BY <1>3, NetTypes
<1> QED  BY <1>1, <1>2, <1>3, <1>5, <1>8, <1>10, <1>11, NetIdle

\* Calls begin: Create, Read, Update, Delete and import.
LEMMA NetBegin == ASSUME Net!Assumption, Net!IInv, Net!Begin PROVE Net!IInv'
<1>1. ASSUME NEW name \in Names, Net!StartCreate(name) PROVE Net!IInv'
  <2> DEFINE m == Net!pendingNet(name, Net!NoTicket)
  <2>1. m \in Net!State /\ m = Net!pendingNet(m.name, Net!NoTicket)
    BY DEF Net!pendingNet, Net!State
  <2>2. state = None /\ Net!Start("create", "find", m, FALSE)
    BY <1>1 DEF Net!StartCreate
  <2> HIDE DEF m
  <2> QED  BY <2>1, <2>2, NetStart
<1>2. ASSUME NEW name \in Names, Net!StartUpdate(name) PROVE Net!IInv'
  <2> DEFINE m == [state EXCEPT !.name = name]
  <2>1. state # None /\ state.pending = "" /\ state \in Net!State
    BY <1>2, NetTypes DEF Net!StartUpdate
  <2>2. m \in Net!State /\ m = [state EXCEPT !.name = m.name]
    BY <2>1 DEF Net!State
  <2>3. name = state.name => m = state
    BY <2>1 DEF Net!State
  <2>4. Net!Start(IF name = state.name THEN "read" ELSE "update", "get", m, FALSE)
    BY <1>2 DEF Net!StartUpdate
  <2> HIDE DEF m
  <2>5. CASE name = state.name
    <3>1. Net!Start("read", "get", m, FALSE) /\ m = state /\ Net!FirstRead(m) = "get"
      BY <2>1, <2>3, <2>4, <2>5 DEF Net!FirstRead
    <3> QED  BY <2>1, <2>2, <3>1, NetStart
  <2>6. CASE name # state.name
    BY <2>1, <2>2, <2>4, <2>6, NetStart
  <2> QED  BY <2>5, <2>6
<1>3. CASE Net!StartRead
  BY <1>3, NetStart, NetTypes DEF Net!StartRead
<1>4. ASSUME NEW messages \in BOOLEAN, Net!StartDelete(messages) PROVE Net!IInv'
  BY <1>4, NetStart, NetTypes DEF Net!StartDelete
<1>5. ASSUME NEW h \in Handles, Net!ImportState(h) PROVE Net!IInv'
  <2>1. PICK name \in Names :
          /\ state = None
          /\ Net!Start("read", "get", [id |-> h, name |-> name, pending |-> "", ticket |-> Net!NoTicket], FALSE)
    BY <1>5 DEF Net!ImportState
  <2> DEFINE m == [id |-> h, name |-> name, pending |-> "", ticket |-> Net!NoTicket]
  <2>2. m \in Net!State /\ m.id = h /\ m.pending = "" /\ m.ticket = Net!NoTicket
    BY DEF Net!State
  <2>3. Net!Start("read", "get", m, FALSE)
    BY <2>1
  <2> HIDE DEF m
  <2> QED  BY <2>1, <2>2, <2>3, NetStart
<1> QED  BY <1>1, <1>2, <1>3, <1>4, <1>5 DEF Net!Begin

\* A call goes on to its next request, or gives up waiting for an answer.
NetMoves(q) ==
  \/ call.op = "create" /\ call.at = "find" /\ q.at = "submit"
  \/ call.op # "create" /\ call.at = "find" /\ q.at = "ticket" /\ call.m.ticket # Net!NoTicket
  \/ call.op = "update" /\ call.at = "get" /\ q.at = "submit"
  \/ call.op = "delete" /\ call.at = "get" /\ q.at = "current" /\ call.m.pending = ""
  \/ call.op = "delete" /\ call.at = "get" /\ q.at = "status" /\ call.m.ticket # Net!NoTicket
  \/ call.op = "delete" /\ call.at = "current" /\ q.at = "submit"
  \/ /\ call.op = "delete" /\ call.at = "answer" /\ q.at = "recheck"
     /\ call.reply # None /\ call.reply.kind = "missing"
  \/ /\ call.op \in {"read", "delete"} /\ call.at \in {"get", "verify"} /\ q.at = "confirm"
     /\ call.m.pending = "delete" /\ call.m.ticket # Net!NoTicket /\ ~Net!Visible(call.m.id)

NetWaits(q) ==
  call.at \in {"submit", "answer"} /\ call.reply = None /\ q.at = "answer" /\ q.reply = Net!Uncertain

LEMMA NetMoved ==
  ASSUME Net!Assumption, Net!IInv, call # None, NEW q \in Net!Call,
         call' = q, UNCHANGED <<registered, wire, tickets, state, sent, named, lost, edits, crashes>>,
         q.op = call.op, q.m = call.m, q.n = call.n,
         (NetMoves(q) /\ q.reply = call.reply) \/ NetWaits(q)
  PROVE  Net!IInv'
<1>1. call \in Net!Call /\ Net!CallInv /\ Net!ReplyInv /\ Net!Sound(call.m) /\ (state # None => Net!Sound(state))
  BY NetTypes DEF Net!CallInv, Net!StateInv
<1>2. call.at = "get" /\ call.m.ticket # Net!NoTicket /\ call.op = "delete" => call.m.pending = "delete" /\ call.m = state
  BY <1>1 DEF Net!CallInv, Net!Sound, Net!Call, Net!State
<1>3. Net!Requests' = Net!Requests /\ sent' = sent /\ state' = state /\ q # None
      /\ \A m : Net!Sound(m)' <=> Net!Sound(m)
  BY NetSame, NetTypes
<1>4. Net!CallInv'
  <2>1. Net!Sound(call.m)'
    BY <1>1, <1>3 DEF Net!Sound
  <2>2. CASE NetMoves(q) /\ q.reply = call.reply
    BY <1>1, <1>2, <1>3, <2>1, <2>2 DEF NetMoves, Net!CallInv
  <2>3. CASE NetWaits(q)
    BY <1>1, <1>3, <2>1, <2>3 DEF NetWaits, Net!CallInv
  <2> QED  BY <2>2, <2>3
<1>5. /\ Net!Uncertain.kind = "uncertain" /\ Net!Uncertain.net = None
      /\ Net!Uncertain.ticket = Net!NoTicket
  BY DEF Net!Uncertain
<1>6. Net!ReplyInv'
  <2>1. \A op : Net!Outstanding(op)' = Net!Outstanding(op)
    BY NetSame
  <2>2. q.reply = call.reply \/ q.reply = Net!Uncertain
    BY DEF NetWaits
  <2> QED  BY <1>1, <1>3, <1>5, <2>1, <2>2 DEF Net!ReplyInv
<1>7. ~lost => \A t \in named : tickets[t].status = "open" =>
        \/ state # None /\ state.ticket = t
        \/ q.m.ticket = t
        \/ q.at = "answer" /\ q.reply # None /\ q.reply.ticket = t
  <2> SUFFICES ASSUME ~lost, NEW t \in named, tickets[t].status = "open", call.at = "answer",
                      call.reply # None, call.reply.ticket = t
               PROVE  q.at = "answer" /\ q.reply = call.reply
    BY <1>3, NetTypes DEF Net!TicketInv
  <2>1. t # Net!NoTicket
    BY NetRequests, NetTypes DEF Net!RequestInv
  <2>2. call.reply.kind # "missing"
    BY <1>1, <2>1 DEF Net!ReplyInv
  <2> QED  BY <2>2 DEF NetMoves, NetWaits
<1>8. ~lost /\ q.m.pending # "create" => Net!Known(q.m.id)
  BY NetTypes DEF Net!CreateInv
<1>9. ~lost /\ q.at = "confirm" => ~Net!Own
  <2> SUFFICES ASSUME ~lost, q.at = "confirm" PROVE ~Net!Own
    OBVIOUS
  <2>1. call.m.pending # "create" /\ ~Net!Visible(call.m.id)
    BY DEF NetMoves, NetWaits
  <2> QED  BY <1>8, <2>1 DEF Net!Known, Net!Visible, Net!Own
<1>10. ~lost /\ Net!Sent /\ q.op = "delete" =>
         \A r \in Net!Outstanding("delete") : r.n = q.n /\ Net!Own /\ r.of = registered.by =>
           /\ q.at \in {"verify", "confirm"} => Net!Covers(q.m, r)
           /\ q.at = "answer" /\ q.reply # None /\ q.reply.ticket # Net!NoTicket =>
                tickets[q.reply.ticket].request = r
  BY <1>5, <1>9 DEF NetMoves, NetWaits
<1>11. q.reply = call.reply \/ (call.reply = None /\ q.reply = Net!Uncertain)
  BY DEF NetWaits
<1> QED  BY <1>3, <1>4, <1>6, <1>7, <1>8, <1>9, <1>10, <1>11, NetGoes

\* A call keeps its stage's part of what Absent, Goto and Finish do.
LEMMA NetGoto ==
  ASSUME Net!Assumption, Net!IInv, call # None, NEW at \in {"submit", "ticket", "current", "status", "recheck", "confirm"},
         Net!Goto(at), UNCHANGED <<Net!service, Net!history, Net!bounds>>,
         NetMoves([call EXCEPT !.at = at])
  PROVE  Net!IInv'
<1> DEFINE q == [call EXCEPT !.at = at]
<1>1. /\ call \in Net!Call /\ call' = q
      /\ UNCHANGED <<registered, wire, tickets, state, sent, named, lost, edits, crashes>>
  BY NetTypes DEF Net!Goto, Net!service, Net!history, Net!bounds
<1>2. /\ q \in Net!Call /\ q.op = call.op /\ q.m = call.m /\ q.n = call.n /\ q.reply = call.reply
      /\ NetMoves(q)
  BY <1>1 DEF Net!Call
<1> HIDE DEF q
<1> QED  BY <1>1, <1>2, NetMoved

\* What a call concludes when the network it knows of is gone.
LEMMA NetGone ==
  ASSUME Net!Assumption, Net!IInv, call # None, call.op \in {"read", "delete"},
         \/ call.at \in {"get", "verify"} /\ ~Net!Visible(call.m.id) /\ call.m.ticket = Net!NoTicket
         \/ call.at = "confirm" /\ Net!Terminal(call.m.ticket)
  PROVE  NetKept(None)
<1>1. /\ call \in Net!Call /\ Net!CallInv /\ Net!Sound(call.m) /\ (state # None => Net!Sound(state))
      /\ call.m.pending # "create"
  BY NetTypes DEF Net!CallInv, Net!StateInv
<1>2. ~lost => Net!Known(call.m.id)
  BY <1>1, NetTypes DEF Net!CreateInv
<1>3. ~lost => ~Net!Own /\ Net!Outstanding("create") = {}
  <2>1. ~lost /\ call.at = "confirm" => ~Net!Own
    BY NetTypes DEF Net!CreateInv
  <2> QED  BY <1>2, <2>1 DEF Net!Known, Net!Visible, Net!Own
<1>4. ~lost => \A t \in named : tickets[t].status # "open"
  <2> SUFFICES ASSUME ~lost, NEW t \in named, tickets[t].status = "open" PROVE FALSE
    OBVIOUS
  <2>1. t # Net!NoTicket /\ t # call.m.ticket
    BY NetRequests, NetTypes DEF Net!RequestInv, Net!Terminal
  <2>2. state # None /\ state.ticket = t
    BY <2>1, NetTypes DEF Net!TicketInv
  <2>3. state \in Net!State /\ state.pending \in {"create", "delete"}
        /\ tickets[t].request \in Net!Outstanding(state.pending)
    BY <1>1, <2>2, NetOpenTicket, NetTypes
  <2>4. state.pending = "delete"
    BY <1>3, <2>3
  <2>5. call.m = state
    BY <1>1, <2>2, <2>4 DEF Net!CallInv
  <2> QED  BY <2>1, <2>2, <2>5
<1> QED  BY <1>3, <1>4 DEF NetKept

\* What the deletion of a network leaves in state once its request is out.
LEMMA NetKeepsPending ==
  ASSUME Net!Assumption, Net!IInv, call # None, call.at \in {"verify", "confirm"}
  PROVE  NetKept(call.m) /\ call.m \in Net!State /\ call.m.pending = "delete"
<1>1. /\ call \in Net!Call /\ Net!CallInv /\ Net!Sound(call.m) /\ (state # None => Net!Sound(state))
      /\ call.m \in Net!State
  BY NetTypes DEF Net!CallInv, Net!StateInv, Net!Call
<1>2. call.m.pending = "delete" /\ call.m # None /\ call.op \in {"read", "delete"} /\ call.m.pending # "create"
  BY <1>1, NetTypes DEF Net!CallInv, Net!Call
<1>3. ~lost => Net!Known(call.m.id)
  BY <1>2, NetTypes DEF Net!CreateInv
<1>4. state # None /\ state.pending = "delete" => call.m = state
  BY <1>1, <1>2 DEF Net!CallInv
<1>5. ~lost => \A t \in named : tickets[t].status = "open" => call.m.ticket = t
  <2> SUFFICES ASSUME ~lost, NEW t \in named, tickets[t].status = "open", state # None, state.ticket = t
               PROVE  call.m.ticket = t
    BY NetTypes DEF Net!TicketInv
  <2>1. state \in Net!State /\ state.pending \in {"create", "delete"}
        /\ tickets[t].request \in Net!Outstanding(state.pending)
    BY <1>1, NetOpenTicket, NetTypes
  <2>2. state.pending = "delete"
    BY <1>3, <2>1 DEF Net!Known
  <2> QED  BY <1>4, <2>2
<1>6. ~lost => \A r \in Net!Outstanding("delete") : Net!Own /\ r.of = registered.by => Net!Covers(call.m, r)
  <2> SUFFICES ASSUME ~lost, NEW r \in Net!Outstanding("delete"), Net!Own, r.of = registered.by
               PROVE  Net!Covers(call.m, r)
    OBVIOUS
  <2>1. CASE state # None /\ Net!Covers(state, r)
    BY <1>4, <2>1 DEF Net!Covers
  <2>2. CASE ~(state # None /\ Net!Covers(state, r))
    BY <2>2, NetTypes DEF Net!DeleteInv
  <2> QED  BY <2>1, <2>2
<1> QED  BY <1>1, <1>2, <1>3, <1>5, <1>6 DEF NetKept

\* A call that has not got to its answer has sent nothing.
LEMMA NetEarly ==
  ASSUME Net!Assumption, Net!IInv, call # None,
         call.at \in {"find", "ticket", "get", "status", "current", "submit"}
  PROVE  /\ ~Net!Sent /\ call.n = 0 /\ call.reply = None /\ NetKept(state)
         /\ state \in Net!State \cup {None}
<1>1. ~Net!Sent /\ call.n = 0 /\ call.reply = None
  BY NetTypes DEF Net!CallInv, Net!Sent
<1> QED  BY <1>1, NetKeepsState, NetTypes

\* A refused deletion leaves the state as it was.
LEMMA NetRefused ==
  ASSUME Net!Assumption, Net!IInv, call # None, call.op = "delete", call.at \in {"answer", "recheck"},
         call.reply # None, call.reply.kind \in {"rejected", "missing"}
  PROVE  NetKept(state)
<1>1. /\ call \in Net!Call /\ state # None /\ Net!Sound(state) /\ Net!Sound(call.m)
      /\ call.m.pending = "" /\ call.m.ticket = Net!NoTicket
  BY NetTypes DEF Net!CallInv, Net!StateInv, Net!Sound
<1>2. call.reply.ticket = Net!NoTicket /\ \A r \in Net!Outstanding("delete") : r.n # call.n
  BY NetTypes DEF Net!ReplyInv
<1>3. ~lost => \A t \in named : tickets[t].status = "open" => state.ticket = t
  <2> SUFFICES ASSUME ~lost, NEW t \in named, tickets[t].status = "open" PROVE state.ticket = t
    OBVIOUS
  <2>1. t # Net!NoTicket
    BY NetRequests, NetTypes DEF Net!RequestInv
  <2> QED  BY <1>1, <1>2, <2>1, NetTypes DEF Net!TicketInv
<1>4. ~lost => IF state.pending = "create" THEN Net!Told(state.ticket) ELSE Net!Known(state.id)
  BY <1>1, NetTypes DEF Net!CreateInv
<1>5. ~lost => \A r \in Net!Outstanding("delete") : Net!Own /\ r.of = registered.by => Net!Covers(state, r)
  BY <1>2, NetTypes DEF Net!DeleteInv
<1> QED  BY <1>1, <1>3, <1>4, <1>5 DEF NetKept

\* The deletion's outcome, before the verifying read.
LEMMA NetPends ==
  ASSUME Net!Assumption, Net!IInv, call # None, call.op = "delete", NEW ticket0,
         \/ call.at \in {"current", "recheck"} /\ ticket0 = Net!NoTicket
         \/ call.at = "answer" /\ call.reply # None /\ ticket0 = call.reply.ticket,
         Net!Outcome(ticket0), UNCHANGED <<Net!service, Net!history, Net!bounds>>
  PROVE  Net!IInv'
<1> DEFINE m == [call.m EXCEPT !.pending = "delete", !.ticket = ticket0]
           q == [call EXCEPT !.m = m, !.at = "verify"]
<1>1. /\ call \in Net!Call /\ call' = q
      /\ UNCHANGED <<registered, wire, tickets, state, sent, named, lost, edits, crashes>>
  BY NetTypes DEF Net!Outcome, Net!pendingDeletion, Net!service, Net!history, Net!bounds
<1>2. /\ Net!CallInv /\ Net!ReplyInv /\ call.m \in Net!State /\ state # None
      /\ Net!Sound(state) /\ Net!Sound(call.m) /\ call.m.pending = "" /\ call.m.ticket = Net!NoTicket
  BY <1>1, NetTypes DEF Net!CallInv, Net!StateInv, Net!Sound, Net!Call
<1>3. ticket0 \in Net!Tickets \cup {Net!NoTicket}
  BY <1>1, NetTypes DEF Net!Call, Net!Reply
<1>4. m \in Net!State /\ m.id = call.m.id /\ m.pending = "delete" /\ m.ticket = ticket0 /\ m.name = call.m.name
  BY <1>2, <1>3 DEF Net!State
<1> HIDE DEF m
<1>5. q \in Net!Call /\ q.op = "delete" /\ q.at = "verify" /\ q.m = m /\ q.n = call.n /\ q.reply = call.reply
  BY <1>1, <1>4 DEF Net!Call
<1> HIDE DEF q
<1>6. q # None /\ Net!Requests' = Net!Requests /\ \A op : Net!Outstanding(op)' = Net!Outstanding(op)
  BY <1>1, <1>5, NetSame, NetTypes
<1>7. ticket0 # Net!NoTicket =>
        /\ call.n # 0 /\ ticket0 \in DOMAIN tickets
        /\ tickets[ticket0].request.op = "delete" /\ tickets[ticket0].request.handle = call.m.id
  <2> SUFFICES ASSUME ticket0 # Net!NoTicket
               PROVE  /\ call.n # 0 /\ ticket0 \in DOMAIN tickets
                      /\ tickets[ticket0].request.op = "delete" /\ tickets[ticket0].request.handle = call.m.id
    OBVIOUS
  <2>1. call.n # 0 /\ ticket0 \in DOMAIN tickets /\ tickets[ticket0].request.n = call.n
    <3>1. call.reply # None /\ call.reply.ticket = ticket0
      OBVIOUS
    <3>2. call.n = 0 => call.reply.ticket = Net!NoTicket
      <4>1. call.n = 0 => call.reply = Net!Uncertain
        BY <1>2, <3>1 DEF Net!ReplyInv
      <4>2. Net!Uncertain.ticket = Net!NoTicket
        BY DEF Net!Uncertain
      <4> QED  BY <4>1, <4>2
    <3> QED  BY <1>2, <3>1, <3>2 DEF Net!ReplyInv
  <2>2. tickets[ticket0].request \in Net!Requests
    BY <2>1, NetRequests
  <2> QED  BY <1>2, <2>1, <2>2 DEF Net!CallInv
<1>8. Net!CallInv'
  <2>1. Net!Sound(m)
    BY <1>2, <1>4, <1>7 DEF Net!Sound
  <2>2. Net!Sound(call.m)'
    BY <1>1, <1>5, <2>1 DEF Net!Sound
  <2>3. call.n <= sent /\ \A r \in Net!Requests : r.n = call.n => r.op = "delete" /\ r.handle = call.m.id
    BY <1>2 DEF Net!CallInv
  <2>4. state.pending # "delete" /\ (state.pending = "" => call.m.id = state.id)
    BY <1>2 DEF Net!CallInv
  <2>5. /\ call' # None /\ call'.op = "delete" /\ call'.at = "verify" /\ call'.m = m
        /\ call'.n = call.n /\ state' = state /\ sent' = sent
        /\ call'.n = 0 => call'.m.ticket = Net!NoTicket
    BY <1>1, <1>4, <1>5, <1>6, <1>7
  <2> QED  BY <1>2, <1>4, <1>6, <2>2, <2>3, <2>4, <2>5 DEF Net!CallInv
<1>9. Net!ReplyInv'
  BY <1>1, <1>2, <1>5, <1>6 DEF Net!ReplyInv
<1>10. ~lost => \A t \in named : tickets[t].status = "open" => state.ticket = t \/ q.m.ticket = t
  <2> SUFFICES ASSUME ~lost, NEW t \in named, tickets[t].status = "open" PROVE state.ticket = t \/ ticket0 = t
    BY <1>4, <1>5
  <2>1. t # Net!NoTicket
    BY NetRequests, NetTypes DEF Net!RequestInv
  <2> QED  BY <1>2, <2>1, NetTypes DEF Net!TicketInv
<1>11. ~lost => Net!Known(q.m.id)
  BY <1>2, <1>4, <1>5, NetTypes DEF Net!CreateInv
<1>12. ~lost /\ Net!Sent => \A r \in Net!Outstanding("delete") :
         r.n = q.n /\ Net!Own /\ r.of = registered.by => Net!Covers(q.m, r)
  <2> SUFFICES ASSUME ~lost, NEW r \in Net!Outstanding("delete"), Net!Own, r.of = registered.by
               PROVE  Net!Covers(m, r)
    BY <1>5
  <2>1. ~Net!Covers(state, r)
    BY <1>2 DEF Net!Covers, Net!CallInv
  <2>2. ticket0 # Net!NoTicket => tickets[ticket0].request = r
    BY <2>1, NetTypes DEF Net!DeleteInv
  <2> QED  BY <1>4, <2>2 DEF Net!Covers
<1> QED  BY <1>1, <1>2, <1>5, <1>8, <1>9, <1>10, <1>11, <1>12, NetGoes

\* A deletion or refresh finds nothing: it concludes that the network is gone,
\* or confirms the ticket first.
LEMMA NetAbsent ==
  ASSUME Net!Assumption, Net!IInv, call # None, call.op \in {"read", "delete"}, call.at \in {"get", "verify"},
         ~Net!Visible(call.m.id), Net!Absent(call.m), UNCHANGED <<Net!service, Net!history, Net!bounds>>
  PROVE  Net!IInv'
<1>1. call \in Net!Call /\ Net!CallInv /\ Net!Sound(call.m) /\ call.m.pending # "create" /\ call.m \in Net!State
  BY NetTypes DEF Net!CallInv, Net!Call
<1>2. CASE call.m.pending = "delete" /\ call.m.ticket # Net!NoTicket
  <2>1. [call EXCEPT !.m = call.m, !.at = "confirm"] = [call EXCEPT !.at = "confirm"]
    BY <1>1 DEF Net!Call
  <2>2. Net!Goto("confirm")
    BY <1>2, <2>1 DEF Net!Absent, Net!Goto
  <2>3. NetMoves([call EXCEPT !.at = "confirm"])
    BY <1>1, <1>2 DEF NetMoves, Net!Call
  <2> QED  BY <2>2, <2>3, NetGoto
<1>3. CASE ~(call.m.pending = "delete" /\ call.m.ticket # Net!NoTicket)
  <2>1. call.m.ticket = Net!NoTicket
    BY <1>1, <1>3 DEF Net!Sound, Net!State
  <2>2. Net!Finish(None)
    BY <1>3 DEF Net!Absent
  <2> QED  BY <2>1, <2>2, NetGone, NetFinish
<1> QED  BY <1>2, <1>3

\* The reads of a settled or deleted network.
LEMMA NetReads ==
  ASSUME Net!Assumption, Net!IInv, Net!ReadGet \/ Net!ConfirmTicket \/ Net!ConfirmFails \/ Net!Verify \/ Net!VerifyFails
  PROVE  Net!IInv'
<1>1. call # None /\ call \in Net!Call /\ UNCHANGED <<Net!service, Net!history, Net!bounds>>
  BY NetTypes DEF Net!ReadGet, Net!ConfirmTicket, Net!ConfirmFails, Net!Verify, Net!VerifyFails, Net!Step
<1>2. CASE Net!ReadGet
  <2>1. call.op = "read" /\ call.at = "get"
    BY <1>2 DEF Net!ReadGet, Net!Step
  <2>2. CASE ~Net!Visible(call.m.id)
    BY <1>1, <1>2, <2>1, <2>2, NetAbsent DEF Net!ReadGet
  <2>3. CASE Net!Visible(call.m.id)
    <3> DEFINE s == [Net!netState(registered) EXCEPT !.pending = call.m.pending, !.ticket = call.m.ticket]
    <3>1. /\ call.m \in Net!State /\ Net!Sound(call.m) /\ call.m.pending # "create" /\ call.m.id \in Handles
          /\ IF state = None THEN call.m.pending = "" ELSE call.m = state
      BY <1>1, <2>1, NetTypes DEF Net!CallInv, Net!Call, Net!Sound
    <3>2. registered \in Net!Net /\ registered.handle = call.m.id /\ Net!Own
      BY <2>3, <3>1, NetTypes DEF Net!Visible, Net!Own
    <3>3. /\ s \in Net!State /\ s.id = call.m.id /\ s.pending = call.m.pending
          /\ s.ticket = call.m.ticket
      BY <3>1, <3>2 DEF Net!netState, Net!State, Net!Net
    <3>4. Net!Finish(s)
      BY <1>2, <2>3 DEF Net!ReadGet
    <3> HIDE DEF s
    <3>5. NetKept(state)
      BY <1>1, <2>1, NetEarly
    <3>6. s # None /\ Net!Sound(s)
      BY <3>1, <3>3, NetTypes DEF Net!Sound
    <3>7. ~lost => state # None /\ s.id = state.id /\ s.pending = state.pending /\ s.ticket = state.ticket
      BY <3>1, <3>2, <3>3, <3>5 DEF NetKept
    <3>8. NetKept(s)
      BY <3>5, <3>6, <3>7 DEF NetKept, Net!Covers
    <3> QED  BY <1>1, <3>3, <3>4, <3>8, NetFinish
  <2> QED  BY <2>2, <2>3
<1>3. CASE Net!ConfirmTicket
  <2>1. call.op \in {"read", "delete"} /\ call.at = "confirm"
    BY <1>3 DEF Net!ConfirmTicket, Net!Step
  <2>2. CASE Net!Terminal(call.m.ticket)
    BY <1>1, <1>3, <2>1, <2>2, NetGone, NetFinish DEF Net!ConfirmTicket
  <2>3. CASE ~Net!Terminal(call.m.ticket)
    BY <1>1, <1>3, <2>1, <2>3, NetKeepsPending, NetFinish DEF Net!ConfirmTicket
  <2> QED  BY <2>2, <2>3
<1>4. CASE Net!ConfirmFails \/ Net!VerifyFails
  BY <1>1, <1>4, NetKeepsPending, NetFinish DEF Net!ConfirmFails, Net!VerifyFails, Net!Step
<1>5. CASE Net!Verify
  <2>1. call.op = "delete" /\ call.at = "verify"
    BY <1>5 DEF Net!Verify, Net!Step
  <2>2. CASE Net!Visible(call.m.id)
    BY <1>1, <1>5, <2>1, <2>2, NetKeepsPending, NetFinish DEF Net!Verify
  <2>3. CASE ~Net!Visible(call.m.id)
    BY <1>1, <1>5, <2>1, <2>3, NetAbsent DEF Net!Verify
  <2> QED  BY <2>2, <2>3
<1> QED  BY <1>2, <1>3, <1>4, <1>5

\* The steps of a call that only take it to its next request or wait.
LEMMA NetProceeds ==
  ASSUME Net!Assumption, Net!IInv, Net!CreateFind \/ Net!UpdateGet \/ Net!Unsent \/ Net!NoAnswer
  PROVE  Net!IInv'
<1>1. call # None /\ call \in Net!Call /\ UNCHANGED <<Net!service, Net!history, Net!bounds>>
  BY NetTypes DEF Net!CreateFind, Net!UpdateGet, Net!Unsent, Net!NoAnswer, Net!Step
<1>2. CASE Net!CreateFind \/ Net!UpdateGet
  <2>1. Net!Goto("submit") /\ NetMoves([call EXCEPT !.at = "submit"])
    BY <1>1, <1>2 DEF Net!CreateFind, Net!UpdateGet, Net!Step, NetMoves, Net!Call
  <2> QED  BY <1>1, <2>1, NetGoto
<1>3. CASE Net!Unsent \/ Net!NoAnswer
  <2> DEFINE q == [call EXCEPT !.at = "answer", !.reply = Net!Uncertain]
  <2>1. call.at \in {"submit", "answer"} /\ call.reply = None
    <3>1. Net!Unsent => call.at = "submit"
      BY DEF Net!Unsent
    <3> QED  BY <1>1, <1>3, <3>1, NetEarly DEF Net!NoAnswer
  <2>2. call' = q
    <3>1. Net!NoAnswer => [call EXCEPT !.reply = Net!Uncertain] = q
      BY <1>1 DEF Net!Call, Net!NoAnswer
    <3> QED  BY <1>3, <3>1 DEF Net!Unsent, Net!NoAnswer
  <2>3. Net!Uncertain \in Net!Reply
    BY DEF Net!Uncertain, Net!Reply
  <2>4. q \in Net!Call /\ q.op = call.op /\ q.m = call.m /\ q.n = call.n /\ q.at = "answer"
        /\ q.reply = Net!Uncertain
    BY <1>1, <2>3 DEF Net!Call
  <2> HIDE DEF q
  <2>5. UNCHANGED <<registered, wire, tickets, state, sent, named, lost, edits, crashes>>
    BY <1>1, <1>3 DEF Net!Unsent, Net!NoAnswer, Net!service, Net!history, Net!bounds
  <2>6. NetWaits(q)
    BY <2>1, <2>4 DEF NetWaits
  <2> QED  BY <1>1, <2>2, <2>4, <2>5, <2>6, NetMoved
<1> QED  BY <1>2, <1>3

\* A read that fails ends its call with the state it had.
LEMMA NetFails ==
  ASSUME Net!Assumption, Net!IInv, NEW at \in {"find", "ticket", "get", "status", "current", "recheck"},
         Net!Fail(at)
  PROVE  Net!IInv'
<1>1. /\ call # None /\ call.at = at /\ Net!Finish(state)
      /\ UNCHANGED <<Net!service, Net!history, Net!bounds>>
  BY DEF Net!Fail
<1>2. state \in Net!State \cup {None}
  BY NetTypes
<1>3. NetKept(state)
  <2>1. CASE at = "recheck"
    <3>1. call.op = "delete" /\ call.reply # None /\ call.reply.kind = "missing"
      BY <1>1, <2>1, NetTypes DEF Net!CallInv, Net!Call
    <3> QED  BY <1>1, <2>1, <3>1, NetRefused
  <2>2. CASE at # "recheck"
    BY <1>1, <2>2, NetEarly
  <2> QED  BY <2>1, <2>2
<1> QED  BY <1>1, <1>2, <1>3, NetFinish

\* The lookup of a pending creation found nothing, or its ticket ended.
LEMMA NetUnresolved ==
  ASSUME Net!Assumption, Net!IInv, Net!ResolveAbsent \/ Net!ResolveTicket
  PROVE  Net!IInv'
<1>1. /\ call # None /\ call \in Net!Call /\ UNCHANGED <<Net!service, Net!history, Net!bounds>>
      /\ call.op \in {"read", "delete"} /\ call.at \in {"find", "ticket"}
  BY NetTypes DEF Net!ResolveAbsent, Net!ResolveTicket, Net!Step
<1>2. NetKept(state) /\ state \in Net!State \cup {None}
  BY <1>1, NetEarly
<1>3. CASE Net!ResolveAbsent
  <2>1. CASE call.m.ticket # Net!NoTicket
    <3>1. Net!Goto("ticket") /\ NetMoves([call EXCEPT !.at = "ticket"])
      BY <1>1, <1>3, <2>1 DEF Net!ResolveAbsent, Net!Step, NetMoves, Net!Call
    <3> QED  BY <1>1, <3>1, NetGoto
  <2>2. CASE call.m.ticket = Net!NoTicket
    BY <1>1, <1>2, <1>3, <2>2, NetFinish DEF Net!ResolveAbsent
  <2> QED  BY <2>1, <2>2
<1>4. CASE Net!ResolveTicket
  <2>1. CASE ~Net!Failed(call.m.ticket)
    BY <1>1, <1>2, <1>4, <2>1, NetFinish DEF Net!ResolveTicket
  <2>2. CASE Net!Failed(call.m.ticket)
    <3>1. call.at = "ticket" /\ Net!Finish(None)
      BY <1>4, <2>2 DEF Net!ResolveTicket, Net!Step
    <3>2. call.m.pending = "create" /\ call.m.ticket # Net!NoTicket /\ call.m = state /\ state # None
      BY <1>1, <3>1, NetTypes DEF Net!CallInv
    <3>3. /\ call.m.ticket \in DOMAIN tickets /\ tickets[call.m.ticket].status = "failed"
          /\ tickets[call.m.ticket].request.op = "create"
      <4>1. Net!Sound(call.m)
        BY <1>1, NetTypes DEF Net!CallInv
      <4> QED  BY <2>2, <3>2, <4>1 DEF Net!Sound, Net!Failed
    <3>4. ~lost => ~Net!Own /\ Net!Outstanding("create") = {}
      <4> SUFFICES ASSUME ~lost PROVE ~Net!Own /\ Net!Outstanding("create") = {}
        OBVIOUS
      <4>1. Net!Told(call.m.ticket)
        BY <1>2, <3>2 DEF NetKept
      <4>2. tickets[call.m.ticket].request \notin Net!Outstanding("create")
        BY <3>3, NetRequests
      <4> QED  BY <3>2, <3>3, <4>1, <4>2 DEF Net!Told
    <3>5. ~lost => \A t \in named : tickets[t].status # "open"
      BY <1>2, <3>2, <3>3 DEF NetKept
    <3>6. NetKept(None)
      BY <3>4, <3>5 DEF NetKept
    <3> QED  BY <1>1, <3>1, <3>6, NetFinish
  <2> QED  BY <2>1, <2>2
<1> QED  BY <1>3, <1>4

\* The lookup of a pending creation found the network.
LEMMA NetResolved == ASSUME Net!Assumption, Net!IInv, Net!ResolveFound PROVE Net!IInv'
<1> DEFINE s == Net!netState(registered)
<1>1. /\ call # None /\ call \in Net!Call /\ call.op \in {"read", "delete"} /\ call.at = "find"
      /\ UNCHANGED <<registered, wire, tickets, sent, named, lost, edits, crashes>>
      /\ Net!CallInv
  BY NetTypes DEF Net!ResolveFound, Net!Step, Net!service, Net!history, Net!bounds
<1>2. registered \in Net!Net /\ registered.handle \in Handles /\ registered.handle # Foreign
  BY NetTypes DEF Net!ResolveFound, Net!Found, Net!sameNetAssignment, Net!Net
<1>3. Net!Own
  BY <1>2, NetTypes DEF Net!Own
<1>4. s \in Net!State /\ s.id = registered.handle /\ s.pending = "" /\ s.ticket = Net!NoTicket
  BY <1>2 DEF Net!netState, Net!State, Net!Net
<1>5. s # None /\ s.pending # "create" /\ s.pending # "delete"
  BY <1>4, NetTypes
<1> HIDE DEF s
<1>6. call.m.pending = "create" /\ call.n = 0 /\ call.reply = None /\ state # None /\ state = call.m
  BY <1>1 DEF Net!CallInv
<1>7. ~Net!Sent /\ NetKept(state)
  BY <1>1, NetEarly
<1>8. Net!Sound(s)
  BY <1>2, <1>4, <1>5 DEF Net!Sound
<1>9. ~lost => Net!Known(s.id)
  BY <1>3, <1>4, NetTypes DEF Net!Known, Net!CreateInv
<1>10. ~lost => \A t \in named : tickets[t].status # "open"
  <2> SUFFICES ASSUME ~lost, NEW t \in named, tickets[t].status = "open" PROVE FALSE
    OBVIOUS
  <2>1. state.ticket = t /\ state \in Net!State /\ Net!Sound(state)
    BY <1>7, NetTypes DEF NetKept
  <2>2. tickets[t].request \in Net!Outstanding("create")
    BY <1>6, <2>1, NetOpenTicket
  <2> QED  BY <1>9, <2>2 DEF Net!Known
<1>11. ~lost => \A r \in Net!Outstanding("delete") : Net!Own => r.of # registered.by
  BY <1>6, <1>7 DEF NetKept, Net!Covers
<1>12. CASE call.op = "read"
  <2>1. Net!Finish(s) /\ UNCHANGED <<Net!service, Net!history, Net!bounds>>
    BY <1>12 DEF Net!ResolveFound, s
  <2>2. NetKept(s)
    BY <1>5, <1>8, <1>9, <1>10, <1>11 DEF NetKept
  <2> QED  BY <1>4, <2>1, <2>2, NetFinish
<1>13. CASE call.op = "delete"
  <2> DEFINE q == [call EXCEPT !.m = s, !.at = "get"]
  <2>1. call' = q /\ state' = state
    BY <1>13 DEF Net!ResolveFound, s
  <2>2. q \in Net!Call /\ q.op = "delete" /\ q.m = s /\ q.at = "get" /\ q.n = 0 /\ q.reply = None
    BY <1>1, <1>4, <1>6, <1>13 DEF Net!Call
  <2> HIDE DEF q
  <2>3. Net!CallInv'
    <3>1. Net!Sound(call.m)'
      BY <1>1, <1>8, <2>1, <2>2 DEF Net!Sound
    <3>2. Net!Requests' = Net!Requests /\ \A r \in Net!Requests : r.n # 0
      BY <1>1, NetSame, NetRequests, NetBounds
    <3>3. 0 <= sent
      BY NetBounds
    <3>4. /\ call' # None /\ call'.op = "delete" /\ call'.m = s /\ call'.at = "get" /\ call'.n = 0
          /\ call'.reply = None /\ state' = state /\ sent' = sent /\ state.pending = "create"
      BY <1>1, <1>6, <2>1, <2>2, NetTypes
    <3> QED  BY <1>4, <1>6, <3>1, <3>2, <3>3, <3>4 DEF Net!CallInv
  <2>4. q # None /\ q.at # "confirm" /\ state \in Net!State \cup {None} /\ crashes' \in 0 .. MaxCrashes
        /\ lost' \in BOOLEAN /\ (lost => lost')
    BY <1>1, <2>2, NetTypes
  <2> QED  BY <1>1, <1>7, <1>9, <2>1, <2>2, <2>3, <2>4, NetIdle
<1> QED  BY <1>1, <1>12, <1>13

\* The steps of a deletion up to its request, and the check of a missing route.
LEMMA NetDeletes ==
  ASSUME Net!Assumption, Net!IInv, Net!DeleteGet \/ Net!DeletionStatus \/ Net!DeleteCurrent \/ Net!Recheck
  PROVE  Net!IInv'
<1>1. call # None /\ call \in Net!Call /\ call.op = "delete" /\ UNCHANGED <<Net!service, Net!history, Net!bounds>>
  BY NetTypes DEF Net!DeleteGet, Net!DeletionStatus, Net!DeleteCurrent, Net!Recheck, Net!Step
<1>2. Net!CallInv /\ Net!Sound(call.m) /\ call.m \in Net!State /\ state # None /\ state \in Net!State
  BY <1>1, NetTypes DEF Net!CallInv, Net!Call
<1>3. CASE Net!DeleteGet
  <2>1. call.at = "get"
    BY <1>3 DEF Net!DeleteGet, Net!Step
  <2>2. CASE ~Net!Visible(call.m.id)
    BY <1>1, <1>3, <2>1, <2>2, NetAbsent DEF Net!DeleteGet
  <2>3. CASE Net!Visible(call.m.id) /\ call.m.pending = ""
    <3>1. Net!Goto("current") /\ NetMoves([call EXCEPT !.at = "current"])
      BY <1>1, <1>3, <2>1, <2>3 DEF Net!DeleteGet, NetMoves, Net!Call
    <3> QED  BY <1>1, <3>1, NetGoto
  <2>4. CASE Net!Visible(call.m.id) /\ call.m.pending # "" /\ call.m.ticket # Net!NoTicket
    <3>1. Net!Goto("status") /\ NetMoves([call EXCEPT !.at = "status"])
      BY <1>1, <1>3, <2>1, <2>4 DEF Net!DeleteGet, NetMoves, Net!Call
    <3> QED  BY <1>1, <3>1, NetGoto
  <2>5. CASE Net!Visible(call.m.id) /\ call.m.pending # "" /\ call.m.ticket = Net!NoTicket
    BY <1>1, <1>3, <2>1, <2>5, NetEarly, NetFinish DEF Net!DeleteGet
  <2> QED  BY <2>2, <2>3, <2>4, <2>5
<1>4. CASE Net!DeletionStatus
  <2>1. call.at = "status" /\ NetKept(state)
    BY <1>1, <1>4, NetEarly DEF Net!DeletionStatus, Net!Step
  <2>2. CASE ~Net!Failed(call.m.ticket)
    BY <1>1, <1>2, <1>4, <2>1, <2>2, NetFinish DEF Net!DeletionStatus
  <2>3. CASE Net!Failed(call.m.ticket)
    <3> DEFINE s == [call.m EXCEPT !.pending = "", !.ticket = Net!NoTicket]
    <3>1. call.m = state /\ state.pending = "delete" /\ state.ticket # Net!NoTicket
      BY <1>1, <1>2, <2>1 DEF Net!CallInv
    <3>2. s \in Net!State /\ s.id = state.id /\ s.pending = "" /\ s.ticket = Net!NoTicket
      BY <1>2, <3>1 DEF Net!State
    <3>3. Net!Finish(s)
      BY <1>4, <2>3 DEF Net!DeletionStatus
    <3> HIDE DEF s
    <3>4. /\ tickets[state.ticket].status = "failed" /\ state.id \in Handles
          /\ tickets[state.ticket].request \notin Net!Outstanding("delete")
      <4>1. /\ state.ticket \in DOMAIN tickets /\ tickets[state.ticket].request.op = "delete"
            /\ state.id \in Handles
        BY <1>2, <3>1 DEF Net!Sound
      <4>2. tickets[state.ticket].status = "failed"
        BY <2>3, <3>1 DEF Net!Failed
      <4> QED  BY <4>1, <4>2, NetRequests
    <3>5. s # None /\ Net!Sound(s)
      BY <3>2, <3>4, NetTypes DEF Net!Sound
    <3>6. NetKept(s)
      BY <1>2, <2>1, <3>1, <3>2, <3>4, <3>5 DEF NetKept, Net!Covers
    <3> QED  BY <1>1, <3>2, <3>3, <3>6, NetFinish
  <2> QED  BY <2>2, <2>3
<1>5. CASE Net!DeleteCurrent
  <2>1. call.at = "current"
    BY <1>5 DEF Net!DeleteCurrent, Net!Step
  <2>2. CASE Net!Goto("submit")
    <3>1. NetMoves([call EXCEPT !.at = "submit"])
      BY <1>1, <2>1 DEF NetMoves, Net!Call
    <3> QED  BY <1>1, <2>2, <3>1, NetGoto
  <2>3. CASE Net!Outcome(Net!NoTicket)
    BY <1>1, <2>1, <2>3, NetPends
  <2> QED  BY <1>5, <2>2, <2>3 DEF Net!DeleteCurrent
<1>6. CASE Net!Recheck
  BY <1>1, <1>6, NetPends DEF Net!Recheck, Net!Step
<1> QED  BY <1>3, <1>4, <1>5, <1>6

\* The answer to a deletion.
LEMMA NetDeleteAnswered == ASSUME Net!Assumption, Net!IInv, Net!DeleteAnswered PROVE Net!IInv'
<1>1. /\ call # None /\ call \in Net!Call /\ call.op = "delete" /\ call.at = "answer" /\ call.reply # None
      /\ UNCHANGED <<Net!service, Net!history, Net!bounds>> /\ state \in Net!State \cup {None}
  BY NetTypes DEF Net!DeleteAnswered, Net!Answered, Net!Step
<1>2. CASE Net!netDefinitiveFailure(call.reply)
  BY <1>1, <1>2, NetRefused, NetFinish DEF Net!DeleteAnswered, Net!netDefinitiveFailure
<1>3. CASE ~Net!netDefinitiveFailure(call.reply) /\ call.reply.kind = "missing" /\ call.messages
  <2>1. Net!Goto("recheck") /\ NetMoves([call EXCEPT !.at = "recheck"])
    BY <1>1, <1>3 DEF Net!DeleteAnswered, NetMoves, Net!Call
  <2> QED  BY <1>1, <2>1, NetGoto
<1>4. CASE ~Net!netDefinitiveFailure(call.reply) /\ ~(call.reply.kind = "missing" /\ call.messages)
  <2>1. Net!Outcome(call.reply.ticket)
    BY <1>4 DEF Net!DeleteAnswered
  <2> QED  BY <1>1, <2>1, NetPends
<1> QED  BY <1>2, <1>3, <1>4

\* The answer to an update renames the network of the state.
LEMMA NetUpdateAnswered == ASSUME Net!Assumption, Net!IInv, Net!UpdateAnswered PROVE Net!IInv'
<1>1. /\ call # None /\ call \in Net!Call /\ call.op = "update" /\ call.reply # None
      /\ UNCHANGED <<Net!service, Net!history, Net!bounds>> /\ state \in Net!State \cup {None}
  BY NetTypes DEF Net!UpdateAnswered, Net!Answered, Net!Step
<1>2. NetKept(state)
  BY <1>1, NetKeepsState
<1>3. CASE call.reply.kind # "ok"
  BY <1>1, <1>2, <1>3, NetFinish DEF Net!UpdateAnswered
<1>4. CASE call.reply.kind = "ok"
  <2> DEFINE s == Net!netState(call.reply.net)
  <2>1. call.reply.net # None /\ call.reply.net.handle = call.m.id /\ call.reply.net \in Net!Net
        /\ call.reply.net.handle # Foreign
    BY <1>1, <1>4, NetTypes DEF Net!ReplyInv, Net!Call, Net!Reply
  <2>2. state # None /\ state \in Net!State /\ state.pending = "" /\ call.m.id = state.id /\ state.ticket = Net!NoTicket
    <3>1. state # None /\ state.pending = "" /\ call.m = [state EXCEPT !.name = call.m.name]
      BY <1>1, NetTypes DEF Net!CallInv
    <3>2. state \in Net!State /\ Net!Sound(state)
      BY <1>2, <3>1, NetTypes DEF NetKept
    <3> QED  BY <3>1, <3>2 DEF Net!State, Net!Sound
  <2>3. s \in Net!State /\ s.id = state.id /\ s.pending = "" /\ s.ticket = Net!NoTicket /\ state.id \in Handles
    BY <2>1, <2>2 DEF Net!netState, Net!State, Net!Net
  <2>4. Net!Finish(s)
    BY <1>4 DEF Net!UpdateAnswered
  <2> HIDE DEF s
  <2>5. s # None /\ Net!Sound(s)
    BY <2>3, NetTypes DEF Net!Sound
  <2>6. NetKept(s)
    BY <1>2, <2>2, <2>3, <2>5 DEF NetKept, Net!Covers
  <2> QED  BY <1>1, <2>3, <2>4, <2>6, NetFinish
<1> QED  BY <1>3, <1>4

\* A call ends in a sound state and its outcome is lost.
LEMMA NetLosesOutcome ==
  ASSUME Net!Assumption, Net!IInv, NEW s, s \in Net!State \cup {None}, s # None => Net!Sound(s),
         call' = None, state' = s, lost' = TRUE, UNCHANGED <<registered, wire, tickets, sent, named, edits>>,
         crashes' \in 0 .. MaxCrashes
  PROVE  Net!IInv'
<1>1. Net!TypeOK'
  BY NetTypes DEF Net!TypeOK
<1>2. Net!RequestInv' /\ \A m : Net!Sound(m)' <=> Net!Sound(m)
  BY NetSame
<1>3. Net!StateInv' /\ Net!CallInv' /\ Net!ReplyInv'
  BY <1>2 DEF Net!StateInv, Net!CallInv, Net!ReplyInv
<1> QED  BY <1>1, <1>2, <1>3 DEF Net!IInv, Net!TicketInv, Net!CreateInv, Net!DeleteInv

\* The answer to a creation.
LEMMA NetCreateAnswered == ASSUME Net!Assumption, Net!IInv, Net!CreateAnswered PROVE Net!IInv'
<1>1. /\ call # None /\ call \in Net!Call /\ call.op = "create" /\ call.at = "answer" /\ call.reply # None
      /\ UNCHANGED <<Net!service, sent, named, Net!bounds>> /\ Net!CallInv /\ Net!ReplyInv
      /\ lost' = (lost \/ Net!TicketDropped(call.reply)) /\ lost \in BOOLEAN
  BY NetTypes DEF Net!CreateAnswered, Net!Answered, Net!Step
<1> DEFINE a == call.reply
<1>2. state = None /\ call.m.ticket = Net!NoTicket /\ a \in Net!Reply /\ call.m.name \in Names
      /\ call.m.pending = "create"
  <2>1. state = None /\ call.m = Net!pendingNet(call.m.name, Net!NoTicket)
    BY <1>1 DEF Net!CallInv
  <2>2. call.m \in Net!State /\ a \in Net!Reply
    BY <1>1, NetTypes DEF Net!Call
  <2>3. \A n : Net!pendingNet(n, Net!NoTicket).pending = "create"
               /\ Net!pendingNet(n, Net!NoTicket).ticket = Net!NoTicket
    BY DEF Net!pendingNet
  <2>4. call.m.name \in Names
    BY <2>2 DEF Net!State
  <2>5. call.m.pending = "create" /\ call.m.ticket = Net!NoTicket
    BY <2>1, <2>3
  <2> QED  BY <2>1, <2>2, <2>4, <2>5
<1>3. ~lost => /\ Net!Told(a.ticket)
               /\ a.net # None /\ a.ticket = Net!NoTicket => Net!Known(a.net.handle)
               /\ a.kind = "rejected" => ~Net!Own /\ Net!Outstanding("create") = {}
  BY <1>1, NetTypes DEF Net!CreateInv
<1>4. ~lost => \A t \in named : tickets[t].status = "open" => a.ticket = t /\ t # Net!NoTicket
  <2> SUFFICES ASSUME ~lost, NEW t \in named, tickets[t].status = "open" PROVE a.ticket = t /\ t # Net!NoTicket
    OBVIOUS
  <2>1. t # Net!NoTicket
    BY NetRequests, NetTypes DEF Net!RequestInv
  <2> QED  BY <1>2, <2>1, NetTypes DEF Net!TicketInv
<1>5. ~lost => \A r \in Net!Outstanding("delete") : ~(Net!Own /\ r.of = registered.by)
  BY <1>1, <1>2, NetTypes DEF Net!DeleteInv
<1>6. CASE a.kind = "ok" /\ a.net # None
  <2> DEFINE s == Net!netState(a.net)
  <2>1. a.net \in Net!Net /\ a.net.handle # Foreign
    BY <1>1, <1>2, <1>6 DEF Net!ReplyInv, Net!Reply
  <2>2. s \in Net!State /\ s.id = a.net.handle /\ s.pending = "" /\ s.ticket = Net!NoTicket /\ a.net.handle \in Handles
    BY <2>1 DEF Net!netState, Net!State, Net!Net
  <2>3. Net!Finish(s)
    BY <1>6 DEF Net!CreateAnswered
  <2> HIDE DEF s
  <2>4. s # None /\ Net!Sound(s)
    BY <2>2, NetTypes DEF Net!Sound
  <2>5. CASE a.ticket = Net!NoTicket
    <3>1. NetKept(s)
      BY <1>3, <1>4, <1>5, <1>6, <2>1, <2>2, <2>4, <2>5 DEF NetKept
    <3>2. UNCHANGED Net!history
      BY <1>1, <2>5 DEF Net!TicketDropped, Net!history
    <3> QED  BY <1>1, <2>2, <2>3, <3>1, <3>2, NetFinish
  <2>6. CASE a.ticket # Net!NoTicket
    <3>1. lost' = TRUE
      BY <1>1, <1>6, <2>6 DEF Net!TicketDropped
    <3>2. /\ call' = None /\ state' = s /\ crashes' \in 0 .. MaxCrashes
          /\ UNCHANGED <<registered, wire, tickets, sent, named, edits>>
      BY <1>1, <2>3, NetTypes DEF Net!Finish, Net!service, Net!bounds
    <3> QED  BY <2>2, <2>4, <3>1, <3>2, NetLosesOutcome
  <2> QED  BY <2>5, <2>6
<1>7. ~(a.kind = "ok" /\ a.net # None) => UNCHANGED Net!history
  BY <1>1 DEF Net!TicketDropped, Net!history
<1>8. CASE ~(a.kind = "ok" /\ a.net # None) /\ a.kind = "rejected"
  <2>1. Net!Finish(None)
    BY <1>2, <1>8 DEF Net!CreateAnswered, Net!netDefinitiveFailure
  <2>2. a.ticket = Net!NoTicket
    BY <1>1, <1>8 DEF Net!ReplyInv
  <2>3. NetKept(None)
    BY <1>3, <1>4, <1>5, <1>8, <2>2 DEF NetKept
  <2> QED  BY <1>1, <1>7, <1>8, <2>1, <2>3, NetFinish
<1>9. CASE ~(a.kind = "ok" /\ a.net # None) /\ a.kind # "rejected"
  <2> DEFINE s == Net!pendingNet(call.m.name, a.ticket)
  <2>1. Net!Finish(s)
    BY <1>9 DEF Net!CreateAnswered, Net!netDefinitiveFailure
  <2>2. s \in Net!State /\ s.pending = "create" /\ s.ticket = a.ticket
    BY <1>2 DEF Net!pendingNet, Net!State, Net!Reply
  <2> HIDE DEF s
  <2>3. a.ticket # Net!NoTicket => a.ticket \in DOMAIN tickets /\ tickets[a.ticket].request.op = "create"
    <3> SUFFICES ASSUME a.ticket # Net!NoTicket
                 PROVE  a.ticket \in DOMAIN tickets /\ tickets[a.ticket].request.op = "create"
      OBVIOUS
    <3>1. a.ticket \in DOMAIN tickets /\ tickets[a.ticket].request.n = call.n
      BY <1>1 DEF Net!ReplyInv
    <3>2. tickets[a.ticket].request \in Net!Requests
      BY <3>1, NetRequests
    <3> QED  BY <1>1, <3>1, <3>2 DEF Net!CallInv
  <2>4. s # None /\ Net!Sound(s)
    BY <2>2, <2>3, NetTypes DEF Net!Sound
  <2>5. NetKept(s)
    BY <1>3, <1>4, <1>5, <2>2, <2>4 DEF NetKept
  <2> QED  BY <1>1, <1>7, <1>9, <2>1, <2>2, <2>5, NetFinish
<1> QED  BY <1>6, <1>8, <1>9

\* The provider process ends.
LEMMA NetCrash == ASSUME Net!Assumption, Net!IInv, Net!Crash PROVE Net!IInv'
<1>1. /\ call # None /\ call' = None /\ UNCHANGED <<registered, wire, tickets, state, sent, named, edits>>
      /\ crashes < MaxCrashes /\ crashes' = crashes + 1
      /\ lost' = (lost \/ (call.n # 0 /\ call.op # "update"))
  BY DEF Net!Crash, Net!service
<1>2. crashes' \in 0 .. MaxCrashes
  <2>1. crashes \in 0 .. MaxCrashes /\ MaxCrashes \in Nat
    BY NetBounds, NetTypes
  <2> QED  BY ONLY <1>1, <2>1
<1>3. lost' \in BOOLEAN /\ (lost => lost') /\ state \in Net!State \cup {None}
  BY <1>1, NetTypes
<1>4. CASE call.n = 0 \/ call.op = "update"
  <2>1. NetKept(state)
    BY <1>4, NetKeepsState DEF Net!Sent
  <2> QED  BY <1>1, <1>2, <1>3, <2>1, NetIdle
<1>5. CASE ~(call.n = 0 \/ call.op = "update")
  <2>1. lost' = TRUE
    BY <1>1, <1>5
  <2>2. state # None => Net!Sound(state)
    BY NetTypes DEF Net!StateInv
  <2> QED  BY <1>1, <1>2, <1>3, <2>1, <2>2, NetLosesOutcome
<1> QED  BY <1>4, <1>5

\* A call sends its request, under a number of its own.
LEMMA NetSubmit == ASSUME Net!Assumption, Net!IInv, Net!Submit PROVE Net!IInv'
<1> DEFINE k == sent + 1
           r == [n |-> k, op |-> call.op, handle |-> call.m.id, name |-> call.m.name,
                 of |-> IF Net!Visible(call.m.id) THEN registered.by ELSE 0]
           q == [call EXCEPT !.at = "answer", !.n = k]
<1>1. /\ call # None /\ call.at = "submit" /\ sent < MaxSubmits /\ sent' = k /\ wire' = wire \cup {r} /\ call' = q
      /\ UNCHANGED <<registered, tickets, state, named, lost, edits, crashes>>
  BY DEF Net!Submit, Net!bounds
<1>2. /\ call \in Net!Call /\ Net!CallInv /\ Net!Sound(call.m) /\ call.m \in Net!State
      /\ call.n = 0 /\ call.reply = None
  BY <1>1, NetTypes DEF Net!CallInv, Net!Call
<1>3. k \in 1 .. MaxSubmits /\ k \in 0 .. MaxSubmits /\ k # 0 /\ ~(k <= sent)
      /\ (\A i \in 0 .. MaxSubmits : i <= sent => i <= k)
  <2>1. MaxSubmits \in Nat /\ sent \in Nat
    BY NetBounds
  <2> QED  BY ONLY <1>1, <2>1
<1>4. r.n = k /\ r.op = call.op /\ r.handle = call.m.id /\ r.name = call.m.name
      /\ r.of = IF Net!Visible(call.m.id) THEN registered.by ELSE 0
  OBVIOUS
<1>5. /\ call.op \in {"create", "update", "delete"} /\ (call.op = "create" <=> call.m.pending = "create")
      /\ call.op # "create" => call.m.pending = "" /\ call.m.id \in Handles /\ state # None
      /\ call.op = "create" => state = None
  <2>1. call.op = "create" => call.m.pending = "create" /\ state = None
    <3>1. \A n : Net!pendingNet(n, Net!NoTicket).pending = "create"
      BY DEF Net!pendingNet
    <3> QED  BY <1>1, <1>2, <3>1 DEF Net!CallInv
  <2>2. call.op = "update" => call.m.pending = "" /\ state # None
    <3> SUFFICES ASSUME call.op = "update" PROVE call.m.pending = "" /\ state # None
      OBVIOUS
    <3>1. state # None /\ state.pending = "" /\ call.m = [state EXCEPT !.name = call.m.name]
      BY <1>1, <1>2 DEF Net!CallInv
    <3>2. state \in Net!State
      BY <3>1, NetTypes
    <3>3. \A n : [state EXCEPT !.name = n].pending = state.pending
      BY <3>2 DEF Net!State
    <3> QED  BY <3>1, <3>3
  <2>3. call.op = "delete" => call.m.pending = "" /\ state # None
    BY <1>1, <1>2 DEF Net!CallInv
  <2>4. call.op \in {"create", "update", "delete"}
    <3>1. call.op # "read"
      BY <1>1, <1>2 DEF Net!CallInv
    <3> QED  BY <1>2, <3>1 DEF Net!Call
  <2> QED  BY <1>2, <2>1, <2>2, <2>3, <2>4 DEF Net!Sound
<1>6. registered # None => registered \in Net!Net /\ registered.by <= sent /\ registered.by \in 0 .. MaxSubmits
  BY NetTypes DEF Net!RequestInv, Net!Net
<1>7. r \in Net!Request /\ r.of <= sent /\ r.of \in 0 .. MaxSubmits
  <2>1. 0 <= sent /\ 0 \in 0 .. MaxSubmits
    BY NetBounds
  <2>2. r.of <= sent /\ r.of \in 0 .. MaxSubmits
    BY <1>4, <1>6, <2>1 DEF Net!Visible
  <2>3. r.handle \in Handles \cup {Net!Unknown} /\ r.name \in Names /\ r.n \in Net!Sends
        /\ r.op \in {"create", "delete", "update"}
    BY <1>2, <1>3, <1>4, <1>5 DEF Net!State, Net!Sends
  <2> QED  BY <2>2, <2>3 DEF Net!Request
<1>8. q \in Net!Call /\ q.op = call.op /\ q.m = call.m /\ q.at = "answer" /\ q.n = k /\ q.reply = None /\ q # None
  <2>1. q \in Net!Call
    BY <1>2, <1>3 DEF Net!Call
  <2> QED  BY <1>2, <2>1, NetTypes DEF Net!Call
<1> HIDE DEF r, q
<1>9. \A d : d \in Net!Requests' <=> d \in Net!Requests \/ d = r
  BY <1>1 DEF Net!Requests
<1>10. \A op, d : d \in Net!Outstanding(op)' <=> d \in Net!Outstanding(op) \/ (d = r /\ r.op = op)
  BY <1>1 DEF Net!Outstanding
<1>11. \A d \in Net!Requests : d.n # k /\ d.n # 0 /\ d.n <= sent /\ d.of <= sent /\ d.of \in 0 .. MaxSubmits
                              /\ d.n \in 0 .. MaxSubmits
  <2>1. \A d \in Net!Requests : d.n <= sent /\ d.of <= sent
    BY NetTypes DEF Net!RequestInv
  <2>2. \A d \in Net!Requests : d.n \in 0 .. MaxSubmits /\ d.of \in 0 .. MaxSubmits
    <3>1. \A d \in Net!Request : d.n \in 1 .. MaxSubmits /\ d.of \in 0 .. MaxSubmits
      BY DEF Net!Request, Net!Sends
    <3> QED  BY <3>1, NetRequests, NetBounds
  <2>3. \A d \in Net!Requests : d.n # 0
    BY NetRequests, NetBounds
  <2> QED  BY <1>3, <2>1, <2>2, <2>3
<1>12. /\ Net!Own' <=> Net!Own
       /\ \A m : Net!Sound(m)' <=> Net!Sound(m)
       /\ \A id : Net!Visible(id)' <=> Net!Visible(id)
       /\ \A m, d : Net!Covers(m, d)' <=> Net!Covers(m, d)
  BY <1>1 DEF Net!Own, Net!Sound, Net!Visible, Net!Covers
<1>13. ~Net!Sent /\ Net!Sent'
  BY <1>1, <1>2, <1>3, <1>8 DEF Net!Sent
<1>14. Net!TypeOK'
  BY <1>1, <1>3, <1>7, <1>8, NetTypes DEF Net!TypeOK
<1>15. Net!RequestInv'
  <2>1. Net!RequestInv
    BY NetTypes
  <2>2. \A d \in Net!Requests' : d.n <= k /\ d.of <= k
    <3>1. k <= k
      <4>1. sent \in Nat
        BY NetBounds
      <4> QED  BY <4>1
    <3> QED  BY <1>3, <1>4, <1>7, <1>9, <1>11, <3>1
  <2>3. /\ \A x \in wire' : \A y \in wire' : y.n = x.n => y = x
        /\ \A x \in wire' : \A t \in DOMAIN tickets : tickets[t].request.n # x.n
    <3>1. /\ \A x \in wire : x.n # k
          /\ \A t \in DOMAIN tickets : tickets[t].request.n # k
      BY <1>11, NetRequests
    <3> QED  BY <1>1, <1>4, <2>1, <3>1 DEF Net!RequestInv
  <2>4. \A d \in Net!Requests' : d.op # "create" => d.handle \in Handles
    BY <1>4, <1>5, <1>9, <2>1 DEF Net!RequestInv
  <2>5. registered # None => registered.by <= k /\ (registered.by = 0 <=> registered.handle = Foreign)
    BY <1>3, <1>6, <2>1 DEF Net!RequestInv
  <2>6. \A c \in Net!Outstanding("create")' :
          /\ registered # None => registered.by # c.n
          /\ \A d \in Net!Requests' : d.op = "delete" => d.of # c.n
    <3> SUFFICES ASSUME NEW c \in Net!Outstanding("create")'
                 PROVE  /\ registered # None => registered.by # c.n
                        /\ \A d \in Net!Requests' : d.op = "delete" => d.of # c.n
      OBVIOUS
    <3>1. CASE c = r
      <4>1. c.n = k /\ c.op = "create"
        BY <1>4, <1>10, <3>1, NetRequests
      <4>2. \A d \in Net!Requests' : d.op = "delete" => d \in Net!Requests
        BY <1>9, <3>1, <4>1
      <4> QED  BY <1>3, <1>6, <1>11, <4>1, <4>2
    <3>2. CASE c \in Net!Outstanding("create")
      <4>1. c.n # 0 /\ (registered # None => registered.by # c.n)
            /\ \A d \in Net!Requests : d.op = "delete" => d.of # c.n
        BY <1>11, <2>1, <3>2, NetRequests DEF Net!RequestInv
      <4> QED  BY <1>4, <1>9, <4>1 DEF Net!Visible
    <3> QED  BY <1>10, <3>1, <3>2
  <2>7. /\ \A t, u \in DOMAIN tickets : tickets[u].request.n = tickets[t].request.n => u = t
        /\ \A t \in DOMAIN tickets : tickets[t].request.op \in {"create", "delete"}
        /\ named \subseteq DOMAIN tickets
    BY <2>1 DEF Net!RequestInv
  <2> QED  BY <1>1, <2>2, <2>3, <2>4, <2>5, <2>6, <2>7 DEF Net!RequestInv
<1>16. Net!StateInv'
  <2>1. Net!StateInv
    BY NetTypes
  <2> QED  BY <1>1, <1>12, <2>1 DEF Net!StateInv
<1>17. Net!CallInv'
  <2>1. Net!Sound(call.m)'
    BY <1>1, <1>2, <1>8 DEF Net!Sound
  <2>2. \A d \in Net!Requests' : d.n = k => d.op = call.op /\ d.handle = call.m.id
    BY <1>4, <1>9, <1>11
  <2>3. k <= k
    <3>1. sent \in Nat
      BY NetBounds
    <3> QED  BY <3>1
  <2>4. /\ call' # None /\ call'.op = call.op /\ call'.m = call.m /\ call'.at = "answer" /\ call'.n = k
        /\ call'.reply = None /\ state' = state /\ sent' = k
    BY <1>1, <1>8
  <2> QED  BY <1>1, <1>2, <1>3, <1>5, <2>1, <2>2, <2>3, <2>4 DEF Net!CallInv
<1>18. Net!ReplyInv'
  BY <1>1, <1>8 DEF Net!ReplyInv
<1>19. Net!TicketInv'
  BY <1>1, <1>2, <1>8, NetTypes DEF Net!TicketInv
<1>20. Net!CreateInv'
  <2> SUFFICES ASSUME ~lost PROVE Net!CreateInv'
    BY <1>1 DEF Net!CreateInv
  <2>1. Net!CreateInv
    BY NetTypes
  <2>2. CASE call.op = "create"
    <3>1. ~Net!Own /\ \A c \in Net!Outstanding("create")' : c = r
      BY <1>5, <1>10, <1>13, <2>1, <2>2 DEF Net!CreateInv
    <3> QED  BY <1>1, <1>4, <1>5, <1>8, <1>12, <1>13, <2>2, <3>1 DEF Net!CreateInv
  <2>3. CASE call.op # "create"
    <3>1. Net!Outstanding("create")' = Net!Outstanding("create")
      <4>1. \A d : d \in Net!Outstanding("create")' <=> d \in Net!Outstanding("create")
        BY <1>4, <1>10, <2>3
      <4> QED  BY ONLY <4>1
    <3>2. /\ \A t : Net!Told(t)' <=> Net!Told(t)
          /\ \A id : Net!Known(id)' <=> Net!Known(id)
      BY <1>1, <1>12, <3>1 DEF Net!Told, Net!Known
    <3> QED  BY <1>1, <1>5, <1>8, <1>12, <2>1, <2>3, <3>1, <3>2 DEF Net!CreateInv
  <2> QED  BY <2>2, <2>3
<1>21. Net!DeleteInv'
  <2> SUFFICES ASSUME ~lost PROVE Net!DeleteInv'
    BY <1>1 DEF Net!DeleteInv
  <2>1. /\ \A x, y \in Net!Outstanding("delete") : x = y \/ x.of # y.of \/ x.of = 0
        /\ \A x \in Net!Outstanding("delete") : Net!Own /\ x.of = registered.by =>
             state # None /\ Net!Covers(state, x)
        /\ \A x \in Net!Outstanding("delete") :
             (\E t \in named : tickets[t].request = x) /\ Net!Visible(x.handle) => registered.by = x.of
        /\ \A x \in Net!Outstanding("delete") : x.n # k
    BY <1>11, <1>13, NetTypes, NetRequests DEF Net!DeleteInv
  <2>2. call.op = "delete" /\ r.of # 0 => Net!Own /\ r.of = registered.by
    BY <1>4, <1>5, NetTypes DEF Net!Visible, Net!Own
  <2>3. call.op = "delete" => \A x \in Net!Outstanding("delete") : x.of # r.of \/ x.of = 0
    <3> SUFFICES ASSUME call.op = "delete", NEW x \in Net!Outstanding("delete"), x.of = r.of, x.of # 0 PROVE FALSE
      OBVIOUS
    <3>1. state # None /\ state.pending = "delete"
      BY <2>1, <2>2 DEF Net!Covers
    <3>2. call.m = state
      BY <1>1, <1>2, <3>1 DEF Net!CallInv
    <3> QED  BY <1>5, <3>1, <3>2
  <2>4. \A x, y \in Net!Outstanding("delete")' : x = y \/ x.of # y.of \/ x.of = 0
    BY <1>4, <1>10, <2>1, <2>3
  <2>5. \A x \in Net!Outstanding("delete")' : Net!Own /\ x.of = registered.by =>
          (state # None /\ Net!Covers(state, x)) \/ (x.n = k /\ call.op = "delete")
    BY <1>4, <1>10, <2>1
  <2>6. \A x \in Net!Outstanding("delete")' :
          /\ x.n = k \/ \E t \in named : tickets[t].request = x
          /\ Net!Visible(x.handle)
          => registered.by = x.of
    BY <1>4, <1>10, <2>1
  <2> QED  BY <1>1, <1>8, <1>12, <1>13, <2>4, <2>5, <2>6 DEF Net!DeleteInv
<1> QED  BY <1>14, <1>15, <1>16, <1>17, <1>18, <1>19, <1>20, <1>21 DEF Net!IInv

\* The number of a request is its own.
LEMMA NetUnique ==
  ASSUME Net!Assumption, Net!IInv, NEW r \in Net!Requests, NEW q \in Net!Requests, q.n = r.n
  PROVE  q = r
<1>1. /\ \A x, y \in wire : y.n = x.n => y = x
      /\ \A x \in wire : \A t \in DOMAIN tickets : tickets[t].request.n # x.n
      /\ \A t, u \in DOMAIN tickets : tickets[u].request.n = tickets[t].request.n => u = t
  BY NetTypes DEF Net!RequestInv
<1> QED  BY <1>1, NetRequests

\* Requests leave the wire, wait behind a ticket, or end.
NetLess ==
  /\ wire' \subseteq wire /\ tickets' \in Seq(Net!Ticket) /\ Len(tickets') <= MaxTickets
  /\ \A t \in DOMAIN tickets :
       /\ t \in DOMAIN tickets' /\ tickets'[t].request = tickets[t].request
       /\ tickets'[t].status = "open" => tickets[t].status = "open"
       /\ tickets[t].status = "done" => tickets'[t].status = "done"
  /\ \A t \in DOMAIN tickets' \ DOMAIN tickets :
       /\ tickets'[t].request \in wire \ wire' /\ tickets'[t].request.op \in {"create", "delete"}
       /\ \A u \in DOMAIN tickets' \ DOMAIN tickets : u = t

LEMMA NetLessens ==
  ASSUME Net!Assumption, Net!IInv, NetLess
  PROVE  /\ Net!Requests' \subseteq Net!Requests /\ \A op : Net!Outstanding(op)' \subseteq Net!Outstanding(op)
         /\ \A m : Net!Sound(m) => Net!Sound(m)'
<1>1. Net!Requests' \subseteq Net!Requests
  BY DEF NetLess, Net!Requests
<1>2. \A op : Net!Outstanding(op)' \subseteq Net!Outstanding(op)
  <2>1. SUFFICES ASSUME NEW op, NEW d \in Net!Outstanding(op)' PROVE d \in Net!Outstanding(op)
    OBVIOUS
  <2>2. d.op = op /\ (d \in wire' \/ \E t \in DOMAIN tickets' : tickets'[t].status = "open" /\ tickets'[t].request = d)
    BY DEF Net!Outstanding
  <2>3. d \in wire \/ \E t \in DOMAIN tickets : tickets[t].status = "open" /\ tickets[t].request = d
    BY <2>2 DEF NetLess
  <2> QED  BY <2>2, <2>3, NetRequests
<1>3. \A m : Net!Sound(m) => Net!Sound(m)'
  BY DEF NetLess, Net!Sound
<1> QED  BY <1>1, <1>2, <1>3

\* Requests keep their numbers, and registrations theirs.
LEMMA NetRegisters ==
  ASSUME Net!Assumption, Net!IInv, NetLess, sent' = sent, named' \subseteq DOMAIN tickets',
         registered' # None => registered'.by <= sent /\ (registered'.by = 0 <=> registered'.handle = Foreign),
         \A c \in Net!Outstanding("create")' : registered' # None => registered'.by # c.n
  PROVE  Net!RequestInv'
<1>1. Net!Requests' \subseteq Net!Requests /\ Net!Outstanding("create")' \subseteq Net!Outstanding("create")
  BY NetLessens
<1>2. Net!RequestInv
  BY NetTypes
<1>3. /\ \A x \in wire' : \A y \in wire' : y.n = x.n => y = x
      /\ \A t \in DOMAIN tickets' : tickets'[t].request.op \in {"create", "delete"}
      /\ \A r \in Net!Requests' : r.op # "create" => r.handle \in Handles
      /\ \A r \in Net!Requests' : r.n <= sent' /\ r.of <= sent'
      /\ \A c \in Net!Outstanding("create")' : \A d \in Net!Requests' : d.op = "delete" => d.of # c.n
  BY <1>1, <1>2 DEF NetLess, Net!RequestInv
<1>4. \A x \in wire' : \A t \in DOMAIN tickets' : tickets'[t].request.n # x.n
  <2> SUFFICES ASSUME NEW x \in wire', NEW t \in DOMAIN tickets', tickets'[t].request.n = x.n PROVE FALSE
    OBVIOUS
  <2>1. x \in wire /\ x \in Net!Requests
    BY NetRequests DEF NetLess
  <2>2. CASE t \in DOMAIN tickets
    BY <1>2, <2>1, <2>2 DEF NetLess, Net!RequestInv
  <2>3. CASE t \notin DOMAIN tickets
    <3>1. tickets'[t].request \in wire \ wire' /\ tickets'[t].request \in Net!Requests
      BY <2>3, NetRequests DEF NetLess
    <3> QED  BY <2>1, <3>1, NetUnique
  <2> QED  BY <2>2, <2>3
<1>5. \A t, u \in DOMAIN tickets' : tickets'[u].request.n = tickets'[t].request.n => u = t
  <2> SUFFICES ASSUME NEW t \in DOMAIN tickets', NEW u \in DOMAIN tickets', tickets'[u].request.n = tickets'[t].request.n
               PROVE  u = t
    OBVIOUS
  <2>1. CASE t \in DOMAIN tickets /\ u \in DOMAIN tickets
    BY <1>2, <2>1 DEF NetLess, Net!RequestInv
  <2>2. CASE t \notin DOMAIN tickets /\ u \notin DOMAIN tickets
    BY <2>2 DEF NetLess
  <2>3. CASE t \in DOMAIN tickets /\ u \notin DOMAIN tickets
    BY <1>2, <2>3 DEF NetLess, Net!RequestInv
  <2>4. CASE t \notin DOMAIN tickets /\ u \in DOMAIN tickets
    BY <1>2, <2>4 DEF NetLess, Net!RequestInv
  <2> QED  BY <2>1, <2>2, <2>3, <2>4
<1> QED  BY <1>3, <1>4, <1>5 DEF Net!RequestInv

\* The answer a to the request r reaches the call that waits for it.
NetAnswer(r, a) ==
  /\ call # None /\ call.n = r.n /\ call.at = "answer" /\ call.reply = None /\ a \in Net!Reply
  /\ call' = [call EXCEPT !.reply = a] /\ named' = named \cup ({a.ticket} \ {Net!NoTicket})
  /\ a.kind \in {"rejected", "missing"} =>
       a.net = None /\ a.ticket = Net!NoTicket /\ r \notin Net!Outstanding(r.op)'
  /\ a.net # None => a.net.handle # Foreign /\ (a.ticket # Net!NoTicket => r.op = "create")
  /\ r.op = "update" /\ a.kind = "ok" => a.net # None /\ a.net.handle = r.handle
  /\ a.ticket # Net!NoTicket => a.ticket \in DOMAIN tickets' /\ tickets'[a.ticket].request = r

LEMMA NetAnswered ==
  ASSUME Net!Assumption, Net!IInv, NEW r \in wire, NEW a, NetAnswer(r, a)
  PROVE  /\ call \in Net!Call /\ call' \in Net!Call /\ call' # None /\ a # None
         /\ call'.op = call.op /\ call'.at = "answer" /\ call'.m = call.m /\ call'.n = call.n
         /\ call'.reply = a /\ call.n = r.n /\ r.n # 0 /\ (Net!Sent /\ Net!Sent')
         /\ r \in Net!Requests /\ r.op = call.op /\ r.handle = call.m.id
<1>1. call \in Net!Call /\ call # None /\ a # None
  BY NetTypes DEF NetAnswer
<1>2. call' = [call EXCEPT !.reply = a] /\ a \in Net!Reply /\ call.at = "answer" /\ call.n = r.n
  BY DEF NetAnswer
<1>3. /\ call' \in Net!Call /\ call'.op = call.op /\ call'.at = "answer" /\ call'.m = call.m
      /\ call'.n = call.n /\ call'.reply = a
  BY <1>1, <1>2 DEF Net!Call
<1>4. call' # None /\ r \in Net!Requests /\ r.n # 0
  BY <1>3, NetTypes, NetRequests, NetBounds
<1>5. r.op = call.op /\ r.handle = call.m.id
  BY <1>1, <1>2, <1>4, NetTypes DEF Net!CallInv
<1> QED  BY <1>1, <1>2, <1>3, <1>4, <1>5 DEF Net!Sent

\* The state and the running call stay sound while the service works.
LEMMA NetServed ==
  ASSUME Net!Assumption, Net!IInv, NetLess, UNCHANGED <<state, sent>>,
         UNCHANGED <<call, named>> \/ \E r \in wire : \E a : NetAnswer(r, a)
  PROVE  Net!StateInv' /\ Net!CallInv'
<1>1. Net!StateInv /\ Net!CallInv
  BY NetTypes
<1>2. Net!Requests' \subseteq Net!Requests /\ \A m : Net!Sound(m) => Net!Sound(m)'
  BY NetLessens
<1>3. Net!StateInv'
  BY <1>1, <1>2 DEF Net!StateInv
<1>4. CASE UNCHANGED <<call, named>>
  <2>1. call # None => Net!Sound(call.m)'
    <3>1. call # None => Net!Sound(call.m)
      BY <1>1 DEF Net!CallInv
    <3> QED  BY <1>4, <3>1 DEF NetLess, Net!Sound
  <2> QED  BY <1>1, <1>2, <1>3, <1>4, <2>1 DEF Net!CallInv
<1>5. ASSUME NEW r \in wire, NEW a, NetAnswer(r, a) PROVE Net!CallInv'
  <2>1. /\ call' # None /\ call'.op = call.op /\ call'.at = "answer" /\ call'.m = call.m /\ call'.n = call.n
        /\ call # None /\ call.at = "answer" /\ state' = state /\ sent' = sent
    BY <1>5, NetAnswered DEF NetAnswer
  <2>2. Net!Sound(call.m)'
    <3>1. Net!Sound(call.m)
      BY <1>1, <2>1 DEF Net!CallInv
    <3> QED  BY <2>1, <3>1 DEF NetLess, Net!Sound
  <2> QED  BY <1>1, <1>2, <2>1, <2>2 DEF Net!CallInv
<1> QED  BY <1>3, <1>4, <1>5

\* What answers and tickets say stays true while the service works.
LEMMA NetReplies ==
  ASSUME Net!Assumption, Net!IInv, NetLess, UNCHANGED <<state, sent, lost>>,
         UNCHANGED <<call, named>> \/ \E r \in wire : \E a : NetAnswer(r, a)
  PROVE  Net!ReplyInv' /\ Net!TicketInv' /\ named' \subseteq DOMAIN tickets'
<1>1. Net!ReplyInv /\ Net!TicketInv /\ named \subseteq DOMAIN tickets
  BY NetTypes DEF Net!RequestInv
<1>2. \A op : Net!Outstanding(op)' \subseteq Net!Outstanding(op)
  BY NetLessens
<1>3. CASE UNCHANGED <<call, named>>
  <2>1. Net!ReplyInv'
    BY <1>1, <1>2, <1>3 DEF NetLess, Net!ReplyInv
  <2>2. Net!TicketInv'
    BY <1>1, <1>3 DEF NetLess, Net!TicketInv
  <2>3. named' \subseteq DOMAIN tickets'
    BY <1>1, <1>3 DEF NetLess
  <2> QED  BY <2>1, <2>2, <2>3
<1>4. ASSUME NEW r \in wire, NEW a, NetAnswer(r, a)
      PROVE  Net!ReplyInv' /\ Net!TicketInv' /\ named' \subseteq DOMAIN tickets'
  <2>1. /\ call' # None /\ call'.op = call.op /\ call'.at = "answer" /\ call'.m = call.m /\ call'.n = call.n
        /\ call'.reply = a /\ call.n = r.n /\ r.n # 0 /\ a # None /\ r.op = call.op /\ r.handle = call.m.id
        /\ r \in Net!Requests
    BY <1>4, NetAnswered
  <2>2. a.kind \in {"rejected", "missing"} => \A op \in {"create", "delete"} : \A d \in Net!Outstanding(op)' : d.n # call.n
    <3> SUFFICES ASSUME a.kind \in {"rejected", "missing"}, NEW op \in {"create", "delete"},
                        NEW d \in Net!Outstanding(op)', d.n = call.n
                 PROVE  FALSE
      OBVIOUS
    <3>1. d \in Net!Requests /\ d.op = op
      BY <1>2, NetRequests
    <3>2. d = r
      BY <2>1, <3>1, NetUnique
    <3> QED  BY <1>4, <3>1, <3>2 DEF NetAnswer
  <2>3. Net!ReplyInv'
    BY <1>4, <2>1, <2>2 DEF NetAnswer, Net!ReplyInv
  <2>4. Net!TicketInv'
    <3> SUFFICES ASSUME ~lost, NEW t \in named', tickets'[t].status = "open"
                 PROVE  \/ state # None /\ state.ticket = t
                        \/ call.m.ticket = t
                        \/ a.ticket = t
      BY <2>1 DEF Net!TicketInv
    <3>1. CASE t \in named
      <4>1. tickets[t].status = "open"
        BY <1>1, <3>1 DEF NetLess
      <4> QED  BY <1>1, <1>4, <3>1, <4>1 DEF NetAnswer, Net!TicketInv
    <3>2. CASE t \notin named
      BY <1>4, <3>2 DEF NetAnswer
    <3> QED  BY <3>1, <3>2
  <2>5. named' \subseteq DOMAIN tickets'
    BY <1>1, <1>4 DEF NetAnswer, NetLess
  <2> QED  BY <2>3, <2>4, <2>5
<1> QED  BY <1>3, <1>4

\* The service keeps to the domains.
LEMMA NetServiceTypes ==
  ASSUME Net!Assumption, Net!IInv, NetLess, UNCHANGED <<state, sent, lost>>,
         registered' \in Net!Net \cup {None}, edits' \in 0 .. MaxEdits, crashes' = crashes,
         UNCHANGED <<call, named>> \/ \E r \in wire : \E a : NetAnswer(r, a)
  PROVE  Net!TypeOK'
<1>1. call' \in Net!Call \cup {None}
  BY NetAnswered, NetTypes
<1>2. named' \subseteq Net!Tickets
  <2>1. named' \subseteq DOMAIN tickets'
    BY NetReplies
  <2>2. DOMAIN tickets' = 1 .. Len(tickets') /\ Len(tickets') \in Nat /\ Len(tickets') <= MaxTickets
    BY DEF NetLess
  <2>3. MaxTickets \in Nat
    BY NetBounds
  <2>4. DOMAIN tickets' \subseteq 1 .. MaxTickets
    BY ONLY <2>2, <2>3
  <2> QED  BY <2>1, <2>4 DEF Net!Tickets
<1>3. wire' \subseteq Net!Request /\ tickets' \in Seq(Net!Ticket) /\ Len(tickets') <= MaxTickets
  BY NetTypes DEF NetLess
<1> QED  BY <1>1, <1>2, <1>3, NetTypes DEF Net!TypeOK

\* The service, or another channel, ends, refuses or delays requests, and
\* registers nothing of ours.
LEMMA NetShrinks ==
  ASSUME Net!Assumption, Net!IInv, NetLess, UNCHANGED <<state, sent, lost>>,
         registered' \in Net!Net \cup {None}, edits' \in 0 .. MaxEdits, crashes' = crashes,
         registered' # None =>
           \/ registered'.handle = Foreign /\ registered'.by = 0
           \/ registered # None /\ registered'.handle = registered.handle /\ registered'.by = registered.by,
         UNCHANGED <<call, named>> \/ \E r \in wire : \E a :
           NetAnswer(r, a) /\ (r.op = "create" => a.net = None \/ a.ticket # Net!NoTicket)
  PROVE  Net!IInv'
<1>1. Net!TypeOK' /\ Net!StateInv' /\ Net!CallInv' /\ Net!ReplyInv' /\ Net!TicketInv' /\ named' \subseteq DOMAIN tickets'
  BY NetServiceTypes, NetServed, NetReplies
<1>2. /\ Net!Requests' \subseteq Net!Requests
      /\ \A op : Net!Outstanding(op)' \subseteq Net!Outstanding(op)
  BY NetLessens
<1>3. Net!Own' => Net!Own /\ registered'.handle = registered.handle /\ registered'.by = registered.by
  BY DEF Net!Own
<1>4. Net!RequestInv'
  <2>1. registered # None => registered.by <= sent /\ (registered.by = 0 <=> registered.handle = Foreign)
    BY NetTypes DEF Net!RequestInv
  <2>2. 0 <= sent
    BY NetBounds
  <2>3. \A c \in Net!Outstanding("create")' : registered' # None => registered'.by # c.n
    <3>1. \A c \in Net!Outstanding("create")' : c.n # 0 /\ (registered # None => registered.by # c.n)
      BY <1>2, NetRequests, NetBounds, NetTypes DEF Net!RequestInv
    <3> QED  BY <3>1
  <2> QED  BY <1>1, <2>1, <2>2, <2>3, NetRegisters
<1>5. Net!CreateInv'
  <2> SUFFICES ASSUME ~lost PROVE Net!CreateInv'
    BY DEF Net!CreateInv
  <2>1. /\ \A r, s \in Net!Outstanding("create") : r = s
        /\ Net!Outstanding("create") # {} => ~Net!Own
        /\ state = None /\ ~Net!Sent => ~Net!Own /\ Net!Outstanding("create") = {}
        /\ state # None => IF state.pending = "create" THEN Net!Told(state.ticket) ELSE Net!Known(state.id)
        /\ call # None /\ call.m.pending # "create" => Net!Known(call.m.id)
        /\ call # None /\ call.at = "confirm" => ~Net!Own
    BY NetTypes DEF Net!CreateInv
  <2>2. call # None /\ call.op = "create" =>
          /\ \A r \in Net!Outstanding("create") : r.n = call.n
          /\ call.reply # None =>
               /\ Net!Told(call.reply.ticket)
               /\ call.reply.net # None /\ call.reply.ticket = Net!NoTicket => Net!Known(call.reply.net.handle)
               /\ call.reply.kind = "rejected" => ~Net!Own /\ Net!Outstanding("create") = {}
    BY NetTypes DEF Net!CreateInv
  <2>3. \A id : Net!Known(id) => Net!Known(id)'
    BY <1>2, <1>3 DEF Net!Known
  <2>4. \A t \in DOMAIN tickets : Net!Told(t) => Net!Told(t)'
    BY <1>2, <1>3 DEF NetLess, Net!Told
  <2>5. Net!Told(Net!NoTicket)'
    BY DEF Net!Told
  <2>6. state # None => IF state.pending = "create" THEN Net!Told(state.ticket)' ELSE Net!Known(state.id)'
    <3>1. state # None => state.ticket = Net!NoTicket \/ state.ticket \in DOMAIN tickets
      BY NetTypes DEF Net!StateInv, Net!Sound
    <3> QED  BY <2>1, <2>3, <2>4, <2>5, <3>1
  <2>7. CASE UNCHANGED <<call, named>>
    <3>1. call # None /\ call.reply # None => call.reply.ticket = Net!NoTicket \/ call.reply.ticket \in DOMAIN tickets
      BY NetTypes DEF Net!ReplyInv
    <3>2. (Net!Sent' <=> Net!Sent) /\ call' = call /\ state' = state
      BY <2>7 DEF Net!Sent
    <3>3. call # None /\ call.op = "create" =>
          /\ \A r \in Net!Outstanding("create")' : r.n = call.n
          /\ call.reply # None =>
               /\ Net!Told(call.reply.ticket)'
               /\ call.reply.net # None /\ call.reply.ticket = Net!NoTicket => Net!Known(call.reply.net.handle)'
               /\ call.reply.kind = "rejected" => ~Net!Own' /\ Net!Outstanding("create")' = {}
      BY <1>2, <1>3, <2>2, <2>3, <2>4, <2>5, <3>1, <3>2
    <3>4. /\ call # None /\ call.m.pending # "create" => Net!Known(call.m.id)'
          /\ call # None /\ call.at = "confirm" => ~Net!Own'
      BY <1>3, <2>1, <2>3, <3>2
    <3>5. /\ \A r, s \in Net!Outstanding("create")' : r = s
          /\ Net!Outstanding("create")' # {} => ~Net!Own'
          /\ state = None /\ ~Net!Sent => ~Net!Own' /\ Net!Outstanding("create")' = {}
      BY <1>2, <1>3, <2>1
    <3> QED  BY <2>6, <3>2, <3>3, <3>4, <3>5 DEF Net!CreateInv
  <2>8. ASSUME NEW r \in wire, NEW a, NetAnswer(r, a),
                 r.op = "create" => a.net = None \/ a.ticket # Net!NoTicket
          PROVE Net!CreateInv'
    <3>1. /\ call' # None /\ call'.op = call.op /\ call'.at = "answer" /\ call'.m = call.m /\ call'.n = call.n
          /\ call'.reply = a /\ call.n = r.n /\ r.n # 0 /\ a # None /\ r.op = call.op
          /\ r \in Net!Requests /\ Net!Sent /\ Net!Sent' /\ call # None
      BY <2>8, NetAnswered DEF NetAnswer
    <3>2. call.op = "create" =>
            /\ r \in Net!Outstanding("create") /\ ~Net!Own /\ \A c \in Net!Outstanding("create") : c = r
      BY <2>1, <3>1, NetRequests
    <3>3. call.op = "create" =>
            /\ \A c \in Net!Outstanding("create")' : c.n = call.n
            /\ Net!Told(a.ticket)' /\ (a.net = None \/ a.ticket # Net!NoTicket)
            /\ a.kind = "rejected" => ~Net!Own' /\ Net!Outstanding("create")' = {}
      <4> SUFFICES ASSUME call.op = "create"
                   PROVE  /\ \A c \in Net!Outstanding("create")' : c.n = call.n
                          /\ Net!Told(a.ticket)' /\ (a.net = None \/ a.ticket # Net!NoTicket)
                          /\ a.kind = "rejected" => ~Net!Own' /\ Net!Outstanding("create")' = {}
        OBVIOUS
      <4>1. \A c \in Net!Outstanding("create")' : c = r
        BY <1>2, <3>2
      <4>2. Net!Told(a.ticket)'
        <5>1. a.ticket # Net!NoTicket => tickets'[a.ticket].request = r
          BY <2>8 DEF NetAnswer
        <5>2. /\ a.ticket # Net!NoTicket =>
                   /\ \A c \in Net!Outstanding("create")' : c = tickets'[a.ticket].request
                   /\ tickets'[a.ticket].status # "done" => ~Net!Own'
          BY <1>3, <3>2, <4>1, <5>1
        <5>3. Net!Told(a.ticket)' <=> (a.ticket # Net!NoTicket =>
                   /\ \A c \in Net!Outstanding("create")' : c = tickets'[a.ticket].request
                   /\ tickets'[a.ticket].status # "done" => ~Net!Own')
          BY <3>1 DEF Net!Told
        <5> QED  BY <5>2, <5>3
      <4>3. a.kind = "rejected" => r \notin Net!Outstanding("create")'
        BY <2>8, <3>1 DEF NetAnswer
      <4> QED  BY <1>3, <2>8, <3>1, <3>2, <4>1, <4>2, <4>3
    <3>4. /\ call.m.pending # "create" => Net!Known(call.m.id)'
          /\ \A c, s \in Net!Outstanding("create")' : c = s
          /\ Net!Outstanding("create")' # {} => ~Net!Own'
      BY <1>2, <1>3, <2>1, <2>3, <3>1
    <3>5. /\ (call.op = "create" => Net!Told(call.reply.ticket)')
          /\ (call.m.pending # "create" => Net!Known(call.m.id)')
      BY <3>1, <3>3, <3>4 DEF Net!Told, Net!Known
    <3> QED  BY <2>6, <3>1, <3>3, <3>4, <3>5 DEF Net!CreateInv, Net!Told, Net!Known
  <2> QED  BY <2>7, <2>8
<1>6. Net!DeleteInv'
  <2> SUFFICES ASSUME ~lost PROVE Net!DeleteInv'
    BY DEF Net!DeleteInv
  <2>1. /\ \A r, s \in Net!Outstanding("delete") : r = s \/ r.of # s.of \/ r.of = 0
        /\ \A r \in Net!Outstanding("delete") : Net!Own /\ r.of = registered.by =>
             \/ state # None /\ Net!Covers(state, r)
             \/ /\ Net!Sent /\ r.n = call.n /\ call.op = "delete"
                /\ call.at \in {"verify", "confirm"} => Net!Covers(call.m, r)
                /\ call.at = "answer" /\ call.reply # None /\ call.reply.ticket # Net!NoTicket =>
                     tickets[call.reply.ticket].request = r
        /\ \A r \in Net!Outstanding("delete") :
             /\ (Net!Sent /\ r.n = call.n) \/ \E t \in named : tickets[t].request = r
             /\ Net!Visible(r.handle)
             => registered.by = r.of
    BY NetTypes DEF Net!DeleteInv
  <2>2. \A r \in Net!Outstanding("delete")' : r \in Net!Outstanding("delete")
    BY <1>2
  <2>3. \A m, r : (m.ticket # Net!NoTicket => m.ticket \in DOMAIN tickets) /\ Net!Covers(m, r) => Net!Covers(m, r)'
    BY DEF NetLess, Net!Covers
  <2>4. /\ state # None /\ state.ticket # Net!NoTicket => state.ticket \in DOMAIN tickets
        /\ call # None /\ call.m.ticket # Net!NoTicket => call.m.ticket \in DOMAIN tickets
        /\ call # None /\ call.reply # None /\ call.reply.ticket # Net!NoTicket => call.reply.ticket \in DOMAIN tickets
    BY NetTypes DEF Net!StateInv, Net!CallInv, Net!ReplyInv, Net!Sound
  <2>5. \A r \in Net!Outstanding("delete") : Net!Visible(r.handle)' =>
          Net!Visible(r.handle) /\ registered'.by = registered.by
    <3> SUFFICES ASSUME NEW r \in Net!Outstanding("delete"), registered' # None, registered'.handle = r.handle
                 PROVE  Net!Visible(r.handle) /\ registered'.by = registered.by
      BY DEF Net!Visible
    <3>1. r.handle \in Handles
      BY NetRequests, NetTypes DEF Net!RequestInv
    <3>2. Net!Own'
      BY <3>1, NetTypes DEF Net!Own
    <3> QED  BY <1>3, <3>2 DEF Net!Own, Net!Visible
  <2>6. CASE UNCHANGED <<call, named>>
    <3>1. (Net!Sent' <=> Net!Sent) /\ call' = call /\ state' = state /\ named' = named
      BY <2>6 DEF Net!Sent
    <3>2. \A r \in Net!Outstanding("delete")' : Net!Own' /\ r.of = registered'.by =>
             \/ state # None /\ Net!Covers(state, r)'
             \/ /\ Net!Sent /\ r.n = call.n /\ call.op = "delete"
                /\ call.at \in {"verify", "confirm"} => Net!Covers(call.m, r)'
                /\ call.at = "answer" /\ call.reply # None /\ call.reply.ticket # Net!NoTicket =>
                     tickets'[call.reply.ticket].request = r
      <4> SUFFICES ASSUME NEW r \in Net!Outstanding("delete"), Net!Own, r.of = registered.by
                   PROVE  \/ state # None /\ Net!Covers(state, r)'
                          \/ /\ Net!Sent /\ r.n = call.n /\ call.op = "delete"
                             /\ call.at \in {"verify", "confirm"} => Net!Covers(call.m, r)'
                             /\ call.at = "answer" /\ call.reply # None /\ call.reply.ticket # Net!NoTicket =>
                                  tickets'[call.reply.ticket].request = r
        BY <1>3, <2>2
      <4>1. state # None /\ Net!Covers(state, r) => Net!Covers(state, r)'
        BY <2>3, <2>4, <3>1
      <4>2. call # None /\ Net!Covers(call.m, r) => Net!Covers(call.m, r)'
        BY <2>3, <2>4, <3>1
      <4>3. call # None /\ call.reply # None /\ call.reply.ticket # Net!NoTicket =>
              tickets'[call.reply.ticket].request = tickets[call.reply.ticket].request
        BY <2>4 DEF NetLess
      <4>4. Net!Sent => call # None
        BY DEF Net!Sent
      <4> QED  BY <2>1, <4>1, <4>2, <4>3, <4>4
    <3>3. \A r \in Net!Outstanding("delete")' :
             /\ (Net!Sent /\ r.n = call.n) \/ \E t \in named : tickets'[t].request = r
             /\ Net!Visible(r.handle)'
             => registered'.by = r.of
      <4>1. \A t \in named : tickets'[t].request = tickets[t].request
        BY NetTypes DEF NetLess, Net!RequestInv
      <4> QED  BY <2>1, <2>2, <2>5, <4>1
    <3> QED  BY <2>1, <2>2, <3>1, <3>2, <3>3 DEF Net!DeleteInv
  <2>7. ASSUME NEW p \in wire, NEW a, NetAnswer(p, a) PROVE Net!DeleteInv'
    <3>1. /\ call' # None /\ call'.op = call.op /\ call'.at = "answer" /\ call'.n = call.n
          /\ call'.reply = a /\ call.n = p.n /\ p \in Net!Requests /\ Net!Sent /\ Net!Sent' /\ call # None
          /\ a.ticket # Net!NoTicket => tickets'[a.ticket].request = p
      BY <2>7, NetAnswered DEF NetAnswer
    <3>2. \A r \in Net!Outstanding("delete")' : r.n = call.n => r = p
      BY <2>2, <3>1, NetRequests, NetUnique
    <3>3. \A r \in Net!Outstanding("delete")' : Net!Own' /\ r.of = registered'.by =>
             \/ state # None /\ Net!Covers(state, r)'
             \/ Net!Sent' /\ r.n = call'.n /\ call'.op = "delete"
      <4> SUFFICES ASSUME NEW r \in Net!Outstanding("delete"), Net!Own, r.of = registered.by
                   PROVE  (state # None /\ Net!Covers(state, r)') \/ (r.n = call.n /\ call.op = "delete")
        BY <1>3, <2>2, <3>1
      <4>1. state # None /\ Net!Covers(state, r) => Net!Covers(state, r)'
        BY <2>3, <2>4
      <4> QED  BY <2>1, <4>1
    <3>4. \A r \in Net!Outstanding("delete")' :
             /\ r.n = call.n \/ \E t \in named' : tickets'[t].request = r
             /\ Net!Visible(r.handle)'
             => registered'.by = r.of
      <4>1. \A t \in named : tickets'[t].request = tickets[t].request
        BY NetTypes DEF NetLess, Net!RequestInv
      <4>2. \A t \in named' : t \in named \/ tickets'[t].request = p
        BY <2>7, <3>1 DEF NetAnswer
      <4> QED  BY <2>1, <2>2, <2>5, <3>1, <4>1, <4>2
    <3> QED  BY <2>1, <2>2, <3>1, <3>2, <3>3, <3>4 DEF Net!DeleteInv
  <2> QED  BY <2>6, <2>7
<1> QED  BY <1>1, <1>4, <1>5, <1>6 DEF Net!IInv

\* Of what a pending creation may find: nothing else is pending or known.
LEMMA NetCreating ==
  ASSUME Net!Assumption, Net!IInv, ~lost, NEW r \in Net!Outstanding("create")
  PROVE  /\ ~Net!Own /\ \A c \in Net!Outstanding("create") : c = r
         /\ state # None => state.pending = "create" /\ Net!Told(state.ticket)
         /\ call # None => call.m.pending = "create" /\ (Net!Sent => call.op = "create")
         /\ state # None \/ Net!Sent
<1>1. Net!CreateInv /\ Net!CallInv
  BY NetTypes
<1>2. call # None => call.m.pending = "create"
  BY <1>1 DEF Net!CreateInv, Net!Known
<1>3. Net!Sent => call.op = "create"
  BY <1>1, <1>2 DEF Net!CallInv, Net!Sent
<1> QED  BY <1>1, <1>2, <1>3 DEF Net!CreateInv, Net!Known

\* The service registers the network that a creation asks for.
LEMMA NetCreates ==
  ASSUME Net!Assumption, Net!IInv, NetLess, UNCHANGED <<state, sent, lost, edits, crashes>>,
         NEW r \in Net!Outstanding("create"), NEW h \in Handles,
         registered = None, registered' = Net!Created(r, h), r \notin Net!Outstanding("create")',
         \A t \in DOMAIN tickets : tickets[t].request = r => tickets'[t].status = "done",
         UNCHANGED <<call, named>> \/ \E a :
           /\ r \in wire /\ NetAnswer(r, a)
           /\ a.ticket = Net!NoTicket /\ a.kind # "rejected" /\ (a.net # None => a.net.handle = h)
  PROVE  Net!IInv'
<1>1. /\ Net!Requests' \subseteq Net!Requests
      /\ \A op : Net!Outstanding(op)' \subseteq Net!Outstanding(op)
  BY NetLessens
<1>2. /\ r \in Net!Requests /\ r \in Net!Request /\ r.op = "create" /\ r.n # 0
      /\ \A c \in Net!Outstanding("create") : c.n = r.n => c = r
  BY NetRequests, NetBounds, NetUnique
<1>3. registered' \in Net!Net /\ registered'.handle = h /\ registered'.by = r.n /\ registered' # None /\ h # Foreign
  <2>1. registered' = [handle |-> h, name |-> r.name, by |-> r.n] /\ r.name \in Names /\ r.n \in 0 .. MaxSubmits
    <3>1. r.name \in Names /\ r.n \in 1 .. MaxSubmits
      BY <1>2 DEF Net!Request, Net!Sends
    <3>2. r.n \in 0 .. MaxSubmits
      BY <3>1, NetBounds
    <3> QED  BY <3>1, <3>2 DEF Net!Created
  <2>2. registered' \in Net!Net /\ registered'.handle = h /\ registered'.by = r.n
    BY <2>1 DEF Net!Net
  <2> QED  BY <2>2, NetTypes
<1>4. Net!TypeOK' /\ Net!StateInv' /\ Net!CallInv' /\ Net!ReplyInv' /\ Net!TicketInv' /\ named' \subseteq DOMAIN tickets'
  <2>1. edits' \in 0 .. MaxEdits
    BY NetTypes
  <2> QED  BY <1>3, <2>1, NetServiceTypes, NetServed, NetReplies
<1>5. Net!RequestInv'
  <2>1. r.n <= sent
    BY <1>2, NetTypes DEF Net!RequestInv
  <2>2. \A c \in Net!Outstanding("create")' : registered'.by # c.n
    BY <1>1, <1>2, <1>3
  <2> QED  BY <1>2, <1>3, <1>4, <2>1, <2>2, NetRegisters
<1>6. ~lost =>
        /\ ~Net!Own /\ \A c \in Net!Outstanding("create") : c = r
        /\ state # None => state.pending = "create" /\ Net!Told(state.ticket)
        /\ call # None => call.m.pending = "create" /\ (Net!Sent => call.op = "create")
        /\ state # None \/ Net!Sent
  BY NetCreating
<1>7. ~lost => Net!Outstanding("create")' = {}
  BY <1>1, <1>6
<1>8. ~lost => \A t \in DOMAIN tickets : Net!Told(t) => Net!Told(t)'
  <2> SUFFICES ASSUME ~lost, NEW t \in DOMAIN tickets, Net!Told(t) PROVE Net!Told(t)'
    OBVIOUS
  <2>1. tickets[t].request = r
    BY NetRequests DEF Net!Told
  <2> QED  BY <1>7, <2>1 DEF Net!Told
<1>9. Net!Told(Net!NoTicket)'
  BY DEF Net!Told
<1>10. Net!CreateInv'
  <2> SUFFICES ASSUME ~lost PROVE Net!CreateInv'
    BY DEF Net!CreateInv
  <2>1. state # None => state.pending = "create" /\ Net!Told(state.ticket)'
    <3>1. state # None => state.ticket = Net!NoTicket \/ state.ticket \in DOMAIN tickets
      BY NetTypes DEF Net!StateInv, Net!Sound
    <3> QED  BY <1>6, <1>8, <1>9, <3>1
  <2>2. CASE UNCHANGED <<call, named>>
    <3>1. (Net!Sent' <=> Net!Sent) /\ call' = call /\ state' = state
      BY <2>2 DEF Net!Sent
    <3>2. call # None /\ call.reply # None => call.reply.ticket = Net!NoTicket \/ call.reply.ticket \in DOMAIN tickets
      BY NetTypes DEF Net!ReplyInv
    <3>3. call # None /\ call.op = "create" /\ call.reply # None =>
            /\ Net!Told(call.reply.ticket) /\ call.reply.kind # "rejected"
            /\ call.reply.net = None \/ call.reply.ticket # Net!NoTicket
      BY NetTypes DEF Net!CreateInv, Net!Known
    <3>4. call # None /\ call.op = "create" /\ call.reply # None => Net!Told(call.reply.ticket)'
      BY <1>8, <1>9, <3>1, <3>2, <3>3
    <3>5. call # None => call.at # "confirm"
      BY <1>6, NetTypes DEF Net!CallInv
    <3> QED  BY <1>6, <1>7, <2>1, <3>1, <3>3, <3>4, <3>5 DEF Net!CreateInv
  <2>3. ASSUME r \in wire, NEW a, NetAnswer(r, a), a.ticket = Net!NoTicket, a.kind # "rejected",
               a.net # None => a.net.handle = h
        PROVE  Net!CreateInv'
    <3>1. /\ call' # None /\ call'.op = call.op /\ call'.at = "answer" /\ call'.m = call.m /\ call'.n = call.n
          /\ call'.reply = a /\ Net!Sent' /\ a # None /\ call # None
      BY <2>3, NetAnswered DEF NetAnswer
    <3>2. call'.m.pending = "create"
      BY <1>6, <3>1
    <3>3. a.net # None => Net!Known(a.net.handle)'
      <4>1. a.net # None => Net!Outstanding("create")' = {} /\ (Net!Own' => registered'.handle = a.net.handle)
        BY <1>3, <1>7, <2>3
      <4>2. Net!Known(a.net.handle)' <=> (Net!Outstanding("create")' = {} /\ (Net!Own' => registered'.handle = a.net.handle))
        BY <3>1 DEF Net!Known
      <4> QED  BY <4>1, <4>2
    <3>4. Net!Told(a.ticket)'
      BY <2>3, <3>1 DEF Net!Told
    <3> QED  BY <1>7, <2>1, <2>3, <3>1, <3>2, <3>3, <3>4 DEF Net!CreateInv
  <2> QED  BY <2>2, <2>3
<1>11. Net!DeleteInv'
  <2> SUFFICES ASSUME ~lost PROVE Net!DeleteInv'
    BY DEF Net!DeleteInv
  <2>1. \A d \in Net!Outstanding("delete")' : d \in Net!Outstanding("delete") /\ d \in Net!Requests /\ d.op = "delete"
    BY <1>1, NetRequests
  <2>2. \A x, y \in Net!Outstanding("delete")' : x = y \/ x.of # y.of \/ x.of = 0
    BY <2>1, NetTypes DEF Net!DeleteInv
  <2>3. \A d \in Net!Outstanding("delete")' : d.of # registered'.by
    BY <1>3, <2>1, NetTypes DEF Net!RequestInv
  <2>4. \A d \in Net!Outstanding("delete") : ~(Net!Sent /\ d.n = call.n) /\ \A t \in named : tickets[t].request # d
    <3> SUFFICES ASSUME NEW d \in Net!Outstanding("delete"),
                        (Net!Sent /\ d.n = call.n) \/ \E t \in named : tickets[t].request = d
                 PROVE  FALSE
      OBVIOUS
    <3>1. d \in Net!Requests /\ d.op = "delete"
      BY NetRequests
    <3>2. ~(Net!Sent /\ d.n = call.n)
      BY <1>6, <3>1, NetTypes DEF Net!CallInv, Net!Sent
    <3>3. PICK t \in named : tickets[t].request = d
      BY <3>2
    <3>4. t \in DOMAIN tickets /\ t # Net!NoTicket /\ tickets[t].status = "open"
      BY <3>1, <3>3, NetRequests, NetTypes DEF Net!RequestInv
    <3>5. CASE state # None /\ state.ticket = t
      BY <1>6, <3>1, <3>3, <3>4, <3>5, NetTypes DEF Net!StateInv, Net!Sound
    <3>6. CASE call # None /\ call.m.ticket = t
      <4>1. Net!Sound(call.m)
        BY <3>6, NetTypes DEF Net!CallInv
      <4> QED  BY <1>6, <3>1, <3>3, <3>4, <3>6, <4>1 DEF Net!Sound
    <3>7. CASE call # None /\ call.reply # None /\ call.reply.ticket = t
      <4>1. tickets[t].request.n = call.n
        BY <3>4, <3>7, NetTypes DEF Net!ReplyInv
      <4>2. d.n # 0
        BY <3>1, NetRequests, NetBounds
      <4> QED  BY <3>2, <3>3, <3>7, <4>1, <4>2 DEF Net!Sent
    <3> QED  BY <3>3, <3>4, <3>5, <3>6, <3>7, NetTypes DEF Net!TicketInv
  <2>5. \A d \in Net!Outstanding("delete")' :
          ~(Net!Sent' /\ d.n = call'.n) /\ \A t \in named' : tickets'[t].request # d
    <3>1. \A t \in named : tickets'[t].request = tickets[t].request
      BY NetTypes DEF NetLess, Net!RequestInv
    <3>2. CASE UNCHANGED <<call, named>>
      BY <2>1, <2>4, <3>1, <3>2 DEF Net!Sent
    <3>3. ASSUME r \in wire, NEW a, NetAnswer(r, a), a.ticket = Net!NoTicket
          PROVE  \A d \in Net!Outstanding("delete")' :
                   ~(Net!Sent' /\ d.n = call'.n) /\ \A t \in named' : tickets'[t].request # d
      <4>1. named' = named /\ call'.n = call.n /\ Net!Sent
        BY <3>3, NetAnswered DEF NetAnswer
      <4> QED  BY <2>1, <2>4, <3>1, <4>1
    <3> QED  BY <3>2, <3>3
  <2> QED  BY <2>2, <2>3, <2>5 DEF Net!DeleteInv
<1> QED  BY <1>4, <1>5, <1>10, <1>11 DEF Net!IInv

\* Requests that leave the wire without a ticket, with one, and tickets closed.
LEMMA NetLeaves ==
  ASSUME Net!Assumption, Net!IInv, wire' \subseteq wire, tickets' = tickets
  PROVE  NetLess
BY NetTypes DEF NetLess

LEMMA NetOpens ==
  ASSUME Net!Assumption, Net!IInv, NEW r \in wire, r.op \in {"create", "delete"}, Len(tickets) < MaxTickets,
         tickets' = Net!Open(r), wire' = wire \ {r}
  PROVE  /\ NetLess /\ Len(tickets') \in DOMAIN tickets' /\ tickets'[Len(tickets')].request = r
         /\ Len(tickets') \in Net!Tickets
<1> DEFINE new == [request |-> r, status |-> "open"]
<1>1. tickets \in Seq(Net!Ticket) /\ MaxTickets \in Nat /\ Len(tickets) \in Nat
  BY NetBounds, NetTypes
<1>2. new \in Net!Ticket /\ new.request = r
  BY NetTypes DEF Net!Ticket
<1>3. tickets' = Append(tickets, new)
  BY DEF Net!Open
<1> HIDE DEF new
<1>4. /\ tickets' \in Seq(Net!Ticket) /\ Len(tickets') = Len(tickets) + 1 /\ DOMAIN tickets' = 1 .. Len(tickets) + 1
      /\ DOMAIN tickets = 1 .. Len(tickets) /\ tickets'[Len(tickets) + 1] = new
      /\ \A t \in DOMAIN tickets : t \in DOMAIN tickets' /\ tickets'[t] = tickets[t]
  BY <1>1, <1>2, <1>3
<1>5. \A t \in DOMAIN tickets' \ DOMAIN tickets : t = Len(tickets) + 1
  BY ONLY <1>1, <1>4
<1>6. Len(tickets') <= MaxTickets /\ Len(tickets') \in 1 .. MaxTickets /\ Len(tickets') \in DOMAIN tickets'
  BY ONLY <1>1, <1>4, Len(tickets) < MaxTickets
<1>7. \A t \in DOMAIN tickets' \ DOMAIN tickets :
        /\ tickets'[t].request \in wire \ wire' /\ tickets'[t].request.op \in {"create", "delete"}
        /\ \A u \in DOMAIN tickets' \ DOMAIN tickets : u = t
  BY <1>2, <1>4, <1>5
<1> QED  BY <1>2, <1>4, <1>6, <1>7 DEF NetLess, Net!Tickets

LEMMA NetCloses ==
  ASSUME Net!Assumption, Net!IInv, NEW t \in DOMAIN tickets, tickets[t].status = "open", NEW s \in {"done", "failed"},
         tickets' = [tickets EXCEPT ![t].status = s], wire' = wire
  PROVE  /\ NetLess /\ tickets'[t].status = s
         /\ tickets[t].request \in Net!Requests /\ tickets[t].request \in Net!Outstanding(tickets[t].request.op)
         /\ \A op : \A d \in Net!Outstanding(op)' : d # tickets[t].request
         /\ \A u \in DOMAIN tickets : tickets[u].request = tickets[t].request => u = t
<1>1. /\ tickets \in Seq(Net!Ticket) /\ tickets[t] \in Net!Ticket
      /\ tickets[t].request \in Net!Requests /\ tickets[t].request \in Net!Outstanding(tickets[t].request.op)
  BY NetRequests, NetTypes
<1>2. /\ [tickets[t] EXCEPT !.status = s] \in Net!Ticket /\ [tickets[t] EXCEPT !.status = s].status = s
      /\ [tickets[t] EXCEPT !.status = s].request = tickets[t].request
  BY <1>1 DEF Net!Ticket
<1>3. /\ tickets' \in Seq(Net!Ticket) /\ DOMAIN tickets' = DOMAIN tickets /\ Len(tickets') = Len(tickets)
      /\ tickets'[t] = [tickets[t] EXCEPT !.status = s]
      /\ \A u \in DOMAIN tickets : u # t => tickets'[u] = tickets[u]
  BY <1>1, <1>2
<1>4. NetLess
  BY <1>1, <1>2, <1>3, NetTypes DEF NetLess
<1>5. \A u \in DOMAIN tickets : tickets[u].request = tickets[t].request => u = t
  BY NetTypes DEF Net!RequestInv
<1>6. \A op : \A d \in Net!Outstanding(op)' : d # tickets[t].request
  <2>1. tickets[t].request \notin wire'
    BY NetTypes DEF Net!RequestInv
  <2>2. \A u \in DOMAIN tickets' : tickets'[u].status = "open" => tickets'[u].request # tickets[t].request
    BY <1>2, <1>3, <1>5
  <2> QED  BY <2>1, <2>2 DEF Net!Outstanding
<1> QED  BY <1>1, <1>2, <1>3, <1>4, <1>5, <1>6

\* The answer that a call reads names the ticket that was sent, and the
\* network unless it is malformed.
LEMMA NetProcess ==
  ASSUME Net!Assumption, Net!IInv, NEW r \in wire, NEW replies \in SUBSET Net!Reply, Net!Process(r, replies)
  PROVE  /\ wire' = wire \ {r} /\ UNCHANGED <<state, sent, lost, edits, crashes>>
         /\ \/ UNCHANGED <<call, named>>
            \/ \E reply \in replies : \E a \in Net!Reply :
                 /\ call # None /\ call.n = r.n /\ call.at = "answer" /\ call.reply = None
                 /\ call' = [call EXCEPT !.reply = a] /\ named' = named \cup ({a.ticket} \ {Net!NoTicket})
                 /\ a.ticket = reply.ticket /\ a.net \in {reply.net, None} /\ a.kind \in {reply.kind, "uncertain"}
                 /\ a.kind = "ok" => a = reply
<1>1. wire' = wire \ {r} /\ UNCHANGED <<state, sent, lost, edits, crashes>>
  BY DEF Net!Process, Net!bounds
<1>2. CASE UNCHANGED <<call, named>>
  BY <1>1, <1>2
<1>3. CASE ~UNCHANGED <<call, named>>
  <2>1. PICK reply \in replies :
          /\ call # None /\ call.n = r.n /\ call.at = "answer" /\ call.reply = None
          /\ \E reading \in Net!Readings(reply) : call' = [call EXCEPT !.reply = reading]
          /\ named' = named \cup ({reply.ticket} \ {Net!NoTicket})
    BY <1>3 DEF Net!Process
  <2>2. PICK a \in Net!Readings(reply) : call' = [call EXCEPT !.reply = a]
    BY <2>1
  <2>3. reply \in Net!Reply
    OBVIOUS
  <2>4. /\ a \in Net!Reply /\ a.ticket = reply.ticket /\ a.net \in {reply.net, None} /\ a.kind \in {reply.kind, "uncertain"}
        /\ a.kind = "ok" => a = reply
    BY <2>2, <2>3 DEF Net!Readings, Net!Malformed, Net!Reply
  <2> QED  BY <1>1, <2>1, <2>2, <2>4
<1> QED  BY <1>2, <1>3

\* A request that ends without a ticket is over.
LEMMA NetOver ==
  ASSUME Net!Assumption, Net!IInv, NEW r \in wire, wire' = wire \ {r}, tickets' = tickets
  PROVE  NetLess /\ r \in Net!Requests /\ r \in Net!Outstanding(r.op) /\ \A op : r \notin Net!Outstanding(op)'
<1>1. NetLess
  BY NetLeaves
<1>2. r \in Net!Requests /\ r \in Net!Outstanding(r.op)
  BY NetRequests
<1>3. \A t \in DOMAIN tickets : tickets[t].request # r
  BY NetTypes DEF Net!RequestInv
<1>4. \A op : r \notin Net!Outstanding(op)'
  BY <1>3 DEF Net!Outstanding
<1> QED  BY <1>1, <1>2, <1>4

\* The service carries out a creation, or opens a ticket for it.
LEMMA NetProcessesCreate ==
  ASSUME Net!Assumption, Net!IInv, NEW r \in wire, Net!ProcessCreate(r)
  PROVE  Net!IInv'
<1>1. r.op = "create" /\ registered = None
  BY DEF Net!ProcessCreate
<1>2. ASSUME NEW h \in Handles, registered' = Net!Created(r, h), tickets' = tickets,
             Net!Process(r, {Net!Accepted(registered', Net!NoTicket)})
      PROVE  Net!IInv'
  <2> DEFINE reply == Net!Accepted(registered', Net!NoTicket)
  <2>1. /\ reply \in Net!Reply /\ reply.net = registered' /\ reply.ticket = Net!NoTicket /\ reply.kind = "ok"
        /\ registered'.handle = h /\ h # Foreign
    <3>1. r \in Net!Request
      BY NetTypes
    <3>2. r.name \in Names /\ r.n \in 0 .. MaxSubmits
      <4>1. r.name \in Names /\ r.n \in 1 .. MaxSubmits
        BY <3>1 DEF Net!Request, Net!Sends
      <4>2. MaxSubmits \in Nat
        BY NetBounds
      <4> QED  BY <4>1, <4>2
    <3>3. registered' \in Net!Net /\ registered'.handle = h
      BY <1>2, <3>2 DEF Net!Created, Net!Net
    <3> QED  BY <3>3, NetTypes DEF Net!Accepted, Net!Reply
  <2> HIDE DEF reply
  <2>2. Net!Process(r, {reply})
    BY <1>2 DEF reply
  <2>3. {reply} \in SUBSET Net!Reply
    BY <2>1
  <2>4. /\ wire' = wire \ {r} /\ UNCHANGED <<state, sent, lost, edits, crashes>>
        /\ \/ UNCHANGED <<call, named>>
           \/ \E a \in Net!Reply :
                 /\ call # None /\ call.n = r.n /\ call.at = "answer" /\ call.reply = None
                 /\ call' = [call EXCEPT !.reply = a] /\ named' = named \cup ({a.ticket} \ {Net!NoTicket})
                 /\ a.ticket = reply.ticket /\ a.net \in {reply.net, None} /\ a.kind \in {reply.kind, "uncertain"}
    BY <2>2, <2>3, NetProcess
  <2>5. NetLess /\ r \in Net!Outstanding("create") /\ r \notin Net!Outstanding("create")'
    BY <1>1, <1>2, <2>4, NetOver
  <2>6. \A t \in DOMAIN tickets : tickets[t].request # r
    BY NetTypes DEF Net!RequestInv
  <2>7. UNCHANGED <<call, named>> \/ \E a :
           /\ r \in wire /\ NetAnswer(r, a)
           /\ a.ticket = Net!NoTicket /\ a.kind # "rejected" /\ (a.net # None => a.net.handle = h)
    <3> SUFFICES ASSUME NEW a \in Net!Reply,
                 call # None /\ call.n = r.n /\ call.at = "answer" /\ call.reply = None,
                 call' = [call EXCEPT !.reply = a] /\ named' = named \cup ({a.ticket} \ {Net!NoTicket}),
                 a.ticket = reply.ticket /\ a.net \in {reply.net, None} /\ a.kind \in {reply.kind, "uncertain"}
                 PROVE  /\ NetAnswer(r, a)
                        /\ a.ticket = Net!NoTicket /\ a.kind # "rejected" /\ (a.net # None => a.net.handle = h)
      BY <2>4
    <3>1. a.ticket = Net!NoTicket /\ a.kind \in {"ok", "uncertain"} /\ (a.net # None => a.net.handle = h)
      BY <2>1
    <3> QED  BY <1>1, <2>1, <3>1 DEF NetAnswer
  <2> QED  BY <1>1, <1>2, <2>4, <2>5, <2>6, <2>7, NetCreates
<1>3. ASSUME Len(tickets) < MaxTickets, tickets' = Net!Open(r), registered' = registered,
             Net!Process(r, {Net!Accepted(net, Len(tickets')) : net \in {None} \cup {Net!Created(r, h) : h \in Handles}})
      PROVE  Net!IInv'
  <2> DEFINE nets == {None} \cup {Net!Created(r, h) : h \in Handles}
             replies == {Net!Accepted(net, Len(tickets')) : net \in nets}
  <2>1. wire' = wire \ {r}
    BY <1>3 DEF Net!Process
  <2>2. /\ NetLess /\ Len(tickets') \in DOMAIN tickets' /\ tickets'[Len(tickets')].request = r
        /\ Len(tickets') \in Net!Tickets
    BY <1>1, <1>3, <2>1, NetOpens
  <2>3. \A net \in nets : net \in Net!Net \cup {None} /\ (net # None => net.handle # Foreign)
    <3>1. r \in Net!Request
      BY NetTypes
    <3>2. r.name \in Names /\ r.n \in 1 .. MaxSubmits
      BY <3>1 DEF Net!Request, Net!Sends
    <3>3. r.n \in 0 .. MaxSubmits
      BY <3>2, NetBounds
    <3>4. \A h \in Handles : h # Foreign
      BY NetTypes
    <3>5. \A h \in Handles : Net!Created(r, h) \in Net!Net /\ Net!Created(r, h).handle # Foreign
      BY <3>2, <3>3, <3>4 DEF Net!Created, Net!Net
    <3> QED  BY <3>5
  <2> HIDE DEF nets
  <2>4. \A reply \in replies :
          /\ reply \in Net!Reply /\ reply.kind = "ok" /\ reply.ticket = Len(tickets')
          /\ reply.net # None => reply.net.handle # Foreign
    BY <2>2, <2>3 DEF Net!Accepted, Net!Reply
  <2>5. Net!Process(r, replies)
    BY <1>3 DEF nets
  <2> HIDE DEF replies
  <2>6. replies \in SUBSET Net!Reply
    BY <2>4
  <2>7. /\ UNCHANGED <<state, sent, lost, edits, crashes>>
        /\ \/ UNCHANGED <<call, named>>
           \/ \E reply \in replies : \E a \in Net!Reply :
                 /\ call # None /\ call.n = r.n /\ call.at = "answer" /\ call.reply = None
                 /\ call' = [call EXCEPT !.reply = a] /\ named' = named \cup ({a.ticket} \ {Net!NoTicket})
                 /\ a.ticket = reply.ticket /\ a.net \in {reply.net, None} /\ a.kind \in {reply.kind, "uncertain"}
    BY <2>5, <2>6, NetProcess
  <2>8. Len(tickets') # Net!NoTicket
    BY <2>2 DEF Net!Tickets, Net!NoTicket
  <2>9. UNCHANGED <<call, named>> \/ \E a : NetAnswer(r, a) /\ (r.op = "create" => a.net = None \/ a.ticket # Net!NoTicket)
    <3> SUFFICES ASSUME NEW reply \in replies, NEW a \in Net!Reply,
                 call # None /\ call.n = r.n /\ call.at = "answer" /\ call.reply = None,
                 call' = [call EXCEPT !.reply = a] /\ named' = named \cup ({a.ticket} \ {Net!NoTicket}),
                 a.ticket = reply.ticket /\ a.net \in {reply.net, None} /\ a.kind \in {reply.kind, "uncertain"}
                 PROVE  NetAnswer(r, a) /\ a.ticket # Net!NoTicket
      BY <2>7
    <3>1. a.ticket = Len(tickets') /\ a.kind \in {"ok", "uncertain"} /\ (a.net # None => a.net.handle # Foreign)
      BY <2>4
    <3> QED  BY <1>1, <2>2, <2>8, <3>1 DEF NetAnswer
  <2>10. registered' \in Net!Net \cup {None} /\ edits' \in 0 .. MaxEdits /\ registered' = None
    BY <1>1, <1>3, <2>7, NetTypes
  <2> QED  BY <2>2, <2>7, <2>9, <2>10, NetShrinks
<1> QED  BY <1>2, <1>3 DEF Net!ProcessCreate

\* The service renames the network that an update names.
LEMMA NetProcessesUpdate ==
  ASSUME Net!Assumption, Net!IInv, NEW r \in wire, Net!ProcessUpdate(r)
  PROVE  Net!IInv'
<1> DEFINE reply == Net!Accepted(registered', Net!NoTicket)
<1>1. /\ r.op = "update" /\ Net!Visible(r.handle) /\ registered' = [registered EXCEPT !.name = r.name]
      /\ tickets' = tickets /\ Net!Process(r, {reply})
  BY DEF Net!ProcessUpdate
<1>2. r \in Net!Request /\ r.handle \in Handles
  <2>1. r \in Net!Requests
    BY NetRequests
  <2> QED  BY <1>1, <2>1, NetTypes DEF Net!RequestInv
<1>3. registered # None /\ registered \in Net!Net /\ registered.handle = r.handle /\ r.handle # Foreign
  BY <1>1, <1>2, NetTypes DEF Net!Visible
<1>4. registered' \in Net!Net /\ registered'.handle = registered.handle /\ registered'.by = registered.by
  <2>1. r.name \in Names
    BY <1>2 DEF Net!Request
  <2> QED  BY <1>1, <1>3, <2>1 DEF Net!Net
<1>5. reply \in Net!Reply /\ reply.net = registered' /\ reply.kind = "ok" /\ reply.ticket = Net!NoTicket
  BY <1>4 DEF Net!Accepted, Net!Reply
<1> HIDE DEF reply
<1>6. {reply} \in SUBSET Net!Reply
  BY <1>5
<1>7. /\ wire' = wire \ {r} /\ UNCHANGED <<state, sent, lost, edits, crashes>>
      /\ \/ UNCHANGED <<call, named>>
         \/ \E a \in Net!Reply :
               /\ call # None /\ call.n = r.n /\ call.at = "answer" /\ call.reply = None
               /\ call' = [call EXCEPT !.reply = a] /\ named' = named \cup ({a.ticket} \ {Net!NoTicket})
               /\ a.ticket = reply.ticket /\ a.net \in {reply.net, None} /\ a.kind \in {reply.kind, "uncertain"}
               /\ a.kind = "ok" => a = reply
  BY <1>1, <1>6, NetProcess
<1>8. NetLess
  BY <1>1, <1>7, NetOver
<1>9. UNCHANGED <<call, named>> \/ \E a : NetAnswer(r, a) /\ (r.op = "create" => a.net = None \/ a.ticket # Net!NoTicket)
  <2> SUFFICES ASSUME NEW a \in Net!Reply,
               call # None /\ call.n = r.n /\ call.at = "answer" /\ call.reply = None,
               call' = [call EXCEPT !.reply = a] /\ named' = named \cup ({a.ticket} \ {Net!NoTicket}),
               a.ticket = reply.ticket /\ a.net \in {reply.net, None} /\ a.kind \in {reply.kind, "uncertain"},
               a.kind = "ok" => a = reply
               PROVE  NetAnswer(r, a)
    BY <1>1, <1>7
  <2>1. /\ a.ticket = Net!NoTicket /\ a.kind \in {"ok", "uncertain"} /\ (a.net # None => a.net.handle = r.handle)
        /\ a.kind = "ok" => a.net # None
    BY <1>3, <1>4, <1>5, NetTypes
  <2> QED  BY <1>3, <2>1 DEF NetAnswer
<1>10. registered' \in Net!Net \cup {None} /\ edits' \in 0 .. MaxEdits
  BY <1>4, <1>7, NetTypes
<1> QED  BY <1>3, <1>4, <1>7, <1>8, <1>9, <1>10, NetShrinks

\* The service removes the network that a deletion names, or opens a ticket.
LEMMA NetProcessesDelete ==
  ASSUME Net!Assumption, Net!IInv, NEW r \in wire, Net!ProcessDelete(r)
  PROVE  Net!IInv'
<1>1. r.op = "delete" /\ Net!Visible(r.handle)
  BY DEF Net!ProcessDelete
<1>2. r.handle \in Handles
  <2>1. r \in Net!Requests
    BY NetRequests
  <2> QED  BY <1>1, <2>1, NetTypes DEF Net!RequestInv
<1>3. registered # None /\ registered \in Net!Net /\ registered.handle # Foreign
  BY <1>1, <1>2, NetTypes DEF Net!Visible
<1>4. CASE registered' = None /\ tickets' = tickets /\ Net!Process(r, {Net!Accepted(registered, Net!NoTicket)})
  <2> DEFINE reply == Net!Accepted(registered, Net!NoTicket)
  <2>1. reply \in Net!Reply /\ reply.net = registered /\ reply.kind = "ok" /\ reply.ticket = Net!NoTicket
    BY <1>3 DEF Net!Accepted, Net!Reply
  <2>2. Net!Process(r, {reply})
    BY <1>4
  <2> HIDE DEF reply
  <2>3. {reply} \in SUBSET Net!Reply
    BY <2>1
  <2>4. /\ wire' = wire \ {r} /\ UNCHANGED <<state, sent, lost, edits, crashes>>
        /\ \/ UNCHANGED <<call, named>>
           \/ \E a \in Net!Reply :
                 /\ call # None /\ call.n = r.n /\ call.at = "answer" /\ call.reply = None
                 /\ call' = [call EXCEPT !.reply = a] /\ named' = named \cup ({a.ticket} \ {Net!NoTicket})
                 /\ a.ticket = reply.ticket /\ a.net \in {reply.net, None} /\ a.kind \in {reply.kind, "uncertain"}
    BY <2>2, <2>3, NetProcess
  <2>5. NetLess
    BY <1>4, <2>4, NetOver
  <2>6. UNCHANGED <<call, named>> \/ \E a : NetAnswer(r, a) /\ (r.op = "create" => a.net = None \/ a.ticket # Net!NoTicket)
    <3> SUFFICES ASSUME NEW a \in Net!Reply,
                 call # None /\ call.n = r.n /\ call.at = "answer" /\ call.reply = None,
                 call' = [call EXCEPT !.reply = a] /\ named' = named \cup ({a.ticket} \ {Net!NoTicket}),
                 a.ticket = reply.ticket /\ a.net \in {reply.net, None} /\ a.kind \in {reply.kind, "uncertain"}
                 PROVE  NetAnswer(r, a)
      BY <1>1, <2>4
    <3>1. a.ticket = Net!NoTicket /\ a.kind \in {"ok", "uncertain"} /\ (a.net # None => a.net.handle # Foreign)
      BY <1>3, <2>1
    <3> QED  BY <1>1, <3>1 DEF NetAnswer
  <2>7. registered' \in Net!Net \cup {None} /\ edits' \in 0 .. MaxEdits
    BY <1>4, <2>4, NetTypes
  <2> QED  BY <1>4, <2>4, <2>5, <2>6, <2>7, NetShrinks
<1>5. CASE /\ Len(tickets) < MaxTickets /\ tickets' = Net!Open(r) /\ registered' = registered
           /\ Net!Process(r, {Net!Accepted(None, Len(tickets'))})
  <2> DEFINE reply == Net!Accepted(None, Len(tickets'))
  <2>1. wire' = wire \ {r}
    BY <1>5 DEF Net!Process
  <2>2. /\ NetLess /\ Len(tickets') \in DOMAIN tickets' /\ tickets'[Len(tickets')].request = r
        /\ Len(tickets') \in Net!Tickets
    BY <1>1, <1>5, <2>1, NetOpens
  <2>3. reply \in Net!Reply /\ reply.net = None /\ reply.kind = "ok" /\ reply.ticket = Len(tickets')
    BY <2>2 DEF Net!Accepted, Net!Reply
  <2> HIDE DEF reply
  <2>4. Net!Process(r, {reply})
    BY <1>5 DEF reply
  <2>5. {reply} \in SUBSET Net!Reply
    BY <2>3
  <2>6. /\ UNCHANGED <<state, sent, lost, edits, crashes>>
        /\ \/ UNCHANGED <<call, named>>
           \/ \E a \in Net!Reply :
                 /\ call # None /\ call.n = r.n /\ call.at = "answer" /\ call.reply = None
                 /\ call' = [call EXCEPT !.reply = a] /\ named' = named \cup ({a.ticket} \ {Net!NoTicket})
                 /\ a.ticket = reply.ticket /\ a.net \in {reply.net, None} /\ a.kind \in {reply.kind, "uncertain"}
    BY <2>4, <2>5, NetProcess
  <2>7. UNCHANGED <<call, named>> \/ \E a : NetAnswer(r, a) /\ (r.op = "create" => a.net = None \/ a.ticket # Net!NoTicket)
    <3> SUFFICES ASSUME NEW a \in Net!Reply,
                 call # None /\ call.n = r.n /\ call.at = "answer" /\ call.reply = None,
                 call' = [call EXCEPT !.reply = a] /\ named' = named \cup ({a.ticket} \ {Net!NoTicket}),
                 a.ticket = reply.ticket /\ a.net \in {reply.net, None} /\ a.kind \in {reply.kind, "uncertain"}
                 PROVE  NetAnswer(r, a)
      BY <1>1, <2>6
    <3>1. a.ticket = Len(tickets') /\ a.kind \in {"ok", "uncertain"} /\ a.net = None
      BY <2>3
    <3> QED  BY <1>1, <2>2, <3>1 DEF NetAnswer
  <2>8. registered' \in Net!Net \cup {None} /\ edits' \in 0 .. MaxEdits
    BY <1>5, <2>6, NetTypes
  <2> QED  BY <1>3, <1>5, <2>2, <2>6, <2>7, <2>8, NetShrinks
<1> QED  BY <1>4, <1>5 DEF Net!ProcessDelete

\* The service refuses a request.
LEMMA NetRefuses ==
  ASSUME Net!Assumption, Net!IInv, NEW r \in wire, Net!Refuse(r)
  PROVE  Net!IInv'
<1> DEFINE replies == IF r.op = "create" THEN {Net!Rejected} ELSE {Net!Rejected, Net!Missing}
<1>1. registered' = registered /\ tickets' = tickets /\ Net!Process(r, replies)
  BY DEF Net!Refuse
<1>2. /\ \A reply \in replies : /\ reply \in Net!Reply /\ reply.net = None /\ reply.ticket = Net!NoTicket
                               /\ reply.kind \in {"rejected", "missing"}
      /\ replies \in SUBSET Net!Reply
  <2>1. \A reply \in {Net!Rejected, Net!Missing} :
          /\ reply \in Net!Reply /\ reply.net = None /\ reply.ticket = Net!NoTicket
          /\ reply.kind \in {"rejected", "missing"}
    BY DEF Net!Rejected, Net!Missing, Net!Reply
  <2>2. replies \subseteq {Net!Rejected, Net!Missing}
    OBVIOUS
  <2> QED  BY <2>1, <2>2
<1> HIDE DEF replies
<1>3. /\ wire' = wire \ {r} /\ UNCHANGED <<state, sent, lost, edits, crashes>>
      /\ \/ UNCHANGED <<call, named>>
         \/ \E reply \in replies : \E a \in Net!Reply :
               /\ call # None /\ call.n = r.n /\ call.at = "answer" /\ call.reply = None
               /\ call' = [call EXCEPT !.reply = a] /\ named' = named \cup ({a.ticket} \ {Net!NoTicket})
               /\ a.ticket = reply.ticket /\ a.net \in {reply.net, None} /\ a.kind \in {reply.kind, "uncertain"}
  BY <1>1, <1>2, NetProcess
<1>4. NetLess /\ \A op : r \notin Net!Outstanding(op)'
  BY <1>1, <1>3, NetOver
<1>5. UNCHANGED <<call, named>> \/ \E a : NetAnswer(r, a) /\ (r.op = "create" => a.net = None \/ a.ticket # Net!NoTicket)
  <2> SUFFICES ASSUME NEW reply \in replies, NEW a \in Net!Reply,
               call # None /\ call.n = r.n /\ call.at = "answer" /\ call.reply = None,
               call' = [call EXCEPT !.reply = a] /\ named' = named \cup ({a.ticket} \ {Net!NoTicket}),
               a.ticket = reply.ticket /\ a.net \in {reply.net, None} /\ a.kind \in {reply.kind, "uncertain"}
               PROVE  NetAnswer(r, a) /\ a.net = None
    BY <1>3
  <2>1. a.ticket = Net!NoTicket /\ a.kind # "ok" /\ a.net = None
    BY <1>2
  <2> QED  BY <1>4, <2>1 DEF NetAnswer
<1>6. registered' \in Net!Net \cup {None} /\ edits' \in 0 .. MaxEdits
  BY <1>1, <1>3, NetTypes
<1> QED  BY <1>1, <1>3, <1>4, <1>5, <1>6, NetShrinks

\* A ticket ends by taking effect or without effect.
LEMMA NetClosesTicket ==
  ASSUME Net!Assumption, Net!IInv, NEW t \in Net!Tickets, Net!CloseTicket(t)
  PROVE  Net!IInv'
<1> DEFINE r == tickets[t].request
<1>1. /\ t \in DOMAIN tickets /\ tickets[t].status = "open"
      /\ UNCHANGED <<wire, state, call, sent, named, lost, edits, crashes>>
  BY DEF Net!CloseTicket, Net!history, Net!bounds
<1>2. edits' \in 0 .. MaxEdits /\ registered \in Net!Net \cup {None}
  BY <1>1, NetTypes
<1>3. CASE /\ r.op = "create" /\ registered = None /\ tickets' = [tickets EXCEPT ![t].status = "done"]
           /\ \E h \in Handles : registered' = Net!Created(r, h)
  <2>1. PICK h \in Handles : registered' = Net!Created(r, h)
    BY <1>3
  <2>2. /\ NetLess /\ tickets'[t].status = "done" /\ r \in Net!Outstanding("create") /\ r \notin Net!Outstanding("create")'
        /\ \A u \in DOMAIN tickets : tickets[u].request = r => u = t
    BY <1>1, <1>3, NetCloses
  <2> HIDE DEF r
  <2>3. \A u \in DOMAIN tickets : tickets[u].request = r => tickets'[u].status = "done"
    BY <2>2
  <2>4. UNCHANGED <<state, sent, lost, edits, crashes>> /\ UNCHANGED <<call, named>>
    BY <1>1
  <2> QED  BY <1>3, <2>1, <2>2, <2>3, <2>4, NetCreates
<1>4. CASE /\ registered' \in {registered, None}
           /\ \E s \in {"done", "failed"} : tickets' = [tickets EXCEPT ![t].status = s]
  <2>1. NetLess
    BY <1>1, <1>4, NetCloses
  <2>2. UNCHANGED <<state, sent, lost>> /\ UNCHANGED <<call, named>> /\ crashes' = crashes
    BY <1>1
  <2>3. registered' \in Net!Net \cup {None}
    BY <1>2, <1>4
  <2>4. registered' # None => registered # None /\ registered'.handle = registered.handle /\ registered'.by = registered.by
    BY <1>4
  <2> QED  BY <1>2, <2>1, <2>2, <2>3, <2>4, NetShrinks
<1> QED  BY <1>3, <1>4 DEF Net!CloseTicket

\* Another channel registers, renames or removes a network.
LEMMA NetEdit == ASSUME Net!Assumption, Net!IInv, Net!Edit PROVE Net!IInv'
<1>1. /\ edits < MaxEdits /\ edits' = edits + 1
      /\ UNCHANGED <<wire, tickets, state, call, sent, named, lost, crashes>>
  BY DEF Net!Edit, Net!history
<1>2. edits' \in 0 .. MaxEdits
  <2>1. edits \in 0 .. MaxEdits /\ MaxEdits \in Nat
    BY NetBounds, NetTypes
  <2> QED  BY ONLY <1>1, <2>1
<1>3. /\ registered' \in Net!Net \cup {None}
      /\ registered' # None =>
           \/ registered'.handle = Foreign /\ registered'.by = 0
           \/ registered # None /\ registered'.handle = registered.handle /\ registered'.by = registered.by
  <2>1. ASSUME NEW name \in Names, registered' = [handle |-> Foreign, name |-> name, by |-> 0]
        PROVE  registered' \in Net!Net /\ registered'.handle = Foreign /\ registered'.by = 0
    BY <2>1, NetBounds DEF Net!Net
  <2>2. ASSUME registered # None, NEW name \in Names, registered' = [registered EXCEPT !.name = name]
        PROVE  registered' \in Net!Net /\ registered'.handle = registered.handle /\ registered'.by = registered.by
    <3>1. registered \in Net!Net
      BY <2>2, NetTypes
    <3> QED  BY <2>2, <3>1 DEF Net!Net
  <2> QED  BY <2>1, <2>2 DEF Net!Edit
<1>4. NetLess
  BY <1>1, NetLeaves
<1>5. UNCHANGED <<state, sent, lost>> /\ UNCHANGED <<call, named>> /\ crashes' = crashes
  BY <1>1
<1> QED  BY <1>2, <1>3, <1>4, <1>5, NetShrinks

\* Initially nothing is registered, pending or under way.
LEMMA NetInit == ASSUME Net!Assumption, Net!Init PROVE Net!IInv
<1>1. Net!TypeOK
  <2>1. {MaxSubmits, MaxTickets, MaxEdits, MaxCrashes} \subseteq Nat
    BY DEF Net!Assumption
  <2>2. 0 \in 0 .. MaxSubmits /\ 0 \in 0 .. MaxEdits /\ 0 \in 0 .. MaxCrashes
    BY <2>1
  <2>3. << >> \in Seq(Net!Ticket) /\ Len(<< >>) <= MaxTickets
    BY <2>1
  <2> QED  BY <2>2, <2>3 DEF Net!Init, Net!TypeOK
<1>2. Net!Requests = {} /\ DOMAIN tickets = {} /\ (\A op : Net!Outstanding(op) = {}) /\ ~Net!Own /\ ~Net!Sent
  BY DEF Net!Init, Net!Requests, Net!Outstanding, Net!Own, Net!Sent
<1>3. Net!RequestInv
  BY <1>2 DEF Net!Init, Net!RequestInv
<1>4. Net!StateInv /\ Net!CallInv /\ Net!ReplyInv /\ Net!TicketInv
  BY DEF Net!Init, Net!StateInv, Net!CallInv, Net!ReplyInv, Net!TicketInv
<1>5. Net!CreateInv /\ Net!DeleteInv
  BY <1>2 DEF Net!Init, Net!CreateInv, Net!DeleteInv
<1> QED  BY <1>1, <1>3, <1>4, <1>5 DEF Net!IInv

LEMMA NetStep == ASSUME Net!Assumption, Net!IInv, [Net!Next]_(Net!vars) PROVE Net!IInv'
<1>1. CASE Net!Begin
  BY <1>1, NetBegin
<1>2. CASE Net!CallStep
  BY <1>2, NetProceeds, NetResolved, NetUnresolved, NetReads, NetDeletes, NetSubmit, NetCreateAnswered,
     NetUpdateAnswered, NetDeleteAnswered DEF Net!CallStep
<1>3. CASE Net!CallFails
  BY <1>3, NetFails, NetReads, NetProceeds DEF Net!CallFails
<1>4. CASE Net!Crash
  BY <1>4, NetCrash
<1>5. ASSUME NEW r \in wire, Net!Receive(r) PROVE Net!IInv'
  BY <1>5, NetProcessesCreate, NetProcessesUpdate, NetProcessesDelete, NetRefuses DEF Net!Receive
<1>6. ASSUME NEW t \in Net!Tickets, Net!CloseTicket(t) PROVE Net!IInv'
  BY <1>6, NetClosesTicket
<1>7. CASE Net!Edit
  BY <1>7, NetEdit
<1>8. CASE UNCHANGED Net!vars
  <2>1. UNCHANGED <<registered, wire, tickets, state, call, sent, named, lost, edits, crashes>>
    BY <1>8 DEF Net!vars, Net!service, Net!history, Net!bounds
  <2>2. NetLess
    BY <2>1, NetLeaves
  <2>3. UNCHANGED <<state, sent, lost>> /\ UNCHANGED <<call, named>> /\ crashes' = crashes /\ registered' = registered
    BY <2>1
  <2>4. registered' \in Net!Net \cup {None} /\ edits' \in 0 .. MaxEdits
    BY <2>1, NetTypes
  <2> QED  BY <2>2, <2>3, <2>4, NetShrinks
<1> QED  BY <1>1, <1>2, <1>3, <1>4, <1>5, <1>6, <1>7, <1>8 DEF Net!Next

\* What the invariant says of the network, its requests and its state.
LEMMA NetPromises ==
  ASSUME Net!Assumption, Net!IInv
  PROVE  Net!NoRepeatedSubmission /\ Net!NoOrphan /\ Net!SettledIsCreated /\ Net!TicketsKept
<1>1. Net!RequestInv /\ Net!CreateInv /\ Net!DeleteInv /\ Net!TicketInv
  BY NetTypes
<1>2. Net!NoRepeatedSubmission
  <2>1. registered # None => (registered.by = 0 <=> registered.handle = Foreign)
    BY <1>1 DEF Net!RequestInv
  <2> QED  BY <1>1, <2>1 DEF Net!NoRepeatedSubmission, Net!CreateInv, Net!DeleteInv, Net!Own
<1>3. Net!NoOrphan
  BY <1>1 DEF Net!NoOrphan, Net!CreateInv, Net!Sent, Net!Own
<1>4. Net!SettledIsCreated
  BY <1>1 DEF Net!SettledIsCreated, Net!CreateInv, Net!Known, Net!Own
<1>5. Net!TicketsKept
  BY <1>1 DEF Net!TicketsKept, Net!TicketInv
<1> QED  BY <1>2, <1>3, <1>4, <1>5

\* No deletion ticket that an answer named removes another registration.
LEMMA NetRemoves ==
  ASSUME Net!Assumption, Net!IInv, [Net!Next]_(Net!vars)
  PROVE  Net!NoLateRemoval
<1> SUFFICES ASSUME NEW t \in named, ~lost, tickets[t].request.op = "delete",
                    tickets[t].status = "open", tickets'[t].status = "done",
                    registered # None, registered' = None
             PROVE  registered.by = tickets[t].request.of
  BY DEF Net!NoLateRemoval
<1>1. /\ t \in DOMAIN tickets /\ tickets[t].request \in Net!Outstanding("delete")
      /\ tickets[t].request \in Net!Requests
  BY NetRequests, NetTypes DEF Net!RequestInv
<1>2. tickets' # tickets
  OBVIOUS
<1>3. PICK u \in Net!Tickets : Net!CloseTicket(u)
  <2>1. ~Net!Begin
    BY <1>2 DEF Net!Begin, Net!StartCreate, Net!StartUpdate, Net!StartRead, Net!StartDelete, Net!ImportState,
         Net!Start, Net!service
  <2>2. ~Net!CallStep
    BY <1>2 DEF Net!CallStep, Net!CreateFind, Net!ResolveFound, Net!ResolveAbsent, Net!ResolveTicket,
         Net!ReadGet, Net!ConfirmTicket, Net!UpdateGet, Net!DeleteGet, Net!DeletionStatus, Net!DeleteCurrent,
         Net!Verify, Net!Recheck, Net!Submit, Net!Unsent, Net!CreateAnswered, Net!UpdateAnswered,
         Net!DeleteAnswered, Net!service
  <2>3. ~Net!CallFails /\ ~Net!Crash /\ ~Net!Edit
    BY <1>2 DEF Net!CallFails, Net!Fail, Net!ConfirmFails, Net!VerifyFails, Net!NoAnswer, Net!Crash, Net!Edit,
         Net!service
  <2>4. ASSUME NEW r \in wire, Net!Receive(r) PROVE FALSE
    <3>1. CASE tickets' = Net!Open(r)
      <4>1. tickets \in Seq(Net!Ticket) /\ [request |-> r, status |-> "open"] \in Net!Ticket
        BY NetTypes DEF Net!Ticket
      <4>2. tickets' = Append(tickets, [request |-> r, status |-> "open"])
        BY <3>1 DEF Net!Open
      <4>3. tickets'[t] = tickets[t]
        BY <1>1, <4>1, <4>2
      <4> QED  BY <4>3
    <3>2. CASE tickets' # Net!Open(r)
      BY <1>2, <2>4, <3>2 DEF Net!Receive, Net!ProcessCreate, Net!ProcessUpdate, Net!ProcessDelete, Net!Refuse
    <3> QED  BY <3>1, <3>2
  <2>5. ~UNCHANGED Net!vars
    BY <1>2 DEF Net!vars, Net!service
  <2> QED  BY <2>1, <2>2, <2>3, <2>4, <2>5 DEF Net!Next
<1>4. tickets[u].request.op = "delete" /\ Net!Visible(tickets[u].request.handle)
      /\ tickets' = [tickets EXCEPT ![u].status = "done"]
  BY <1>3 DEF Net!CloseTicket, Net!Created
<1>5. u = t
  BY <1>1, <1>4
<1> QED  BY <1>1, <1>4, <1>5, NetTypes DEF Net!DeleteInv

\* The network's inductive invariant holds in every reachable state: requests
\* keep their numbers behind tickets and, until an outcome is lost (by a crash,
\* or with the ticket beside a network), what is registered or still to come
\* and every open ticket that was named belong to the state or the running call.
THEOREM NetInductive ==
  ASSUME Net!Assumption
  PROVE  Net!Spec => []Net!IInv
<1>1. Net!Init => Net!IInv
  BY NetInit
<1>2. Net!IInv /\ [Net!Next]_(Net!vars) => Net!IInv'
  BY NetStep
<1> QED  BY <1>1, <1>2, PTL DEF Net!Spec

\* Unless a crash lost an outcome, or a creation was answered with a network
\* and dropped the ticket beside it, a network is created once and deleted
\* once, Terraform forgets it only when nothing of it is left, a settled state
\* names it, no open ticket that ARIN answered with is forgotten, and no
\* deletion ticket, however late, removes a later registration of the range.
THEOREM NetIsAssignedOnce ==
  ASSUME Net!Assumption
  PROVE  Net!Spec =>
           /\ [](/\ Net!NoRepeatedSubmission /\ Net!NoOrphan /\ Net!SettledIsCreated /\ Net!TicketsKept)
           /\ [][Net!NoLateRemoval]_(Net!vars)
<1>1. Net!Spec => []Net!IInv
  BY NetInductive
<1>2. Net!IInv => Net!NoRepeatedSubmission /\ Net!NoOrphan /\ Net!SettledIsCreated /\ Net!TicketsKept
  BY NetPromises
<1>3. Net!IInv /\ [Net!Next]_(Net!vars) => Net!NoLateRemoval
  BY NetRemoves
<1> QED  BY <1>1, <1>2, <1>3, PTL DEF Net!Spec
-----------------------------------------------------------------------------
(* Elements of a shared record *)

\* What a step of one call that changes nothing at ARIN must leave behind.
LEMMA SharedLocal ==
  ASSUME Shared!Assumption, Shared!IInv,
         NEW e \in Elements, NEW c \in Shared!Call \cup {None}, NEW m \in BOOLEAN,
         Shared!Local, Shared!History,
         call' = [call EXCEPT ![e] = c], managed' = [managed EXCEPT ![e] = m],
         c # None => Shared!CallOK(c, m),
         Shared!Trying(c) => call[e] # None /\ (e \in absent \/ Shared!Missing(e)),
         e \in made /\ ~Shared!Missing(e) => m \/ Shared!Trying(c),
         c # None /\ c.at = "answer" => call[e] # None /\ call[e].at = "answer" /\ call[e].n = c.n,
         holder' \in Elements \cup {None}, holder' \in {holder, e, None},
         holder' = e => Shared!Changing(c),
         holder' # holder => holder \in {None, e},
         Shared!Locks(kind) /\ Shared!Changing(c) => holder' = e
  PROVE  Shared!IInv'
<1>1. /\ call \in [Elements -> Shared!Call \cup {None}] /\ managed \in [Elements -> BOOLEAN]
      /\ Shared!TypeOK /\ Shared!CallInv /\ Shared!MadeInv /\ Shared!LockInv /\ Shared!RequestInv
  BY DEF Shared!IInv, Shared!TypeOK
<1> USE DEF Shared!Local, Shared!History
<1>2. /\ call'[e] = c /\ \A f \in Elements : f # e => call'[f] = call[f]
      /\ managed'[e] = m /\ \A f \in Elements : f # e => managed'[f] = managed[f]
      /\ call' \in [Elements -> Shared!Call \cup {None}] /\ managed' \in [Elements -> BOOLEAN]
  BY <1>1
<1>3. \A f \in Elements : Shared!Missing(f)' = Shared!Missing(f)
  BY DEF Shared!Missing
<1>4. made' = {f \in Elements : ~Shared!Missing(f) /\ f \in made}
  BY <1>3 DEF Shared!KnownWrite, Shared!Landed
<1>5. absent' = {f \in Elements : call'[f] # None /\ (Shared!Missing(f) \/ (call[f] # None /\ f \in absent))}
  BY <1>3
<1>6. holder' # None => call'[holder'] # None /\ call'[holder'].at \in {"send", "answer", "reread"}
  <2>1. CASE holder' = e
    BY <2>1, <1>2 DEF Shared!Changing
  <2>2. CASE holder' # e /\ holder' # None
    <3>1. holder' = holder
      BY <2>2
    <3> QED  BY <3>1, <2>2, <1>1, <1>2 DEF Shared!TypeOK
  <2> QED  BY <2>1, <2>2
<1>7. Shared!TypeOK'
  BY <1>1, <1>2, <1>4, <1>5, <1>6 DEF Shared!TypeOK
<1>8. Shared!CallInv'
  <2> SUFFICES ASSUME NEW f \in Elements
               PROVE  /\ call'[f] # None => Shared!CallOK(call[f], managed[f])'
                      /\ Shared!Trying(call[f])' => f \in absent'
    BY DEF Shared!CallInv
  <2>1. CASE f = e
    BY <2>1, <1>1, <1>2, <1>5 DEF Shared!CallOK, Shared!Trying, Shared!CallInv
  <2>2. CASE f # e
    <3>1. call'[f] = call[f] /\ managed'[f] = managed[f]
      BY <2>2, <1>2
    <3>2. /\ call[f] # None => Shared!CallOK(call[f], managed[f])
          /\ Shared!Trying(call[f]) => f \in absent
      BY <1>1 DEF Shared!CallInv
    <3> QED  BY <3>1, <3>2, <1>5 DEF Shared!CallOK, Shared!Trying
  <2> QED  BY <2>1, <2>2
<1>9. Shared!MadeInv'
  <2> SUFFICES ASSUME NEW f \in made' PROVE managed'[f] \/ Shared!Trying(call[f])'
    BY DEF Shared!MadeInv
  <2>1. f \in made /\ f \in Elements /\ ~Shared!Missing(f)
    BY <1>4
  <2> QED  BY <2>1, <1>1, <1>2 DEF Shared!MadeInv, Shared!Trying
<1>10. Shared!LockInv'
  <2>1. \A f \in Elements : Shared!Locks(kind) /\ Shared!Changing(call'[f]) => holder' = f
    <3> SUFFICES ASSUME NEW f \in Elements, f # e, Shared!Locks(kind), Shared!Changing(call'[f])
                 PROVE  holder' = f
      BY <1>2
    <3>1. holder = f
      BY <1>1, <1>2 DEF Shared!LockInv
    <3> QED  BY <3>1 DEF Shared!Assumption
  <2> QED  BY <2>1 DEF Shared!LockInv, Shared!Locks, Shared!Changing
<1>11. Shared!RequestInv'
  <2>1. \A q \in wire : Shared!Waiting(q)' => Shared!Waiting(q)
    <3> SUFFICES ASSUME NEW q \in wire, Shared!Waiting(q)' PROVE Shared!Waiting(q)
      OBVIOUS
    <3>1. q.e \in Elements
      BY <1>1 DEF Shared!TypeOK, Shared!Request
    <3> QED  BY <3>1, <1>2 DEF Shared!Waiting
  <2> QED  BY <2>1, <1>1 DEF Shared!RequestInv
<1> QED  BY <1>7, <1>8, <1>9, <1>10, <1>11 DEF Shared!IInv


LEMMA SharedFinish ==
  ASSUME Shared!Assumption, Shared!IInv, Shared!Local, Shared!History,
         NEW e \in Elements, NEW m \in BOOLEAN, Shared!Finish(e, m), call[e] # None,
         e \in made /\ ~Shared!Missing(e) => m,
         Shared!Unlocked(e) \/ (UNCHANGED holder /\ ~Shared!Changing(call[e]))
  PROVE  Shared!IInv'
<1>1. holder' \in {holder, None} /\ holder' # e
  BY DEF Shared!Unlocked, Shared!Released, Shared!IInv, Shared!TypeOK, Shared!Changing, Shared!Assumption
<1>2. holder \in Elements \cup {None}
  BY DEF Shared!IInv, Shared!LockInv
<1>3. holder' # holder => holder = e
  BY DEF Shared!Unlocked, Shared!Released
<1>4. ~Shared!Changing(None) /\ ~Shared!Trying(None)
  BY DEF Shared!Changing, Shared!Trying
<1> QED  BY <1>1, <1>2, <1>3, <1>4, SharedLocal DEF Shared!Finish

LEMMA SharedGoto ==
  ASSUME Shared!Assumption, Shared!IInv, Shared!Local, Shared!History,
         NEW e \in Elements, NEW at \in {"look", "lock", "send", "reread", "verify"}, Shared!Goto(e, at),
         call[e] # None, call[e].op \in Shared!Writes,
         at = "look" => call[e].op = "create" /\ Shared!LooksFirst(kind),
         at = "verify" => call[e].op = "delete",
         call[e].op = "create" => Shared!Missing(e) \/ e \in absent,
         e \in made /\ ~Shared!Missing(e) => managed[e] \/ Shared!Trying(call[e]),
         holder' \in {holder, e, None}, holder' # holder => holder \in {None, e},
         holder' = e => at \in {"send", "reread"},
         Shared!Locks(kind) /\ at \in {"send", "reread"} => holder' = e
  PROVE  Shared!IInv'
<1>1. /\ call \in [Elements -> Shared!Call \cup {None}] /\ managed \in [Elements -> BOOLEAN]
      /\ holder \in Elements \cup {None} /\ Shared!CallOK(call[e], managed[e])
  BY DEF Shared!IInv, Shared!TypeOK, Shared!LockInv, Shared!CallInv
<1>2. PICK c : c = [call[e] EXCEPT !.at = at]
  OBVIOUS
<1>3. c \in Shared!Call /\ c.at = at /\ c.op = call[e].op /\ c.n = call[e].n
  BY <1>1, <1>2 DEF Shared!Call
<1>4. c # None
  BY <1>3 DEF Shared!Assumption
<1>5. Shared!CallOK(c, managed[e])
  BY <1>1, <1>3 DEF Shared!CallOK, Shared!Writes
<1>6. Shared!Trying(call[e]) => Shared!Trying(c)
  BY <1>3, <1>4 DEF Shared!Trying
<1>7. Shared!Trying(c) => e \in absent \/ Shared!Missing(e)
  BY <1>3 DEF Shared!Trying
<1>8. Shared!Changing(c) = (at \in {"send", "reread"})
  BY <1>3, <1>4 DEF Shared!Changing
<1>9. call' = [call EXCEPT ![e] = c] /\ managed' = [managed EXCEPT ![e] = managed[e]]
  BY <1>1, <1>2 DEF Shared!Goto
<1>10. holder' \in Elements \cup {None} /\ managed[e] \in BOOLEAN
  BY <1>1
<1> QED  BY <1>3, <1>4, <1>5, <1>6, <1>7, <1>8, <1>9, <1>10, SharedLocal

LEMMA SharedStart ==
  ASSUME Shared!Assumption, Shared!IInv, Shared!History, NEW e \in Elements,
         NEW op \in Shared!Ops, NEW at \in {"check", "read", "send"}, Shared!Start(e, op, at),
         managed[e] = (op \in {"update", "delete", "read"}), (at = "read") = (op \in {"read", "import"}),
         op = "update" => kind = "nameserver", at = "send" => op = "update"
  PROVE  Shared!IInv'
<1>1. /\ call \in [Elements -> Shared!Call \cup {None}] /\ managed \in [Elements -> BOOLEAN]
      /\ holder \in Elements \cup {None} /\ sent \in Nat /\ MaxRequests \in Nat
  BY DEF Shared!IInv, Shared!TypeOK, Shared!LockInv, Shared!Assumption
<1>3. PICK c : c = [op |-> op, at |-> at, n |-> 0, answer |-> "none"]
  OBVIOUS
<1>4. c \in Shared!Call /\ c.at = at /\ c.op = op /\ c.n = 0
  BY <1>1, <1>3 DEF Shared!Call
<1>5. c # None
  BY <1>4 DEF Shared!Assumption
<1>6. Shared!CallOK(c, managed[e]) /\ ~Shared!Trying(c)
  BY <1>1, <1>4 DEF Shared!CallOK, Shared!Trying
<1>7. call[e] = None /\ call' = [call EXCEPT ![e] = c] /\ managed' = [managed EXCEPT ![e] = managed[e]] /\ holder' = holder
  BY <1>1, <1>3 DEF Shared!Start
<1>8. holder # e
  BY <1>7 DEF Shared!IInv, Shared!TypeOK, Shared!Assumption
<1>9. ~(Shared!Locks(kind) /\ Shared!Changing(c))
  BY <1>4 DEF Shared!Locks, Shared!Changing
<1>10. e \in made => managed[e]
  BY <1>7 DEF Shared!IInv, Shared!MadeInv, Shared!Trying
<1>11. Shared!Local
  BY DEF Shared!Start, Shared!Local
<1>12. c \in Shared!Call \cup {None} /\ managed[e] \in BOOLEAN /\ c.at # "answer"
  BY <1>1, <1>4
<1> QED  BY <1>1, <1>5, <1>6, <1>7, <1>8, <1>9, <1>10, <1>11, <1>12, SharedLocal

\* A resource starts a call.
LEMMA SharedBegin ==
  ASSUME Shared!Assumption, Shared!IInv, Shared!History, NEW e \in Elements, Shared!Begin(e)
  PROVE  Shared!IInv'
<1>1. managed[e] \in BOOLEAN
  BY DEF Shared!IInv, Shared!TypeOK
<1> USE DEF Shared!Ops
<1>2. CASE ~managed[e] /\ Shared!Start(e, "create", "check")
  <2>1. managed[e] = ("create" \in {"update", "delete", "read"})
    BY <1>1, <1>2
  <2> QED  BY <1>2, <2>1, SharedStart
<1>3. CASE ~managed[e] /\ Shared!Start(e, "import", "read")
  <2>1. managed[e] = ("import" \in {"update", "delete", "read"})
    BY <1>1, <1>3
  <2> QED  BY <1>3, <2>1, SharedStart
<1>4. CASE managed[e] /\ Shared!Start(e, "delete", "check")
  <2>1. managed[e] = ("delete" \in {"update", "delete", "read"})
    BY <1>1, <1>4
  <2> QED  BY <1>4, <2>1, SharedStart
<1>5. CASE managed[e] /\ Shared!Start(e, "read", "read")
  <2>1. managed[e] = ("read" \in {"update", "delete", "read"})
    BY <1>1, <1>5
  <2> QED  BY <1>5, <2>1, SharedStart
<1>6. CASE managed[e] /\ kind = "nameserver" /\ Shared!Start(e, "update", "send")
  <2>1. managed[e] = ("update" \in {"update", "delete", "read"})
    BY <1>1, <1>6
  <2> QED  BY <1>6, <2>1, SharedStart
<1> QED  BY <1>2, <1>3, <1>4, <1>5, <1>6 DEF Shared!Begin

\* A call goes on without changing anything at ARIN.
LEMMA SharedCalls ==
  ASSUME Shared!Assumption, Shared!IInv, Shared!History, NEW e \in Elements,
         Shared!CallStep(e), ~Shared!Send(e)
  PROVE  Shared!IInv'
<1>1. /\ call \in [Elements -> Shared!Call \cup {None}] /\ managed \in [Elements -> BOOLEAN]
      /\ holder \in Elements \cup {None} /\ None \notin Elements
      /\ call[e] # None => /\ Shared!CallOK(call[e], managed[e])
                           /\ call[e].op \in Shared!Ops
      /\ Shared!Trying(call[e]) => e \in absent
      /\ e \in made => managed[e] \/ Shared!Trying(call[e])
      /\ Shared!Locks(kind) /\ Shared!Changing(call[e]) => holder = e
      /\ holder = e => Shared!Changing(call[e])
  BY DEF Shared!IInv, Shared!TypeOK, Shared!LockInv, Shared!CallInv, Shared!MadeInv, Shared!Call, Shared!Assumption,
         Shared!Changing
<1> USE DEF Shared!At
<1>2. CASE Shared!CheckCreate(e)
  <2>1. call[e] # None /\ Shared!Local /\ UNCHANGED holder /\ ~managed[e] /\ e \notin made /\ ~Shared!Changing(call[e])
        /\ call[e].op = "create"
    BY <1>2, <1>1 DEF Shared!CheckCreate, Shared!CallOK, Shared!Trying, Shared!Changing
  <2>2. CASE Shared!Finish(e, FALSE)
    BY <2>1, <2>2, SharedFinish
  <2>3. CASE Shared!Goto(e, Shared!Toward(e)) /\ Shared!Missing(e)
    <3>1. PICK at \in {"look", "lock", "send"} :
            /\ at = Shared!Toward(e) /\ (at = "look" => Shared!LooksFirst(kind)) /\ (at = "send" => ~Shared!Locks(kind))
      BY DEF Shared!Toward
    <3>2. Shared!Goto(e, at)
      BY <3>1, <2>3
    <3>3. call[e].op \in Shared!Writes /\ holder # e
      BY <2>1, <1>1 DEF Shared!Writes
    <3> QED  BY <3>1, <3>2, <3>3, <2>1, <2>3, SharedGoto
  <2> QED  BY <1>2, <2>2, <2>3 DEF Shared!CheckCreate, Shared!Taken
<1>3. CASE Shared!CheckDelete(e)
  <2>1. call[e] # None /\ Shared!Local /\ UNCHANGED holder /\ managed[e] /\ ~Shared!Changing(call[e]) /\ call[e].op = "delete"
    BY <1>3, <1>1 DEF Shared!CheckDelete, Shared!CallOK, Shared!Changing
  <2>2. CASE Shared!Finish(e, FALSE) /\ Shared!Missing(e)
    BY <2>1, <2>2, SharedFinish
  <2>3. CASE Shared!Goto(e, Shared!Toward(e))
    <3>1. PICK at \in {"lock", "send"} : at = Shared!Toward(e) /\ (at = "send" => ~Shared!Locks(kind))
      BY <2>1 DEF Shared!Toward
    <3>2. Shared!Goto(e, at)
      BY <3>1, <2>3
    <3>3. call[e].op \in Shared!Writes /\ holder # e
      BY <2>1, <1>1 DEF Shared!Writes
    <3> QED  BY <3>1, <3>2, <3>3, <2>1, <2>3, SharedGoto
  <2> QED  BY <1>3, <2>2, <2>3 DEF Shared!CheckDelete
<1>4. CASE Shared!Look(e)
  <2>1. /\ call[e] # None /\ Shared!Local /\ UNCHANGED holder /\ ~Shared!Changing(call[e]) /\ call[e].op = "create"
        /\ Shared!LooksFirst(kind)
    BY <1>4, <1>1 DEF Shared!Look, Shared!CallOK, Shared!Changing
  <2>2. CASE Shared!Finish(e, TRUE)
    BY <2>1, <2>2, SharedFinish
  <2>3. CASE Shared!Goto(e, "send")
    <3>1. call[e].op \in Shared!Writes /\ holder # e /\ ~Shared!Locks(kind) /\ e \in absent
      BY <2>1, <1>1, <1>4 DEF Shared!Writes, Shared!Locks, Shared!LooksFirst, Shared!Trying, Shared!Look
    <3> QED  BY <3>1, <2>1, <2>3, <1>1, SharedGoto
  <2> QED  BY <1>4, <2>2, <2>3 DEF Shared!Look, Shared!Retained
<1>5. CASE Shared!Lock(e)
  <2>1. /\ call[e] # None /\ Shared!Local /\ holder' = e /\ holder = None /\ Shared!Goto(e, "send")
        /\ call[e].op \in Shared!Writes /\ call[e].at = "lock"
    BY <1>5 DEF Shared!Lock, Shared!Free
  <2>2. call[e].op = "create" => e \in absent
    BY <2>1, <1>1 DEF Shared!Trying
  <2> QED  BY <2>1, <2>2, <1>1, SharedGoto
<1>6. CASE Shared!LockFails(e)
  <2>1. call[e] # None /\ Shared!Local /\ UNCHANGED holder /\ ~Shared!Changing(call[e]) /\ Shared!Finish(e, TRUE)
    BY <1>6 DEF Shared!LockFails, Shared!Changing, Shared!Retained
  <2> QED  BY <2>1, SharedFinish
<1>7. CASE Shared!ReadFails(e)
  <2>1. /\ call[e] # None /\ Shared!Local /\ UNCHANGED holder /\ ~Shared!Changing(call[e])
        /\ Shared!Finish(e, managed[e] \/ call[e].at = "look")
    BY <1>7 DEF Shared!ReadFails, Shared!Changing, Shared!Retained, Shared!ReadFailed
  <2>2. Shared!Trying(call[e]) => call[e].at = "look"
    BY <1>7, <1>1 DEF Shared!ReadFails, Shared!Trying, Shared!CallOK
  <2>3. PICK m \in BOOLEAN : m = (managed[e] \/ call[e].at = "look")
    BY <1>1
  <2> QED  BY <2>1, <2>2, <2>3, <1>1, SharedFinish
<1>8. CASE Shared!NoAnswer(e)
  BY <1>8, SharedFinish DEF Shared!NoAnswer, Shared!Retained
<1>9. CASE Shared!Answered(e)
  <2>1. call[e] # None /\ Shared!Local /\ call[e].op \in Shared!Writes /\ call[e].at = "answer"
    BY <1>9 DEF Shared!Answered
  <2>2. Shared!Changing(call[e]) /\ (call[e].op = "create" => e \in absent)
    BY <2>1, <1>1 DEF Shared!Changing, Shared!Trying
  <2>3. CASE Shared!Goto(e, "reread") /\ UNCHANGED holder
    BY <2>1, <2>2, <2>3, <1>1, SharedGoto
  <2>4. CASE call[e].op = "delete" /\ Shared!Goto(e, "verify") /\ Shared!Unlocked(e)
    BY <2>1, <2>2, <2>4, <1>1, SharedGoto DEF Shared!Unlocked, Shared!Released
  <2>5. CASE Shared!Finish(e, TRUE) /\ Shared!Unlocked(e)
    BY <2>1, <2>5, SharedFinish
  <2> QED  BY <1>9, <2>3, <2>4, <2>5 DEF Shared!Answered, Shared!Retained
<1>10. CASE Shared!Reread(e)
  <2>1. call[e] # None /\ Shared!Local /\ call[e].op \in Shared!Writes /\ call[e].at = "reread" /\ Shared!Unlocked(e)
    BY <1>10 DEF Shared!Reread
  <2>2. CASE call[e].op = "delete" /\ Shared!Goto(e, "verify")
    BY <2>1, <2>2, <1>1, SharedGoto DEF Shared!Unlocked, Shared!Released
  <2>3. CASE Shared!Finish(e, TRUE)
    BY <2>1, <2>3, SharedFinish
  <2> QED  BY <1>10, <2>2, <2>3 DEF Shared!Reread, Shared!Retained
<1>11. CASE Shared!RereadFails(e)
  BY <1>11, SharedFinish DEF Shared!RereadFails, Shared!Retained
<1>12. CASE Shared!Verify(e) \/ Shared!Read(e)
  <2>1. /\ call[e] # None /\ Shared!Local /\ UNCHANGED holder /\ ~Shared!Changing(call[e])
        /\ Shared!Finish(e, ~Shared!Missing(e))
    BY <1>12 DEF Shared!Verify, Shared!Read, Shared!Changing
  <2>2. PICK m \in BOOLEAN : m = (~Shared!Missing(e))
    OBVIOUS
  <2> QED  BY <2>1, <2>2, SharedFinish
<1> QED  BY <1>2, <1>3, <1>4, <1>5, <1>6, <1>7, <1>8, <1>9, <1>10, <1>11, <1>12 DEF Shared!CallStep


\* A call sends its request, with a number no other one has.
LEMMA SharedSend ==
  ASSUME Shared!Assumption, Shared!IInv, Shared!History, NEW e \in Elements, Shared!Send(e)
  PROVE  Shared!IInv'
<1>1. /\ call \in [Elements -> Shared!Call \cup {None}] /\ managed \in [Elements -> BOOLEAN]
      /\ Shared!TypeOK /\ Shared!CallInv /\ Shared!MadeInv /\ Shared!LockInv /\ Shared!RequestInv
      /\ sent \in Nat /\ MaxRequests \in Nat /\ sent < MaxRequests /\ sent' = sent + 1 /\ sent' \in 1 .. MaxRequests
  BY DEF Shared!IInv, Shared!TypeOK, Shared!Assumption, Shared!Send
<1>2. PICK c : c = [call[e] EXCEPT !.at = "answer", !.n = sent']
  OBVIOUS
<1>3. /\ call[e] # None /\ call[e] \in Shared!Call /\ call[e].op \in Shared!Writes /\ call[e].at = "send"
      /\ UNCHANGED <<kind, record, managed, holder, edits>>
  BY <1>1 DEF Shared!Send, Shared!At, Shared!History
<1>4. c \in Shared!Call /\ c.at = "answer" /\ c.op = call[e].op /\ c.n = sent' /\ c # None
  <2>1. PICK n \in 0 .. MaxRequests : n = sent'
    BY <1>1
  <2>2. c = [call[e] EXCEPT !.at = "answer", !.n = n]
    BY <1>2, <2>1
  <2>3. c \in Shared!Call /\ c.at = "answer" /\ c.op = call[e].op /\ c.n = n
    BY <1>3, <2>2 DEF Shared!Call
  <2> QED  BY <2>1, <2>3 DEF Shared!Assumption
<1>5. /\ call'[e] = c /\ \A f \in Elements : f # e => call'[f] = call[f]
      /\ call' \in [Elements -> Shared!Call \cup {None}]
  BY <1>1, <1>2, <1>4 DEF Shared!Send
<1>6. PICK r : r = [n |-> sent', e |-> e, op |-> call[e].op, base |-> None, alone |-> TRUE]
  OBVIOUS
<1>7. r \in Shared!Request /\ r.n = sent' /\ r.base = None /\ wire' = wire \cup {r}
  <2>1. r.n \in 1 .. MaxRequests /\ r.e \in Elements /\ r.op \in Shared!Writes /\ r.base = None /\ r.alone \in BOOLEAN
    BY <1>1, <1>3, <1>6
  <2>2. r = [n |-> r.n, e |-> r.e, op |-> r.op, base |-> r.base, alone |-> r.alone]
    BY <1>6
  <2>3. r \in Shared!Request
    BY <2>1, <2>2 DEF Shared!Request
  <2> QED  BY <2>3, <1>6 DEF Shared!Send
<1>8. \A f \in Elements : Shared!Missing(f)' = Shared!Missing(f)
  BY <1>3 DEF Shared!Missing
<1>9. made' = {f \in Elements : ~Shared!Missing(f) /\ f \in made}
  BY <1>3, <1>8 DEF Shared!KnownWrite, Shared!Landed, Shared!History
<1>10. absent' = {f \in Elements : call'[f] # None /\ (Shared!Missing(f) \/ (call[f] # None /\ f \in absent))}
  BY <1>8 DEF Shared!History
<1>11. Shared!TypeOK'
  <2>1. holder' # None => call'[holder'] # None /\ call'[holder'].at \in {"send", "answer", "reread"}
    BY <1>1, <1>3, <1>4, <1>5 DEF Shared!TypeOK, Shared!LockInv
  <2> QED  BY <2>1, <1>1, <1>3, <1>5, <1>7, <1>9, <1>10 DEF Shared!TypeOK
<1>12. Shared!CallInv'
  <2> SUFFICES ASSUME NEW f \in Elements
               PROVE  /\ call'[f] # None => Shared!CallOK(call[f], managed[f])'
                      /\ Shared!Trying(call[f])' => f \in absent'
    BY DEF Shared!CallInv
  <2>1. /\ call[f] # None => Shared!CallOK(call[f], managed[f])
        /\ Shared!Trying(call[f]) => f \in absent
        /\ call[f] # None => call[f].n \in Nat
    BY <1>1 DEF Shared!CallInv, Shared!Call
  <2>2. CASE f = e
    BY <2>1, <2>2, <1>1, <1>3, <1>4, <1>5, <1>10 DEF Shared!CallOK, Shared!Trying, Shared!Writes
  <2>3. CASE f # e
    BY <2>1, <2>3, <1>1, <1>3, <1>5, <1>10 DEF Shared!CallOK, Shared!Trying
  <2> QED  BY <2>2, <2>3
<1>13. Shared!MadeInv'
  BY <1>1, <1>3, <1>4, <1>5, <1>9 DEF Shared!MadeInv, Shared!Trying
<1>14. Shared!LockInv'
  BY <1>1, <1>3, <1>4, <1>5 DEF Shared!LockInv, Shared!Changing, Shared!Locks
<1>15. Shared!RequestInv'
  <2>1. \A q \in wire : q.n <= sent /\ q.n \in Nat /\ q.e \in Elements
    BY <1>1 DEF Shared!RequestInv, Shared!TypeOK, Shared!Request
  <2>2. \A q, s \in wire' : q.n = s.n => q = s
    BY <2>1, <1>1, <1>7 DEF Shared!RequestInv
  <2>3. \A q \in wire : Shared!Waiting(q)' => Shared!Waiting(q)
    <3> SUFFICES ASSUME NEW q \in wire, Shared!Waiting(q)' PROVE Shared!Waiting(q)
      OBVIOUS
    <3>1. q.e # e
      BY <2>1, <1>1, <1>4, <1>5 DEF Shared!Waiting
    <3> QED  BY <3>1, <2>1, <1>5 DEF Shared!Waiting
  <2>4. \A q \in wire' : /\ q.n <= sent' /\ (q.base # None => kind' = "org_poc")
                         /\ Shared!Waiting(q)' /\ q.alone /\ q.base # None => q.base = record'
    BY <2>1, <2>3, <1>1, <1>3, <1>7 DEF Shared!RequestInv
  <2> QED  BY <2>2, <2>4 DEF Shared!RequestInv
<1> QED  BY <1>11, <1>12, <1>13, <1>14, <1>15 DEF Shared!IInv

\* What a step of ARIN or of others must leave behind: requests keep their
\* numbers, and calls are at most answered.
LEMMA SharedServed ==
  ASSUME Shared!Assumption, Shared!IInv, Shared!History,
         UNCHANGED <<managed, holder, sent>>, edits' \in 0 .. MaxEdits,
         record' \in (SUBSET Elements) \cup {None}, wire' \subseteq Shared!Request,
         call' \in [Elements -> Shared!Call \cup {None}],
         \A f \in Elements :
           /\ (call'[f] = None) = (call[f] = None)
           /\ call[f] # None => call'[f].op = call[f].op /\ call'[f].at = call[f].at /\ call'[f].n = call[f].n,
         \A q \in wire' : q.n <= sent /\ (q.base # None => kind = "org_poc"),
         \A q, r \in wire' : q.n = r.n => q = r,
         \A q \in wire' : Shared!Waiting(q) /\ q.alone /\ q.base # None => q.base = record',
         \A f \in Elements : Shared!KnownWrite(f) => managed[f] \/ Shared!Trying(call[f])
  PROVE  Shared!IInv'
<1>1. /\ call \in [Elements -> Shared!Call \cup {None}] /\ managed \in [Elements -> BOOLEAN]
      /\ Shared!TypeOK /\ Shared!CallInv /\ Shared!MadeInv /\ Shared!LockInv /\ Shared!RequestInv
      /\ kind' = kind
  BY DEF Shared!IInv, Shared!TypeOK, Shared!History
<1>2. \A f \in Elements : /\ Shared!Trying(call'[f]) = Shared!Trying(call[f])
                          /\ Shared!Changing(call'[f]) = Shared!Changing(call[f])
  BY DEF Shared!Trying, Shared!Changing
<1>3. absent' \subseteq Elements /\ made' \subseteq Elements
      /\ \A f \in Elements : f \in absent /\ call[f] # None => f \in absent'
  BY DEF Shared!History
<1>4. Shared!TypeOK'
  <2>1. holder' # None => call'[holder'] # None /\ call'[holder'].at \in {"send", "answer", "reread"}
    BY <1>1 DEF Shared!TypeOK, Shared!LockInv
  <2> QED  BY <2>1, <1>1, <1>3 DEF Shared!TypeOK
<1>5. Shared!CallInv'
  <2> SUFFICES ASSUME NEW f \in Elements
               PROVE  /\ call'[f] # None => Shared!CallOK(call[f], managed[f])'
                      /\ Shared!Trying(call[f])' => f \in absent'
    BY DEF Shared!CallInv
  <2>1. /\ call[f] # None => Shared!CallOK(call[f], managed[f])
        /\ Shared!Trying(call[f]) => f \in absent
    BY <1>1 DEF Shared!CallInv
  <2>2. call'[f] # None => Shared!CallOK(call[f], managed[f])'
    BY <2>1, <1>1 DEF Shared!CallOK
  <2>3. Shared!Trying(call[f])' => f \in absent'
    BY <2>1, <1>2, <1>3 DEF Shared!Trying
  <2> QED  BY <2>2, <2>3
<1>6. Shared!MadeInv'
  <2> SUFFICES ASSUME NEW f \in made' PROVE managed'[f] \/ Shared!Trying(call'[f])
    BY DEF Shared!MadeInv, Shared!Trying
  <2>1. f \in Elements /\ (f \in made \/ Shared!KnownWrite(f))
    BY DEF Shared!History
  <2>2. managed[f] \/ Shared!Trying(call[f])
    BY <2>1, <1>1 DEF Shared!MadeInv
  <2> QED  BY <2>1, <2>2, <1>2
<1>7. Shared!LockInv'
  <2>1. \A f \in Elements : Shared!Changing(call[f])' = Shared!Changing(call'[f])
    BY DEF Shared!Changing
  <2> QED  BY <2>1, <1>1, <1>2 DEF Shared!LockInv, Shared!Locks
<1>8. Shared!RequestInv'
  <2>1. ASSUME NEW q \in wire' PROVE Shared!Waiting(q)' => Shared!Waiting(q)
    <3>1. q.e \in Elements
      BY DEF Shared!Request
    <3> QED  BY <3>1 DEF Shared!Waiting
  <2>2. \A q \in wire' : Shared!Waiting(q)' /\ q.alone /\ q.base # None => q.base = record'
    BY <2>1
  <2>3. \A q \in wire' : q.n <= sent' /\ (q.base # None => kind' = "org_poc")
    BY <1>1
  <2> QED  BY <2>2, <2>3 DEF Shared!RequestInv
<1> QED  BY <1>4, <1>5, <1>6, <1>7, <1>8 DEF Shared!IInv

\* An answer leaves a call where it is.
LEMMA SharedTold ==
  ASSUME Shared!Assumption, Shared!IInv, NEW q \in wire,
         NEW answers \in SUBSET {"done", "missing", "refused"}, Shared!Told(q, answers)
  PROVE  /\ call' \in [Elements -> Shared!Call \cup {None}]
         /\ \A f \in Elements :
              /\ (call'[f] = None) = (call[f] = None)
              /\ call[f] # None => call'[f].op = call[f].op /\ call'[f].at = call[f].at /\ call'[f].n = call[f].n
<1>1. call \in [Elements -> Shared!Call \cup {None}] /\ q.e \in Elements
  BY DEF Shared!IInv, Shared!TypeOK, Shared!Request
<1>2. CASE UNCHANGED call
  BY <1>1, <1>2
<1>3. CASE Shared!Waiting(q) /\ \E a \in answers : call' = [call EXCEPT ![q.e].answer = a]
  <2>1. PICK a \in answers : call' = [call EXCEPT ![q.e].answer = a]
    BY <1>3
  <2>2. PICK c : c = [call[q.e] EXCEPT !.answer = a]
    OBVIOUS
  <2>3. call[q.e] # None /\ call[q.e] \in Shared!Call
    BY <1>1, <1>3 DEF Shared!Waiting
  <2>4. c \in Shared!Call /\ c.op = call[q.e].op /\ c.at = call[q.e].at /\ c.n = call[q.e].n
    BY <2>2, <2>3 DEF Shared!Call
  <2>5. c # None
    BY <2>4 DEF Shared!Assumption
  <2>6. call' = [call EXCEPT ![q.e] = c]
    BY <2>1, <2>2
  <2> QED  BY <1>1, <2>3, <2>4, <2>5, <2>6
<1> QED  BY <1>2, <1>3 DEF Shared!Told

\* Requests that others disturb keep everything but that nobody did.
LEMMA SharedDisturbed ==
  ASSUME NEW w \in SUBSET Shared!Request, \A q, r \in w : q.n = r.n => q = r
  PROVE  /\ Shared!Disturbed(w) \subseteq Shared!Request
         /\ \A q \in Shared!Disturbed(w) : ~q.alone /\ \E r \in w : r.n = q.n /\ r.base = q.base
         /\ \A q, r \in Shared!Disturbed(w) : q.n = r.n => q = r
         /\ \A q \in w : \E r \in Shared!Disturbed(w) : r.n = q.n
<1>1. ASSUME NEW q \in w
      PROVE  \E r \in Shared!Disturbed(w) :
               r = [q EXCEPT !.alone = FALSE] /\ r \in Shared!Request /\ r.n = q.n /\ r.base = q.base /\ ~r.alone
  <2>1. PICK r : r = [q EXCEPT !.alone = FALSE]
    OBVIOUS
  <2>2. r \in Shared!Disturbed(w)
    BY <2>1 DEF Shared!Disturbed
  <2>3. q \in Shared!Request
    OBVIOUS
  <2>4. r \in Shared!Request /\ r.n = q.n /\ r.base = q.base /\ ~r.alone
    BY <2>1, <2>3 DEF Shared!Request
  <2> QED  BY <2>1, <2>2, <2>4
<1>2. \A r \in Shared!Disturbed(w) : \E q \in w : r = [q EXCEPT !.alone = FALSE]
  BY DEF Shared!Disturbed
<1>3. ASSUME NEW r \in Shared!Disturbed(w)
      PROVE  /\ r \in Shared!Request /\ ~r.alone
             /\ \E q \in w : r = [q EXCEPT !.alone = FALSE] /\ r.n = q.n /\ r.base = q.base
  <2>1. PICK q \in w : r = [q EXCEPT !.alone = FALSE]
    BY <1>2
  <2>2. PICK s \in Shared!Disturbed(w) :
          s = [q EXCEPT !.alone = FALSE] /\ s \in Shared!Request /\ s.n = q.n /\ s.base = q.base /\ ~s.alone
    BY <1>1
  <2>3. r = s
    BY <2>1, <2>2
  <2> QED  BY <2>1, <2>2, <2>3
<1>4. \A q, r \in Shared!Disturbed(w) : q.n = r.n => q = r
  <2> SUFFICES ASSUME NEW q \in Shared!Disturbed(w), NEW r \in Shared!Disturbed(w), q.n = r.n PROVE q = r
    OBVIOUS
  <2>1. PICK s \in w : q = [s EXCEPT !.alone = FALSE] /\ q.n = s.n
    BY <1>3
  <2>2. PICK u \in w : r = [u EXCEPT !.alone = FALSE] /\ r.n = u.n
    BY <1>3
  <2> QED  BY <2>1, <2>2
<1> QED  BY <1>1, <1>3, <1>4

\* The service takes the associations it is about to change.
LEMMA SharedTake ==
  ASSUME Shared!Assumption, Shared!IInv, Shared!History, NEW q \in wire, Shared!Take(q)
  PROVE  Shared!IInv'
<1>1. /\ Shared!TypeOK /\ Shared!RequestInv /\ q \in Shared!Request
      /\ record # None /\ record \in SUBSET Elements
  BY DEF Shared!IInv, Shared!TypeOK, Shared!Take
<1>2. PICK r : r = [q EXCEPT !.base = record]
  OBVIOUS
<1>3. r \in Shared!Request /\ r.n = q.n /\ r.base = record /\ wire' = (wire \ {q}) \cup {r}
  BY <1>1, <1>2 DEF Shared!Request, Shared!Take
<1>4. UNCHANGED <<record, managed, call, holder, sent, edits>>
  BY DEF Shared!Take
<1>5. \A s \in wire' : s.n <= sent /\ (s.base # None => kind = "org_poc")
  BY <1>1, <1>3 DEF Shared!RequestInv, Shared!Take
<1>6. \A s, u \in wire' : s.n = u.n => s = u
  BY <1>1, <1>3 DEF Shared!RequestInv
<1>7. \A s \in wire' : Shared!Waiting(s) /\ s.alone /\ s.base # None => s.base = record'
  BY <1>1, <1>3, <1>4 DEF Shared!RequestInv
<1>8. \A f \in Elements : ~Shared!KnownWrite(f)
  BY <1>4 DEF Shared!KnownWrite, Shared!Landed
<1> QED  BY <1>1, <1>3, <1>4, <1>5, <1>6, <1>7, <1>8, SharedServed DEF Shared!TypeOK

\* ARIN refuses a request.
LEMMA SharedRefuse ==
  ASSUME Shared!Assumption, Shared!IInv, Shared!History, NEW q \in wire, Shared!Refuse(q)
  PROVE  Shared!IInv'
<1>1. Shared!TypeOK /\ Shared!RequestInv
  BY DEF Shared!IInv
<1>2. UNCHANGED <<record, managed, holder, sent, edits>> /\ wire' = wire \ {q}
  BY DEF Shared!Refuse
<1>3. PICK answers \in SUBSET {"done", "missing", "refused"} : Shared!Told(q, answers)
  BY DEF Shared!Refuse
<1>4. \A f \in Elements : ~Shared!KnownWrite(f)
  BY <1>2 DEF Shared!KnownWrite, Shared!Landed
<1>5. \A s \in wire' : Shared!Waiting(s) /\ s.alone /\ s.base # None => s.base = record'
  BY <1>1, <1>2 DEF Shared!RequestInv
<1>6. wire' \subseteq wire
  BY <1>2
<1> QED  BY <1>1, <1>2, <1>3, <1>4, <1>5, <1>6, SharedTold, SharedServed DEF Shared!TypeOK, Shared!RequestInv

\* Others change the record.
LEMMA SharedEdit ==
  ASSUME Shared!Assumption, Shared!IInv, Shared!History, Shared!Edit
  PROVE  Shared!IInv'
<1>1. Shared!TypeOK /\ Shared!RequestInv /\ MaxEdits \in Nat
  BY DEF Shared!IInv, Shared!Assumption
<1>2. /\ UNCHANGED <<managed, call, holder, sent>> /\ wire' = Shared!Disturbed(wire)
      /\ edits' \in 0 .. MaxEdits /\ record' \in (SUBSET Elements) \cup {None}
  BY <1>1 DEF Shared!Edit, Shared!TypeOK
<1>3. /\ wire' \subseteq Shared!Request
      /\ \A q \in wire' : ~q.alone /\ \E r \in wire : r.n = q.n /\ r.base = q.base
      /\ \A q, r \in wire' : q.n = r.n => q = r
      /\ \A q \in wire : \E r \in wire' : r.n = q.n
  BY <1>1, <1>2, SharedDisturbed DEF Shared!TypeOK, Shared!RequestInv
<1>4. \A f \in Elements : ~Shared!KnownWrite(f)
  BY <1>3 DEF Shared!KnownWrite, Shared!Landed
<1>5. \A q \in wire' : q.n <= sent /\ (q.base # None => kind = "org_poc")
  BY <1>1, <1>3 DEF Shared!RequestInv
<1> QED  BY <1>1, <1>2, <1>3, <1>4, <1>5, SharedServed DEF Shared!TypeOK

\* ARIN carries out a request.
LEMMA SharedCarryOut ==
  ASSUME Shared!Assumption, Shared!IInv, Shared!History, NEW q \in wire, Shared!CarryOut(q)
  PROVE  Shared!IInv'
<1>1. /\ Shared!TypeOK /\ Shared!RequestInv /\ Shared!CallInv /\ Shared!LockInv
      /\ q \in Shared!Request /\ wire \subseteq Shared!Request
      /\ \A r, s \in wire : r.n = s.n => r = s
  BY DEF Shared!IInv, Shared!TypeOK, Shared!RequestInv
<1>2. UNCHANGED <<managed, holder, sent, edits>> /\ Shared!Told(q, {"done"})
  BY DEF Shared!CarryOut
<1>3. record' \in SUBSET Elements
  BY <1>1 DEF Shared!CarryOut, Shared!Base, Shared!Request, Shared!TypeOK
<1>4. PICK w : w = wire \ {q}
  OBVIOUS
<1>5. /\ w \in SUBSET Shared!Request /\ \A r, s \in w : r.n = s.n => r = s
      /\ wire' = IF Shared!Waiting(q) THEN w ELSE Shared!Disturbed(w)
  BY <1>1, <1>4 DEF Shared!CarryOut
<1>6. /\ Shared!Disturbed(w) \subseteq Shared!Request
      /\ \A r \in Shared!Disturbed(w) : ~r.alone /\ \E s \in w : s.n = r.n /\ s.base = r.base
      /\ \A r, s \in Shared!Disturbed(w) : r.n = s.n => r = s
      /\ \A r \in w : \E s \in Shared!Disturbed(w) : s.n = r.n
  BY <1>5, SharedDisturbed
<1>7. /\ wire' \subseteq Shared!Request /\ \A r, s \in wire' : r.n = s.n => r = s
      /\ \A r \in wire' : \E s \in wire : s.n = r.n /\ s.base = r.base
      /\ \A r \in wire : r # q => \E s \in wire' : s.n = r.n
  BY <1>4, <1>5, <1>6
<1>8. \A r \in wire' : r.n <= sent /\ (r.base # None => kind = "org_poc")
  BY <1>1, <1>7 DEF Shared!RequestInv
<1>9. ASSUME NEW r \in wire', Shared!Waiting(r), r.alone, r.base # None
      PROVE  r.base = record'
  <2>1. Shared!Waiting(q) /\ r \in w
    <3>1. CASE Shared!Waiting(q)
      BY <3>1, <1>5
    <3>2. CASE ~Shared!Waiting(q)
      <4>1. r \in Shared!Disturbed(w)
        BY <3>2, <1>5
      <4> QED  BY <4>1, <1>6, <1>9
    <3> QED  BY <3>1, <3>2
  <2>2. r \in wire /\ r # q
    BY <2>1, <1>4
  <2>3. r.e \in Elements /\ q.e \in Elements /\ r.e = holder /\ q.e = holder
    BY <2>1, <2>2, <1>1, <1>8, <1>9 DEF Shared!Waiting, Shared!LockInv, Shared!Locks, Shared!Changing, Shared!Request
  <2> QED  BY <2>1, <2>2, <2>3, <1>1, <1>9 DEF Shared!Waiting
<1>10. ASSUME NEW f \in Elements, Shared!KnownWrite(f)
       PROVE  managed[f] \/ Shared!Trying(call[f])
  <2>1. PICK r \in wire : /\ r.e = f /\ r.op # "delete" /\ Shared!Landed(r)
                          /\ managed[f] \/ (call[f] # None /\ call[f].n = r.n)
    BY <1>10 DEF Shared!KnownWrite
  <2>2. CASE call[f] # None /\ call[f].n = r.n /\ ~managed[f]
    <3>1. r.n \in 1 .. MaxRequests /\ Shared!CallOK(call[f], managed[f]) /\ call[f] \in Shared!Call
      BY <2>1, <2>2, <1>1 DEF Shared!Request, Shared!CallInv, Shared!TypeOK
    <3>2. call[f].n # 0 /\ call[f].op \in {"create", "import"}
      <4>1. call[f].op \in Shared!Ops /\ r.n # 0
        BY <3>1 DEF Shared!Call, Shared!Assumption
      <4>2. call[f].op \notin {"update", "delete", "read"}
        BY <3>1, <2>2 DEF Shared!CallOK
      <4> QED  BY <4>1, <4>2, <2>2 DEF Shared!Ops
    <3>3. Shared!Trying(call[f])
      BY <3>1, <3>2, <2>2 DEF Shared!CallOK, Shared!Trying
    <3> QED  BY <3>3
  <2> QED  BY <2>1, <2>2
<1>11. record' \in (SUBSET Elements) \cup {None} /\ edits' \in 0 .. MaxEdits
  BY <1>1, <1>2, <1>3 DEF Shared!TypeOK
<1>12. /\ call' \in [Elements -> Shared!Call \cup {None}]
       /\ \A f \in Elements :
            /\ (call'[f] = None) = (call[f] = None)
            /\ call[f] # None => call'[f].op = call[f].op /\ call'[f].at = call[f].at /\ call'[f].n = call[f].n
  BY <1>2, SharedTold
<1> QED  BY <1>2, <1>7, <1>8, <1>9, <1>10, <1>11, <1>12, SharedServed

LEMMA SharedInit == ASSUME Shared!Assumption PROVE Shared!Init => Shared!IInv
<1> SUFFICES ASSUME Shared!Init PROVE Shared!IInv
  OBVIOUS
<1> USE DEF Shared!Init
<1>1. Shared!TypeOK
  BY DEF Shared!TypeOK, Shared!Assumption
<1>2. \A e \in Elements : call[e] = None
  OBVIOUS
<1>3. Shared!CallInv /\ Shared!MadeInv /\ Shared!LockInv
  BY <1>2 DEF Shared!CallInv, Shared!MadeInv, Shared!LockInv, Shared!Trying, Shared!Changing
<1>4. Shared!RequestInv
  BY DEF Shared!RequestInv
<1> QED  BY <1>1, <1>3, <1>4 DEF Shared!IInv

LEMMA SharedStep ==
  ASSUME Shared!Assumption, Shared!IInv, [Shared!Next]_(Shared!vars)
  PROVE  Shared!IInv'
<1>1. CASE UNCHANGED Shared!vars
  BY <1>1 DEF Shared!vars, Shared!IInv, Shared!TypeOK, Shared!CallInv, Shared!CallOK, Shared!Trying, Shared!MadeInv,
     Shared!LockInv, Shared!Changing, Shared!RequestInv, Shared!Waiting
<1>2. CASE Shared!Next
  <2>1. Shared!History
    BY <1>2 DEF Shared!Next
  <2>2. ASSUME NEW e \in Elements, Shared!Begin(e) \/ Shared!CallStep(e) PROVE Shared!IInv'
    BY <2>1, <2>2, SharedBegin, SharedSend, SharedCalls
  <2>3. ASSUME NEW q \in wire, Shared!Take(q) \/ Shared!CarryOut(q) \/ Shared!Refuse(q) PROVE Shared!IInv'
    BY <2>1, <2>3, SharedTake, SharedCarryOut, SharedRefuse
  <2>4. CASE Shared!Edit
    BY <2>1, <2>4, SharedEdit
  <2> QED  BY <1>2, <2>2, <2>3, <2>4 DEF Shared!Next, Shared!Step
<1> QED  BY <1>1, <1>2

\* What a step may do to the ownership of an element.
LEMMA SharedOwnership ==
  ASSUME Shared!Assumption, Shared!IInv, [Shared!Next]_(Shared!vars)
  PROVE  Shared!OwnershipSeesAbsence
<1> SUFFICES ASSUME NEW e \in Elements, managed'[e] # managed[e], call[e].op # "import",
                    ~Shared!Missing(e)
             PROVE  e \in absent
  BY DEF Shared!OwnershipSeesAbsence
<1>1. /\ managed \in [Elements -> BOOLEAN] /\ call \in [Elements -> Shared!Call \cup {None}]
      /\ call[e] # None => Shared!CallOK(call[e], managed[e]) /\ call[e].op \in Shared!Ops
      /\ Shared!Trying(call[e]) => e \in absent
  BY DEF Shared!IInv, Shared!TypeOK, Shared!CallInv, Shared!Call
<1>2. PICK f \in Elements : Shared!CallStep(f) /\ ~Shared!Send(f)
  BY DEF Shared!Next, Shared!Step, Shared!vars, Shared!Begin, Shared!Start, Shared!Take, Shared!CarryOut, Shared!Refuse,
     Shared!Edit, Shared!Send
<1>3. e = f
  <2>1. \/ UNCHANGED managed
        \/ \E m : managed' = [managed EXCEPT ![f] = m]
    BY <1>2 DEF Shared!CallStep, Shared!CheckCreate, Shared!CheckDelete, Shared!Look, Shared!Lock, Shared!LockFails,
       Shared!ReadFails, Shared!NoAnswer, Shared!Answered, Shared!Reread, Shared!RereadFails, Shared!Verify, Shared!Read,
       Shared!Finish, Shared!Goto
  <2> QED  BY <2>1, <1>1
<1>4. /\ call[e] # None /\ (managed[e] => call[e].op # "create")
      /\ ~managed[e] => call[e].op = "create"
  <2>1. call[e] # None
    BY <1>2, <1>3 DEF Shared!CallStep, Shared!CheckCreate, Shared!CheckDelete, Shared!Look, Shared!Lock, Shared!LockFails,
       Shared!ReadFails, Shared!NoAnswer, Shared!Answered, Shared!Reread, Shared!RereadFails, Shared!Verify, Shared!Read, Shared!At
  <2>2. managed[e] => call[e].op \in {"update", "delete", "read"}
    BY <2>1, <1>1 DEF Shared!CallOK
  <2>3. ~managed[e] => call[e].op \notin {"update", "delete", "read"}
    BY <2>1, <1>1 DEF Shared!CallOK
  <2> QED  BY <2>1, <2>2, <2>3, <1>1 DEF Shared!Ops
<1>5. SUFFICES ASSUME ~Shared!Trying(call[e]) PROVE FALSE
  BY <1>1
<1>6. ~managed[e] => call[e].at = "check"
  BY <1>4, <1>5 DEF Shared!Trying
<1>7. \A m : Shared!Finish(e, m) => managed'[e] = m
  BY <1>1 DEF Shared!Finish
<1>8. \A at : ~Shared!Goto(e, at)
  BY DEF Shared!Goto
<1>9. CASE ~managed[e]
  <2>1. Shared!Finish(e, FALSE) \/ Shared!Finish(e, managed[e] \/ FALSE)
    BY <1>2, <1>3, <1>6, <1>8, <1>9
    DEF Shared!CallStep, Shared!CheckCreate, Shared!CheckDelete, Shared!Look, Shared!Lock, Shared!LockFails,
       Shared!ReadFails, Shared!ReadFailed, Shared!NoAnswer, Shared!Answered, Shared!Reread, Shared!RereadFails, Shared!Verify,
       Shared!Read, Shared!At, Shared!Finish
  <2> QED  BY <2>1, <1>1, <1>7, <1>9
<1>10. CASE managed[e]
  <2>1. Shared!Finish(e, TRUE)
    BY <1>2, <1>3, <1>4, <1>8, <1>10
    DEF Shared!CallStep, Shared!CheckCreate, Shared!CheckDelete, Shared!Look, Shared!Lock, Shared!LockFails, Shared!ReadFails,
       Shared!ReadFailed, Shared!NoAnswer, Shared!Answered, Shared!Reread, Shared!RereadFails, Shared!Verify, Shared!Read,
       Shared!At, Shared!Retained
  <2> QED  BY <2>1, <1>1, <1>7, <1>10
<1> QED  BY <1>9, <1>10

\* What a step may do to the other elements of an organization.
LEMMA SharedSiblings ==
  ASSUME Shared!Assumption, Shared!IInv, [Shared!Next]_(Shared!vars)
  PROVE  Shared!SiblingsAreSpared
<1> SUFFICES ASSUME NEW q \in wire, Shared!Landed(q), Shared!Waiting(q), q.alone, record' # None,
                    NEW f \in Elements, f # q.e
             PROVE  (f \in record') = (f \in record)
  BY DEF Shared!SiblingsAreSpared
<1>1. Shared!TypeOK /\ Shared!RequestInv
  BY DEF Shared!IInv
<1>2. record' # record
  BY DEF Shared!Landed
<1>3. ~Shared!Edit
  <2>1. Shared!Edit => \E r \in wire' : r.n = q.n
    BY <1>1, SharedDisturbed DEF Shared!Edit, Shared!TypeOK, Shared!RequestInv
  <2> QED  BY <2>1 DEF Shared!Landed
<1>4. PICK r \in wire : Shared!CarryOut(r)
  BY <1>2, <1>3 DEF Shared!Next, Shared!Step, Shared!vars, Shared!Begin, Shared!Start, Shared!CallStep, Shared!CheckCreate,
     Shared!CheckDelete, Shared!Look, Shared!Lock, Shared!LockFails, Shared!ReadFails, Shared!Send, Shared!NoAnswer,
     Shared!Answered, Shared!Reread, Shared!RereadFails, Shared!Verify, Shared!Read, Shared!Take, Shared!Refuse, Shared!Local
<1>5. q = r
  <2> SUFFICES ASSUME q # r PROVE FALSE
    OBVIOUS
  <2>1. q \in wire \ {r} /\ (wire \ {r}) \in SUBSET Shared!Request
    BY <1>1 DEF Shared!TypeOK
  <2>2. \A s, u \in wire \ {r} : s.n = u.n => s = u
    BY <1>1 DEF Shared!RequestInv
  <2>3. \E s \in Shared!Disturbed(wire \ {r}) : s.n = q.n
    BY <2>1, <2>2, SharedDisturbed
  <2>4. \E s \in wire' : s.n = q.n
    BY <2>1, <2>3, <1>4 DEF Shared!CarryOut
  <2> QED  BY <2>4 DEF Shared!Landed
<1>6. Shared!Base(q) = record
  BY <1>1, <1>4, <1>5 DEF Shared!Base, Shared!CarryOut, Shared!RequestInv
<1> QED  BY <1>4, <1>5, <1>6 DEF Shared!CarryOut

\* A lost answer leaves the element in state or with its call.
LEMMA SharedTracked ==
  ASSUME Shared!IInv
  PROVE  Shared!LostAnswerIsTracked
BY DEF Shared!IInv, Shared!MadeInv, Shared!LostAnswerIsTracked, Shared!Trying

\* Of the resources that share a record: a write in flight has the record's
\* lock, and an element that is made stays in state or with its call.
THEOREM SharedInductive == ASSUME Shared!Assumption PROVE Shared!Spec => []Shared!IInv
<1>1. Shared!Init => Shared!IInv
  BY SharedInit
<1>2. Shared!IInv /\ [Shared!Next]_(Shared!vars) => Shared!IInv'
  BY SharedStep
<1> QED  BY <1>1, <1>2, PTL DEF Shared!Spec

\* A resource takes or gives up an element only after its absence was seen, a
\* lost answer leaves the element in state or with its call, and a change whose
\* call still waits spares the elements of the other resources.
THEOREM SharedElementsAreSafe ==
  ASSUME Shared!Assumption
  PROVE  Shared!Spec =>
           /\ []Shared!LostAnswerIsTracked
           /\ [][Shared!OwnershipSeesAbsence /\ Shared!SiblingsAreSpared]_(Shared!vars)
<1>1. Shared!IInv => Shared!LostAnswerIsTracked
  BY SharedTracked
<1>2. Shared!IInv /\ [Shared!Next]_(Shared!vars) => Shared!OwnershipSeesAbsence /\ Shared!SiblingsAreSpared
  BY SharedOwnership, SharedSiblings
<1> QED  BY <1>1, <1>2, SharedInductive, PTL DEF Shared!Spec
-----------------------------------------------------------------------------
(* The link of a route *)

LEMMA LinksTypes ==
  ASSUME Links!Assumption, Links!IInv
  PROVE  /\ call \in [Links!Actors -> Links!Call \cup {None}] /\ state \in [Links!Resources -> Links!Route \cup {None}]
         /\ route \in Links!Route \cup {None} /\ holder \in Links!Actors \cup {None} /\ wire \subseteq Links!Request
         /\ sent \in 0 .. MaxMutations /\ unanswered \subseteq 1 .. MaxMutations /\ MaxMutations \in Nat
         /\ Links!TypeOK /\ Links!CallInv /\ Links!RequestInv /\ Links!LinkInv
         /\ None \notin Links!Actors /\ None \notin Links!Call /\ None \notin Links!Route /\ None \notin LinkROAs
         /\ None \notin RouteTexts /\ None \notin Links!Answer
         /\ Links!Resources \subseteq Links!Actors
         /\ \A a \in Links!Actors : call[a] # None => Links!CallOK(a, call[a]) /\ call[a] \in Links!Call
  BY DEF Links!IInv, Links!TypeOK, Links!Assumption, Links!CallInv, Links!Actors, Links!Resources

\* What a step of one call that sends nothing and changes no route must leave
\* behind.
LEMMA LinksLocal ==
  ASSUME Links!Assumption, Links!IInv,
         NEW a \in Links!Actors, NEW c \in Links!Call \cup {None},
         UNCHANGED <<route, wire, sent>>, call' = [call EXCEPT ![a] = c],
         state' \in [Links!Resources -> Links!Route \cup {None}],
         holder' \in {holder, a, None}, holder' # holder => holder \in {None, a},
         unanswered' \subseteq 1 .. MaxMutations,
         unanswered' # {} \/ (unanswered = {} /\ \A w \in wire : w.by # a),
         c # None => /\ c.n <= sent /\ (c.at = "answer" => c.n # 0)
                     /\ (c.op \in {"put", "delete"}) = (a # "roa") /\ (c.op = "put" => c.text # None)
                     /\ c.at \in {"before", "check", "fresh"} => c.op = "put"
                     /\ (c.at = "check" => c.link = None) /\ (c.at = "verify" => a # "roa")
                     /\ c.at \in {"before", "check", "lock", "send"} => c.answer = None
                     /\ c.at \in {"send", "answer", "verify"} /\ Links!Guarded(a, c) => holder' = a,
         unanswered' = {} /\ a \in Links!Resources /\ c # None /\ Links!Guarded(a, c) /\ c.at = "send"
           => route # None /\ route.link = c.link
  PROVE  Links!IInv'
<1> USE LinksTypes
<1>1. /\ call'[a] = c /\ \A b \in Links!Actors : b # a => call'[b] = call[b]
      /\ call' \in [Links!Actors -> Links!Call \cup {None}]
  OBVIOUS
<1>2. Links!CallInv'
  <2> SUFFICES ASSUME NEW b \in Links!Actors, call'[b] # None
               PROVE  Links!CallOK(b, call[b])'
    BY DEF Links!CallInv
  <2>1. CASE b = a
    BY <2>1, <1>1 DEF Links!CallOK, Links!Guarded
  <2>2. CASE b # a
    <3>1. call'[b] = call[b] /\ Links!CallOK(b, call[b])
      BY <2>2, <1>1
    <3>2. holder = b => holder' = b
      BY <2>2
    <3> QED  BY <3>1, <3>2 DEF Links!CallOK, Links!Guarded
  <2> QED  BY <2>1, <2>2
<1>3. Links!TypeOK'
  <2>1. holder' \in Links!Actors \cup {None}
    OBVIOUS
  <2>2. \A b \in Links!Actors : call'[b] # None /\ call'[b].at = "answer" /\ (b = "roa" \/ call'[b].link # None) => holder' = b
    BY <1>2 DEF Links!CallInv, Links!CallOK, Links!Guarded
  <2> QED  BY <2>1, <2>2, <1>1 DEF Links!TypeOK
<1>4. Links!RequestInv'
  BY DEF Links!RequestInv
<1>5. Links!LinkInv'
  <2> SUFFICES ASSUME unanswered' = {} PROVE Links!LinkInv'
    BY DEF Links!LinkInv
  <2>1. unanswered = {} /\ \A w \in wire : w.by # a
    OBVIOUS
  <2>2. \A w \in wire : w.by \in Links!Actors
    BY DEF Links!Request
  <2>3. \A w \in wire : Links!Awaited(w)'
    BY <2>1, <2>2, <1>1 DEF Links!LinkInv, Links!Awaited
  <2>4. ASSUME NEW b \in Links!Resources, call'[b] # None, Links!Guarded(b, call'[b]), Links!Sending(b)'
        PROVE  route # None /\ route.link = call'[b].link
    <3>1. CASE b = a
      BY <2>1, <2>4, <3>1, <1>1 DEF Links!Sending
    <3>2. CASE b # a
      BY <2>1, <2>4, <3>2, <1>1 DEF Links!Sending, Links!LinkInv
    <3> QED  BY <3>1, <3>2
  <2>5. \A b \in Links!Resources : Links!Guarded(b, call[b])' = Links!Guarded(b, call'[b])
    BY DEF Links!Guarded
  <2> QED  BY <2>1, <2>3, <2>4, <2>5 DEF Links!LinkInv
<1> QED  BY <1>2, <1>3, <1>4, <1>5 DEF Links!IInv

\* While no call was abandoned, a call that does not wait has nothing on its way.
LEMMA LinksIdle ==
  ASSUME Links!Assumption, Links!IInv, NEW a \in Links!Actors,
         call[a] = None \/ call[a].at # "answer" \/ call[a].answer # None
  PROVE  unanswered # {} \/ \A w \in wire : w.by # a
BY DEF Links!IInv, Links!LinkInv, Links!Awaited

LEMMA LinksFinish ==
  ASSUME Links!Assumption, Links!IInv, NEW a \in Links!Actors, NEW s \in Links!Route \cup {None},
         Links!Finish(a, s), UNCHANGED <<route, wire, sent>>,
         unanswered' \subseteq 1 .. MaxMutations,
         unanswered' # {} \/ (unanswered = {} /\ \A w \in wire : w.by # a)
  PROVE  Links!IInv'
<1>1. state' \in [Links!Resources -> Links!Route \cup {None}]
  BY LinksTypes DEF Links!Finish
<1>2. holder' \in {holder, None} /\ (holder' # holder => holder = a)
  BY DEF Links!Finish, Links!Unlocked
<1>3. call' = [call EXCEPT ![a] = None]
  BY DEF Links!Finish
<1> QED  BY <1>1, <1>2, <1>3, LinksLocal

\* A call goes on to its next request.
LEMMA LinksGoto ==
  ASSUME Links!Assumption, Links!IInv, NEW a \in Links!Actors, NEW c, call[a] # None,
         NEW at \in {"check", "lock", "send", "verify", "fresh"}, NEW saved \in Links!Route \cup {None},
         c = [call[a] EXCEPT !.at = at, !.saved = saved],
         call' = [call EXCEPT ![a] = c],
         UNCHANGED <<route, wire, sent, state, unanswered>>,
         call[a].at # "answer" \/ call[a].answer # None,
         at \in {"check", "fresh"} => call[a].op = "put",
         at \in {"check", "lock", "send"} => call[a].at \in {"before", "check", "lock"},
         at = "check" => call[a].link = None, at = "verify" => a # "roa",
         holder' \in {holder, a, None}, holder' # holder => holder \in {None, a},
         at \in {"send", "verify"} /\ Links!Guarded(a, call[a]) => holder' = a,
         a \in Links!Resources /\ Links!Guarded(a, call[a]) /\ at = "send"
           => route # None /\ route.link = call[a].link
  PROVE  Links!IInv'
<1>1. call[a] \in Links!Call /\ Links!CallOK(a, call[a])
  BY LinksTypes
<1>2. /\ c \in Links!Call /\ c.at = at /\ c.op = call[a].op /\ c.link = call[a].link /\ c.n = call[a].n
      /\ c.text = call[a].text /\ c.answer = call[a].answer
  BY <1>1 DEF Links!Call
<1>3. Links!Guarded(a, c) = Links!Guarded(a, call[a])
  BY <1>2 DEF Links!Guarded
<1>4. unanswered' \subseteq 1 .. MaxMutations /\ state' \in [Links!Resources -> Links!Route \cup {None}]
  BY LinksTypes
<1>5. unanswered' # {} \/ (unanswered = {} /\ \A w \in wire : w.by # a)
  BY LinksIdle
<1>6. /\ c.n <= sent /\ c.at # "answer" /\ (c.op \in {"put", "delete"}) = (a # "roa") /\ (c.op = "put" => c.text # None)
      /\ c.at \in {"before", "check", "fresh"} => c.op = "put"
      /\ (c.at = "check" => c.link = None) /\ (c.at = "verify" => a # "roa")
      /\ c.at \in {"before", "check", "lock", "send"} => c.answer = None
      /\ c.at \in {"send", "answer", "verify"} /\ Links!Guarded(a, c) => holder' = a
  BY <1>1, <1>2, <1>3 DEF Links!CallOK
<1> QED  BY <1>2, <1>3, <1>4, <1>5, <1>6, LinksLocal

\* A call starts.
LEMMA LinksStart ==
  ASSUME Links!Assumption, Links!IInv, NEW a \in Links!Actors,
         NEW op \in {"put", "delete", "link", "unlink", "remove"}, NEW at \in {"before", "lock"},
         NEW t \in RouteTexts \cup {None}, NEW r \in LinkROAs \cup {None}, Links!Start(a, op, at, t, r),
         (op \in {"put", "delete"}) = (a # "roa"), op = "put" => t # None, at = "before" => op = "put"
  PROVE  Links!IInv'
<1>1. PICK c : c = [op |-> op, at |-> at, text |-> t, link |-> r, saved |-> None, n |-> 0, answer |-> None]
  OBVIOUS
<1>2. /\ c \in Links!Call /\ c.op = op /\ c.at = at /\ c.text = t /\ c.link = r /\ c.n = 0
      /\ c.answer = None
  BY <1>1, LinksTypes DEF Links!Call
<1>3. call[a] = None /\ call' = [call EXCEPT ![a] = c] /\ UNCHANGED <<route, wire, holder, state, sent, unanswered>>
  BY <1>1 DEF Links!Start
<1>4. unanswered' \subseteq 1 .. MaxMutations /\ state' \in [Links!Resources -> Links!Route \cup {None}] /\ 0 <= sent
  BY <1>3, LinksTypes
<1>5. unanswered' # {} \/ (unanswered = {} /\ \A w \in wire : w.by # a)
  BY <1>3, LinksIdle
<1> QED  BY <1>2, <1>3, <1>4, <1>5, LinksLocal

LEMMA LinksStarts ==
  ASSUME Links!Assumption, Links!IInv, NEW t \in RouteTexts, NEW r \in LinkROAs \cup {None},
         \/ Links!StartMetadata(t, r) \/ Links!StartLinked(t, r) \/ Links!StartDelete(r)
         \/ \E op \in {"link", "unlink", "remove"} : Links!StartTransaction(op, r)
  PROVE  Links!IInv'
<1>1. t # None /\ "metadata" \in Links!Actors /\ "linked" \in Links!Actors /\ "roa" \in Links!Actors
  BY LinksTypes DEF Links!Actors, Links!Resources
<1>2. CASE Links!StartMetadata(t, r)
  BY <1>1, <1>2, LinksStart DEF Links!StartMetadata
<1>3. CASE Links!StartLinked(t, r)
  BY <1>1, <1>3, LinksStart DEF Links!StartLinked
<1>4. CASE Links!StartDelete(r)
  BY <1>1, <1>4, LinksStart DEF Links!StartDelete
<1>5. CASE \E op \in {"link", "unlink", "remove"} : Links!StartTransaction(op, r)
  BY <1>1, <1>5, LinksStart DEF Links!StartTransaction
<1> QED  BY <1>2, <1>3, <1>4, <1>5

\* A read, and a metadata resource that is given up.
LEMMA LinksReads ==
  ASSUME Links!Assumption, Links!IInv, (\E a \in Links!Resources : Links!Read(a)) \/ Links!Forget
  PROVE  Links!IInv'
<1>1. UNCHANGED <<route, wire, holder, call, sent, unanswered>>
  BY DEF Links!Read, Links!Forget
<1>2. state' \in [Links!Resources -> Links!Route \cup {None}]
  BY LinksTypes DEF Links!Read, Links!Forget
<1> QED  BY <1>1, <1>2 DEF Links!IInv, Links!TypeOK, Links!CallInv, Links!CallOK, Links!RequestInv, Links!LinkInv,
           Links!Guarded, Links!Awaited, Links!Sending

\* A call sends its mutation.
LEMMA LinksSend ==
  ASSUME Links!Assumption, Links!IInv, NEW a \in Links!Actors, Links!Send(a)
  PROVE  Links!IInv'
<1> USE LinksTypes
<1>1. /\ call[a] # None /\ call[a] \in Links!Call /\ Links!CallOK(a, call[a]) /\ call[a].at = "send"
      /\ UNCHANGED <<route, holder, state, unanswered>> /\ sent' = sent + 1 /\ sent' \in 1 .. MaxMutations
  BY DEF Links!Send
<1>2. PICK n \in 1 .. MaxMutations : n = sent'
  BY <1>1
<1>3. PICK c : c = [call[a] EXCEPT !.at = "answer", !.n = n]
  OBVIOUS
<1>4. /\ c \in Links!Call /\ c.at = "answer" /\ c.n = n /\ c.op = call[a].op /\ c.link = call[a].link
      /\ c.text = call[a].text /\ c.answer = call[a].answer
  <2>1. n \in 0 .. MaxMutations
    OBVIOUS
  <2> HIDE LinksTypes
  <2> QED  BY <2>1, <1>1, <1>3 DEF Links!Call
<1>5. c # None /\ call'[a] = c /\ (\A b \in Links!Actors : b # a => call'[b] = call[b])
      /\ call' \in [Links!Actors -> Links!Call \cup {None}]
  BY <1>2, <1>3, <1>4 DEF Links!Send
<1>6. PICK w : w = [n |-> n, by |-> a, op |-> call[a].op, text |-> call[a].text, link |-> call[a].link]
  OBVIOUS
<1>7. /\ w \in Links!Request /\ w.n = n /\ w.by = a /\ w.op = c.op /\ w.text = c.text /\ w.link = c.link
      /\ wire' = wire \cup {w}
  BY <1>1, <1>2, <1>4, <1>6 DEF Links!Request, Links!Call, Links!Send
<1>8. Links!CallInv'
  <2> SUFFICES ASSUME NEW b \in Links!Actors, call'[b] # None
               PROVE  Links!CallOK(b, call[b])'
    BY DEF Links!CallInv
  <2>1. CASE b = a
    BY <2>1, <1>1, <1>2, <1>4, <1>5 DEF Links!CallOK, Links!Guarded
  <2>2. CASE b # a
    <3>1. call'[b] = call[b] /\ Links!CallOK(b, call[b]) /\ call[b].n \in 0 .. MaxMutations
      BY <2>2, <1>5 DEF Links!Call
    <3> QED  BY <3>1, <1>1 DEF Links!CallOK, Links!Guarded
  <2> QED  BY <2>1, <2>2
<1>9. Links!TypeOK'
  <2>1. \A b \in Links!Actors : call'[b] # None /\ call'[b].at = "answer" /\ (b = "roa" \/ call'[b].link # None) => holder' = b
    BY <1>8 DEF Links!CallInv, Links!CallOK, Links!Guarded
  <2> QED  BY <2>1, <1>1, <1>2, <1>5, <1>7 DEF Links!TypeOK
<1>10. \A v \in wire : v.n <= sent /\ v.n \in Nat /\ v.by \in Links!Actors /\ (v.op = "put" => v.text # None)
  BY DEF Links!RequestInv, Links!Request
<1>11. Links!RequestInv'
  BY <1>1, <1>2, <1>4, <1>7, <1>10 DEF Links!RequestInv, Links!CallOK
<1>12. Links!LinkInv'
  <2> SUFFICES ASSUME unanswered = {} PROVE Links!LinkInv'
    BY <1>1 DEF Links!LinkInv
  <2>1. \A v \in wire : v.by # a
    BY <1>1, LinksIdle
  <2>2. \A v, u \in wire' : v.by = u.by => v = u
    BY <2>1, <1>7 DEF Links!LinkInv
  <2>3. c.answer = None
    BY <1>1, <1>4 DEF Links!CallOK
  <2>4. \A v \in wire' : Links!Awaited(v)'
    BY <2>1, <2>3, <1>4, <1>5, <1>7, <1>10 DEF Links!LinkInv, Links!Awaited
  <2>5. ASSUME NEW b \in Links!Resources, call'[b] # None, Links!Guarded(b, call'[b]), Links!Sending(b)'
        PROVE  route # None /\ route.link = call'[b].link
    <3>1. CASE b = a
      BY <2>5, <3>1, <1>1, <1>4, <1>5 DEF Links!Sending, Links!LinkInv, Links!Guarded
    <3>2. CASE b # a
      BY <2>5, <3>2, <1>5, <1>7 DEF Links!Sending, Links!LinkInv
    <3> QED  BY <3>1, <3>2
  <2>6. \A b \in Links!Resources : Links!Guarded(b, call[b])' = Links!Guarded(b, call'[b])
    BY DEF Links!Guarded
  <2> QED  BY <2>2, <2>4, <2>5, <2>6, <1>1 DEF Links!LinkInv
<1> QED  BY <1>8, <1>9, <1>11, <1>12 DEF Links!IInv

\* Every other step of a call.
LEMMA LinksCalls ==
  ASSUME Links!Assumption, Links!IInv, NEW a \in Links!Actors,
         \/ Links!Before(a) \/ Links!Check(a) \/ Links!Lock(a) \/ Links!Error(a)
         \/ Links!Answered(a) \/ Links!Verify(a) \/ Links!Fresh(a)
  PROVE  Links!IInv'
<1>1. /\ call[a] # None /\ call[a] \in Links!Call /\ Links!CallOK(a, call[a])
      /\ call[a].saved \in Links!Route \cup {None} /\ call[a].n \in 0 .. MaxMutations
      /\ call[a].link \in LinkROAs \cup {None}
  <2>1. call[a] # None
    BY DEF Links!Before, Links!Check, Links!Lock, Links!Error, Links!Answered, Links!Verify, Links!Fresh, Links!At
  <2> QED  BY <2>1, LinksTypes DEF Links!Call
<1>2. UNCHANGED <<route, wire, sent>>
  BY DEF Links!Before, Links!Check, Links!Lock, Links!Error, Links!Answered, Links!Verify, Links!Fresh, Links!Local
<1>3. /\ \A b \in Links!Resources : state[b] \in Links!Route \cup {None}
      /\ Links!Old(a) \in Links!Route \cup {None} /\ unanswered \subseteq 1 .. MaxMutations
      /\ route \in Links!Route \cup {None}
  BY LinksTypes DEF Links!Old
<1>4. PICK f \in Links!Route \cup {None} : f = IF call[a].op = "put" THEN call[a].saved ELSE Links!Old(a)
  BY <1>1, <1>3
<1>5. ASSUME NEW s \in Links!Route \cup {None}, Links!Finish(a, s), UNCHANGED unanswered,
             call[a].at # "answer" \/ call[a].answer # None
      PROVE  Links!IInv'
  <2>1. unanswered' # {} \/ (unanswered = {} /\ \A w \in wire : w.by # a)
    BY <1>5, LinksIdle
  <2> QED  BY <2>1, <1>2, <1>3, <1>5, LinksFinish
<1>6. ASSUME Links!FailWrite(a), UNCHANGED unanswered, call[a].at # "answer" \/ call[a].answer # None
      PROVE  Links!IInv'
  BY <1>4, <1>5, <1>6 DEF Links!FailWrite
<1>7. ASSUME NEW at \in {"check", "lock", "send", "verify", "fresh"}, NEW saved \in Links!Route \cup {None},
             call' = [call EXCEPT ![a].at = at, ![a].saved = saved], UNCHANGED <<state, unanswered>>,
             call[a].at # "answer" \/ call[a].answer # None,
             at \in {"check", "fresh"} => call[a].op = "put",
             at \in {"check", "lock", "send"} => call[a].at \in {"before", "check", "lock"},
             at = "check" => call[a].link = None, at = "verify" => a # "roa",
             holder' \in {holder, a, None}, holder' # holder => holder \in {None, a},
             at \in {"send", "verify"} /\ Links!Guarded(a, call[a]) => holder' = a,
             a \in Links!Resources /\ Links!Guarded(a, call[a]) /\ at = "send"
               => route # None /\ route.link = call[a].link
      PROVE  Links!IInv'
  <2>1. PICK c : c = [call[a] EXCEPT !.at = at, !.saved = saved]
    OBVIOUS
  <2>2. call' = [call EXCEPT ![a] = c]
    BY <1>7, <2>1, LinksTypes
  <2>3. call[a] # None /\ UNCHANGED <<route, wire, sent, state, unanswered>>
    BY <1>1, <1>2, <1>7
  <2> QED  BY <1>7, <2>1, <2>2, <2>3, LinksGoto
<1>8. ASSUME NEW at, call' = [call EXCEPT ![a].at = at]
      PROVE  call' = [call EXCEPT ![a].at = at, ![a].saved = call[a].saved]
  <2>1. [call[a] EXCEPT !.at = at] = [call[a] EXCEPT !.at = at, !.saved = call[a].saved]
    BY <1>1 DEF Links!Call
  <2>2. call' = [call EXCEPT ![a] = [call[a] EXCEPT !.at = at]]
    BY <1>8
  <2>3. call' = [call EXCEPT ![a] = [call[a] EXCEPT !.at = at, !.saved = call[a].saved]]
    BY <2>1, <2>2
  <2> QED  BY <2>3
<1>9. CASE Links!Before(a)
  <2>1. UNCHANGED unanswered /\ call[a].at = "before" /\ call[a].op = "put" /\ a \in Links!Resources
    BY <1>1, <1>9 DEF Links!Before, Links!At, Links!Local, Links!CallOK, Links!Actors
  <2>2. CASE route = None \/ route.link # call[a].link
    BY <1>3, <1>5, <1>9, <2>1, <2>2 DEF Links!Before
  <2>3. CASE ~(route = None \/ route.link # call[a].link) /\ route.text = call[a].text
    BY <1>3, <1>5, <1>9, <2>1, <2>3 DEF Links!Before
  <2>4. CASE ~(route = None \/ route.link # call[a].link) /\ route.text # call[a].text
    <3>1. /\ call' = [call EXCEPT ![a].at = Links!AfterBefore(a), ![a].saved = route]
          /\ UNCHANGED <<state, holder>>
      BY <1>9, <2>4 DEF Links!Before
    <3>2. Links!AfterBefore(a) \in {"check", "lock"} /\ (Links!AfterBefore(a) = "check" => call[a].link = None)
      BY DEF Links!AfterBefore
    <3> QED  BY <1>3, <1>7, <2>1, <3>1, <3>2
  <2> QED  BY <2>2, <2>3, <2>4
<1>10. CASE Links!Check(a)
  <2>1. UNCHANGED unanswered /\ call[a].at = "check" /\ call[a].op = "put" /\ a # "roa" /\ call[a].link = None
    BY <1>1, <1>10 DEF Links!Check, Links!At, Links!Local, Links!CallOK
  <2>2. CASE Links!FailWrite(a)
    BY <1>6, <2>1, <2>2
  <2>3. CASE Links!Goto(a, "send")
    <3>1. /\ call' = [call EXCEPT ![a].at = "send", ![a].saved = call[a].saved]
          /\ UNCHANGED <<state, holder>>
      BY <1>8, <2>3 DEF Links!Goto
    <3>2. ~Links!Guarded(a, call[a])
      BY <2>1 DEF Links!Guarded
    <3> QED  BY <1>1, <1>7, <2>1, <3>1, <3>2
  <2> QED  BY <1>10, <2>2, <2>3 DEF Links!Check
<1>11. CASE Links!Lock(a)
  <2>1. UNCHANGED unanswered /\ call[a].at = "lock" /\ holder = None
    BY <1>11 DEF Links!Lock, Links!Local, Links!Free
  <2>2. CASE a = "roa" \/ (route # None /\ route.link = call[a].link)
    <3>1. /\ holder' = a /\ call' = [call EXCEPT ![a].at = "send", ![a].saved = call[a].saved]
          /\ UNCHANGED state
      BY <1>8, <1>11, <2>2 DEF Links!Lock
    <3>2. a \in Links!Resources => a # "roa"
      BY DEF Links!Resources
    <3> QED  BY <1>1, <1>7, <2>1, <2>2, <3>1, <3>2
  <2>3. CASE a # "roa" /\ route = None /\ call[a].op = "delete"
    BY <1>5, <1>11, <2>1, <2>3 DEF Links!Lock
  <2>4. CASE ~(a = "roa" \/ (route # None /\ route.link = call[a].link))
             /\ ~(a # "roa" /\ route = None /\ call[a].op = "delete")
    BY <1>6, <1>11, <2>1, <2>4 DEF Links!Lock
  <2> QED  BY <2>2, <2>3, <2>4
<1>12. CASE Links!Error(a)
  <2>1. unanswered' \subseteq 1 .. MaxMutations
    <3>1. call[a].at = "answer" => call[a].n \in 1 .. MaxMutations
      BY <1>1, LinksTypes DEF Links!CallOK
    <3> QED  BY <3>1, <1>3, <1>12 DEF Links!Error
  <2>2. unanswered' # {} \/ (unanswered = {} /\ \A w \in wire : w.by # a)
    BY <1>12, LinksIdle DEF Links!Error
  <2>3. \E s \in Links!Route \cup {None} : Links!Finish(a, s)
    <3>1. CASE call[a].at # "before"
      BY <1>4, <1>12, <3>1 DEF Links!Error, Links!FailWrite
    <3>2. CASE call[a].at = "before"
      <4>1. a \in Links!Resources
        BY <1>1, <3>2 DEF Links!CallOK, Links!Actors
      <4> QED  BY <1>3, <1>12, <3>2, <4>1 DEF Links!Error
    <3> QED  BY <3>1, <3>2
  <2> QED  BY <1>2, <2>1, <2>2, <2>3, LinksFinish
<1>13. CASE Links!Answered(a)
  <2>1. UNCHANGED unanswered /\ call[a].at = "answer" /\ call[a].answer # None
    BY <1>13 DEF Links!Answered, Links!Local
  <2>2. CASE Links!FailWrite(a)
    BY <1>6, <2>1, <2>2
  <2>3. CASE Links!Finish(a, None)
    BY <1>5, <2>1, <2>3
  <2>4. ASSUME NEW at \in {"fresh", "verify"}, Links!Goto(a, at), at = "verify" => a # "roa",
               at = "fresh" => call[a].link = None /\ call[a].op = "put"
        PROVE  Links!IInv'
    <3>1. /\ call' = [call EXCEPT ![a].at = at, ![a].saved = call[a].saved]
          /\ UNCHANGED <<state, holder>>
      BY <1>8, <2>4 DEF Links!Goto
    <3>2. Links!Guarded(a, call[a]) => holder' = a
      BY <1>1, <2>1, <3>1 DEF Links!CallOK
    <3> QED  BY <1>1, <1>7, <2>1, <2>4, <3>1, <3>2
  <2>5. call[a].op \in {"put", "delete"} \/ a = "roa"
    BY <1>1 DEF Links!CallOK
  <2> QED  BY <1>13, <2>2, <2>3, <2>4, <2>5 DEF Links!Answered
<1>14. CASE Links!Verify(a)
  <2>1. UNCHANGED unanswered /\ call[a].at = "verify"
    BY <1>14 DEF Links!Verify, Links!Local
  <2>2. CASE Links!FailWrite(a)
    BY <1>6, <2>1, <2>2
  <2>3. CASE call[a].op = "delete"
    <3>1. a \in Links!Resources
      BY <1>1, <2>3 DEF Links!CallOK, Links!Actors
    <3> QED  BY <1>3, <1>5, <1>14, <2>1, <2>3, <3>1 DEF Links!Verify
  <2>4. CASE call[a].op # "delete" /\ ~Links!FailWrite(a)
    <3>1. /\ call' = [call EXCEPT ![a].at = "fresh", ![a].saved = call[a].saved]
          /\ holder' = Links!Unlocked(a) /\ UNCHANGED state
      BY <1>8, <1>14, <2>4 DEF Links!Verify
    <3>2. holder' \in {holder, None} /\ (holder' # holder => holder = a)
      BY <3>1 DEF Links!Unlocked
    <3>3. call[a].op = "put"
      BY <1>1, <2>1, <2>4 DEF Links!CallOK
    <3> QED  BY <1>1, <1>7, <2>1, <3>1, <3>2, <3>3
  <2> QED  BY <2>2, <2>3, <2>4
<1>15. CASE Links!Fresh(a)
  <2>1. PICK s \in Links!Route \cup {None} : s = IF Links!AsWanted(a) THEN route ELSE call[a].saved
    BY <1>1, <1>3
  <2> QED  BY <1>5, <1>15, <2>1 DEF Links!Fresh, Links!At, Links!Local
<1> QED  BY <1>9, <1>10, <1>11, <1>12, <1>13, <1>14, <1>15

\* A mutation leaves the wire, and its call may hear of it.
LEMMA LinksServed ==
  ASSUME Links!Assumption, Links!IInv, NEW w \in wire, NEW answers \in SUBSET Links!Answer,
         wire' = wire \ {w}, Links!Told(w, answers), UNCHANGED <<holder, state, sent, unanswered>>,
         route' \in Links!Route \cup {None},
         unanswered = {} /\ route' # route =>
           \A b \in Links!Resources : call[b] # None /\ b # w.by /\ Links!Guarded(b, call[b]) /\ Links!Sending(b)
             => route' # None /\ route'.link = call[b].link
  PROVE  Links!IInv'
<1> USE LinksTypes
<1>1. w \in Links!Request /\ w.by \in Links!Actors
  BY DEF Links!Request
<1>2. \/ UNCHANGED call
      \/ /\ call[w.by] # None /\ call[w.by].at = "answer" /\ call[w.by].n = w.n
         /\ \E x \in Links!Answer : call' = [call EXCEPT ![w.by].answer = x]
  BY DEF Links!Told
<1>3. /\ call' \in [Links!Actors -> Links!Call \cup {None}]
      /\ \A b \in Links!Actors : b # w.by => call'[b] = call[b]
      /\ \A b \in Links!Actors : (call'[b] = None) = (call[b] = None)
      /\ \A b \in Links!Actors : call[b] # None =>
           /\ call'[b].at = call[b].at /\ call'[b].op = call[b].op /\ call'[b].link = call[b].link
           /\ call'[b].n = call[b].n /\ call'[b].text = call[b].text
           /\ call'[b].answer = call[b].answer \/ call[b].at = "answer"
  <2>1. CASE UNCHANGED call
    BY <2>1
  <2>2. ASSUME NEW x \in Links!Answer, call[w.by] # None, call[w.by].at = "answer",
               call' = [call EXCEPT ![w.by].answer = x]
        PROVE  <1>3!:
    <3>1. PICK c : c = [call[w.by] EXCEPT !.answer = x]
      OBVIOUS
    <3>2. call[w.by] \in Links!Call
      BY <1>1, <2>2
    <3>3. /\ c \in Links!Call /\ c.at = call[w.by].at /\ c.op = call[w.by].op /\ c.link = call[w.by].link
          /\ c.n = call[w.by].n /\ c.text = call[w.by].text
      <4> HIDE LinksTypes
      <4> QED  BY <2>2, <3>1, <3>2 DEF Links!Call
    <3>4. call' = [call EXCEPT ![w.by] = c]
      BY <2>2, <3>1
    <3>5. c # None
      BY <3>3
    <3> QED  BY <1>1, <2>2, <3>3, <3>4, <3>5
  <2> QED  BY <1>2, <2>1, <2>2
<1>4. \A b \in Links!Actors : call[b] # None => Links!Guarded(b, call'[b]) = Links!Guarded(b, call[b])
  BY <1>3 DEF Links!Guarded
<1>5. Links!CallInv'
  <2> SUFFICES ASSUME NEW b \in Links!Actors, call'[b] # None
               PROVE  Links!CallOK(b, call[b])'
    BY DEF Links!CallInv
  <2>1. call[b] # None /\ Links!CallOK(b, call[b])
    BY <1>3
  <2> QED  BY <2>1, <1>3, <1>4 DEF Links!CallOK, Links!Guarded
<1>6. Links!TypeOK'
  <2>1. \A b \in Links!Actors : call'[b] # None /\ call'[b].at = "answer" /\ (b = "roa" \/ call'[b].link # None) => holder' = b
    BY <1>5 DEF Links!CallInv, Links!CallOK, Links!Guarded
  <2> QED  BY <2>1, <1>3 DEF Links!TypeOK
<1>7. Links!RequestInv'
  BY DEF Links!RequestInv
<1>8. Links!LinkInv'
  <2> SUFFICES ASSUME unanswered = {} PROVE Links!LinkInv'
    BY DEF Links!LinkInv
  <2>1. \A v \in wire' : v.by # w.by
    BY DEF Links!LinkInv
  <2>2. \A v \in wire' : Links!Awaited(v)'
    <3> SUFFICES ASSUME NEW v \in wire' PROVE Links!Awaited(v)'
      OBVIOUS
    <3>1. Links!Awaited(v) /\ v.by \in Links!Actors
      BY DEF Links!LinkInv, Links!Request
    <3>2. call'[v.by] = call[v.by]
      BY <1>3, <2>1, <3>1
    <3> QED  BY <3>1, <3>2 DEF Links!Awaited
  <2>3. Links!Awaited(w)
    BY DEF Links!LinkInv
  <2>4. ASSUME NEW b \in Links!Resources, call'[b] # None, Links!Guarded(b, call'[b]), Links!Sending(b)'
        PROVE  route' # None /\ route'.link = call'[b].link
    <3>1. call[b] # None /\ call'[b].at = call[b].at /\ call'[b].link = call[b].link /\ Links!Guarded(b, call[b])
      BY <1>3, <1>4, <2>4
    <3>2. b # w.by
      BY <2>1, <2>3, <2>4, <3>1 DEF Links!Sending, Links!Awaited
    <3>3. Links!Sending(b)
      BY <2>4, <3>1 DEF Links!Sending
    <3>4. route # None /\ route.link = call[b].link
      BY <3>1, <3>3 DEF Links!LinkInv
    <3> QED  BY <3>1, <3>2, <3>3, <3>4
  <2>5. \A b \in Links!Resources : Links!Guarded(b, call[b])' = Links!Guarded(b, call'[b])
    BY DEF Links!Guarded
  <2>6. \A v, u \in wire' : v.by = u.by => v = u
    BY DEF Links!LinkInv
  <2> QED  BY <2>2, <2>4, <2>5, <2>6 DEF Links!LinkInv
<1> QED  BY <1>5, <1>6, <1>7, <1>8 DEF Links!IInv

\* A mutation is refused, or carried out: one that changes the link runs
\* under the lock, so that no other guarded call is about to write.
LEMMA LinksServe ==
  ASSUME Links!Assumption, Links!IInv, NEW w \in wire, Links!Execute(w) \/ Links!Refuse(w)
  PROVE  Links!IInv'
<1> USE LinksTypes
<1>1. /\ w \in Links!Request /\ w.by \in Links!Actors /\ (w.op = "put" => w.text \in RouteTexts)
      /\ w.link \in LinkROAs \cup {None} /\ (route # None => route.link \in LinkROAs \cup {None} /\ route.text \in RouteTexts)
  BY DEF Links!Request, Links!RequestInv, Links!Route
<1>2. [ok |-> FALSE, route |-> None] \in Links!Answer
  BY DEF Links!Answer
<1>3. CASE Links!Refuse(w)
  <2>1. {[ok |-> FALSE, route |-> None]} \in SUBSET Links!Answer
    BY <1>2
  <2> QED  BY <1>3, <2>1, LinksServed DEF Links!Refuse
<1>4. CASE Links!Execute(w)
  <2>1. route' = Links!Result(w)
    BY <1>4 DEF Links!Execute
  <2>2. w.op = "put" => route' = None \/ (route # None /\ route' = [route EXCEPT !.text = w.text])
    BY <2>1 DEF Links!Result
  <2>3. w.op = "unlink" => route' = None \/ (route # None /\ route' = [route EXCEPT !.link = None])
    BY <2>1 DEF Links!Result
  <2>4. w.op \in {"delete", "remove"} => route' = None
    BY <2>1 DEF Links!Result
  <2>5. ASSUME w.op = "link" PROVE route' \in Links!Route \cup {None}
    <3>1. PICK l : l = w.link
      OBVIOUS
    <3>2. PICK t \in RouteTexts : t = IF route = None THEN Default ELSE route.text
      BY <1>1 DEF Links!Assumption
    <3>3. route' = [link |-> l, text |-> t]
      BY <2>1, <2>5, <3>1, <3>2 DEF Links!Result
    <3>4. l \in LinkROAs \cup {None}
      BY <1>1, <3>1
    <3> QED  BY <3>2, <3>3, <3>4 DEF Links!Route
  <2>6. route' \in Links!Route \cup {None}
    <3>1. w.op \in {"put", "delete", "link", "unlink", "remove"}
      BY <1>1 DEF Links!Request
    <3>2. ASSUME route # None, w.op = "put" PROVE [route EXCEPT !.text = w.text] \in Links!Route
      BY <1>1, <3>2 DEF Links!Route
    <3>3. ASSUME route # None PROVE [route EXCEPT !.link = None] \in Links!Route
      BY <1>1, <3>3 DEF Links!Route
    <3> QED  BY <2>2, <2>3, <2>4, <2>5, <3>1, <3>2, <3>3
  <2>7. {[ok |-> TRUE, route |-> route'], [ok |-> FALSE, route |-> None]} \in SUBSET Links!Answer
    BY <1>2, <2>6 DEF Links!Answer
  <2>8. ASSUME unanswered = {}, route' # route, NEW b \in Links!Resources, call[b] # None, b # w.by,
               Links!Guarded(b, call[b]), Links!Sending(b)
        PROVE  route' # None /\ route'.link = call[b].link
    <3>1. Links!Awaited(w) /\ \A v \in wire : Links!Awaited(v)
      BY <2>8 DEF Links!LinkInv
    <3>2. call[b].at \in {"send", "answer"}
      BY <2>8, <3>1 DEF Links!Sending, Links!Awaited
    <3>3. holder = b
      BY <2>8, <3>2 DEF Links!CallOK
    <3>4. ~Links!Guarded(w.by, call[w.by]) /\ w.by # "roa"
      BY <1>1, <2>8, <3>1, <3>3 DEF Links!CallOK, Links!Awaited, Links!Guarded
    <3>5. w.op = "put"
      BY <1>1, <3>1, <3>4 DEF Links!Awaited, Links!Guarded, Links!CallOK
    <3>6. route # None /\ route.link = call[b].link
      BY <2>8 DEF Links!LinkInv
    <3>7. route' = [route EXCEPT !.text = w.text]
      BY <2>1, <3>5, <3>6 DEF Links!Result
    <3>8. route \in Links!Route
      BY <3>6
    <3>9. route'.link = route.link
      BY <3>7, <3>8 DEF Links!Route
    <3> QED  BY <2>6, <3>6, <3>7, <3>8, <3>9, <1>1, <3>5 DEF Links!Route
  <2>9. /\ wire' = wire \ {w} /\ UNCHANGED <<holder, state, sent, unanswered>>
        /\ Links!Told(w, {[ok |-> TRUE, route |-> route'], [ok |-> FALSE, route |-> None]})
    BY <1>4 DEF Links!Execute
  <2> QED  BY <2>6, <2>7, <2>8, <2>9, LinksServed
<1> QED  BY <1>3, <1>4

LEMMA LinksInit ==
  ASSUME Links!Assumption, Links!Init
  PROVE  Links!IInv
<1>1. Links!TypeOK
  BY DEF Links!Init, Links!TypeOK, Links!Assumption
<1>2. Links!CallInv /\ Links!RequestInv
  BY DEF Links!Init, Links!CallInv, Links!RequestInv
<1>3. Links!LinkInv
  BY DEF Links!Init, Links!LinkInv, Links!Resources, Links!Actors
<1> QED  BY <1>1, <1>2, <1>3 DEF Links!IInv

LEMMA LinksStep ==
  ASSUME Links!Assumption, Links!IInv, [Links!Next]_Links!vars
  PROVE  Links!IInv'
<1>1. ASSUME NEW t \in RouteTexts, NEW r \in LinkROAs \cup {None}, Links!StartMetadata(t, r) \/ Links!StartLinked(t, r)
      PROVE  Links!IInv'
  BY <1>1, LinksStarts
<1>2. ASSUME NEW r \in LinkROAs \cup {None},
             Links!StartDelete(r) \/ \E op \in {"link", "unlink", "remove"} : Links!StartTransaction(op, r)
      PROVE  Links!IInv'
  <2>1. Default \in RouteTexts
    BY DEF Links!Assumption
  <2> QED  BY <1>2, <2>1, LinksStarts
<1>3. CASE (\E a \in Links!Resources : Links!Read(a)) \/ Links!Forget
  BY <1>3, LinksReads
<1>4. ASSUME NEW a \in Links!Actors, Links!CallStep(a)
      PROVE  Links!IInv'
  BY <1>4, LinksCalls, LinksSend DEF Links!CallStep
<1>5. ASSUME NEW w \in wire, Links!Execute(w) \/ Links!Refuse(w)
      PROVE  Links!IInv'
  BY <1>5, LinksServe
<1>6. CASE UNCHANGED Links!vars
  BY <1>6 DEF Links!vars, Links!IInv, Links!TypeOK, Links!CallInv, Links!CallOK, Links!RequestInv, Links!LinkInv,
              Links!Guarded, Links!Awaited, Links!Sending
<1> QED  BY <1>1, <1>2, <1>3, <1>4, <1>5, <1>6 DEF Links!Next

\* A linked write only changes a route with the link that it expects.
LEMMA LinksScoped ==
  ASSUME Links!Assumption, Links!IInv, [Links!Next]_Links!vars
  PROVE  Links!LinkedWritesAreScoped
<1> SUFFICES ASSUME unanswered = {}, NEW w \in wire, Links!Writes(w), w.link # None
             PROVE  route.link = w.link
  BY DEF Links!LinkedWritesAreScoped
<1> USE LinksTypes
<1>1. w \in wire \ wire' /\ w.op \in {"put", "delete"} /\ w.by \in Links!Actors
  BY DEF Links!Writes, Links!Request
<1>2. Links!Awaited(w)
  BY DEF Links!LinkInv
<1>3. w.by \in Links!Resources /\ Links!Guarded(w.by, call[w.by]) /\ Links!Sending(w.by) /\ call[w.by] # None
  BY <1>1, <1>2 DEF Links!Awaited, Links!CallOK, Links!Actors, Links!Guarded, Links!Sending
<1> QED  BY <1>2, <1>3 DEF Links!LinkInv, Links!Awaited

\* Of a linked route: a linked write and a transaction hold the lock from
\* their check to their answer, so that the link stays as it was checked.
THEOREM LinksInductive == ASSUME Links!Assumption PROVE Links!Spec => []Links!IInv
<1>1. Links!Init => Links!IInv
  BY LinksInit
<1>2. Links!IInv /\ [Links!Next]_(Links!vars) => Links!IInv'
  BY LinksStep
<1> QED  BY <1>1, <1>2, PTL DEF Links!Spec

\* "Changing links must not let a stale planned update mutate another ROA's
\* route": unless a call was abandoned, a linked update or deletion only
\* changes the route under the link that it expects.
THEOREM LinksAreRespected ==
  ASSUME Links!Assumption
  PROVE  Links!Spec => [][Links!LinkedWritesAreScoped]_(Links!vars)
<1>1. Links!IInv /\ [Links!Next]_(Links!vars) => Links!LinkedWritesAreScoped
  BY LinksScoped
<1> QED  BY <1>1, LinksInductive, PTL DEF Links!Spec
=============================================================================
