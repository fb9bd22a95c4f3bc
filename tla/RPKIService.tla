---------------------------- MODULE RPKIService ----------------------------
(***************************************************************************)
(* The hosted RPKI inventories of one organization, and the transactions   *)
(* that change them.                                                       *)
(*                                                                         *)
(* A transaction is one POST that adds and deletes ROAs and ASPAs as a     *)
(* whole or is rejected as a whole.  Its answer may be lost, late or only  *)
(* partly decodable, and the service may answer before the inventories     *)
(* show the change.  The resources of this organization extend this module *)
(* with their calls.                                                       *)
(***************************************************************************)
EXTENDS Naturals, FiniteSets

CONSTANTS
  Handles,      \* ROA handles
  Objects,      \* ROA contents: name, origin and prefixes with their lengths
  Key,          \* the origin and prefix of each content
  Customers,    \* customer ASNs
  ProviderSets, \* the provider sets of an ASPA
  None,         \* nil
  MaxSubmits,   \* bound: transactions sent
  MaxEdits      \* bound: changes made through other channels

ServiceAssumption ==
  /\ DOMAIN Key = Objects /\ None \notin Handles \cup Objects \cup ProviderSets
  /\ {MaxSubmits, MaxEdits} \subseteq Nat

VARIABLES
  roas,     \* the ROA inventory by handle
  aspas,    \* the ASPA inventory by customer
  by,       \* history: the transaction that made each ROA, 0 for another channel
  wire,     \* transactions sent and not yet carried out
  sent,     \* the number of transactions sent
  edits     \* bound: changes made through other channels so far

service == <<roas, aspas, by, wire, sent, edits>>

ROAs == [Handles -> Objects \cup {None}]
ASPAs == [Customers -> ProviderSets \cup {None}]
Tx == [addROAs : SUBSET Objects, deleteROAs : SUBSET Handles,
       addASPAs : ASPAs, deleteASPAs : SUBSET Customers]

\* Which handle each added content gets; part of it is a receipt.
Receipt == UNION {[added -> Handles] : added \in SUBSET Objects}
Request == [n : 1 .. MaxSubmits, tx : Tx, given : Receipt \cup {None}]
NoReceipt == [o \in {} |-> None]

\* What ApplyRPKITransaction returns before it verifies: a receipt that can
\* be verified, an undecodable or unconfirmed one, an APIError, or nothing.
Answer == [kind : {"ok", "unverified", "rejected", "uncertain"}, receipt : Receipt]

ServiceInit ==
  /\ roas = [h \in Handles |-> None] /\ aspas = [c \in Customers |-> None]
  /\ by = [h \in Handles |-> 0] /\ wire = {} /\ sent = 0 /\ edits = 0

ServiceTypeOK ==
  /\ roas \in ROAs /\ aspas \in ASPAs /\ by \in [Handles -> 0 .. MaxSubmits]
  /\ wire \subseteq Request /\ sent \in 0 .. MaxSubmits /\ edits \in 0 .. MaxEdits
-----------------------------------------------------------------------------
NoTx == [addROAs |-> {}, deleteROAs |-> {},
         addASPAs |-> [c \in Customers |-> None], deleteASPAs |-> {}]
Empty(t) == t = NoTx
Live(R) == {h \in Handles : R[h] # None}

\* ARIN keeps one ROA for an origin and prefix and one ASPA for a customer.
Acceptable(t) ==
  /\ t.deleteROAs \subseteq Live(roas)
  /\ \A o \in t.addROAs : \A h \in Live(roas) \ t.deleteROAs : Key[roas[h]] # Key[o]
  /\ \A c \in t.deleteASPAs : aspas[c] # None
  /\ \A c \in Customers : t.addASPAs[c] # None => aspas[c] = None \/ c \in t.deleteASPAs

\* New handles, which may be those of ROAs deleted before.
Assignments(t) ==
  {f \in [t.addROAs -> (Handles \ Live(roas)) \cup t.deleteROAs] :
     \A o, p \in t.addROAs : f[o] = f[p] => o = p}

Apply(r, given) ==
  LET t == r.tx
      Added(h) == {o \in t.addROAs : given[o] = h} IN
  /\ roas' = [h \in Handles |-> IF Added(h) # {} THEN CHOOSE o \in Added(h) : TRUE
                                ELSE IF h \in t.deleteROAs THEN None ELSE roas[h]]
  /\ by' = [h \in Handles |-> IF Added(h) # {} THEN r.n ELSE by[h]]
  /\ aspas' = [c \in Customers |-> IF t.addASPAs[c] # None THEN t.addASPAs[c]
                                   ELSE IF c \in t.deleteASPAs THEN None ELSE aspas[c]]

\* One POST, sent once.
Post(t) ==
  /\ sent < MaxSubmits /\ sent' = sent + 1
  /\ wire' = wire \cup {[n |-> sent', tx |-> t, given |-> None]}
  /\ UNCHANGED <<roas, aspas, by, edits>>

\* decodeRPKITransaction returns what it could decode beside its errors; a
\* status other than 200 and 201, or a missing addition, is an error too.
Readings(given) ==
  {[kind |-> "ok", receipt |-> given]} \cup
  {[kind |-> "unverified", receipt |-> [o \in some |-> given[o]]] : some \in SUBSET DOMAIN given}
Rejected == [kind |-> "rejected", receipt |-> NoReceipt]
Uncertain == [kind |-> "uncertain", receipt |-> NoReceipt]

\* The transaction takes effect and is answered, is answered before it takes
\* effect, takes effect after its answer, or is refused.  Told says what the
\* caller makes of the answers.
CarryOut(r, Told(_)) ==
  /\ r.given = None /\ Acceptable(r.tx)
  /\ \E given \in Assignments(r.tx) : Apply(r, given) /\ Told(Readings(given))
  /\ wire' = wire \ {r} /\ UNCHANGED <<sent, edits>>
AnswerFirst(r, Told(_)) ==
  /\ r.given = None /\ Acceptable(r.tx)
  /\ \E given \in Assignments(r.tx) :
       wire' = (wire \ {r}) \cup {[r EXCEPT !.given = given]} /\ Told(Readings(given))
  /\ UNCHANGED <<roas, aspas, by, sent, edits>>
Complete(r) ==
  /\ r.given # None /\ Acceptable(r.tx) /\ r.given \in Assignments(r.tx)
  /\ Apply(r, r.given)
  /\ wire' = wire \ {r} /\ UNCHANGED <<sent, edits>>
Refuse(r, Told(_)) ==
  /\ wire' = wire \ {r}
  /\ IF r.given = None THEN Told({Rejected}) ELSE Told({})
  /\ UNCHANGED <<roas, aspas, by, sent, edits>>

\* Another channel adds, removes or changes a single object.
Edit(mayAdd) ==
  /\ edits < MaxEdits /\ edits' = edits + 1
  /\ \/ /\ \E h \in Live(roas) : roas' = [roas EXCEPT ![h] = None]
        /\ UNCHANGED <<aspas, by>>
     \/ /\ \E h \in mayAdd \ Live(roas), o \in Objects :
             /\ \A g \in Live(roas) : Key[roas[g]] # Key[o]
             /\ roas' = [roas EXCEPT ![h] = o] /\ by' = [by EXCEPT ![h] = 0]
        /\ UNCHANGED aspas
     \/ /\ \E c \in Customers, v \in ProviderSets \cup {None} :
             v # aspas[c] /\ aspas' = [aspas EXCEPT ![c] = v]
        /\ UNCHANGED <<roas, by>>
  /\ UNCHANGED <<wire, sent>>

\* verifyRPKITransaction: the inventories read after the answer show every
\* addition under the handle the receipt names, and no deleted object.
Verified(t, receipt) ==
  /\ \A o \in t.addROAs : roas[receipt[o]] = o
  /\ \A h \in t.deleteROAs : (\E o \in t.addROAs : receipt[o] = h) \/ roas[h] = None
  /\ \A c \in Customers : t.addASPAs[c] # None => aspas[c] = t.addASPAs[c]
  /\ \A c \in t.deleteASPAs : t.addASPAs[c] # None \/ aspas[c] = None
=============================================================================
