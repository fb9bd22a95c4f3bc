-------------------------- MODULE ResourceParsing --------------------------
(***************************************************************************)
(* The parsers that turn a list of resources into ranges, one item at a    *)
(* time: parseRPKIASChoice and parseRPKIIPChoice on the DER of a           *)
(* certificate (RFC 3779), and upDownResources with issueASRanges and      *)
(* issueIPRanges on the text of an up-down message.  The DER has one       *)
(* encoding for a set of numbers, the text has several.                    *)
(***************************************************************************)
EXTENDS Integers, Sequences

CONSTANTS
  Bits,         \* the length of an AS number or address: 32 or 128
  MaxItems      \* bound: items of a list

Assumption == Bits \in Nat \ {0} /\ MaxItems \in Nat

\* Power[k] is 2^k.
Power[k \in 0 .. Bits] == IF k = 0 THEN 1 ELSE 2 * Power[k - 1]
Limit == Power[Bits] - 1
INSTANCE ResourceRanges

VARIABLES
  syntax,       \* "AS" or "IP" in DER, "AS text" or "IP text"
  items,        \* the items read so far
  out,          \* the ranges so far
  result        \* "running", "done" or "refused"

vars == <<syntax, items, out, result>>

DER == {"AS", "IP"}
Syntaxes == DER \cup {"AS text", "IP text"}
Last(s) == s[Len(s)]

\* The first len bits of an address, and the addresses that start with them.
BitString == {s \in [len : 0 .. Bits, value : Number] : s.value < Power[s.len]}
Address(s, fill) ==
  s.value * Power[Bits - s.len] + (IF fill THEN Power[Bits - s.len] - 1 ELSE 0)

\* An item is one number or prefix, or a range.  An AS number may be out of
\* range; a text prefix is an address and a length.
Item(form, lows, highs) == [form : {form}, lo : lows, hi : highs]
Singles(S) == {[form |-> "single", lo |-> x, hi |-> x] : x \in S}
Items ==
  CASE syntax = "AS" -> Singles(-1 .. Limit + 1) \cup Item("range", -1 .. Limit + 1, -1 .. Limit + 1)
    [] syntax = "IP" -> Singles(BitString) \cup Item("range", BitString, BitString)
    [] syntax = "AS text" -> Singles(0 .. Limit + 1) \cup Item("range", 0 .. Limit + 1, 0 .. Limit + 1)
    [] OTHER -> Singles(Number) \cup Item("range", Number, Number) \cup Item("prefix", Number, 0 .. Bits)

Init == syntax \in Syntaxes /\ items = <<>> /\ out = <<>> /\ result = "running"
-----------------------------------------------------------------------------
(* One item *)

Prefix(e) == [len |-> e.hi, value |-> e.lo \div Power[Bits - e.hi]]
Low(e) == IF syntax = "IP" THEN Address(e.lo, FALSE) ELSE e.lo
High(e) ==
  CASE syntax = "IP" -> Address(e.hi, TRUE)
    [] e.form = "prefix" -> Address(Prefix(e), TRUE)
    [] OTHER -> e.hi

\* rpkiRangeIsPrefix: from the first bit that differs, all differ.
Bit(x, k) == (x \div Power[k]) % 2
RangeIsPrefix(low, high) ==
  \E k \in 0 .. Bits : \A p \in 0 .. Bits - 1 :
    IF p >= k THEN Bit(low, p) = Bit(high, p) ELSE Bit(low, p) = 0 /\ Bit(high, p) = 1

\* A minimum is written without its last zeros, a maximum without its last ones.
Minimal_Any(e) == TRUE
Minimal(e) ==
  /\ e.lo.len > 0 => e.lo.value % 2 = 1
  /\ e.hi.len > 0 => e.hi.value % 2 = 0
InRange_SignOnly(e) == e.lo >= 0
InRange_BelowLimit(e) == e.lo >= 0 /\ e.hi < Limit
InRange(e) == e.lo >= 0 /\ e.hi <= Limit
WellFormed(e) ==
  CASE syntax = "AS" -> (e.form = "range" => e.lo < e.hi) /\ InRange(e)
    [] syntax = "IP" ->
         e.form = "range" =>
           Minimal(e) /\ Low(e) < High(e) /\ ~RangeIsPrefix(Low(e), High(e))
    [] syntax = "AS text" -> e.lo <= e.hi /\ InRange(e)
    [] OTHER -> e.form # "single" /\ Low(e) <= High(e)
                  /\ (e.form = "prefix" => e.lo = Address(Prefix(e), FALSE))

\* In DER two ranges that touch would have been written as one.
InOrder_Overflows(e) ==
  out # <<>> => Low(e) > (Last(out).max + (IF syntax \in DER THEN 1 ELSE 0)) % Power[Bits]
InOrder(e) ==
  out # <<>> => Low(e) > Last(out).max + (IF syntax \in DER THEN 1 ELSE 0)

\* The text of two ranges that touch is taken as one range.
Extended_Apart(e) == Append(out, [min |-> Low(e), max |-> High(e)])
Extended_Overwritten(e) ==
  IF out # <<>> /\ Last(out).max + 1 = Low(e)
  THEN [out EXCEPT ![Len(out)] = [min |-> Low(e), max |-> High(e)]]
  ELSE Append(out, [min |-> Low(e), max |-> High(e)])
Extended(e) ==
  IF out # <<>> /\ Last(out).max + 1 = Low(e)
  THEN [out EXCEPT ![Len(out)].max = High(e)]
  ELSE Append(out, [min |-> Low(e), max |-> High(e)])

\* The text is checked whole before any of it is taken: what a refused list
\* had given is dropped, so the two passes are one here.
Take(e) ==
  /\ WellFormed(e) /\ InOrder(e)
  /\ out' = Extended(e) /\ result' = result
RefuseItem(e) == ~(WellFormed(e) /\ InOrder(e)) /\ result' = "refused" /\ out' = <<>>
ReadItem ==
  /\ result = "running" /\ Len(items) < MaxItems
  /\ \E e \in Items : items' = Append(items, e) /\ (Take(e) \/ RefuseItem(e))
  /\ UNCHANGED syntax

\* An empty text is no resources; an empty list in DER is refused.
End ==
  /\ result = "running"
  /\ result' = IF items = <<>> /\ syntax \in DER THEN "refused" ELSE "done"
  /\ UNCHANGED <<syntax, items, out>>

Next == ReadItem \/ End
Spec == Init /\ [][Next]_vars
-----------------------------------------------------------------------------
(* Properties *)

\* Items, ranges and the result keep to their domains: a range never holds a
\* number that its type cannot.
TypeOK ==
  /\ syntax \in Syntaxes /\ \A k \in DOMAIN items : items[k] \in Items
  /\ Len(items) <= MaxItems
  /\ out \in Seq(NumberRange) /\ result \in {"running", "done", "refused"}

\* The encoding of a range, by the definition of RFC 3779: a prefix if it is
\* one, and otherwise its two ends in the fewest bits.
Shortest(S) == CHOOSE s \in S : \A t \in S : s.len <= t.len
Starting(x) == {s \in BitString : Address(s, FALSE) = x}
Ending(x) == {s \in BitString : Address(s, TRUE) = x}
PrefixesOf(r) == Starting(r.min) \cap Ending(r.max)
Encoding(r) ==
  CASE syntax \in {"AS", "AS text"} ->
         [form |-> IF r.min = r.max THEN "single" ELSE "range", lo |-> r.min, hi |-> r.max]
    [] syntax = "IP" /\ PrefixesOf(r) # {} ->
         [form |-> "single", lo |-> Shortest(PrefixesOf(r)), hi |-> Shortest(PrefixesOf(r))]
    [] syntax = "IP" /\ PrefixesOf(r) = {} ->
         [form |-> "range", lo |-> Shortest(Starting(r.min)), hi |-> Shortest(Ending(r.max))]
    [] OTHER -> [form |-> "range", lo |-> r.min, hi |-> r.max]
Encodings(s) == [k \in DOMAIN s |-> Encoding(s[k])]
RangeOf(e) == [min |-> Low(e), max |-> High(e)]

\* A certificate's resources are accepted only in the one encoding of their
\* set of numbers: two certificates with the same resources have equal
\* ranges, which is how the code compares them.
OneEncoding ==
  result = "done" /\ syntax \in DER => Canonical(out) /\ items = Encodings(out)

\* An up-down message's text becomes the canonical ranges of exactly the
\* numbers it names, however it splits them.
TextMeansItsNumbers ==
  result = "done" /\ syntax \notin DER =>
    /\ Canonical(out)
    /\ Numbers(out) = UNION {Low(items[k]) .. High(items[k]) : k \in DOMAIN items}

\* No certificate or message that encodes its ranges in the canonical way is
\* refused.
NoEncodingIsRefused ==
  result = "refused" =>
    LET s == [k \in DOMAIN items |-> RangeOf(items[k])]
    IN  items # <<>> /\ s \in [DOMAIN items -> NumberRange] /\ Canonical(s)
          => items # Encodings(s)
-----------------------------------------------------------------------------
(* The inductive invariant: the ranges so far are those of the items so    *)
(* far, which in DER are their encodings.                                  *)

ParsedSoFar ==
  /\ Canonical(out)
  /\ items = <<>> <=> out = <<>>
  /\ items # <<>> => Last(out).max = High(Last(items))
  /\ IF syntax \in DER
     THEN /\ Len(out) = Len(items)
          /\ \A k \in DOMAIN items : out[k] = RangeOf(items[k]) /\ items[k] = Encoding(out[k])
     ELSE Numbers(out) = UNION {Low(items[k]) .. High(items[k]) : k \in DOMAIN items}
IInv ==
  /\ TypeOK /\ items \in Seq(Items)
  /\ result # "refused" => ParsedSoFar
  /\ NoEncodingIsRefused
=============================================================================
