------------------------------- MODULE RowKeys -------------------------------
(***************************************************************************)
(* The keys of listeners, clients and subjects (protocol/keys.go): minted  *)
(* by PSP from a row id, echoed by an agent, and recovered by the report   *)
(* validators, which tell entries apart by their spelling.  The peer may   *)
(* spell a key in any way.                                                 *)
(*                                                                         *)
(* A key is its prefix and the characters that follow; Numerals are the    *)
(* digits of the base, and the machine's integers end at MaxInt.  Parsing  *)
(* and formatting of integers are the library's (strconv).                 *)
(***************************************************************************)
EXTENDS Integers, Sequences, FiniteSets

CONSTANTS Numerals,      \* the digits, the smallest first
          MaxInt,        \* math.MaxInt64
          MaxLength,     \* characters after the prefix
          MaxEntries     \* entries of a report

VARIABLES seen,          \* the entries the validator has taken
          last           \* the one it refused, or NoEntry

vars == <<seen, last>>

Kinds == {"listener", "client", "subject"}

Prefix == [listener |-> "lst_", client |-> "cli_", subject |-> "usr_"]

Base   == Len(Numerals)
Digits == {Numerals[k] : k \in 1..Base}
DigitValue(c) == (CHOOSE k \in 1..Base : Numerals[k] = c) - 1

Spellings == UNION {[1..n -> Digits \cup {"+", "-", "x"}] : n \in 0..MaxLength}

Entries == [kind : Kinds, prefix : {"lst_", "cli_", "usr_", "id_"}, rest : Spellings]

NoEntry == [kind |-> "none", prefix |-> "", rest |-> <<>>]

-----------------------------------------------------------------------------
(* strconv *)

Value(digits) ==
  LET upTo[k \in 0..Len(digits)] ==
        IF k = 0 THEN 0 ELSE Base * upTo[k - 1] + DigitValue(digits[k])
  IN  upTo[Len(digits)]

Signed(s)    == s # <<>> /\ s[1] \in {"+", "-"}
Magnitude(s) == IF Signed(s) THEN Tail(s) ELSE s
Numeric(s)   == Magnitude(s) # <<>> /\ \A k \in DOMAIN Magnitude(s) : Magnitude(s)[k] \in Digits
Number(s)    == IF Signed(s) /\ s[1] = "-" THEN -Value(Magnitude(s)) ELSE Value(Magnitude(s))

InRange(n) == n \in (-MaxInt - 1)..MaxInt

FormatInt(n) ==
  LET decimal[k \in 0..MaxInt] ==
        IF k < Base THEN <<Numerals[k + 1]>>
                    ELSE Append(decimal[k \div Base], Numerals[(k % Base) + 1])
  IN  decimal[n]

-----------------------------------------------------------------------------
(* A failed parse is zero, which is no row. *)
parseOrZero(s) == IF Numeric(s) /\ InRange(Number(s)) THEN Number(s) ELSE 0

(* Mutant: whatever parses is a row id. *)
AnySpelling(rest, n) == n > 0

Canonical(rest, n) == n > 0 /\ rest = FormatInt(n)

HasRowID(kind, prefix, rest) ==
  prefix = Prefix[kind] /\ Canonical(rest, parseOrZero(rest))

Minted(kind, id) == [kind |-> kind, prefix |-> Prefix[kind], rest |-> FormatInt(id)]

-----------------------------------------------------------------------------
Init == seen = {} /\ last = NoEntry

Take(e) ==
  /\ last = NoEntry /\ Cardinality(seen) < MaxEntries
  /\ HasRowID(e.kind, e.prefix, e.rest) /\ e \notin seen
  /\ seen' = seen \cup {e} /\ UNCHANGED last

Refuse(e) ==
  /\ last = NoEntry /\ Cardinality(seen) < MaxEntries
  /\ ~HasRowID(e.kind, e.prefix, e.rest) \/ e \in seen
  /\ last' = e /\ UNCHANGED seen

Next == \E e \in Entries : Take(e) \/ Refuse(e)

Spec == Init /\ [][Next]_vars

-----------------------------------------------------------------------------
(* Properties *)

(* No object holds two identities in a membership set: entries that any    *)
(* reader takes for the same row of the same table are one entry (rowID:   *)
(* "two spellings of one row id").                                         *)
OneIdentityPerRow ==
  \A a, b \in seen :
    a.kind = b.kind /\ Number(a.rest) = Number(b.rest) => a = b

(* What PSP mints is never refused when it comes back, up to the largest   *)
(* id, unless it comes twice (NewListenerKey and its siblings, RowID).     *)
MintedComesBack ==
  \A kind \in Kinds, id \in 1..MaxInt : last = Minted(kind, id) => last \in seen

(* A spelling stands for a row exactly if it is the one PSP mints for it   *)
(* (keys.go), so membership can be decided by comparing strings.           *)
KeysNameRows == OneIdentityPerRow /\ MintedComesBack
==============================================================================
