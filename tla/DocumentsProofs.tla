--------------------------- MODULE DocumentsProofs ---------------------------
(***************************************************************************)
(* What is known of every document that crosses the wire, whatever samples,*)
(* reports and requests a peer may send, and not only those a run tries.   *)
(*                                                                         *)
(* The host sample.  A check that follows a pointer comes after one of the *)
(* same part of the sample that refuses a nil one: this is shown of each   *)
(* list of checks, and is kept when lists are joined.  The invariant is    *)
(* that the checks passed so far do hold, so that the one a check relies   *)
(* on has spoken for the pointer, and one that was accepted has passed     *)
(* them all: its counters were bounded before they were added.             *)
(*                                                                         *)
(* The exact decoder.  The keys seen are those of the fields read so far,  *)
(* and no two of these have the same.                                      *)
(*                                                                         *)
(* The agent's own diagnostic.  Sorting by ranks permutes the log and puts *)
(* it in order, so each of the two cuts keeps an end of what it is given.  *)
(* The end of a sequence in order is the newest of it: an event of which   *)
(* some occurrence is missing has one before the cut.  The encoding leaves *)
(* out empty sections only, and is read back as what was encoded.          *)
(*                                                                         *)
(* The report.  A loop has taken the entries it has gone past and knows    *)
(* their identities, so a whole list is judged as the reference judges it; *)
(* what was accepted is shown to survive either encoding, field by field.  *)
(*                                                                         *)
(* The row keys.  FormatInt has a value for every number, written without  *)
(* a zero in front, and two different numbers never have the same.         *)
(*                                                                         *)
(* Lists and fleets keep the invariants of OutboxProofs and of             *)
(* FleetQuotaProofs among all other documents.                             *)
(***************************************************************************)
EXTENDS Documents, OutboxProofs, FleetQuotaProofs, FiniteSetTheorems

-----------------------------------------------------------------------------
(* ValidateHostObservation: each check comes after the one it relies on.   *)

(* The check that lets another one follow its pointers.                    *)
ReliesOn(check, earlier) ==
  \/ check = "quota positive" /\ earlier = "quota paired"
  \/ check = "throttled within periods" /\ earlier = "throttle complete"
  \/ check = "inodes" /\ earlier = "inodes paired"

Relying == {"quota positive", "throttled within periods", "inodes"}

IsList(s) == \E U : s \in Seq(U)

(* A list of names, and a list of checks, in an order that is safe.        *)
InOrder(names) ==
  /\ IsList(names)
  /\ \A n \in 1..Len(names) : \A c : ReliesOn(names[n], c) =>
       \E m \in 1..(n - 1) : names[m] = c

Safe(checks) ==
  /\ IsList(checks)
  /\ \A n \in 1..Len(checks) : \A c : ReliesOn(checks[n].check, c) =>
       \E m \in 1..(n - 1) : checks[m].check = c /\ checks[m].on = checks[n].on

(* A function on 1..n is a list.                                           *)
LEMMA ListsAreLists ==
  ASSUME NEW s, NEW n \in Nat, Len(s) = n, s = [k \in 1..n |-> s[k]]
  PROVE  IsList(s)
<1>1. s \in Seq({s[k] : k \in 1..n})
  OBVIOUS
<1> QED BY <1>1 DEF IsList

(* A list of names none of which relies on another is in order.            *)
LEMMA QuietLists ==
  ASSUME NEW s, NEW n \in Nat, Len(s) = n, s = [k \in 1..n |-> s[k]],
         \A k \in 1..n : s[k] \notin Relying
  PROVE  InOrder(s)
BY ListsAreLists DEF InOrder, Relying, ReliesOn

(* The same of lists written out, of up to six names.                      *)
LEMMA QuietListOf1 ==
  ASSUME NEW a,
         {a} \cap Relying = {}
  PROVE  InOrder(<<a>>)
<1> DEFINE s == <<a>>
<1>1. Len(s) = 1 /\ s = [k \in 1..1 |-> s[k]]
  OBVIOUS
<1>2. s[1] = a
  OBVIOUS
<1> HIDE DEF s
<1>3. \A k \in 1..1 : s[k] \in {a}
  BY <1>2
<1> QED BY <1>1, <1>3, QuietLists DEF s

LEMMA QuietListOf2 ==
  ASSUME NEW a, NEW b,
         {a, b} \cap Relying = {}
  PROVE  InOrder(<<a, b>>)
<1> DEFINE s == <<a, b>>
<1>1. Len(s) = 2 /\ s = [k \in 1..2 |-> s[k]]
  OBVIOUS
<1>2. s[1] = a /\ s[2] = b
  OBVIOUS
<1> HIDE DEF s
<1>3. \A k \in 1..2 : s[k] \in {a, b}
  BY <1>2
<1> QED BY <1>1, <1>3, QuietLists DEF s

LEMMA QuietListOf3 ==
  ASSUME NEW a, NEW b, NEW c,
         {a, b, c} \cap Relying = {}
  PROVE  InOrder(<<a, b, c>>)
<1> DEFINE s == <<a, b, c>>
<1>1. Len(s) = 3 /\ s = [k \in 1..3 |-> s[k]]
  OBVIOUS
<1>2. s[1] = a /\ s[2] = b /\ s[3] = c
  OBVIOUS
<1> HIDE DEF s
<1>3. \A k \in 1..3 : s[k] \in {a, b, c}
  BY <1>2
<1> QED BY <1>1, <1>3, QuietLists DEF s

LEMMA QuietListOf4 ==
  ASSUME NEW a, NEW b, NEW c, NEW d,
         {a, b, c, d} \cap Relying = {}
  PROVE  InOrder(<<a, b, c, d>>)
<1> DEFINE s == <<a, b, c, d>>
<1>1. Len(s) = 4 /\ s = [k \in 1..4 |-> s[k]]
  OBVIOUS
<1>2. s[1] = a /\ s[2] = b /\ s[3] = c /\ s[4] = d
  OBVIOUS
<1> HIDE DEF s
<1>3. \A k \in 1..4 : s[k] \in {a, b, c, d}
  BY <1>2
<1> QED BY <1>1, <1>3, QuietLists DEF s

LEMMA QuietListOf5 ==
  ASSUME NEW a, NEW b, NEW c, NEW d, NEW e,
         {a, b, c, d, e} \cap Relying = {}
  PROVE  InOrder(<<a, b, c, d, e>>)
<1> DEFINE s == <<a, b, c, d, e>>
<1>1. Len(s) = 5 /\ s = [k \in 1..5 |-> s[k]]
  OBVIOUS
<1>2. s[1] = a /\ s[2] = b /\ s[3] = c /\ s[4] = d /\ s[5] = e
  OBVIOUS
<1> HIDE DEF s
<1>3. \A k \in 1..5 : s[k] \in {a, b, c, d, e}
  BY <1>2
<1> QED BY <1>1, <1>3, QuietLists DEF s

LEMMA QuietListOf6 ==
  ASSUME NEW a, NEW b, NEW c, NEW d, NEW e, NEW f,
         {a, b, c, d, e, f} \cap Relying = {}
  PROVE  InOrder(<<a, b, c, d, e, f>>)
<1> DEFINE s == <<a, b, c, d, e, f>>
<1>1. Len(s) = 6 /\ s = [k \in 1..6 |-> s[k]]
  OBVIOUS
<1>2. s[1] = a /\ s[2] = b /\ s[3] = c /\ s[4] = d /\ s[5] = e /\ s[6] = f
  OBVIOUS
<1> HIDE DEF s
<1>3. \A k \in 1..6 : s[k] \in {a, b, c, d, e, f}
  BY <1>2
<1> QED BY <1>1, <1>3, QuietLists DEF s

(* The lists of checks of every part of a sample are in order              *)
(* (validate.go).                                                          *)
LEMMA NamesAreInOrder ==
  /\ InOrder(Host!SystemCPUChecks) /\ InOrder(Host!CgroupCPUChecks)
  /\ InOrder(Host!SystemMemoryChecks) /\ InOrder(Host!CgroupMemoryChecks)
  /\ InOrder(Host!FilesystemChecks) /\ InOrder(Host!NetworkChecks)
  /\ InOrder(Host!SocketChecks) /\ InOrder(Host!ProcessChecks)
  /\ InOrder(Host!RuntimeChecks)
  /\ InOrder(<<"one of two">>) /\ InOrder(<<"load">>)
  /\ InOrder(<<"epoch", "counters storable">>) /\ InOrder(Host!TuningChecks)
  /\ InOrder(<<"identity", "scope and platform", "token count", "tokens", "distinct tokens">>)
<1>1. InOrder(Host!CgroupCPUChecks)
  <2> DEFINE s == Host!CgroupCPUChecks
  <2>1. Len(s) = 8 /\ s = [k \in 1..8 |-> s[k]]
    BY DEF Host!CgroupCPUChecks
  <2>2. /\ s[1] = "states something" /\ s[2] = "epoch of counters" /\ s[3] = "epoch text"
        /\ s[4] = "quota paired" /\ s[5] = "quota positive" /\ s[6] = "throttle complete"
        /\ s[7] = "throttled within periods" /\ s[8] = "cgroup storable"
    BY DEF Host!CgroupCPUChecks
  <2> HIDE DEF s
  <2>3. ASSUME NEW n \in 1..8, NEW c, ReliesOn(s[n], c)
        PROVE  \E m \in 1..(n - 1) : s[m] = c
    <3>1. n = 1 \/ n = 2 \/ n = 3 \/ n = 4 \/ n = 5 \/ n = 6 \/ n = 7 \/ n = 8
      OBVIOUS
    <3>2. \/ n = 5 /\ c = s[4]
          \/ n = 7 /\ c = s[6]
      BY <2>2, <2>3, <3>1 DEF ReliesOn
    <3> QED BY <3>2
  <2>4. InOrder(s)
    BY <2>1, <2>3, ListsAreLists DEF InOrder
  <2> QED BY <2>4 DEF s
<1>2. InOrder(Host!FilesystemChecks)
  <2> DEFINE s == Host!FilesystemChecks
  <2>1. Len(s) = 4 /\ s = [k \in 1..4 |-> s[k]]
    BY DEF Host!FilesystemChecks
  <2>2. s[1] = "total storable" /\ s[2] = "available" /\ s[3] = "inodes paired" /\ s[4] = "inodes"
    BY DEF Host!FilesystemChecks
  <2> HIDE DEF s
  <2>3. ASSUME NEW n \in 1..4, NEW c, ReliesOn(s[n], c)
        PROVE  \E m \in 1..(n - 1) : s[m] = c
    <3>1. n = 1 \/ n = 2 \/ n = 3 \/ n = 4
      OBVIOUS
    <3>2. n = 4 /\ c = s[3]
      BY <2>2, <2>3, <3>1 DEF ReliesOn
    <3> QED BY <3>2
  <2>4. InOrder(s)
    BY <2>1, <2>3, ListsAreLists DEF InOrder
  <2> QED BY <2>4 DEF s
<1>3. InOrder(<<"one of two">>) /\ InOrder(<<"load">>)
  BY QuietListOf1 DEF Relying
<1>4. InOrder(<<"epoch", "counters storable">>)
  BY QuietListOf2 DEF Relying
<1>5. InOrder(Host!SocketChecks) /\ InOrder(Host!TuningChecks)
  BY QuietListOf3 DEF Relying, Host!SocketChecks, Host!TuningChecks
<1>6. /\ InOrder(Host!SystemCPUChecks) /\ InOrder(Host!SystemMemoryChecks)
      /\ InOrder(Host!CgroupMemoryChecks) /\ InOrder(Host!RuntimeChecks)
  BY QuietListOf4 DEF Relying, Host!SystemCPUChecks, Host!SystemMemoryChecks,
                      Host!CgroupMemoryChecks, Host!RuntimeChecks
<1>7. /\ InOrder(Host!NetworkChecks)
      /\ InOrder(<<"identity", "scope and platform", "token count", "tokens", "distinct tokens">>)
  BY QuietListOf5 DEF Relying, Host!NetworkChecks
<1>8. InOrder(Host!ProcessChecks)
  BY QuietListOf6 DEF Relying, Host!ProcessChecks
<1> QED BY <1>1, <1>2, <1>3, <1>4, <1>5, <1>6, <1>7, <1>8

(* The checks of one value, if their names are in order.                   *)
LEMMA OneValueIsSafe ==
  ASSUME NEW v, NEW names, InOrder(names)
  PROVE  Safe(Host!Of(names, v))
<1> DEFINE s == Host!Of(names, v)
<1>1. PICK U : names \in Seq(U)
  BY DEF InOrder, IsList
<1>2. Len(names) \in Nat /\ s = [n \in 1..Len(names) |-> [check |-> names[n], on |-> v]]
  BY <1>1 DEF Host!Of
<1>3. \A n \in 1..Len(names) : s[n].check = names[n] /\ s[n].on = v
  BY <1>2
<1>4. s \in Seq({s[n] : n \in 1..Len(names)}) /\ Len(s) = Len(names)
  BY <1>2
<1> HIDE DEF s
<1>5. ASSUME NEW n \in 1..Len(s), NEW c, ReliesOn(s[n].check, c)
      PROVE  \E m \in 1..(n - 1) : s[m].check = c /\ s[m].on = s[n].on
  <2>1. n \in 1..Len(names) /\ s[n].check = names[n] /\ s[n].on = v
    BY <1>3, <1>4
  <2>2. PICK m \in 1..(n - 1) : names[m] = c
    BY <1>5, <2>1 DEF InOrder
  <2>3. m \in 1..Len(names)
    BY <1>2, <2>1
  <2> QED BY <1>3, <2>1, <2>2, <2>3
<1>6. Safe(s)
  BY <1>4, <1>5 DEF Safe, IsList
<1> QED BY <1>6 DEF s

(* Joining two lists of checks keeps each check after the one it relies    *)
(* on.                                                                     *)
LEMMA BothAreSafe ==
  ASSUME NEW s, NEW t, Safe(s), Safe(t)
  PROVE  Safe(s \o t)
<1>1. PICK U : s \in Seq(U)
  BY DEF Safe, IsList
<1>2. PICK W : t \in Seq(W)
  BY DEF Safe, IsList
<1>3. s \in Seq(U \cup W) /\ t \in Seq(U \cup W) /\ Len(s) \in Nat /\ Len(t) \in Nat
  BY <1>1, <1>2
<1> DEFINE u == s \o t
<1>4. /\ u \in Seq(U \cup W) /\ Len(u) = Len(s) + Len(t)
      /\ \A n \in 1..Len(s) : u[n] = s[n]
      /\ \A n \in 1..Len(t) : u[Len(s) + n] = t[n]
  BY <1>3
<1> HIDE DEF u
<1>5. ASSUME NEW n \in 1..Len(u), NEW c, ReliesOn(u[n].check, c)
      PROVE  \E m \in 1..(n - 1) : u[m].check = c /\ u[m].on = u[n].on
  <2>1. CASE n <= Len(s)
    <3>1. n \in 1..Len(s) /\ u[n] = s[n]
      BY <1>3, <1>4, <2>1
    <3>2. PICK m \in 1..(n - 1) : s[m].check = c /\ s[m].on = s[n].on
      BY <1>5, <3>1 DEF Safe
    <3>3. u[m] = s[m]
      BY <1>3, <1>4, <3>1
    <3> QED BY <3>1, <3>2, <3>3
  <2>2. CASE ~(n <= Len(s))
    <3> DEFINE k == n - Len(s)
    <3>1. k \in 1..Len(t) /\ n = Len(s) + k
      BY <1>3, <1>4, <2>2
    <3> HIDE DEF k
    <3>2. u[n] = t[k]
      BY <1>4, <3>1
    <3>3. PICK m \in 1..(k - 1) : t[m].check = c /\ t[m].on = t[k].on
      BY <1>5, <3>1, <3>2 DEF Safe
    <3>4. m \in 1..Len(t) /\ Len(s) + m \in 1..(n - 1)
      BY <1>3, <3>1
    <3>5. u[Len(s) + m] = t[m]
      BY <1>4, <3>4
    <3> QED BY <3>2, <3>3, <3>4, <3>5
  <2> QED BY <2>1, <2>2
<1>6. Safe(u)
  BY <1>4, <1>5 DEF Safe, IsList
<1> QED BY <1>6 DEF u

(* So does leaving a part's checks out because the sample has no such      *)
(* part.                                                                   *)
LEMMA MaybeIsSafe ==
  ASSUME NEW pointer, NEW s, Safe(s)
  PROVE  Safe(Host!If(pointer, s))
<1>1. Safe(<<>>)
  <2>1. <<>> \in Seq({}) /\ Len(<<>>) = 0
    OBVIOUS
  <2> QED BY <2>1 DEF Safe, IsList
<1> QED BY <1>1 DEF Host!If

(* The order of the checks of a sample, whatever it states.                *)
LEMMA SampleChecksAreSafe == \A h : Safe(Host!Checks(h))
<1> SUFFICES ASSUME NEW h PROVE Safe(Host!Checks(h))
  OBVIOUS
<1>1. /\ \A names, v : InOrder(names) => Safe(Host!Of(names, v))
      /\ \A s, t : Safe(s) /\ Safe(t) => Safe(s \o t)
      /\ \A pointer, s : Safe(s) => Safe(Host!If(pointer, s))
  BY OneValueIsSafe, BothAreSafe, MaybeIsSafe
<1>2. Safe(Host!CPUChecks(h.cpu)) /\ Safe(Host!MemoryChecks(h.memory))
  BY <1>1, NamesAreInOrder, Zenon DEF Host!CPUChecks, Host!MemoryChecks
<1>3. /\ Safe(Host!If(h.cpu, Host!CPUChecks(h.cpu)))
      /\ Safe(Host!If(h.memory, Host!MemoryChecks(h.memory)))
      /\ Safe(Host!Of(<<"identity", "scope and platform", "token count", "tokens",
                        "distinct tokens">>, h))
      /\ Safe(Host!If(h.load, Host!Of(<<"load">>, h)))
      /\ Safe(Host!If(h.filesystem, Host!Of(Host!FilesystemChecks, h.filesystem)))
      /\ Safe(Host!If(h.network, Host!Of(Host!NetworkChecks, h.network)))
      /\ Safe(Host!If(h.tcp, Host!Of(<<"epoch", "counters storable">>, h.tcp)))
      /\ Safe(Host!If(h.sockets, Host!Of(Host!SocketChecks, h.sockets)))
      /\ Safe(Host!If(h.runtime, Host!Of(Host!RuntimeChecks, h.runtime)))
      /\ Safe(Host!If(h.tuning, Host!Of(Host!TuningChecks, h.tuning)))
  BY <1>1, <1>2, NamesAreInOrder, Zenon
<1>4. Safe(Host!If(h.processes,
             Host!Of(Host!ProcessChecks, h.processes.agent)
               \o Host!If(h.processes.core, Host!Of(Host!ProcessChecks, h.processes.core))))
  BY <1>1, NamesAreInOrder, Zenon
<1>5. \A s, t : Safe(s) /\ Safe(t) => Safe(s \o t)
  BY <1>1
<1> QED BY <1>3, <1>4, <1>5, ZenonT(60) DEF Host!Checks

-----------------------------------------------------------------------------
(* The three throttle counters are all there or none is: of three          *)
(* pointers, two that differ make one or two.                              *)
LEMMA ThreeOrNone ==
  \A v : Host!ThrottleFields(v) \in {0, 3} => (v.nr_periods # Nil <=> v.nr_throttled # Nil)
<1> SUFFICES ASSUME NEW v, Host!ThrottleFields(v) \in {0, 3}
             PROVE  v.nr_periods # Nil <=> v.nr_throttled # Nil
  OBVIOUS
<1> DEFINE S == {n \in 1..3 : Host!Throttle(v)[n] # Nil}
<1>1. S \subseteq 1..3 /\ IsFiniteSet(1..3) /\ Cardinality(1..3) = 3
  <2>1. \A a, b \in Int : IsFiniteSet(a..b) /\ Cardinality(a..b) = IF a > b THEN 0 ELSE b - a + 1
    BY FS_Interval, Zenon
  <2>2. 1 \in Int /\ 3 \in Int
    OBVIOUS
  <2>3. IsFiniteSet(1..3) /\ Cardinality(1..3) = IF 1 > 3 THEN 0 ELSE 3 - 1 + 1
    BY <2>1, <2>2, Zenon
  <2> HIDE DEF S
  <2>4. Cardinality(1..3) = 3
    BY <2>3
  <2> QED BY <2>3, <2>4 DEF S
<1>2. Cardinality(S) \in {0, 3}
  <2>1. Host!ThrottleFields(v) = Cardinality(S)
    BY Zenon DEF Host!ThrottleFields, Host!Cardinality, Cardinality
  <2> HIDE DEF S
  <2> QED BY <2>1, Zenon
<1>7. IsFiniteSet(S)
  BY <1>1, FS_Subset, Zenon
<1>3. Host!Throttle(v)[1] = v.nr_periods /\ Host!Throttle(v)[2] = v.nr_throttled
  BY DEF Host!Throttle
<1>4. (1 \in S <=> v.nr_periods # Nil) /\ (2 \in S <=> v.nr_throttled # Nil)
  BY <1>3
<1> HIDE DEF S
<1>5. CASE Cardinality(S) = 0
  BY <1>4, <1>5, <1>7, FS_EmptySet
<1>6. CASE Cardinality(S) = 3
  <2>1. S = 1..3
    BY <1>1, <1>6, FS_Subset
  <2> QED BY <1>4, <2>1
<1> QED BY <1>2, <1>5, <1>6

(* What passed before a pointer is followed says that it is not nil.       *)
LEMMA GuardsGuard ==
  ASSUME NEW check, NEW v, Nil \in Host!Dereferences(check, v)
  PROVE  \E c : ReliesOn(check, c) /\ ~Host!Passes(c, v)
<1>1. \/ check = "quota positive" /\ v.quota_us # Nil /\ v.period_us = Nil
      \/ check = "throttled within periods" /\ v.nr_periods # Nil /\ v.nr_throttled = Nil
      \/ check = "inodes" /\ v.total_inodes # Nil /\ v.available_inodes = Nil
  BY DEF Host!Dereferences
<1>2. CASE check = "quota positive" /\ v.quota_us # Nil /\ v.period_us = Nil
  <2>1. ~Host!Passes("quota paired", v)
    BY <1>2 DEF Host!Passes, Host!Paired
  <2> QED BY <1>2, <2>1 DEF ReliesOn
<1>3. CASE check = "throttled within periods" /\ v.nr_periods # Nil /\ v.nr_throttled = Nil
  <2>1. Host!Passes("throttle complete", v) => Host!ThrottleFields(v) \in {0, 3}
    BY DEF Host!Passes
  <2>2. ~(Host!ThrottleFields(v) \in {0, 3})
    <3> SUFFICES ASSUME Host!ThrottleFields(v) \in {0, 3} PROVE FALSE
      OBVIOUS
    <3>1. v.nr_periods # Nil <=> v.nr_throttled # Nil
      BY ThreeOrNone
    <3> QED BY <1>3, <3>1
  <2>3. ~Host!Passes("throttle complete", v)
    BY <2>1, <2>2, Zenon
  <2> QED BY <1>3, <2>3, Zenon DEF ReliesOn
<1>4. CASE check = "inodes" /\ v.total_inodes # Nil /\ v.available_inodes = Nil
  <2>1. ~Host!Passes("inodes paired", v)
    BY <1>4 DEF Host!Passes, Host!Paired
  <2> QED BY <1>4, <2>1 DEF ReliesOn
<1> QED BY <1>1, <1>2, <1>3, <1>4

Sampled ==
  document = "host" =>
    /\ content \in Samples
    /\ answer # "panic" /\ i \in Nat
    /\ i <= Len(Host!Checks(content))
    /\ \A n \in 1..i : Host!Passes(Host!Checks(content)[n].check, Host!Checks(content)[n].on)
    /\ answer = "accepted" => i = Len(Host!Checks(content))

(* Each check that passes extends the checks passed; an accepted sample    *)
(* has passed them all.                                                    *)
LEMMA SampledStays ==
  ASSUME Sampled, [AllNext]_all
  PROVE  Sampled'
<1> SUFFICES ASSUME document = "host" PROVE Sampled'
  BY DEF Sampled, AllNext, all
<1> DEFINE s == Host!Checks(content)
<1>1. document' = document
  BY DEF AllNext, all
<1>2. /\ content \in Samples /\ answer # "panic" /\ i \in Nat /\ i <= Len(s)
      /\ \A n \in 1..i : Host!Passes(s[n].check, s[n].on)
  BY DEF Sampled
<1>3. Safe(s) /\ Len(s) \in Nat
  <2>1. Safe(s)
    BY SampleChecksAreSafe
  <2> HIDE DEF s
  <2>2. PICK U : s \in Seq(U)
    BY <2>1 DEF Safe, IsList
  <2> QED BY <2>1, <2>2
<1>4. CASE Host!Check
  <2>1. /\ i < Len(s) /\ content' = content
        /\ answer' = Host!Judge(s[i + 1])
        /\ i' = IF answer' = "checking" THEN i + 1 ELSE i
    BY <1>4 DEF Host!Check
  <2> HIDE DEF s
  <2>2. Nil \notin Host!Dereferences(s[i + 1].check, s[i + 1].on)
    <3> SUFFICES ASSUME Nil \in Host!Dereferences(s[i + 1].check, s[i + 1].on) PROVE FALSE
      OBVIOUS
    <3>1. PICK c : ReliesOn(s[i + 1].check, c) /\ ~Host!Passes(c, s[i + 1].on)
      BY GuardsGuard
    <3>2. i + 1 \in 1..Len(s) /\ (i + 1) - 1 = i
      BY <1>2, <1>3, <2>1
    <3>3. \E m \in 1..((i + 1) - 1) : s[m].check = c /\ s[m].on = s[i + 1].on
      BY <1>3, <3>1, <3>2, Zenon DEF Safe
    <3>4. PICK m \in 1..i : s[m].check = c /\ s[m].on = s[i + 1].on
      BY <3>2, <3>3
    <3> QED BY <1>2, <3>1, <3>4
  <2>3. /\ answer' \notin {"panic", "accepted"}
        /\ answer' = "checking" => Host!Passes(s[i + 1].check, s[i + 1].on)
    BY <2>1, <2>2 DEF Host!Judge
  <2>4. s' = s
    BY <2>1 DEF s
  <2>5. /\ i' \in Nat /\ i' <= Len(s)
        /\ \A n \in 1..i' : Host!Passes(s[n].check, s[n].on)
    BY <1>2, <1>3, <2>1, <2>3
  <2> QED BY <1>1, <1>2, <2>1, <2>3, <2>4, <2>5 DEF Sampled, s
<1>5. CASE Host!Accept
  <2>1. answer' = "accepted" /\ i' = i /\ content' = content /\ i = Len(s)
    BY <1>5 DEF Host!Accept
  <2> QED BY <1>1, <1>2, <2>1 DEF Sampled
<1>6. CASE UNCHANGED all
  <2>1. answer' = answer /\ i' = i /\ content' = content
    BY <1>6 DEF all, vars
  <2> QED BY <1>1, <2>1 DEF Sampled
<1> QED BY <1>4, <1>5, <1>6 DEF AllNext, Host!Next

(* Before the first check nothing has been passed.                         *)
LEMMA SampledAtFirst == AllInit => Sampled
<1> SUFFICES ASSUME document = "host", AllInit PROVE Sampled
  BY DEF Sampled
<1>1. content \in Samples /\ answer = "checking" /\ i = 0
  BY DEF AllInit, Host!Init
<1>2. Len(Host!Checks(content)) \in Nat
  <2>1. Safe(Host!Checks(content))
    BY SampleChecksAreSafe
  <2>2. PICK U : Host!Checks(content) \in Seq(U)
    BY <2>1 DEF Safe, IsList
  <2> QED BY <2>2
<1> QED BY <1>1, <1>2 DEF Sampled

(* No sample whatever makes the validator follow a nil pointer: the order  *)
(* of its checks is one that guards every pointer (ValidateHostObservation,*)
(* validateCgroupCPU, validateFilesystemObservation).                      *)
THEOREM NilIsNotFollowed == AllSpec => []NoNilDereference
<1>1. AllInit => Sampled
  BY SampledAtFirst
<1>2. Sampled /\ [AllNext]_all => Sampled'
  BY SampledStays
<1>3. Sampled => NoNilDereference
  BY DEF Sampled, NoNilDereference, Host!NoNilDereference
<1> QED BY <1>1, <1>2, <1>3, PTL DEF AllSpec

-----------------------------------------------------------------------------
(* Ranks: a finite set in a strict total order is numbered by how many     *)
(* elements are below each.                                                *)
LEMMA RanksAreAll ==
  ASSUME NEW K, IsFiniteSet(K), NEW below \in [K -> SUBSET K],
         \A k \in K : k \notin below[k],
         \A j \in K, k \in K : j \in below[k] => below[j] \subseteq below[k],
         \A j \in K, k \in K : j = k \/ j \in below[k] \/ k \in below[j]
  PROVE  /\ \A k \in K : 1 + Cardinality(below[k]) \in 1..Cardinality(K)
         /\ \A j \in K, k \in K : j \in below[k] => Cardinality(below[j]) < Cardinality(below[k])
         /\ \A n \in 1..Cardinality(K) : \E k \in K : 1 + Cardinality(below[k]) = n
<1>1. \A k \in K : IsFiniteSet(below[k]) /\ Cardinality(below[k]) \in Nat
  BY FS_Subset, FS_CardinalityType
<1>2. Cardinality(K) \in Nat
  BY FS_CardinalityType
<1>3. ASSUME NEW k \in K PROVE Cardinality(below[k]) < Cardinality(K)
  <2>1. below[k] \in SUBSET K /\ below[k] # K
    OBVIOUS
  <2>2. Cardinality(below[k]) <= Cardinality(K) /\ Cardinality(below[k]) # Cardinality(K)
    BY <2>1, FS_Subset
  <2> QED BY <1>1, <1>2, <2>2
<1>4. ASSUME NEW j \in K, NEW k \in K, j \in below[k]
      PROVE  Cardinality(below[j]) < Cardinality(below[k])
  <2>1. below[j] \in SUBSET below[k] /\ below[j] # below[k]
    BY <1>4
  <2>2. Cardinality(below[j]) <= Cardinality(below[k]) /\ Cardinality(below[j]) # Cardinality(below[k])
    BY <1>1, <2>1, FS_Subset
  <2> QED BY <1>1, <2>2
<1>5. \A k \in K : 1 + Cardinality(below[k]) \in 1..Cardinality(K)
  BY <1>1, <1>2, <1>3
<1>6. \A n \in 1..Cardinality(K) : \E k \in K : 1 + Cardinality(below[k]) = n
  <2> DEFINE N == 1..Cardinality(K)
             f == [k \in K |-> 1 + Cardinality(below[k])]
  <2>1. f \in [K -> N]
    BY <1>5
  <2>2. \A j, k \in K : f[j] = f[k] => j = k
    BY <1>1, <1>4
  <2>3. f \in Injection(K, N)
    BY <2>1, <2>2 DEF Injection, IsInjective
  <2>4. IsFiniteSet(N) /\ Cardinality(N) = Cardinality(K)
    <3>1. \A a, b \in Int : IsFiniteSet(a..b) /\ Cardinality(a..b) = IF a > b THEN 0 ELSE b - a + 1
      BY FS_Interval, Zenon
    <3>2. 1 \in Int /\ Cardinality(K) \in Int
      BY <1>2
    <3>3. IsFiniteSet(N) /\ Cardinality(N) = IF 1 > Cardinality(K) THEN 0 ELSE Cardinality(K) - 1 + 1
      BY <3>1, <3>2, Zenon
    <3> HIDE DEF N
    <3> QED BY <1>2, <3>3
  <2> HIDE DEF f, N
  <2>5. f \in Surjection(K, N)
    BY <2>3, <2>4, FS_Injection
  <2> QED BY <2>5 DEF f, N, Surjection
<1> QED BY <1>4, <1>5, <1>6

(* The positions up to n, and their number.                                *)
LEMMA IntervalIsFinite ==
  ASSUME NEW n \in Nat
  PROVE  IsFiniteSet(1..n) /\ Cardinality(1..n) = n
<1>1. \A a, b \in Int : IsFiniteSet(a..b) /\ Cardinality(a..b) = IF a > b THEN 0 ELSE b - a + 1
  BY FS_Interval, Zenon
<1>2. 1 \in Int /\ n \in Int
  OBVIOUS
<1>3. IsFiniteSet(1..n) /\ Cardinality(1..n) = IF 1 > n THEN 0 ELSE n - 1 + 1
  BY <1>1, <1>2, Zenon
<1> DEFINE N == 1..n
<1>4. IsFiniteSet(N) /\ Cardinality(N) = IF 1 > n THEN 0 ELSE n - 1 + 1
  BY <1>3
<1> HIDE DEF N
<1>5. IsFiniteSet(N) /\ Cardinality(N) = n
  BY <1>4
<1> QED BY <1>5 DEF N

-----------------------------------------------------------------------------
(* The events: sorted, nothing lost, and cut off at the front only.        *)

NotAfter(d, e) == d.at < e.at \/ (d.at = e.at /\ d.code <= e.code)

(* The times and codes of observed events can be compared.                 *)
LEMMA EventsHaveNumbers ==
  \A e \in ObservedEvent : e.at \in Int /\ e.code \in Int /\ e.summary \in Nat /\ Diag!ValidEvent(e)
<1> SUFFICES ASSUME NEW e \in ObservedEvent
             PROVE  e.at \in Int /\ e.code \in Int /\ e.summary \in Nat /\ Diag!ValidEvent(e)
  OBVIOUS
<1>1. /\ e.code \in EventCodes /\ e.severity \in {"info", "warning", "error"}
      /\ e.at \in Nat \ {0} /\ e.summary \in 0..MaxDiagnosticsSummaryBytes
  BY DEF ObservedEvent
<1>2. e.code \in Int
  BY <1>1, DiagnosticsAssumption
<1>3. e.summary \in Nat /\ e.summary <= MaxDiagnosticsSummaryBytes
  BY <1>1, DiagnosticsAssumption
<1>4. e.at \in Int /\ e.at > 0
  BY <1>1
<1> QED BY <1>1, <1>2, <1>3, <1>4 DEF Diag!ValidEvent

(* In order, and each event of s in a place of its own. *)
Sorted(s, t) ==
  /\ t \in Seq(ObservedEvent) /\ Len(t) = Len(s)
  /\ \A m, n \in 1..Len(s) : m < n => NotAfter(t[m], t[n])
  /\ \E r \in Bijection(1..Len(s), 1..Len(s)) : \A n \in 1..Len(s) : t[r[n]] = s[n]

(* SortDiagnosticsEvents returns the events of the log, each as often as   *)
(* the log has it, in order.                                               *)
LEMMA SortSorts ==
  ASSUME NEW s \in Seq(ObservedEvent)
  PROVE  Sorted(s, Diag!SortDiagnosticsEvents(s))
<1> DEFINE K == 1..Len(s)
           t == Diag!SortDiagnosticsEvents(s)
           below == [k \in K |-> {j \in K : Diag!Before(s, j, k)}]
           r == [k \in K |-> 1 + Cardinality(below[k])]
<1>1. Len(s) \in Nat /\ DOMAIN s = K /\ \A n \in K : s[n] \in ObservedEvent
  OBVIOUS
<1>2. \A n \in K : s[n].at \in Int /\ s[n].code \in Int
  BY <1>1, EventsHaveNumbers
<1>3. IsFiniteSet(K) /\ Cardinality(K) = Len(s)
  BY <1>1, IntervalIsFinite
<1>4. \A j \in K, k \in K : j \in below[k] <=>
        \/ s[j].at < s[k].at
        \/ s[j].at = s[k].at /\ (s[j].code < s[k].code \/ (s[j].code = s[k].code /\ j < k))
  BY DEF Diag!Before
<1>5. below \in [K -> SUBSET K]
  OBVIOUS
<1>6. \A k \in K : r[k] = 1 + Cardinality(below[k])
  OBVIOUS
<1>7. t = [n \in K |-> s[CHOOSE k \in K : r[k] = n]]
  <2> DEFINE SortedIn(D) ==
               [n \in D |-> s[CHOOSE k \in D : 1 + Cardinality({j \in D : Diag!Before(s, j, k)}) = n]]
             Origin(n) == CHOOSE k \in K : 1 + Cardinality({j \in K : Diag!Before(s, j, k)}) = n
             Source(n) == CHOOSE k \in K : r[k] = n
  <2>1. t = SortedIn(DOMAIN s)
    BY Zenon DEF Diag!SortDiagnosticsEvents, Diag!Cardinality, Cardinality
  <2>2. t = SortedIn(K)
    <3> HIDE DEF SortedIn, K, t
    <3> QED BY <1>1, <2>1
  <2>3. \A n : Origin(n) = Source(n)
    <3> SUFFICES ASSUME NEW n PROVE Origin(n) = Source(n)
      OBVIOUS
    <3>1. \A k \in K : r[k] = 1 + Cardinality({j \in K : Diag!Before(s, j, k)})
      OBVIOUS
    <3> HIDE DEF r, K
    <3> QED BY <3>1
  <2> HIDE DEF Origin, Source, K, t
  <2>4. t = [n \in K |-> s[Origin(n)]]
    BY <2>2, Zenon DEF Origin
  <2>5. t = [n \in K |-> s[Source(n)]]
    BY <2>3, <2>4
  <2> QED BY <2>5, Zenon DEF Source
<1> HIDE DEF below, r, t
<1>8. /\ \A k \in K : k \notin below[k]
      /\ \A j \in K, k \in K : j = k \/ j \in below[k] \/ k \in below[j]
  <2>1. ASSUME NEW k \in K PROVE k \notin below[k]
    <3>1. s[k].at \in Int /\ s[k].code \in Int /\ k \in Int
      BY <1>2
    <3>2. ~(s[k].at < s[k].at) /\ ~(s[k].code < s[k].code) /\ ~(k < k)
      BY <3>1
    <3> QED BY <1>4, <3>2
  <2>2. ASSUME NEW j \in K, NEW k \in K PROVE j = k \/ j \in below[k] \/ k \in below[j]
    <3>1. /\ s[j].at \in Int /\ s[j].code \in Int /\ j \in Int
          /\ s[k].at \in Int /\ s[k].code \in Int /\ k \in Int
      BY <1>2
    <3>2. CASE s[j].at = s[k].at /\ s[j].code = s[k].code
      <4>1. j = k \/ j < k \/ k < j
        BY <3>1
      <4> QED BY <1>4, <3>2, <4>1
    <3>3. CASE s[j].at = s[k].at /\ s[j].code # s[k].code
      <4>1. s[j].code < s[k].code \/ s[k].code < s[j].code
        BY <3>1, <3>3
      <4> QED BY <1>4, <3>3, <4>1
    <3>4. CASE s[j].at # s[k].at
      <4>1. s[j].at < s[k].at \/ s[k].at < s[j].at
        BY <3>1, <3>4
      <4> QED BY <1>4, <4>1
    <3> QED BY <3>2, <3>3, <3>4
  <2> QED BY <2>1, <2>2
<1>9. ASSUME NEW j \in K, NEW k \in K, j \in below[k]
      PROVE  below[j] \subseteq below[k]
  <2> SUFFICES ASSUME NEW l \in below[j] PROVE l \in below[k]
    OBVIOUS
  <2>1. l \in K
    BY <1>5
  <2> HIDE DEF K
  <2>2. /\ s[l].at \in Int /\ s[j].at \in Int /\ s[k].at \in Int
        /\ s[l].code \in Int /\ s[j].code \in Int /\ s[k].code \in Int
    BY <1>2, <2>1
  <2>3. /\ \/ s[l].at < s[j].at
           \/ s[l].at = s[j].at /\ (s[l].code < s[j].code \/ (s[l].code = s[j].code /\ l < j))
        /\ \/ s[j].at < s[k].at
           \/ s[j].at = s[k].at /\ (s[j].code < s[k].code \/ (s[j].code = s[k].code /\ j < k))
    BY <1>4, <1>9, <2>1
  <2>4. l \in Int /\ j \in Int /\ k \in Int
    BY <2>1 DEF K
  <2>5. \/ s[l].at < s[k].at
        \/ s[l].at = s[k].at /\ (s[l].code < s[k].code \/ (s[l].code = s[k].code /\ l < k))
    BY <2>2, <2>3, <2>4
  <2> QED BY <1>4, <2>1, <2>5
<1>10. /\ \A k \in K : 1 + Cardinality(below[k]) \in 1..Cardinality(K)
       /\ \A j \in K, k \in K : j \in below[k] => Cardinality(below[j]) < Cardinality(below[k])
       /\ \A n \in 1..Cardinality(K) : \E k \in K : 1 + Cardinality(below[k]) = n
  <2> HIDE DEF K
  <2> QED BY <1>3, <1>5, <1>8, <1>9, RanksAreAll
<1>11. \A k \in K : Cardinality(below[k]) \in Nat
  <2>1. \A k \in K : below[k] \in SUBSET K
    BY <1>5
  <2> HIDE DEF K
  <2> QED BY <1>3, <2>1, FS_Subset, FS_CardinalityType
<1>12. /\ \A k \in K : r[k] \in K
       /\ \A j \in K, k \in K : j \in below[k] => r[j] < r[k]
       /\ \A n \in K : \E k \in K : r[k] = n
  <2>1. 1..Cardinality(K) = K
    BY <1>3
  <2> HIDE DEF K
  <2>2. /\ \A k \in K : r[k] \in K
        /\ \A n \in K : \E k \in K : r[k] = n
    BY <1>6, <1>10, <2>1
  <2>3. \A j \in K, k \in K : j \in below[k] => r[j] < r[k]
    BY <1>6, <1>10, <1>11
  <2> QED BY <2>2, <2>3
<1>13. r \in [K -> K]
  <2>1. r = [k \in K |-> r[k]]
    BY DEF r
  <2> QED BY <1>12, <2>1
<1>14. \A k \in K : r[k] \in Int
  BY <1>12
<1>15. \A j \in K, k \in K : r[j] = r[k] => j = k
  <2> HIDE DEF K
  <2> SUFFICES ASSUME NEW j \in K, NEW k \in K, r[j] = r[k] PROVE j = k
    OBVIOUS
  <2>1. r[j] \in Int /\ r[k] \in Int
    BY <1>14
  <2>2. (j \in below[k] => r[j] < r[k]) /\ (k \in below[j] => r[k] < r[j])
    BY <1>12, Zenon
  <2>3. j \notin below[k] /\ k \notin below[j]
    <3> HIDE DEF r
    <3> QED BY <2>1, <2>2
  <2> QED BY <1>8, <2>3, Zenon
<1>16. \A k \in K : t[r[k]] = s[k]
  <2> HIDE DEF K
  <2> SUFFICES ASSUME NEW k \in K PROVE t[r[k]] = s[k]
    OBVIOUS
  <2>1. r[k] \in K /\ (CHOOSE j \in K : r[j] = r[k]) = k
    BY <1>12, <1>15
  <2> QED BY <1>7, <2>1
<1>17. r \in Bijection(K, K)
  <2> HIDE DEF K
  <2> QED BY <1>12, <1>13, <1>15 DEF Bijection, Injection, IsInjective, Surjection
<1>18. \A n \in K : t[n] \in ObservedEvent
  <2> HIDE DEF K
  <2> QED BY <1>1, <1>12, <1>16
<1>19. t \in Seq(ObservedEvent) /\ Len(t) = Len(s)
  BY <1>1, <1>7, <1>18
<1>20. ASSUME NEW m \in K, NEW n \in K, m < n
       PROVE  NotAfter(t[m], t[n])
  <2>1. PICK j \in K : r[j] = m
    BY <1>12
  <2>2. PICK k \in K : r[k] = n
    BY <1>12
  <2>3. t[m] = s[j] /\ t[n] = s[k]
    BY <1>16, <2>1, <2>2
  <2>4. j \in below[k]
    <3>1. m \in Int /\ n \in Int
      OBVIOUS
    <3>2. ~(r[k] < r[j]) /\ r[j] # r[k]
      BY <1>20, <2>1, <2>2, <3>1
    <3> HIDE DEF K
    <3>3. j # k /\ ~(k \in below[j])
      BY <1>12, <3>2
    <3> QED BY <1>8, <3>3
  <2>5. \/ s[j].at < s[k].at
        \/ s[j].at = s[k].at /\ (s[j].code < s[k].code \/ (s[j].code = s[k].code /\ j < k))
    BY <1>4, <2>4
  <2> QED BY <1>2, <2>3, <2>5 DEF NotAfter
<1> QED BY <1>16, <1>17, <1>19, <1>20 DEF Sorted, t

(* What is left of s when some of it was dropped from the front. *)
IsEnd(t, s) ==
  /\ t \in Seq(ObservedEvent)
  /\ \E p \in 0..Len(s) : Len(t) = Len(s) - p /\ \A n \in 1..Len(t) : t[n] = s[p + n]

(* The cut by max_events: the last n events are an end of the sequence.    *)
LEMMA NewestIsEnd ==
  ASSUME NEW s \in Seq(ObservedEvent), NEW n \in Nat
  PROVE  IsEnd(Diag!Newest(s, n), s) /\ Len(Diag!Newest(s, n)) <= n
<1>1. CASE Len(s) <= n
  <2>1. Diag!Newest(s, n) = s
    BY <1>1 DEF Diag!Newest
  <2>2. 0 \in 0..Len(s) /\ Len(s) = Len(s) - 0 /\ \A k \in 1..Len(s) : s[k] = s[0 + k]
    OBVIOUS
  <2> QED BY <1>1, <2>1, <2>2 DEF IsEnd
<1>2. CASE ~(Len(s) <= n)
  <2> DEFINE p == Len(s) - n
             t == SubSeq(s, p + 1, Len(s))
  <2>1. p \in 0..Len(s) /\ Len(s) \in Nat
    BY <1>2
  <2>2. Diag!Newest(s, n) = t
    BY <1>2 DEF Diag!Newest
  <2>3. t \in Seq(ObservedEvent) /\ Len(t) = n
    BY <2>1
  <2>4. \A k \in 1..n : t[k] = s[p + k]
    BY <2>1
  <2>5. Len(t) = Len(s) - p
    BY <2>1, <2>3
  <2> HIDE DEF t, p
  <2> QED BY <2>1, <2>2, <2>3, <2>4, <2>5 DEF IsEnd
<1> QED BY <1>1, <1>2

(* An end of an end is an end of the whole.                                *)
LEMMA EndOfEnd ==
  ASSUME NEW s \in Seq(ObservedEvent), NEW t, NEW u, IsEnd(t, s), IsEnd(u, t)
  PROVE  IsEnd(u, s)
<1>1. PICK p \in 0..Len(s) : Len(t) = Len(s) - p /\ \A n \in 1..Len(t) : t[n] = s[p + n]
  BY DEF IsEnd
<1>2. PICK q \in 0..Len(t) : Len(u) = Len(t) - q /\ \A n \in 1..Len(u) : u[n] = t[q + n]
  BY DEF IsEnd
<1>3. Len(s) \in Nat /\ Len(t) \in Nat /\ Len(u) \in Nat
  BY DEF IsEnd
<1>4. p + q \in 0..Len(s) /\ Len(u) = Len(s) - (p + q)
  BY <1>1, <1>2, <1>3
<1>5. ASSUME NEW n \in 1..Len(u) PROVE u[n] = s[(p + q) + n]
  <2>1. q + n \in 1..Len(t) /\ p + (q + n) = (p + q) + n
    BY <1>2, <1>3
  <2> QED BY <1>1, <1>2, <2>1
<1> QED BY <1>4, <1>5 DEF IsEnd

(* Nothing is an end of everything.                                        *)
LEMMA EmptyIsEnd ==
  ASSUME NEW s \in Seq(ObservedEvent)
  PROVE  IsEnd(<<>>, s)
<1>1. Len(s) \in 0..Len(s) /\ Len(<<>>) = Len(s) - Len(s)
  OBVIOUS
<1> QED BY <1>1 DEF IsEnd

(* Of the numbers up to n, a set that has zero has a greatest. *)
LEMMA GreatestExists ==
  ASSUME NEW n \in Nat, NEW T \in SUBSET (0..n), 0 \in T
  PROVE  \E g \in T : \A k \in T : k <= g
<1> DEFINE S == {m \in Nat : m \in 0..n => \E g \in T : \A k \in T : k <= m => k <= g}
<1>1. 0 \in S
  OBVIOUS
<1>2. ASSUME NEW m \in Nat, m \in S PROVE m + 1 \in S
  <2> SUFFICES ASSUME m + 1 \in 0..n
               PROVE  \E g \in T : \A k \in T : k <= m + 1 => k <= g
    OBVIOUS
  <2>1. CASE m + 1 \in T
    BY <2>1
  <2>2. CASE m + 1 \notin T
    <3>1. PICK g \in T : \A k \in T : k <= m => k <= g
      BY <1>2
    <3>2. \A k \in T : k <= m + 1 => k <= m
      BY <2>2
    <3> QED BY <3>1, <3>2
  <2> QED BY <2>1, <2>2
<1> HIDE DEF S
<1>3. n \in S
  BY <1>1, <1>2, NatSetInduction
<1> QED BY <1>3 DEF S

(* The cut by size: the largest number of events that fits exists, and     *)
(* they are an end.                                                        *)
LEMMA FittingIsEnd ==
  ASSUME NEW s \in Seq(ObservedEvent)
  PROVE  IsEnd(Diag!Fitting(s), s)
<1> DEFINE IsSum(f) == f = [k \in 0..Len(s) |-> IF k = 0 THEN 0 ELSE s[k].summary + f[k - 1]]
           Sum == CHOOSE f : IsSum(f)
           Holds(n) == Sum[Len(s)] - Sum[Len(s) - n] <= Room
           best == CHOOSE n \in 0..Len(s) : Holds(n) /\ \A m \in 0..Len(s) : Holds(m) => m <= n
           entries == [k \in 1..Len(s) |-> [size |-> s[k].summary]]
           w == Weights(entries)
           v == [k \in 0..Len(s) |-> w[k]]
<1>1. Diag!Fitting(s) = Diag!Newest(s, best)
  BY Zenon DEF Diag!Fitting
<1>2. Len(s) \in Nat /\ \A k \in 1..Len(s) : s[k].summary \in Nat
  BY EventsHaveNumbers
<1>3. Len(entries) = Len(s) /\ \A k \in 1..Len(s) : entries[k].size = s[k].summary
  BY <1>2
<1>4. Weighable(entries)
  BY <1>2, <1>3 DEF Weighable
<1> HIDE DEF entries
<1>5. /\ w[0] = 0 /\ \A k \in 1..Len(s) : w[k] = w[k - 1] + entries[k].size
      /\ \A k \in 0..Len(s) : w[k] \in Nat
  BY <1>3, <1>4, WeightsExist
<1> HIDE DEF w
<1>6. ASSUME NEW k \in 0..Len(s)
      PROVE  v[k] = IF k = 0 THEN 0 ELSE s[k].summary + v[k - 1]
  <2>1. CASE k = 0
    BY <1>2, <1>5, <2>1
  <2>2. CASE k # 0
    <3>1. k \in 1..Len(s) /\ k - 1 \in 0..Len(s)
      BY <1>2, <2>2
    <3> QED BY <1>2, <1>3, <1>5, <2>2, <3>1
  <2> QED BY <2>1, <2>2
<1>7. IsSum(v)
  <2>1. v = [k \in 0..Len(s) |-> v[k]]
    OBVIOUS
  <2> HIDE DEF v
  <2> QED BY <1>6, <2>1
<1> HIDE DEF v
<1>8. IsSum(Sum)
  BY <1>7, Zenon
<1>9. \A k \in 0..Len(s) : Sum[k] = IF k = 0 THEN 0 ELSE s[k].summary + Sum[k - 1]
  <2> HIDE DEF Sum
  <2> QED BY <1>8
<1> HIDE DEF IsSum, Sum
<1> DEFINE R == {n \in Nat : n <= Len(s) => Sum[n] \in Nat}
<1>10. 0 \in R
  BY <1>2, <1>9
<1>11. ASSUME NEW n \in Nat, n \in R PROVE n + 1 \in R
  <2> SUFFICES ASSUME n + 1 <= Len(s) PROVE Sum[n + 1] \in Nat
    OBVIOUS
  <2>1. n + 1 \in 0..Len(s) /\ n + 1 \in 1..Len(s) /\ n + 1 # 0 /\ (n + 1) - 1 = n /\ Sum[n] \in Nat
    BY <1>2, <1>11
  <2>2. Sum[n + 1] = s[n + 1].summary + Sum[n] /\ s[n + 1].summary \in Nat
    BY <1>2, <1>9, <2>1
  <2> QED BY <2>1, <2>2
<1> HIDE DEF R
<1>12. Len(s) \in R
  BY <1>2, <1>10, <1>11, NatSetInduction
<1>13. Sum[Len(s)] \in Nat
  BY <1>2, <1>12 DEF R
<1>14. Holds(0)
  <2>1. Len(s) - 0 = Len(s)
    BY <1>2
  <2>2. Sum[Len(s)] - Sum[Len(s)] <= Room
    BY <1>13, DiagnosticsAssumption
  <2> QED BY <2>1, <2>2
<1> HIDE DEF Holds
<1> DEFINE T == {n \in 0..Len(s) : Holds(n)}
<1>15. T \in SUBSET (0..Len(s)) /\ 0 \in T
  BY <1>2, <1>14
<1>16. PICK g \in T : \A k \in T : k <= g
  <2> HIDE DEF T
  <2> QED BY <1>2, <1>15, GreatestExists
<1>17. g \in 0..Len(s) /\ Holds(g) /\ \A m \in 0..Len(s) : Holds(m) => m <= g
  BY <1>16
<1>18. best \in 0..Len(s)
  BY <1>17
<1> HIDE DEF best
<1>19. best \in Nat
  BY <1>2, <1>18
<1> QED BY <1>1, <1>19, NewestIsEnd

(* What is left of a sorted log is in order, and no event that is missing  *)
(* from it is newer than one that is there.                                *)
LEMMA EndsAreNewest ==
  ASSUME NEW l \in Seq(ObservedEvent), NEW t, IsEnd(t, Diag!SortDiagnosticsEvents(l))
  PROVE  /\ \A k \in DOMAIN t : k > 1 => NotAfter(t[k - 1], t[k])
         /\ \A d \in Diag!Elements(l), e \in Diag!Elements(t) :
              Cardinality({k \in DOMAIN t : t[k] = d}) < Cardinality({k \in DOMAIN l : l[k] = d})
              => NotAfter(d, e)
<1> DEFINE s == Diag!SortDiagnosticsEvents(l)
<1>1. Sorted(l, s)
  BY SortSorts
<1> HIDE DEF s
<1>2. /\ s \in Seq(ObservedEvent) /\ Len(s) = Len(l)
      /\ \A m, n \in 1..Len(l) : m < n => NotAfter(s[m], s[n])
  BY <1>1 DEF Sorted
<1>3. PICK r \in Bijection(1..Len(l), 1..Len(l)) : \A n \in 1..Len(l) : s[r[n]] = l[n]
  BY <1>1 DEF Sorted
<1>4. /\ \A n \in 1..Len(l) : r[n] \in 1..Len(l)
      /\ \A m, n \in 1..Len(l) : r[m] = r[n] => m = n
  <2> DEFINE K == 1..Len(l)
  <2>1. r \in [K -> K] /\ \A m, n \in K : r[m] = r[n] => m = n
    BY <1>3 DEF Bijection, Injection, IsInjective
  <2> HIDE DEF K
  <2>2. \A n \in K : r[n] \in K
    BY <2>1
  <2> QED BY <2>1, <2>2 DEF K
<1>5. t \in Seq(ObservedEvent)
  BY DEF IsEnd
<1>6. PICK p \in 0..Len(s) : Len(t) = Len(s) - p /\ \A n \in 1..Len(t) : t[n] = s[p + n]
  BY DEF IsEnd, s
<1>7. /\ Len(l) \in Nat /\ DOMAIN l = 1..Len(l)
      /\ Len(t) \in Nat /\ DOMAIN t = 1..Len(t)
      /\ p \in Nat /\ Len(t) = Len(l) - p
  BY <1>2, <1>5, <1>6
<1>8. ASSUME NEW k \in DOMAIN t, k > 1 PROVE NotAfter(t[k - 1], t[k])
  <2>1. k \in 1..Len(t) /\ k - 1 \in 1..Len(t)
    BY <1>7, <1>8
  <2>2. p + k \in 1..Len(l) /\ p + (k - 1) \in 1..Len(l) /\ p + (k - 1) < p + k
    BY <1>7, <2>1
  <2> QED BY <1>2, <1>6, <2>1, <2>2
<1>9. ASSUME NEW d \in Diag!Elements(l), NEW e \in Diag!Elements(t),
             Cardinality({k \in DOMAIN t : t[k] = d}) < Cardinality({k \in DOMAIN l : l[k] = d})
      PROVE  NotAfter(d, e)
  <2>1. PICK n \in 1..Len(t) : e = t[n]
    BY <1>7 DEF Diag!Elements
  <2> DEFINE X == {k \in 1..Len(l) : l[k] = d}
             Y == {k \in 1..Len(t) : t[k] = d}
  <2>2. Cardinality(Y) < Cardinality(X)
    BY <1>7, <1>9
  <2>3. \E m \in 1..p : s[m] = d
    <3> SUFFICES ASSUME \A m \in 1..p : s[m] # d PROVE FALSE
      OBVIOUS
    <3> DEFINE f == [k \in X |-> r[k] - p]
    <3>1. ASSUME NEW k \in X PROVE f[k] \in Y /\ f[k] = r[k] - p /\ r[k] \in Int
      <4>1. k \in 1..Len(l) /\ s[r[k]] = d /\ r[k] \in 1..Len(l)
        BY <1>3, <1>4
      <4>2. r[k] \notin 1..p
        BY <4>1
      <4>3. r[k] - p \in 1..Len(t) /\ p + (r[k] - p) = r[k]
        BY <1>7, <4>1, <4>2
      <4>4. t[r[k] - p] = d
        BY <1>6, <4>1, <4>3
      <4>5. f[k] = r[k] - p
        OBVIOUS
      <4> HIDE DEF f
      <4> QED BY <4>1, <4>3, <4>4, <4>5
    <3>2. \A j, k \in X : f[j] = f[k] => j = k
      <4> HIDE DEF f
      <4>1. \A j, k \in X : f[j] = f[k] => r[j] = r[k]
        BY <1>7, <3>1
      <4> QED BY <1>4, <4>1
    <3>3. f \in [X -> Y]
      BY <3>1
    <3>4. IsFiniteSet(Y)
      <4>1. IsFiniteSet(1..Len(t)) /\ Y \in SUBSET (1..Len(t))
        BY <1>7, IntervalIsFinite
      <4> HIDE DEF Y
      <4> QED BY <4>1, FS_Subset
    <3> HIDE DEF X, Y, f
    <3>5. f \in Injection(X, Y)
      BY <3>2, <3>3 DEF Injection, IsInjective
    <3>6. IsFiniteSet(X) /\ Cardinality(X) <= Cardinality(Y)
      BY <3>4, <3>5, FS_Injection
    <3>7. Cardinality(X) \in Nat /\ Cardinality(Y) \in Nat
      BY <3>4, <3>6, FS_CardinalityType
    <3> QED BY <2>2, <3>6, <3>7
  <2>4. PICK m \in 1..p : s[m] = d
    BY <2>3
  <2>5. m \in 1..Len(l) /\ p + n \in 1..Len(l) /\ m < p + n
    BY <1>7, <2>1, <2>4
  <2>6. e = s[p + n]
    BY <1>6, <2>1
  <2> QED BY <1>2, <2>4, <2>5, <2>6
<1> QED BY <1>8, <1>9

-----------------------------------------------------------------------------
(* The agent's own result: encoded without its empty sections, it is read  *)
(* back as it was.                                                         *)

ResultKeys == Diag!Elements(Diag!FieldOrder.result)

Left(r, key) == key \in Diag!Sections /\ r[key] = Diag!Zero.result[key]

(* The fields of d are those of r that were not left out, each once. *)
Encodes(d, r) ==
  /\ d.trailing = FALSE
  /\ IsList(d.fields)
  /\ \A n \in 1..Len(d.fields) :
       /\ d.fields[n].key \in ResultKeys
       /\ d.fields[n].value = Diag!Written(d.fields[n].key, r[d.fields[n].key])
  /\ \A m, n \in 1..Len(d.fields) : d.fields[m].key = d.fields[n].key => m = n
  /\ \A key \in ResultKeys : Left(r, key) \/ \E n \in 1..Len(d.fields) : d.fields[n].key = key

(* The nine fields of DiagnosticsResult, each once in the order of the     *)
(* struct.                                                                 *)
LEMMA TheResultKeys ==
  /\ DOMAIN Diag!FieldOrder.result = 1..9
  /\ \A j, k \in 1..9 : Diag!FieldOrder.result[j] = Diag!FieldOrder.result[k] => j = k
  /\ ResultKeys = {"schema_version", "collected_at_ms", "recovered", "truncated",
                   "host", "runtime", "state", "events", "checks"}
<1> DEFINE order == Diag!FieldOrder.result
<1>1. /\ DOMAIN order = 1..9
      /\ order[1] = "schema_version" /\ order[2] = "collected_at_ms" /\ order[3] = "recovered"
      /\ order[4] = "truncated" /\ order[5] = "host" /\ order[6] = "runtime"
      /\ order[7] = "state" /\ order[8] = "events" /\ order[9] = "checks"
  BY DEF Diag!FieldOrder
<1> HIDE DEF order
<1>2. \A j, k \in 1..9 : order[j] = order[k] => j = k
  BY <1>1
<1>3. {order[k] : k \in DOMAIN order} =
        {"schema_version", "collected_at_ms", "recovered", "truncated",
         "host", "runtime", "state", "events", "checks"}
  BY <1>1
<1> QED BY <1>1, <1>2, <1>3 DEF order, ResultKeys, Diag!Elements

(* Marshal writes every field that is not an empty section, each once,     *)
(* with its value.                                                         *)
LEMMA MarshalEncodes ==
  ASSUME NEW r
  PROVE  Encodes(Diag!Marshal(r), r)
<1> DEFINE order == Diag!FieldOrder.result
           kept == {k \in DOMAIN order :
                      ~(order[k] \in Diag!Sections /\ r[order[k]] \in {Diag!Zero.result[order[k]]})}
           below == [k \in kept |-> {j \in kept : j < k}]
           Nth(n) == CHOOSE k \in kept : 1 + Cardinality({j \in kept : j < k}) = n
           N == Cardinality(kept)
           fields == [n \in 1..N |-> [key   |-> order[Nth(n)],
                                      value |-> Diag!Written(order[Nth(n)], r[order[Nth(n)]])]]
<1>1. Diag!Marshal(r) = [fields |-> fields, trailing |-> FALSE]
  BY Zenon DEF Diag!Marshal, Diag!Cardinality, Cardinality
<1>2. /\ DOMAIN order = 1..9
      /\ \A j, k \in 1..9 : order[j] = order[k] => j = k
      /\ ResultKeys = {order[k] : k \in 1..9}
  BY TheResultKeys DEF ResultKeys, Diag!Elements
<1> HIDE DEF order
<1>3. kept \in SUBSET (1..9) /\ \A k \in kept : k \in Int
  BY <1>2
<1>4. IsFiniteSet(kept) /\ N \in Nat
  <2> HIDE DEF kept
  <2>1. IsFiniteSet(1..9)
    BY IntervalIsFinite
  <2> QED BY <1>3, <2>1, FS_Subset, FS_CardinalityType
<1>5. \A k \in 1..9 : k \notin kept => Left(r, order[k])
  BY <1>2 DEF Left
<1> HIDE DEF kept
<1>6. below \in [kept -> SUBSET kept]
  OBVIOUS
<1>7. /\ \A k \in kept : k \notin below[k]
      /\ \A j \in kept, k \in kept : j \in below[k] => below[j] \subseteq below[k]
      /\ \A j \in kept, k \in kept : j = k \/ j \in below[k] \/ k \in below[j]
  <2>1. \A j \in kept, k \in kept : j \in below[k] <=> j < k
    OBVIOUS
  <2> HIDE DEF below
  <2>2. \A k \in kept : k \notin below[k]
    BY <1>3, <2>1
  <2>3. \A j \in kept, k \in kept : j = k \/ j \in below[k] \/ k \in below[j]
    BY <1>3, <2>1
  <2>4. ASSUME NEW j \in kept, NEW k \in kept, j \in below[k], NEW l \in below[j]
        PROVE  l \in below[k]
    <3>1. l \in kept
      BY <1>6
    <3> QED BY <1>3, <2>1, <2>4, <3>1
  <2> QED BY <2>2, <2>3, <2>4
<1>8. \A k \in kept : 1 + Cardinality({j \in kept : j < k}) = 1 + Cardinality(below[k])
  OBVIOUS
<1> HIDE DEF below
<1>9. /\ \A k \in kept : 1 + Cardinality(below[k]) \in 1..N
      /\ \A n \in 1..N : \E k \in kept : 1 + Cardinality(below[k]) = n
  BY <1>4, <1>6, <1>7, RanksAreAll
<1>10. \A n \in 1..N : Nth(n) \in kept /\ 1 + Cardinality(below[Nth(n)]) = n
  <2> SUFFICES ASSUME NEW n \in 1..N
               PROVE  Nth(n) \in kept /\ 1 + Cardinality(below[Nth(n)]) = n
    OBVIOUS
  <2>1. \E k \in kept : 1 + Cardinality({j \in kept : j < k}) = n
    BY <1>8, <1>9
  <2>2. Nth(n) \in kept /\ 1 + Cardinality({j \in kept : j < Nth(n)}) = n
    BY <2>1
  <2> HIDE DEF Nth, N
  <2> QED BY <1>8, <2>2
<1>11. \A k \in kept : \E n \in 1..N : Nth(n) = k
  <2> SUFFICES ASSUME NEW k \in kept PROVE \E n \in 1..N : Nth(n) = k
    OBVIOUS
  <2> DEFINE n == 1 + Cardinality(below[k])
  <2>1. n \in 1..N
    BY <1>9
  <2>2. Nth(n) \in kept /\ 1 + Cardinality(below[Nth(n)]) = 1 + Cardinality(below[k])
    BY <1>10, <2>1
  <2> HIDE DEF Nth
  <2>3. ~(Nth(n) \in below[k]) /\ ~(k \in below[Nth(n)])
    <3>1. /\ \A j \in kept, m \in kept : j \in below[m] => Cardinality(below[j]) < Cardinality(below[m])
          /\ \A j \in kept : Cardinality(below[j]) \in Nat
      <4>1. \A j \in kept : below[j] \in SUBSET kept
        BY <1>6
      <4>2. \A j \in kept : Cardinality(below[j]) \in Nat
        BY <1>4, <4>1, FS_Subset, FS_CardinalityType
      <4> QED BY <1>4, <1>6, <1>7, <4>2, RanksAreAll
    <3> HIDE DEF n
    <3> QED BY <2>2, <3>1
  <2>4. Nth(n) = k
    BY <1>7, <2>2, <2>3
  <2> QED BY <2>1, <2>4
<1> HIDE DEF Nth, N
<1>12. /\ DOMAIN fields = 1..N /\ Len(fields) = N
       /\ \A n \in 1..N :
            /\ fields[n].key = order[Nth(n)]
            /\ fields[n].value = Diag!Written(order[Nth(n)], r[order[Nth(n)]])
  BY <1>4
<1>13. IsList(fields)
  <2>1. fields = [n \in 1..N |-> fields[n]]
    OBVIOUS
  <2> HIDE DEF fields
  <2> QED BY <1>4, <1>12, <2>1, ListsAreLists
<1> HIDE DEF fields
<1>14. \A n \in 1..N : /\ fields[n].key \in ResultKeys
                       /\ fields[n].value = Diag!Written(fields[n].key, r[fields[n].key])
  BY <1>2, <1>3, <1>10, <1>12
<1>15. \A m, n \in 1..N : fields[m].key = fields[n].key => m = n
  <2>1. \A m, n \in 1..N : fields[m].key = fields[n].key => Nth(m) = Nth(n)
    <3> SUFFICES ASSUME NEW m \in 1..N, NEW n \in 1..N, fields[m].key = fields[n].key
                 PROVE  Nth(m) = Nth(n)
      OBVIOUS
    <3>1. Nth(m) \in 1..9 /\ Nth(n) \in 1..9 /\ order[Nth(m)] = order[Nth(n)]
      BY <1>3, <1>10, <1>12
    <3> QED BY <1>2, <3>1
  <2> QED BY <1>10, <2>1
<1>16. \A key \in ResultKeys : Left(r, key) \/ \E n \in 1..N : fields[n].key = key
  <2> SUFFICES ASSUME NEW k \in 1..9, ~Left(r, order[k])
               PROVE  \E n \in 1..N : fields[n].key = order[k]
    BY <1>2
  <2>1. k \in kept
    BY <1>5
  <2> QED BY <1>11, <1>12, <2>1
<1> QED BY <1>1, <1>12, <1>13, <1>14, <1>15, <1>16 DEF Encodes

(* What is written of r is of no wrong type, and read back as it was.      *)
ReadBack(r) ==
  \A key \in ResultKeys :
    LET v == Diag!Written(key, r[key]) IN
    /\ v # Mistyped
    /\ v = Nil => r[key] = Diag!Zero.result[key]
    /\ v # Nil => Diag!Reading(key, v) = r[key]

(* What json.Unmarshal reads of the encoding of such a result.             *)
LEMMA UnmarshalDecodes ==
  ASSUME NEW d, NEW r, Encodes(d, r), ReadBack(r)
  PROVE  \A key \in ResultKeys : Diag!Unmarshal("result", d)[key] = r[key]
<1> SUFFICES ASSUME NEW key \in ResultKeys
             PROVE  Diag!Unmarshal("result", d)[key] = r[key]
  OBVIOUS
<1> DEFINE zero == Diag!Zero.result[key]
           f == d.fields
           at == {k \in DOMAIN f : f[k].key = key}
           lastAt == CHOOSE k \in at : \A j \in at : j <= k
<1>1. Diag!Unmarshal("result", d)[key] = Diag!ValueIn(d, key, zero)
  <2>1. Diag!FieldOrder["result"] = Diag!FieldOrder.result /\ Diag!Zero["result"] = Diag!Zero.result
    BY DEF Diag!FieldOrder, Diag!Zero
  <2>2. Diag!Unmarshal("result", d) =
          [k \in ResultKeys |-> Diag!ValueIn(d, k, Diag!Zero.result[k])]
    BY <2>1, Zenon DEF Diag!Unmarshal, ResultKeys
  <2> HIDE DEF ResultKeys
  <2> QED BY <2>2
<1>2. Diag!ValueIn(d, key, zero) =
        IF at = {} THEN zero
        ELSE IF f[lastAt].value = Nil THEN zero ELSE Diag!Reading(key, f[lastAt].value)
  BY Zenon DEF Diag!ValueIn
<1> HIDE DEF zero
<1>3. DOMAIN f = 1..Len(f) /\ Len(f) \in Nat
  <2>1. PICK U : f \in Seq(U)
    BY DEF Encodes, IsList
  <2> HIDE DEF f
  <2> QED BY <2>1
<1>4. CASE at = {}
  <2>1. Left(r, key)
    BY <1>3, <1>4 DEF Encodes
  <2>2. zero = r[key]
    BY <2>1 DEF Left, zero
  <2> HIDE DEF at, lastAt
  <2> QED BY <1>1, <1>2, <1>4, <2>2
<1>5. CASE at # {}
  <2>1. PICK k \in 1..Len(f) : f[k].key = key
    BY <1>3, <1>5
  <2>2. \A j \in at : j = k
    BY <1>3, <2>1 DEF Encodes
  <2>3. k \in at /\ k <= k
    BY <1>3, <2>1
  <2>4. lastAt = k
    BY <2>2, <2>3
  <2>5. f[k].value = Diag!Written(key, r[key])
    BY <2>1 DEF Encodes
  <2>6. /\ f[k].value = Nil => r[key] = zero
        /\ f[k].value # Nil => Diag!Reading(key, f[k].value) = r[key]
    BY <2>5 DEF ReadBack, zero
  <2> HIDE DEF at, lastAt, f
  <2> QED BY <1>1, <1>2, <1>5, <2>4, <2>5, <2>6
<1> QED BY <1>4, <1>5

(* A result an agent made of the log l. *)
IsOwn(r, l) ==
  /\ r.schema_version = 1 /\ r.collected_at_ms = 1
  /\ r.recovered \in BOOLEAN /\ r.truncated \in BOOLEAN
  /\ r.host \in {Nil, Diag!Found.host}
  /\ r.runtime \in {Nil, Diag!Found.runtime}
  /\ r.state \in {Nil, Diag!Found.state}
  /\ IsEnd(r.events, Diag!SortDiagnosticsEvents(l)) /\ Len(r.events) <= MaxDiagnosticsEvents
  /\ \E status \in {"ok", "unavailable"} :
       r.checks = [k \in DOMAIN CheckCodes |->
                     [code |-> CheckCodes[k], status |-> status, summary |-> 0]]

(* The checks the agent always adds are ones validateDiagnosticsChecks     *)
(* takes.                                                                  *)
LEMMA ChecksAreChecks ==
  ASSUME NEW status \in {"ok", "unavailable"}, NEW checks,
         checks = [k \in DOMAIN CheckCodes |->
                     [code |-> CheckCodes[k], status |-> status, summary |-> 0]]
  PROVE  /\ checks \in Seq([code : Diag!Elements(CheckCodes), status : {"ok", "unavailable"}, summary : {0}])
         /\ Diag!ValidateDiagnosticsChecks(checks)
<1> DEFINE Check == [code : Diag!Elements(CheckCodes), status : {"ok", "unavailable"}, summary : {0}]
           K == 1..Len(CheckCodes)
<1>1. Len(CheckCodes) \in Nat /\ DOMAIN CheckCodes = K
  BY DiagnosticsAssumption DEF IsSlice
<1>2. \A k \in K : [code |-> CheckCodes[k], status |-> status, summary |-> 0] \in Check
  BY <1>1 DEF Diag!Elements
<1> HIDE DEF Check
<1>3. checks \in Seq(Check) /\ Len(checks) = Len(CheckCodes)
  <2>1. checks = [k \in K |-> [code |-> CheckCodes[k], status |-> status, summary |-> 0]]
    BY <1>1
  <2>2. checks \in [K -> Check]
    BY <1>2, <2>1
  <2> QED BY <1>1, <2>2
<1>4. \A k \in DOMAIN checks : /\ checks[k].code = CheckCodes[k]
                               /\ checks[k].status = status /\ checks[k].summary = 0
  OBVIOUS
<1>5. Diag!ValidateDiagnosticsChecks(checks)
  BY <1>3, <1>4, DiagnosticsAssumption DEF Diag!ValidateDiagnosticsChecks
<1> QED BY <1>3, <1>5 DEF Check

(* An object that is written once per name is read back as it was.         *)
LEMMA ObjectIsReadBack ==
  ASSUME NEW zero, NEW r, r = [name \in DOMAIN zero |-> r[name]],
         \A name \in DOMAIN zero : r[name] # Nil
  PROVE  Diag!ReadObject(zero, Diag!WriteObject(r)) = r
<1>1. ASSUME NEW v, v # Nil, NEW z
      PROVE  Diag!LastOf(<<v>>, z) = v
  <2> DEFINE at == {k \in DOMAIN <<v>> : <<v>>[k] # Nil}
             lastAt == CHOOSE k \in at : \A j \in at : j <= k
  <2>1. at = {1}
    BY <1>1
  <2>2. Diag!LastOf(<<v>>, z) = IF at = {} THEN z ELSE <<v>>[lastAt]
    BY Zenon DEF Diag!LastOf
  <2> HIDE DEF at
  <2>3. lastAt = 1
    BY <2>1
  <2> HIDE DEF lastAt
  <2> QED BY <2>1, <2>2, <2>3
<1> DEFINE w == Diag!WriteObject(r)
<1>2. DOMAIN r = DOMAIN zero
  OBVIOUS
<1>3. DOMAIN w = DOMAIN zero /\ \A name \in DOMAIN zero : w[name] = <<r[name]>>
  BY <1>2 DEF Diag!WriteObject
<1> HIDE DEF w
<1>4. Diag!ReadObject(zero, w) = [name \in DOMAIN zero |-> Diag!LastOf(w[name], zero[name])]
  BY <1>3 DEF Diag!ReadObject
<1>5. \A name \in DOMAIN zero : Diag!LastOf(w[name], zero[name]) = r[name]
  BY <1>1, <1>3
<1> QED BY <1>4, <1>5 DEF w

(* The agent's own result is read back as it was made.                     *)
LEMMA OwnIsReadBack ==
  ASSUME NEW r, NEW l, IsOwn(r, l)
  PROVE  ReadBack(r)
<1> DEFINE Odd(v) == v \in {Nil, Mistyped}
           Back(key) == LET v == Diag!Written(key, r[key]) IN
                        /\ v # Mistyped
                        /\ v = Nil => r[key] = Diag!Zero.result[key]
                        /\ v # Nil => Diag!Reading(key, v) = r[key]
<1>1. /\ \A v : Odd(v) => v \notin Int /\ v \notin BOOLEAN /\ v \notin Texts
      /\ Nil \notin Int \cup Texts /\ Nil # Mistyped
  BY ValuesAssumption
<1>2. ASSUME NEW key, ~Diag!HoldsObject(key), ~Diag!HoldsList(key),
             ~Odd(r[key]) \/ (r[key] = Nil /\ Diag!Zero.result[key] = Nil)
      PROVE  Back(key)
  <2>1. Diag!Written(key, r[key]) = r[key] /\ Diag!Reading(key, r[key]) = r[key]
    BY <1>2 DEF Diag!Written, Diag!Reading
  <2> QED BY <1>1, <1>2, <2>1
<1>3. Back("schema_version") /\ Back("collected_at_ms") /\ Back("recovered") /\ Back("truncated")
  <2>1. r.schema_version \in Int /\ r.collected_at_ms \in Int
        /\ r.recovered \in BOOLEAN /\ r.truncated \in BOOLEAN
    BY DEF IsOwn
  <2>2. ~Odd(r.schema_version) /\ ~Odd(r.collected_at_ms) /\ ~Odd(r.recovered) /\ ~Odd(r.truncated)
    <3> HIDE DEF Odd
    <3> QED BY <1>1, <2>1, Zenon
  <2>3. \A key \in {"schema_version", "collected_at_ms", "recovered", "truncated"} :
          ~Diag!HoldsObject(key) /\ ~Diag!HoldsList(key)
    BY DEF Diag!HoldsObject, Diag!HoldsList
  <2>4. \A key \in {"schema_version", "collected_at_ms", "recovered", "truncated"} :
          ~Odd(r[key])
    <3> HIDE DEF Odd
    <3> QED BY <2>2
  <2> HIDE DEF Back
  <2>5. ASSUME NEW key \in {"schema_version", "collected_at_ms", "recovered", "truncated"}
        PROVE  Back(key)
    <3>1. ~Diag!HoldsObject(key) /\ ~Diag!HoldsList(key)
      BY <2>3, <2>5
    <3>2. ~Odd(r[key])
      BY <2>4, <2>5
    <3> HIDE DEF Odd
    <3> QED BY <1>2, <3>1, <3>2
  <2> QED BY <2>5
<1>4. Back("host")
  <2>1. Diag!Zero.result.host = Nil /\ Diag!Found.host = "sample"
    BY DEF Diag!Zero, Diag!Found
  <2>2. ~Odd("sample")
    BY <1>1 DEF Texts
  <2>3. ~Diag!HoldsObject("host") /\ ~Diag!HoldsList("host")
    BY DEF Diag!HoldsObject, Diag!HoldsList
  <2>4. r.host = Nil \/ r.host = "sample"
    BY <2>1 DEF IsOwn
  <2>5. ~Odd(r["host"]) \/ (r["host"] = Nil /\ Diag!Zero.result["host"] = Nil)
    <3> HIDE DEF Odd
    <3> QED BY <2>1, <2>2, <2>4
  <2> HIDE DEF Odd, Back
  <2> QED BY <1>2, <2>3, <2>5
(* An object is nil, or what the collector found. *)
<1>5. ASSUME NEW key \in {"runtime", "state"},
             r[key] \in {Nil, Diag!Found[key]}, Diag!Zero.result[key] = Nil,
             Diag!Found[key] = [name \in DOMAIN Diag!ZeroBelow[key] |-> Diag!Found[key][name]],
             \A name \in DOMAIN Diag!ZeroBelow[key] : Diag!Found[key][name] # Nil
      PROVE  Back(key)
  <2>1. Diag!HoldsObject(key)
    BY DEF Diag!HoldsObject
  <2>2. key \in DOMAIN Diag!Found
    BY DEF Diag!Found
  <2>3. ~Odd(Diag!Found[key]) /\ ~Odd(Diag!Written(key, Diag!Found[key]))
    BY <2>2, ValuesAssumption
  <2>4. CASE r[key] = Nil
    <3>1. Diag!Written(key, r[key]) = Nil
      BY <2>4 DEF Diag!Written, Diag!HoldsList
    <3> QED BY <1>1, <1>5, <2>4, <3>1
  <2>5. CASE r[key] = Diag!Found[key]
    <3> DEFINE found == Diag!Found[key]
               zero  == Diag!ZeroBelow[key]
    <3>1. Diag!ReadObject(zero, Diag!WriteObject(found)) = found
      BY <1>5, ObjectIsReadBack
    <3>2. Diag!Written(key, found) = Diag!WriteObject(found)
      BY <2>1, <2>3 DEF Diag!Written, Diag!HoldsObject, Diag!HoldsList
    <3>3. Diag!Reading(key, Diag!WriteObject(found)) = Diag!ReadObject(zero, Diag!WriteObject(found))
      BY <2>1 DEF Diag!Reading, Diag!HoldsObject, Diag!HoldsList
    <3> HIDE DEF found, zero
    <3> QED BY <2>3, <2>5, <3>1, <3>2, <3>3 DEF found
  <2> QED BY <1>5, <2>4, <2>5
<1>6. Back("runtime")
  <2>1. /\ DOMAIN Diag!ZeroBelow.runtime = {"core_state", "core_config_digest"}
        /\ Diag!Found.runtime = [core_state |-> "running", core_config_digest |-> "digest"]
        /\ Diag!Zero.result.runtime = Nil
    BY DEF Diag!ZeroBelow, Diag!Found, Diag!Zero
  <2>2. /\ Diag!Found.runtime = [name \in DOMAIN Diag!ZeroBelow.runtime |-> Diag!Found.runtime[name]]
        /\ \A name \in DOMAIN Diag!ZeroBelow.runtime : Diag!Found.runtime[name] \in Texts
    BY <2>1 DEF Texts
  <2>3. r.runtime \in {Nil, Diag!Found.runtime}
    BY DEF IsOwn
  <2> HIDE DEF Back
  <2> QED BY <1>1, <1>5, <2>1, <2>2, <2>3
<1>7. Back("state")
  <2>1. /\ DOMAIN Diag!ZeroBelow.state = {"sqlite_quick_check", "outbox_pending", "tasks_queued"}
        /\ Diag!Found.state = [sqlite_quick_check |-> "ok", outbox_pending |-> 0, tasks_queued |-> 0]
        /\ Diag!Zero.result.state = Nil
    BY DEF Diag!ZeroBelow, Diag!Found, Diag!Zero
  <2>2. /\ Diag!Found.state = [name \in DOMAIN Diag!ZeroBelow.state |-> Diag!Found.state[name]]
        /\ \A name \in DOMAIN Diag!ZeroBelow.state : Diag!Found.state[name] \in Int \cup Texts
    BY <2>1 DEF Texts
  <2>3. r.state \in {Nil, Diag!Found.state}
    BY DEF IsOwn
  <2> HIDE DEF Back
  <2> QED BY <1>1, <1>5, <2>1, <2>2, <2>3
(* A list is never nil, and neither is what is written of it. *)
<1>8. ASSUME NEW key \in {"events", "checks"}, NEW U, r[key] \in Seq(U), ~Odd(r[key]),
             \A e \in U : /\ e = [name \in DOMAIN Diag!ZeroBelow[key] |-> e[name]]
                          /\ \A name \in DOMAIN Diag!ZeroBelow[key] : e[name] \in Int \cup Texts
      PROVE  Back(key)
  <2> DEFINE s == r[key]
             w == [k \in DOMAIN s |-> Diag!WriteObject(s[k])]
             zero == Diag!ZeroBelow[key]
             V == [DOMAIN zero -> Seq(Int \cup Texts)]
  <2>1. Len(s) \in Nat /\ DOMAIN s = 1..Len(s) /\ \A k \in 1..Len(s) : s[k] \in U
    BY <1>8
  <2>2. \A k \in 1..Len(s) : /\ Diag!WriteObject(s[k]) \in V
                             /\ Diag!ReadObject(zero, Diag!WriteObject(s[k])) = s[k]
    <3>1. ASSUME NEW e \in U
          PROVE  /\ Diag!WriteObject(e) \in V
                 /\ Diag!ReadObject(zero, Diag!WriteObject(e)) = e
      <4>1. e = [name \in DOMAIN zero |-> e[name]] /\ DOMAIN e = DOMAIN zero
        BY <1>8
      <4>2. \A name \in DOMAIN zero : <<e[name]>> \in Seq(Int \cup Texts) /\ e[name] # Nil
        BY <1>1, <1>8
      <4>3. Diag!WriteObject(e) = [name \in DOMAIN zero |-> <<e[name]>>]
        BY <4>1 DEF Diag!WriteObject
      <4>4. Diag!ReadObject(zero, Diag!WriteObject(e)) = e
        BY <4>1, <4>2, ObjectIsReadBack
      <4> QED BY <4>2, <4>3, <4>4
    <3> QED BY <2>1, <3>1
  <2>3. w \in Seq(V)
    <3>1. Len(s) \in Nat /\ DOMAIN w = 1..Len(s) /\ \A k \in 1..Len(s) : w[k] \in V
      BY <2>1, <2>2
    <3>2. w = [k \in 1..Len(s) |-> w[k]]
      BY <2>1
    <3> HIDE DEF V, w, s
    <3> QED BY <3>1, <3>2
  <2>4. [k \in DOMAIN w |-> Diag!ReadObject(zero, w[k])] = s
    <3>1. DOMAIN w = DOMAIN s /\ s = [k \in DOMAIN s |-> s[k]]
      BY <1>8
    <3>2. \A k \in DOMAIN s : Diag!ReadObject(zero, w[k]) = s[k]
      BY <2>1, <2>2
    <3> HIDE DEF w, s, zero
    <3> QED BY <3>1, <3>2
  <2>5. Diag!HoldsList(key) /\ ~Diag!HoldsObject(key)
    BY DEF Diag!HoldsList, Diag!HoldsObject
  <2>6. Diag!Written(key, s) = w
    BY <1>8, <2>5 DEF Diag!Written
  <2> HIDE DEF w
  <2>7. Diag!Reading(key, w) = [k \in DOMAIN w |-> Diag!ReadObject(zero, w[k])]
    BY <2>5 DEF Diag!Reading
  <2>8. ~Odd(w)
    BY <1>8, <2>3, ValuesAssumption
  <2> HIDE DEF zero
  <2> QED BY <2>4, <2>6, <2>7, <2>8
<1>9. Back("events")
  <2>1. r.events \in Seq(ObservedEvent) /\ ~Odd(r.events)
    BY ValuesAssumption DEF IsOwn, IsEnd
  <2>2. DOMAIN Diag!ZeroBelow.events = {"code", "at", "severity", "summary"}
    BY DEF Diag!ZeroBelow
  <2>3. ASSUME NEW e \in ObservedEvent
        PROVE  /\ e = [name \in DOMAIN Diag!ZeroBelow.events |-> e[name]]
               /\ \A name \in DOMAIN Diag!ZeroBelow.events : e[name] \in Int \cup Texts
    <3>1. /\ e = [name \in {"code", "at", "severity", "summary"} |-> e[name]]
          /\ e.severity \in Texts
      BY DEF ObservedEvent, Texts
    <3>2. e.code \in Int /\ e.at \in Int /\ e.summary \in Int
      BY EventsHaveNumbers
    <3> QED BY <2>2, <3>1, <3>2
  <2> HIDE DEF Back
  <2> QED BY <1>8, <2>1, <2>3
<1>10. Back("checks")
  <2> DEFINE Check == [code : Diag!Elements(CheckCodes), status : {"ok", "unavailable"}, summary : {0}]
  <2>1. r.checks \in Seq(Check)
    <3>1. PICK status \in {"ok", "unavailable"} :
            r.checks = [k \in DOMAIN CheckCodes |->
                          [code |-> CheckCodes[k], status |-> status, summary |-> 0]]
      BY DEF IsOwn
    <3> QED BY <3>1, ChecksAreChecks
  <2>2. ~Odd(r.checks)
    BY <2>1, ValuesAssumption
  <2>3. DOMAIN Diag!ZeroBelow.checks = {"code", "status", "summary"}
    BY DEF Diag!ZeroBelow
  <2>4. ASSUME NEW e \in Check
        PROVE  /\ e = [name \in DOMAIN Diag!ZeroBelow.checks |-> e[name]]
               /\ \A name \in DOMAIN Diag!ZeroBelow.checks : e[name] \in Int \cup Texts
    <3>1. e = [name \in {"code", "status", "summary"} |-> e[name]]
      OBVIOUS
    <3>2. e.code \in Int /\ e.status \in Texts /\ e.summary \in Int
      BY DiagnosticsAssumption DEF Texts
    <3> QED BY <2>3, <3>1, <3>2
  <2> HIDE DEF Back, Check
  <2> QED BY <1>8, <2>1, <2>2, <2>4
<1> HIDE DEF Odd, Back
<1>11. \A key \in ResultKeys : Back(key)
  BY <1>3, <1>4, <1>6, <1>7, <1>9, <1>10, TheResultKeys
<1> QED BY <1>11 DEF ReadBack, Back

(* ValidateDiagnosticsResult takes the agent's own result, unless it is    *)
(* truncated to nothing.                                                   *)
LEMMA OwnIsValid ==
  ASSUME NEW r, NEW l, IsOwn(r, l), NEW u, \A key \in ResultKeys : u[key] = r[key],
         ~(r.truncated /\ r.events = <<>>)
  PROVE  Diag!ValidateDiagnosticsResult(u)
<1>1. /\ u.schema_version = r.schema_version /\ u.collected_at_ms = r.collected_at_ms
      /\ u.truncated = r.truncated /\ u.runtime = r.runtime /\ u.state = r.state
      /\ u.events = r.events /\ u.checks = r.checks
  BY TheResultKeys
<1>2. /\ Diag!Found.runtime.core_state = "running" /\ Diag!Found.state.sqlite_quick_check = "ok"
      /\ Diag!Found.state.outbox_pending = 0 /\ Diag!Found.state.tasks_queued = 0
  BY DEF Diag!Found
<1>3. /\ u.runtime # Nil => u.runtime.core_state # ""
      /\ u.state # Nil => /\ u.state.sqlite_quick_check # ""
                          /\ u.state.outbox_pending >= 0 /\ u.state.tasks_queued >= 0
  <2>1. u.runtime # Nil => u.runtime = Diag!Found.runtime
    BY <1>1 DEF IsOwn
  <2>2. u.state # Nil => u.state = Diag!Found.state
    BY <1>1 DEF IsOwn
  <2>3. u.runtime # Nil => u.runtime.core_state = "running"
    BY <1>2, <2>1, Zenon
  <2>4. u.state # Nil => /\ u.state.sqlite_quick_check = "ok"
                         /\ u.state.outbox_pending = 0 /\ u.state.tasks_queued = 0
    BY <1>2, <2>2, Zenon
  <2>5. u.state # Nil => u.state.outbox_pending >= 0 /\ u.state.tasks_queued >= 0
    BY <2>4
  <2>6. u.state # Nil => u.state.sqlite_quick_check # ""
    BY <2>4
  <2>7. u.runtime # Nil => u.runtime.core_state # ""
    BY <2>3
  <2> QED BY <2>5, <2>6, <2>7, Zenon
<1>4. \A e \in Diag!Elements(u.events) : Diag!ValidEvent(e)
  <2>1. u.events \in Seq(ObservedEvent)
    BY <1>1 DEF IsOwn, IsEnd
  <2>2. \A k \in DOMAIN u.events : u.events[k] \in ObservedEvent
    BY <2>1
  <2> QED BY <2>2, EventsHaveNumbers DEF Diag!Elements
<1>5. Diag!ValidateDiagnosticsChecks(u.checks)
  BY <1>1, ChecksAreChecks DEF IsOwn
<1>6. u.schema_version = 1 /\ u.collected_at_ms > 0 /\ Len(u.events) <= MaxDiagnosticsEvents
      /\ ~(u.truncated /\ u.events = <<>>)
  BY <1>1 DEF IsOwn
<1> QED BY <1>3, <1>4, <1>5, <1>6 DEF Diag!ValidateDiagnosticsResult

(* What is under way is the agent's own result, as it was made; the keys   *)
(* seen are those of the fields read, and it has not been refused, unless  *)
(* the limit left it no event.                                             *)
Owned ==
  document = "diagnostic" =>
    /\ content \in Seq(ObservedEvent)
    /\ stage = "collecting" => Diag!ValidateDiagnosticsArgs(work)
    /\ peer =>
         /\ place = "result"
         /\ IsOwn(answer, content) /\ Encodes(wire, answer)
         /\ i \in Nat /\ i <= Len(wire.fields)
         /\ seen = {wire.fields[n].key : n \in 1..i}
         /\ stage = "refused" => answer.truncated /\ answer.events = <<>>

(* What Collect builds is a result of the agent's own: an end of the       *)
(* sorted log, or nothing if events were not asked for.                    *)
LEMMA CollectedIsOwn ==
  ASSUME content \in Seq(ObservedEvent), Diag!ValidateDiagnosticsArgs(work), Diag!Collect
  PROVE  IsOwn(answer, content)'
<1> DEFINE s == Diag!SortDiagnosticsEvents(content)
           asked == IF Diag!Asked("events") THEN Diag!Newest(s, work.max_events) ELSE <<>>
<1>1. PICK host \in {Nil, Diag!Found.host}, status \in {"ok", "unavailable"}, recovered \in BOOLEAN :
        answer' =
          [ schema_version |-> 1, collected_at_ms |-> 1, recovered |-> recovered,
            truncated |-> Diag!Fitting(asked) # asked,
            host      |-> IF Diag!Asked("host") THEN host ELSE Nil,
            runtime   |-> IF Diag!Asked("runtime") THEN Diag!Found.runtime ELSE Nil,
            state     |-> IF Diag!Asked("state") THEN Diag!Found.state ELSE Nil,
            events    |-> Diag!Fitting(asked),
            checks    |-> [k \in DOMAIN CheckCodes |->
                             [code |-> CheckCodes[k], status |-> status, summary |-> 0]] ]
  BY Zenon DEF Diag!Collect
<1>2. content' = content
  BY DEF Diag!Collect
<1>3. work.max_events \in Nat /\ work.max_events <= MaxDiagnosticsEvents
  BY DiagnosticsAssumption DEF Diag!ValidateDiagnosticsArgs
<1>4. s \in Seq(ObservedEvent)
  BY SortSorts DEF Sorted
<1> HIDE DEF s
<1>5. IsEnd(asked, s) /\ Len(asked) <= MaxDiagnosticsEvents
  <2>1. IsEnd(Diag!Newest(s, work.max_events), s) /\ Len(Diag!Newest(s, work.max_events)) <= work.max_events
    BY <1>3, <1>4, NewestIsEnd
  <2>2. Len(Diag!Newest(s, work.max_events)) \in Nat
    BY <2>1 DEF IsEnd
  <2>3. IsEnd(<<>>, s) /\ Len(<<>>) <= MaxDiagnosticsEvents
    BY <1>4, EmptyIsEnd, DiagnosticsAssumption
  <2>4. Len(Diag!Newest(s, work.max_events)) <= MaxDiagnosticsEvents
    BY <1>3, <2>1, <2>2, DiagnosticsAssumption
  <2> QED BY <2>1, <2>3, <2>4
<1> HIDE DEF asked
<1>6. IsEnd(Diag!Fitting(asked), asked)
  BY <1>5, FittingIsEnd DEF IsEnd
<1>7. IsEnd(Diag!Fitting(asked), s)
  BY <1>4, <1>5, <1>6, EndOfEnd
<1>8. Len(Diag!Fitting(asked)) <= MaxDiagnosticsEvents
  <2>1. Len(Diag!Fitting(asked)) \in Nat /\ Len(asked) \in Nat
    BY <1>5, <1>6 DEF IsEnd
  <2>2. Len(Diag!Fitting(asked)) <= Len(asked)
    BY <1>6, <2>1 DEF IsEnd
  <2> QED BY <1>5, <2>1, <2>2, DiagnosticsAssumption
<1> DEFINE r == answer'
<1>9. /\ r.schema_version = 1 /\ r.collected_at_ms = 1 /\ r.recovered = recovered
      /\ r.truncated = (Diag!Fitting(asked) # asked)
      /\ r.host = (IF Diag!Asked("host") THEN host ELSE Nil)
      /\ r.runtime = (IF Diag!Asked("runtime") THEN Diag!Found.runtime ELSE Nil)
      /\ r.state = (IF Diag!Asked("state") THEN Diag!Found.state ELSE Nil)
      /\ r.events = Diag!Fitting(asked)
      /\ r.checks = [k \in DOMAIN CheckCodes |->
                       [code |-> CheckCodes[k], status |-> status, summary |-> 0]]
  BY <1>1
<1> HIDE DEF r
<1>10. IsOwn(r, content)
  <2>1. r.recovered \in BOOLEAN /\ r.truncated \in BOOLEAN
    BY <1>9, Zenon
  <2>2. r.host \in {Nil, Diag!Found.host} /\ r.runtime \in {Nil, Diag!Found.runtime}
        /\ r.state \in {Nil, Diag!Found.state}
    BY <1>9
  <2>3. \E c \in {"ok", "unavailable"} :
          r.checks = [k \in DOMAIN CheckCodes |->
                        [code |-> CheckCodes[k], status |-> c, summary |-> 0]]
    BY <1>9, Zenon
  <2>4. IsEnd(r.events, Diag!SortDiagnosticsEvents(content)) /\ Len(r.events) <= MaxDiagnosticsEvents
    BY <1>7, <1>8, <1>9 DEF s
  <2> QED BY <1>9, <2>1, <2>2, <2>3, <2>4 DEF IsOwn
<1> QED BY <1>2, <1>10 DEF r, IsOwn

(* An own result stays as it was encoded until PSP has it, and the decoder *)
(* finds no reason to refuse it.                                           *)
LEMMA OwnedStays ==
  ASSUME Owned, [AllNext]_all
  PROVE  Owned'
<1> SUFFICES ASSUME document = "diagnostic" PROVE Owned'
  BY DEF Owned, AllNext, all
<1> DEFINE f == wire.fields
<1>1. document' = document
  BY DEF AllNext, all
<1>2. /\ content \in Seq(ObservedEvent)
      /\ stage = "collecting" => Diag!ValidateDiagnosticsArgs(work)
      /\ peer => /\ place = "result" /\ IsOwn(answer, content) /\ Encodes(wire, answer)
                 /\ stage = "refused" => answer.truncated /\ answer.events = <<>>
  BY DEF Owned
<1>3. peer => i \in Nat /\ i <= Len(f) /\ seen = {f[n].key : n \in 1..i}
  BY DEF Owned
<1>4. ASSUME peer
      PROVE  /\ f \in Seq({f[n] : n \in 1..Len(f)}) /\ Len(f) \in Nat
             /\ ReadBack(answer)
             /\ Diag!FieldOrder[place] = Diag!FieldOrder.result
  <2>1. PICK U : f \in Seq(U)
    BY <1>2, <1>4 DEF Encodes, IsList
  <2>2. f \in Seq({f[n] : n \in 1..Len(f)}) /\ Len(f) \in Nat
    <3> HIDE DEF f
    <3> QED BY <2>1
  <2>3. ReadBack(answer)
    BY <1>2, <1>4, OwnIsReadBack
  <2>4. Diag!FieldOrder[place] = Diag!FieldOrder.result
    BY <1>2, <1>4 DEF Diag!FieldOrder
  <2> QED BY <2>2, <2>3, <2>4
(* No other variable matters, and it is refused only by what follows. *)
<1>5. ASSUME UNCHANGED <<content, work, peer, place, answer, wire>>,
             peer => i' \in Nat /\ i' <= Len(f) /\ seen' = {f[n].key : n \in 1..i'},
             stage' = "collecting" => Diag!ValidateDiagnosticsArgs(work),
             peer /\ stage' = "refused" => answer.truncated /\ answer.events = <<>>
      PROVE  Owned'
  <2>1. peer' => /\ (place = "result")' /\ IsOwn(answer, content)' /\ Encodes(wire, answer)'
                 /\ i' \in Nat /\ i' <= Len(wire'.fields)
                 /\ seen' = {wire'.fields[n].key : n \in 1..i'}
    BY <1>2, <1>5 DEF IsOwn, Encodes
  <2>2. (stage = "collecting" => Diag!ValidateDiagnosticsArgs(work))'
    BY <1>5 DEF Diag!ValidateDiagnosticsArgs
  <2> QED BY <1>1, <1>2, <1>5, <2>1, <2>2 DEF Owned
<1>6. CASE Diag!ReadField
  <2>1. /\ UNCHANGED <<content, work, peer, place, answer, wire>> /\ i < Len(f) /\ stage = "reading"
        /\ \/ stage' = stage /\ i' = i + 1 /\ seen' = seen \cup {f[i + 1].key}
           \/ stage' = "refused" /\ ~Diag!TakesField(f[i + 1])
    BY <1>6 DEF Diag!ReadField
  <2>2. ASSUME peer PROVE Diag!TakesField(f[i + 1])
    <3>1. i + 1 \in 1..Len(f) /\ \A n \in 1..i : n \in 1..Len(f) /\ n # i + 1
      BY <1>3, <1>4, <2>1, <2>2
    <3>2. /\ f[i + 1].key \in ResultKeys
          /\ f[i + 1].value = Diag!Written(f[i + 1].key, answer[f[i + 1].key])
      BY <1>2, <2>2, <3>1 DEF Encodes
    <3>3. \A n \in 1..i : f[n].key # f[i + 1].key
      BY <1>2, <2>2, <3>1 DEF Encodes
    <3>4. f[i + 1].key \notin seen
      BY <1>3, <2>2, <3>3
    <3>5. f[i + 1].value # Mistyped
      BY <1>4, <2>2, <3>2 DEF ReadBack
    <3> QED BY <1>4, <2>2, <3>2, <3>4, <3>5 DEF Diag!TakesField, ResultKeys
  <2>3. ASSUME peer PROVE i' \in Nat /\ i' <= Len(f) /\ seen' = {f[n].key : n \in 1..i'}
    <3>1. i' = i + 1 /\ seen' = seen \cup {f[i + 1].key}
      BY <2>1, <2>2, <2>3
    <3>2. i' \in Nat /\ i' <= Len(f)
      BY <1>3, <1>4, <2>1, <2>3, <3>1
    <3> HIDE DEF f
    <3> QED BY <1>3, <2>3, <3>1, <3>2
  <2> QED BY <1>5, <2>1, <2>2, <2>3
<1>7. CASE Diag!EndOfDocument
  <2>1. /\ UNCHANGED <<content, work, peer, place, answer, wire, i, seen>> /\ i = Len(f)
        /\ \/ stage' = "decoded"
           \/ /\ stage' = "refused"
              /\ ~(~wire.trailing /\ Diag!Elements(Diag!FieldOrder[place]) \ seen \subseteq Diag!MayOmit(place))
    BY <1>7 DEF Diag!EndOfDocument
  <2>2. ASSUME peer
        PROVE  ~wire.trailing /\ Diag!Elements(Diag!FieldOrder[place]) \ seen \subseteq Diag!MayOmit(place)
    <3>1. ~wire.trailing
      BY <1>2, <2>2 DEF Encodes
    <3>2. ASSUME NEW key \in ResultKeys, key \notin seen PROVE key \in Diag!Sections
      <4>1. Left(answer, key) \/ \E n \in 1..Len(f) : f[n].key = key
        BY <1>2, <2>2 DEF Encodes
      <4> QED BY <1>3, <2>1, <2>2, <3>2, <4>1 DEF Left
    <3>3. Diag!MayOmit(place) = Diag!Sections
      BY <1>2, <2>2 DEF Diag!MayOmit
    <3> QED BY <1>4, <2>2, <3>1, <3>2, <3>3 DEF ResultKeys
  <2> QED BY <1>3, <1>5, <2>1, <2>2
<1>8. CASE Diag!ValidateArgs
  <2>1. /\ UNCHANGED <<content, peer, place>> /\ place = "args"
        /\ stage' = "collecting" => Diag!ValidateDiagnosticsArgs(work')
    BY <1>8 DEF Diag!ValidateArgs
  <2>2. ~peer'
    BY <1>2, <2>1
  <2>3. (stage = "collecting" => Diag!ValidateDiagnosticsArgs(work))'
    BY <2>1 DEF Diag!ValidateDiagnosticsArgs
  <2> QED BY <1>1, <1>2, <2>1, <2>2, <2>3 DEF Owned
<1>9. CASE Diag!Collect
  <2>1. /\ stage = "collecting" /\ wire' = Diag!Marshal(answer') /\ place' = "result"
        /\ stage' = "reading" /\ content' = content /\ i' = 0 /\ seen' = {}
    BY <1>9 DEF Diag!Collect
  <2>2. IsOwn(answer, content)'
    BY <1>2, <1>9, <2>1, CollectedIsOwn
  <2>3. Encodes(wire', answer')
    BY <2>1, MarshalEncodes
  <2>4. Len(wire'.fields) \in Nat
    <3>1. PICK U : wire'.fields \in Seq(U)
      BY <2>3 DEF Encodes, IsList
    <3> QED BY <3>1
  <2>5. i' \in Nat /\ i' <= Len(wire'.fields) /\ seen' = {wire'.fields[n].key : n \in 1..i'}
    BY <2>1, <2>4
  <2> QED BY <1>1, <1>2, <2>1, <2>2, <2>3, <2>5 DEF Owned, Encodes
<1>10. CASE Diag!Replace
  <2>1. ~peer' /\ UNCHANGED <<content, stage>> /\ stage = "reading"
    BY <1>10 DEF Diag!Replace
  <2> QED BY <1>1, <1>2, <2>1 DEF Owned
<1>11. CASE Diag!ValidateResult
  <2>1. /\ UNCHANGED <<content, work, peer, place, answer, wire, i, seen>>
        /\ \/ stage' = "accepted"
           \/ stage' = "refused" /\ ~Diag!ValidateDiagnosticsResult(Diag!Unmarshal("result", wire))
    BY <1>11 DEF Diag!ValidateResult
  <2>2. ASSUME peer, ~(answer.truncated /\ answer.events = <<>>)
        PROVE  Diag!ValidateDiagnosticsResult(Diag!Unmarshal("result", wire))
    <3>1. \A key \in ResultKeys : Diag!Unmarshal("result", wire)[key] = answer[key]
      BY <1>2, <1>4, <2>2, UnmarshalDecodes
    <3> QED BY <1>2, <2>2, <3>1, OwnIsValid
  <2> QED BY <1>3, <1>5, <2>1, <2>2
<1>12. CASE UNCHANGED all
  <2>1. UNCHANGED <<content, work, peer, place, answer, wire, i, seen, stage>>
    BY <1>12 DEF all, vars
  <2> QED BY <1>2, <1>3, <1>5, <2>1
<1> QED BY <1>6, <1>7, <1>8, <1>9, <1>10, <1>11, <1>12 DEF AllNext, Diag!Next

(* What PSP then reads is the result as built, hence valid, and its events *)
(* are the newest.                                                         *)
LEMMA OwnedArrives == Owned => OwnResultArrives
<1> SUFFICES ASSUME document = "diagnostic", Owned PROVE Diag!OwnResultArrives
  BY DEF OwnResultArrives
<1>1. content \in Seq(ObservedEvent)
  BY DEF Owned
<1>2. Diag!OwnResultIsAccepted
  BY DEF Owned, Diag!OwnResultIsAccepted
<1>3. ASSUME peer PROVE Diag!SurvivorsAreNewest
  <2> DEFINE t == answer.events
             Count(s, e) == Cardinality({k \in DOMAIN s : s[k] = e})
  <2>1. IsOwn(answer, content) /\ Encodes(wire, answer)
    BY <1>3 DEF Owned
  <2>2. Diag!Unmarshal("result", wire).events = t
    <3>1. \A key \in ResultKeys : Diag!Unmarshal("result", wire)[key] = answer[key]
      BY <2>1, OwnIsReadBack, UnmarshalDecodes
    <3>2. "events" \in ResultKeys
      BY TheResultKeys
    <3> QED BY <3>1, <3>2
  <2>3. IsEnd(t, Diag!SortDiagnosticsEvents(content))
    BY <2>1 DEF IsOwn
  <2> HIDE DEF t
  <2>4. /\ \A k \in DOMAIN t : k > 1 => NotAfter(t[k - 1], t[k])
        /\ \A d \in Diag!Elements(content), e \in Diag!Elements(t) :
             Count(t, d) < Count(content, d) => NotAfter(d, e)
    BY <1>1, <2>3, EndsAreNewest
  <2> DEFINE Newest(ev) ==
               /\ \A k \in DOMAIN ev : k > 1 =>
                    \/ ev[k - 1].at < ev[k].at
                    \/ ev[k - 1].at = ev[k].at /\ ev[k - 1].code <= ev[k].code
               /\ \A d \in {e \in Diag!Elements(content) : Count(ev, e) < Count(content, e)},
                     e \in Diag!Elements(ev) :
                    d.at < e.at \/ (d.at = e.at /\ d.code <= e.code)
  <2>5. Newest(t)
    <3> HIDE DEF Count
    <3>1. \A d \in {e \in Diag!Elements(content) : Count(t, e) < Count(content, e)},
             e \in Diag!Elements(t) : NotAfter(d, e)
      BY <2>4, Zenon
    <3> QED BY <2>4, <3>1, Zenon DEF NotAfter
  <2>6. Newest(Diag!Unmarshal("result", wire).events) => Diag!SurvivorsAreNewest
    BY Zenon DEF Diag!SurvivorsAreNewest, Diag!Cardinality, Cardinality
  <2> HIDE DEF Newest
  <2> QED BY <2>2, <2>5, <2>6, Zenon
<1>4. Diag!SurvivorsAreNewest
  BY <1>3 DEF Diag!SurvivorsAreNewest
<1> QED BY <1>2, <1>4 DEF Diag!OwnResultArrives

(* PSP accepts what an agent made of a valid request, whatever it could    *)
(* collect, unless the limit left no event; and what it accepts holds the  *)
(* newest of the agent's events, in order (DiagnosticsResult).             *)
THEOREM OwnDiagnosticArrives == AllSpec => []OwnResultArrives
<1>1. AllInit => Owned
  <2> SUFFICES ASSUME document = "diagnostic", AllInit PROVE Owned
    BY DEF Owned
  <2>1. content \in Logs /\ stage = "reading" /\ peer = FALSE
    BY DEF AllInit, Diag!Init
  <2> QED BY <2>1, DiagnosticsAssumption DEF Owned
<1>2. Owned /\ [AllNext]_all => Owned'
  BY OwnedStays
<1>3. Owned => OwnResultArrives
  BY OwnedArrives
<1> QED BY <1>1, <1>2, <1>3, PTL DEF AllSpec

-----------------------------------------------------------------------------
(* The report.  Its validators go through it by position; what they find   *)
(* out is what Acceptable says without one.                                *)

Slice(r, field) == Report!Items(r[field])

ThingsDiffer(field, s, n) ==
  \A l, m \in 1..n : Report!Identity(field, s[l]) = Report!Identity(field, s[m]) => l = m

SoundUpTo(field, r, n) ==
  /\ \A m \in 1..n : Report!Entry(field, Slice(r, field)[m])
  /\ ThingsDiffer(field, Slice(r, field), n)

SoundList(field, r) ==
  Report!WithinLimit(field, r) /\ SoundUpTo(field, r, Len(Slice(r, field)))

SoundReport(r) ==
  /\ Report!Header(r) /\ Report!Have(r)
  /\ \A field \in Report!Lists : SoundList(field, r)
  /\ r.partial => Report!OmitsEnumerations(r)

HasLists(r) == \A field \in Report!Lists : IsList(Slice(r, field))

(* An image is as large as what it is of if no two have the same image.    *)
LEMMA NoTwoAlike ==
  ASSUME NEW n \in Nat, NEW f, DOMAIN f = 1..n, f = [m \in 1..n |-> f[m]]
  PROVE  Cardinality({f[m] : m \in 1..n}) = n
           <=> \A l, m \in 1..n : f[l] = f[m] => l = m
<1> DEFINE T == {f[m] : m \in 1..n}
<1>1. IsFiniteSet(1..n) /\ Cardinality(1..n) = n
  <2>1. \A a, b \in Int : IsFiniteSet(a..b) /\ Cardinality(a..b) = IF a > b THEN 0 ELSE b - a + 1
    BY FS_Interval, Zenon
  <2>2. 1 \in Int /\ n \in Int
    OBVIOUS
  <2>3. IsFiniteSet(1..n) /\ Cardinality(1..n) = IF 1 > n THEN 0 ELSE n - 1 + 1
    BY <2>1, <2>2, Zenon
  <2>4. Cardinality(1..n) = n
    BY <2>3
  <2> QED BY <2>3, <2>4
<1>2. f \in Surjection(1..n, T)
  BY DEF Surjection
<1>3. Cardinality(T) = Cardinality(1..n) <=> f \in Injection(1..n, T)
  <2>1. \A A, B : \A g \in Surjection(A, B) :
          IsFiniteSet(A) => (Cardinality(B) = Cardinality(A) <=> g \in Injection(A, B))
    BY FS_Surjection
  <2> HIDE DEF T
  <2> QED BY <1>1, <1>2, <2>1, Zenon
<1>4. f \in Injection(1..n, T) <=> \A l, m \in 1..n : f[l] = f[m] => l = m
  BY DEF Injection, IsInjective
<1> QED BY <1>1, <1>3, <1>4

(* A list taken entry by entry is one the reference accepts as a whole.    *)
LEMMA SoundIsListed ==
  ASSUME NEW r, NEW field \in Report!Lists, IsList(Slice(r, field))
  PROVE  SoundList(field, r) <=> Report!Listed(field, r)
<1> DEFINE s == Slice(r, field)
           n == Len(s)
           f == [m \in 1..n |-> Report!Thing(field, s[m])]
<1>1. n \in Nat /\ DOMAIN s = 1..n
  <2>1. PICK U : s \in Seq(U)
    BY DEF IsList
  <2> HIDE DEF s
  <2> QED BY <2>1
<1>2. Report!Elements(r[field]) = {s[m] : m \in 1..n}
  BY <1>1 DEF Report!Elements, Slice
<1>3. {Report!Thing(field, e) : e \in Report!Elements(r[field])} = {f[m] : m \in 1..n}
  <2> HIDE DEF s
  <2> QED BY <1>2
<1>4. Cardinality({f[m] : m \in 1..n}) = n <=> \A l, m \in 1..n : f[l] = f[m] => l = m
  <2>1. DOMAIN f = 1..n /\ f = [m \in 1..n |-> f[m]]
    OBVIOUS
  <2> HIDE DEF f, n
  <2> QED BY <1>1, <2>1, NoTwoAlike
<1>5. \A l, m \in 1..n : f[l] = f[m] <=> Report!Identity(field, s[l]) = Report!Identity(field, s[m])
  <2> SUFFICES ASSUME NEW l \in 1..n, NEW m \in 1..n
               PROVE  f[l] = f[m] <=> Report!Identity(field, s[l]) = Report!Identity(field, s[m])
    OBVIOUS
  <2>1. f[l] = Report!Thing(field, s[l]) /\ f[m] = Report!Thing(field, s[m])
    OBVIOUS
  <2> HIDE DEF s, f, n
  <2>2. \A a, b : Report!Thing(field, a) = Report!Thing(field, b)
                    <=> Report!Identity(field, a) = Report!Identity(field, b)
    <3>1. CASE field = "objects"
      BY <3>1 DEF Report!Thing, Report!Identity
    <3>2. CASE field = "issues"
      BY <3>2 DEF Report!Thing, Report!Identity
    <3>3. CASE field \notin {"objects", "issues"}
      BY <3>3 DEF Report!Thing, Report!Identity
    <3> QED BY <3>1, <3>2, <3>3
  <2> QED BY <2>1, <2>2
<1>6. Report!Listed(field, r) <=>
        /\ Report!WithinLimit(field, r)
        /\ \A e \in Report!Elements(r[field]) : Report!Entry(field, e)
        /\ Cardinality({Report!Thing(field, e) : e \in Report!Elements(r[field])}) = n
  BY Zenon DEF Report!Listed, Slice, Report!Cardinality, Cardinality
<1> HIDE DEF f, s, n
<1>7. SoundList(field, r) <=>
        /\ Report!WithinLimit(field, r)
        /\ \A m \in 1..n : Report!Entry(field, s[m])
        /\ \A l, m \in 1..n : Report!Identity(field, s[l]) = Report!Identity(field, s[m]) => l = m
  BY DEF SoundList, SoundUpTo, ThingsDiffer, s, n
<1>8. (\A e \in Report!Elements(r[field]) : Report!Entry(field, e))
        <=> \A m \in 1..n : Report!Entry(field, s[m])
  BY <1>2
<1>9. (Cardinality({Report!Thing(field, e) : e \in Report!Elements(r[field])}) = n)
        <=> \A l, m \in 1..n : Report!Identity(field, s[l]) = Report!Identity(field, s[m]) => l = m
  BY <1>3, <1>4, <1>5
<1> QED BY <1>6, <1>7, <1>8, <1>9

(* What encoding does to a report, field by field. *)
SameReport(r, d) ==
  \A key \in DOMAIN Report!ZeroValue :
    \/ d[key] = r[key]
    \/ /\ key \in Report!Enumerations \cup Report!Slices
       /\ Slice(d, key) = Slice(r, key)

IsReport(r) ==
  /\ DOMAIN r = DOMAIN Report!ZeroValue
  /\ r.partial \in BOOLEAN
  /\ HasLists(r)

(* The fields of NodeReport.                                               *)
LEMMA FieldsOfReport ==
  DOMAIN Report!ZeroValue =
    { "agent_id", "protocol_version", "reported_at_ms", "agent_version", "core_engine",
      "core_version", "core_state", "capabilities", "partial", "have", "objects",
      "listener_counters", "clients", "subjects", "host", "issues", "task_results" }
BY DEF Report!ZeroValue

(* Nil and empty slices have the same items, once and for all.             *)
LEMMA SliceOfSlice == \A x : Report!Items(Report!Items(x)) = Report!Items(x)
BY DEF Report!Items

(* An absent slice decodes to no items.                                    *)
LEMMA ZeroSlices ==
  \A key \in Report!Enumerations \cup Report!Slices : Report!Items(Report!ZeroValue[key]) = <<>>
<1> DEFINE zero == Report!ZeroValue
<1>1. /\ zero.objects = Nil /\ zero.listener_counters = Nil /\ zero.clients = Nil
      /\ zero.capabilities = Nil /\ zero.subjects = Nil /\ zero.issues = Nil
      /\ zero.task_results = Nil
  BY DEF Report!ZeroValue
<1>2. Report!Items(Nil) = <<>>
  BY DEF Report!Items
<1> HIDE DEF zero
<1>3. \A key \in Report!Enumerations \cup Report!Slices : zero[key] = Nil
  BY <1>1 DEF Report!Enumerations, Report!Slices
<1> QED BY <1>2, <1>3 DEF zero

(* Either shape of MarshalJSON decodes to the same report, up to nil and   *)
(* empty slices.                                                           *)
LEMMA EncodingIsFaithful ==
  ASSUME NEW r, IsReport(r), r.partial => Report!OmitsEnumerations(r)
  PROVE  SameReport(r, Report!Decoded(Report!MarshalJSON(r)))
<1> DEFINE w == Report!MarshalJSON(r)
           d == Report!Decoded(w)
           keys == IF r.partial THEN Report!PartialKeys ELSE DOMAIN r
<1> SUFFICES ASSUME NEW key \in DOMAIN Report!ZeroValue
             PROVE  \/ d[key] = r[key]
                    \/ /\ key \in Report!Enumerations \cup Report!Slices
                       /\ Report!Items(d[key]) = Report!Items(r[key])
  BY DEF SameReport, Slice
<1>1. w = [k \in {k \in keys : ~Report!Omitted(r, k)} |-> Report!Encoded(r, k)]
  BY Zenon DEF Report!MarshalJSON
<1>2. d[key] = IF key \in DOMAIN w THEN w[key] ELSE Report!ZeroValue[key]
  BY DEF Report!Decoded
<1> HIDE DEF w, d
<1>3. CASE key \in keys /\ ~Report!Omitted(r, key)
  <2>1. d[key] = Report!Encoded(r, key)
    BY <1>1, <1>2, <1>3
  <2>2. d[key] = r[key] \/ (key \in Report!Enumerations /\ d[key] = Report!Items(r[key]))
    BY <2>1 DEF Report!Encoded
  <2> QED BY <2>2, SliceOfSlice
<1>4. CASE ~(key \in keys /\ ~Report!Omitted(r, key))
  <2>1. d[key] = Report!ZeroValue[key]
    BY <1>1, <1>2, <1>4
  <2>2. CASE Report!Omitted(r, key)
    <3>1. CASE r[key] = Report!ZeroValue[key]
      BY <2>1, <3>1
    <3>2. CASE key \in Report!Slices /\ Report!Items(r[key]) = <<>>
      BY <2>1, <3>2, ZeroSlices
    <3> QED BY <2>2, <3>1, <3>2 DEF Report!Omitted
  <2>3. CASE key \notin keys
    <3>1. r.partial /\ key \notin Report!PartialKeys
      BY <2>3 DEF IsReport
    <3>2. key \in Report!Enumerations \cup {"subjects"}
      BY <3>1, FieldsOfReport DEF Report!PartialKeys, Report!Enumerations
    <3>3. Report!Items(r[key]) = <<>>
      BY <3>1, <3>2 DEF Report!OmitsEnumerations
    <3>4. key \in Report!Enumerations \cup Report!Slices
      BY <3>2 DEF Report!Slices
    <3> QED BY <2>1, <3>3, <3>4, ZeroSlices
  <2> QED BY <1>4, <2>2, <2>3
<1> QED BY <1>3, <1>4

(* The lists the validator walks are the slices of the report.             *)
LEMMA ListsAreSlices == Report!Lists = Report!Enumerations \cup Report!Slices
BY DEF Report!Lists, Report!Enumerations, Report!Slices

(* What was decoded has lists again.                                       *)
LEMMA DecodedHasLists ==
  ASSUME NEW r, IsReport(r)
  PROVE  HasLists(Report!Decoded(Report!MarshalJSON(r)))
<1> DEFINE w == Report!MarshalJSON(r)
           d == Report!Decoded(w)
           keys == IF r.partial THEN Report!PartialKeys ELSE DOMAIN r
<1> SUFFICES ASSUME NEW key \in Report!Lists PROVE IsList(Report!Items(d[key]))
  BY DEF HasLists, Slice
<1>1. w = [k \in {k \in keys : ~Report!Omitted(r, k)} |-> Report!Encoded(r, k)]
  BY Zenon DEF Report!MarshalJSON
<1>2. d[key] = IF key \in DOMAIN w THEN w[key] ELSE Report!ZeroValue[key]
  BY FieldsOfReport DEF Report!Decoded, Report!Lists
<1> HIDE DEF w, d
<1>3. IsList(Report!Items(r[key])) /\ IsList(<<>>)
  BY DEF IsReport, HasLists, Slice, IsList
<1>4. CASE key \in DOMAIN w
  <2>1. d[key] = r[key] \/ d[key] = Report!Items(r[key])
    BY <1>1, <1>2, <1>4 DEF Report!Encoded
  <2> QED BY <1>3, <2>1, SliceOfSlice
<1>5. CASE key \notin DOMAIN w
  BY <1>2, <1>3, <1>5, ZeroSlices, ListsAreSlices
<1> QED BY <1>4, <1>5

(* Reports that are the same up to nil and empty are equally sound.        *)
LEMMA SameIsAsSound ==
  ASSUME NEW r, NEW d, SameReport(r, d), SoundReport(r)
  PROVE  SoundReport(d)
<1>1. /\ d.agent_id = r.agent_id /\ d.protocol_version = r.protocol_version
      /\ d.reported_at_ms = r.reported_at_ms /\ d.core_engine = r.core_engine
      /\ d.partial = r.partial /\ d.have = r.have
  BY FieldsOfReport DEF SameReport, Report!Enumerations, Report!Slices
<1>2. \A field \in Report!Lists : Slice(d, field) = Slice(r, field)
  BY FieldsOfReport DEF SameReport, Slice, Report!Lists
<1>3. Report!Header(d) /\ Report!Have(d)
  BY <1>1 DEF SoundReport, Report!Header, Report!Have
<1>4. \A field \in Report!Lists : SoundList(field, d)
  BY <1>2 DEF SoundReport, SoundList, SoundUpTo, Report!WithinLimit, Slice
<1>5. d.partial => Report!OmitsEnumerations(d)
  BY <1>1, <1>2, ListsAreSlices DEF SoundReport, Report!OmitsEnumerations, Slice, Report!Slices
<1> QED BY <1>3, <1>4, <1>5 DEF SoundReport

(* How far a validator is. *)
Rank ==
  [ header |-> 0, capabilities |-> 1, have |-> 2, objects |-> 3, listener_counters |-> 4,
    clients |-> 5, subjects |-> 6, issues |-> 7, task_results |-> 8, accepted |-> 9 ]

InLoop ==
  /\ i \in Nat /\ i <= Len(Slice(work, stage))
  /\ SoundUpTo(stage, work, i)
  /\ seen = {Report!Identity(stage, Slice(work, stage)[m]) : m \in 1..i}

SoFar ==
  /\ stage \in DOMAIN Rank \cup {"refused"}
  /\ stage = "refused" => ~SoundReport(work)
  /\ stage # "refused" =>
       /\ Rank[stage] > 0 => Report!Header(work)
       /\ Rank[stage] > 2 => /\ Report!Have(work)
                             /\ work.partial => Report!OmitsEnumerations(work)
       /\ \A field \in Report!Lists : Rank[field] < Rank[stage] => SoundList(field, work)
       /\ stage \in Report!Lists => InLoop

Transferred ==
  document = "report" =>
    /\ IsReport(content) /\ HasLists(work)
    /\ place = "agent" => work = content
    /\ answer = "none" \/ place = "done"
    /\ place = "psp" \/ answer # "none" =>
         /\ wire = Report!MarshalJSON(content) /\ work = Report!Decoded(wire)
         /\ peer = "checking" => SoundReport(content)
    /\ answer # "none" => answer = stage /\ stage \in {"accepted", "refused"}
    /\ SoFar

(* Going to a stage or a list is right if all that comes before it has     *)
(* been taken.                                                             *)
LEMMA StageBegins ==
  ASSUME HasLists(work), SoFar, NEW s \in DOMAIN Rank, stage' = s, i' = 0, seen' = {}, work' = work,
         Rank[s] > 0 => Report!Header(work),
         Rank[s] > 2 => Report!Have(work) /\ (work.partial => Report!OmitsEnumerations(work)),
         \A field \in Report!Lists : Rank[field] < Rank[s] => SoundList(field, work)
  PROVE  SoFar'
<1>1. stage' # "refused"
  BY DEF Rank
<1>2. ASSUME stage' \in Report!Lists PROVE InLoop'
  <2>1. Len(Slice(work, s)) \in Nat
    <3>1. PICK U : Slice(work, s) \in Seq(U)
      BY <1>2 DEF HasLists, IsList
    <3> QED BY <3>1
  <2>2. Slice(work', stage') = Slice(work, s)
    OBVIOUS
  <2> QED BY <2>1, <2>2 DEF InLoop, SoundUpTo, ThingsDiffer
<1> QED BY <1>1, <1>2 DEF SoFar

(* An empty list is sound, whatever it is a list of.                         *)
LEMMA EmptyIsSound ==
  ASSUME NEW r, NEW field \in Report!Lists, Slice(r, field) = <<>>
  PROVE  SoundList(field, r)
<1>1. Report!WithinLimit(field, r)
  BY ListLimitsAssumption DEF Report!WithinLimit, Slice
<1> QED BY <1>1 DEF SoundList, SoundUpTo, ThingsDiffer

(* A stage without a list leads to the next one, or refuses what is not    *)
(* sound.                                                                  *)
LEMMA StageDone ==
  ASSUME HasLists(work), SoFar, Report!Stage
  PROVE  SoFar'
<1> USE DEF Rank
<1>1. /\ stage \in {"header", "have"} /\ i' = 0 /\ seen' = {} /\ work' = work
      /\ stage' = IF Report!Passes(stage) THEN Report!Following(stage, work) ELSE "refused"
  BY DEF Report!Stage, Report!GoesTo
<1>2. CASE ~Report!Passes(stage)
  <2>1. ~SoundReport(work)
    BY <1>1, <1>2 DEF SoundReport, Report!Passes
  <2> QED BY <1>1, <1>2, <2>1 DEF SoFar
<1>3. CASE Report!Passes(stage) /\ stage = "header"
  <2>1. stage' = "capabilities" /\ Report!Header(work)
    BY <1>1, <1>3 DEF Report!Passes, Report!Following
  <2>2. \A field \in Report!Lists : ~(Rank[field] < Rank["capabilities"])
    BY DEF Report!Lists
  <2> QED BY <1>1, <2>1, <2>2, StageBegins
<1>4. CASE Report!Passes(stage) /\ stage = "have"
  <2>1. /\ stage' = IF work.partial THEN "issues" ELSE "objects"
        /\ Report!Have(work) /\ (work.partial => Report!OmitsEnumerations(work))
    BY <1>1, <1>4 DEF Report!Passes, Report!Following
  <2>2. Report!Header(work) /\ SoundList("capabilities", work)
    BY <1>4 DEF SoFar, Report!Lists
  <2>3. ASSUME NEW field \in Report!Lists, Rank[field] < Rank[stage']
        PROVE  SoundList(field, work)
    <3>1. CASE work.partial
      <4>1. field \in {"capabilities"} \cup Report!Enumerations \cup {"subjects"}
        BY <2>1, <2>3, <3>1 DEF Report!Lists, Report!Enumerations
      <4>2. CASE field = "capabilities"
        BY <2>2, <4>2
      <4>3. CASE field \in Report!Enumerations \cup {"subjects"}
        <5>1. Slice(work, field) = <<>>
          BY <2>1, <3>1, <4>3 DEF Report!OmitsEnumerations, Slice
        <5> QED BY <5>1, EmptyIsSound
      <4> QED BY <4>1, <4>2, <4>3
    <3>2. CASE ~work.partial
      <4>1. field = "capabilities"
        BY <2>1, <2>3, <3>2 DEF Report!Lists
      <4> QED BY <2>2, <4>1
    <3> QED BY <3>1, <3>2
  <2>4. stage' \in DOMAIN Rank
    BY <2>1
  <2> QED BY <1>1, <2>1, <2>2, <2>3, <2>4, StageBegins
<1> QED BY <1>1, <1>2, <1>3, <1>4

(* At its end, a list has been taken as a whole.                           *)
LEMMA ListEnds ==
  ASSUME HasLists(work), SoFar, Report!EndOfList
  PROVE  SoFar'
<1>1. /\ stage \in Report!Lists /\ Report!WithinLimit(stage, work) /\ i = Len(Slice(work, stage))
      /\ i' = 0 /\ seen' = {} /\ work' = work
      /\ stage' = Report!Following(stage, work)
  BY DEF Report!EndOfList, Report!GoesTo, Report!List, Slice
<1>2. SoundList(stage, work)
  BY <1>1 DEF SoFar, InLoop, SoundList, Report!Lists
<1>3. /\ stage' \in DOMAIN Rank /\ Rank[stage'] > 0
      /\ Rank[stage'] > 2 => Rank[stage] > 2
      /\ \A field \in Report!Lists : Rank[field] < Rank[stage'] => Rank[field] < Rank[stage] \/ field = stage
  BY <1>1 DEF Report!Following, Report!Lists, Rank
<1>4. Rank[stage] > 0 /\ stage # "refused"
  BY <1>1 DEF Report!Lists, Rank
<1> QED BY <1>1, <1>2, <1>3, <1>4, StageBegins DEF SoFar

(* An entry that is taken joins those whose identities are known.          *)
LEMMA EntryTaken ==
  ASSUME HasLists(work), SoFar, Report!Iterate
  PROVE  SoFar'
<1> DEFINE s == Slice(work, stage)
<1>1. /\ stage \in Report!Lists /\ i < Len(s) /\ Report!TakesEntry(s[i + 1])
      /\ i' = i + 1 /\ seen' = seen \cup {Report!Identity(stage, s[i + 1])}
      /\ work' = work /\ stage' = stage
  BY DEF Report!Iterate, Report!List, Slice
<1>2. InLoop /\ Len(s) \in Nat
  <2>1. PICK U : s \in Seq(U)
    BY <1>1 DEF HasLists, IsList
  <2>2. Len(s) \in Nat
    BY <2>1
  <2> QED BY <1>1, <2>2 DEF SoFar, Report!Lists
<1>3. /\ i \in Nat
      /\ \A m \in 1..i : Report!Entry(stage, s[m])
      /\ \A l, m \in 1..i : Report!Identity(stage, s[l]) = Report!Identity(stage, s[m]) => l = m
      /\ seen = {Report!Identity(stage, s[m]) : m \in 1..i}
  BY <1>2 DEF InLoop, SoundUpTo, ThingsDiffer
<1>4. Report!Entry(stage, s[i + 1]) /\ Report!Identity(stage, s[i + 1]) \notin seen
  BY <1>1 DEF Report!TakesEntry
<1>5. InLoop'
  <2>1. Slice(work', stage') = s
    BY <1>1
  <2> HIDE DEF s
  <2>2. i' \in Nat /\ i' <= Len(s)
    BY <1>1, <1>2, <1>3
  <2>3. \A m \in 1..i' : Report!Entry(stage, s[m])
    BY <1>1, <1>3, <1>4
  <2>4. \A l, m \in 1..i' : Report!Identity(stage, s[l]) = Report!Identity(stage, s[m]) => l = m
    BY <1>1, <1>3, <1>4
  <2>5. seen' = {Report!Identity(stage, s[m]) : m \in 1..i'}
    BY <1>1, <1>3
  <2> QED BY <1>1, <2>1, <2>2, <2>3, <2>4, <2>5 DEF InLoop, SoundUpTo, ThingsDiffer
<1> HIDE DEF s
<1> QED BY <1>1, <1>5 DEF SoFar, Report!Lists

(* An entry that is refused, or a list that is too long, makes the report  *)
(* unsound.                                                                *)
LEMMA RefusedIsUnsound ==
  ASSUME HasLists(work), SoFar, Report!Refuse
  PROVE  SoFar'
<1> DEFINE s == Slice(work, stage)
<1>1. /\ stage \in Report!Lists /\ stage' = "refused" /\ work' = work
      /\ \/ ~Report!WithinLimit(stage, work)
         \/ i < Len(s) /\ ~Report!TakesEntry(s[i + 1])
  BY DEF Report!Refuse, Report!GoesTo, Report!List, Slice
<1>2. InLoop /\ Len(s) \in Nat
  <2>1. PICK U : s \in Seq(U)
    BY <1>1 DEF HasLists, IsList
  <2>2. Len(s) \in Nat
    BY <2>1
  <2> QED BY <1>1, <2>2 DEF SoFar, Report!Lists
<1>3. ~SoundList(stage, work)
  <2>1. CASE ~Report!WithinLimit(stage, work)
    BY <2>1 DEF SoundList
  <2>2. CASE i < Len(s) /\ ~Report!TakesEntry(s[i + 1])
    <3> SUFFICES ASSUME SoundUpTo(stage, work, Len(s)) PROVE FALSE
      BY DEF SoundList
    <3>1. /\ \A m \in 1..Len(s) : Report!Entry(stage, s[m])
          /\ \A l, m \in 1..Len(s) : Report!Identity(stage, s[l]) = Report!Identity(stage, s[m]) => l = m
      BY DEF SoundUpTo, ThingsDiffer
    <3>2. i \in Nat /\ seen = {Report!Identity(stage, s[m]) : m \in 1..i}
      BY <1>2 DEF InLoop
    <3>3. ~Report!Entry(stage, s[i + 1]) \/ Report!Identity(stage, s[i + 1]) \in seen
      BY <2>2 DEF Report!TakesEntry
    <3> HIDE DEF s
    <3> QED BY <1>2, <2>2, <3>1, <3>2, <3>3
  <2> QED BY <1>1, <2>1, <2>2
<1> QED BY <1>1, <1>3 DEF SoFar, SoundReport

(* What an agent builds is a report with lists.                            *)
LEMMA ReportsAreReports == \A r \in Reports : IsReport(r)
<1> SUFFICES ASSUME NEW r \in Reports PROVE IsReport(r)
  OBVIOUS
<1>1. /\ DOMAIN r = DOMAIN Report!ZeroValue
      /\ r.partial \in BOOLEAN
      /\ \A key \in Report!Lists : r[key] = Nil \/ IsSlice(r[key])
  BY ReportsAssumption, ListsAreSlices
<1>2. ASSUME NEW key \in Report!Lists PROVE IsList(Slice(r, key))
  <2>1. IsList(<<>>)
    BY DEF IsList
  <2>2. CASE r[key] = Nil
    BY <2>1, <2>2 DEF Slice, Report!Items
  <2>3. CASE IsSlice(r[key])
    <3>1. IsList(r[key])
      BY <2>3, ListsAreLists DEF IsSlice
    <3> QED BY <2>1, <3>1 DEF Slice, Report!Items
  <2> QED BY <1>1, <2>2, <2>3
<1> QED BY <1>1, <1>2 DEF IsReport, HasLists

(* Before anything is judged, nothing is known.                            *)
LEMMA TransferStarts == AllInit => Transferred
<1> SUFFICES ASSUME AllInit, document = "report" PROVE Transferred
  BY DEF Transferred
<1>1. /\ content \in Reports /\ work = content /\ answer = "none"
      /\ place = "agent" /\ stage = "header" /\ i = 0 /\ seen = {}
  BY DEF AllInit, Report!Init
<1>2. IsReport(content) /\ HasLists(work)
  BY <1>1, ReportsAreReports DEF IsReport
<1>3. SoFar
  BY <1>1 DEF SoFar, Rank, Report!Lists
<1> QED BY <1>1, <1>2, <1>3 DEF Transferred

(* Validation, encoding, delivery and the second validation, stage by      *)
(* stage.                                                                  *)
LEMMA TransferStays ==
  ASSUME Transferred, [AllNext]_all
  PROVE  Transferred'
<1> SUFFICES ASSUME document = "report" PROVE Transferred'
  BY DEF Transferred, AllNext, all
<1>1. document' = document
  BY DEF AllNext, all
<1>2. /\ IsReport(content) /\ HasLists(work)
      /\ place = "agent" => work = content
      /\ answer = "none" \/ place = "done"
      /\ place = "psp" \/ answer # "none" =>
           /\ wire = Report!MarshalJSON(content) /\ work = Report!Decoded(wire)
           /\ peer = "checking" => SoundReport(content)
      /\ answer # "none" => answer = stage /\ stage \in {"accepted", "refused"}
      /\ SoFar
  BY DEF Transferred
<1>3. CASE Report!Stage \/ Report!EndOfList \/ Report!Iterate \/ Report!Refuse
  <2>1. SoFar'
    BY <1>2, <1>3, StageDone, ListEnds, EntryTaken, RefusedIsUnsound
  <2>2. /\ UNCHANGED <<content, peer, wire, work, place, answer>>
        /\ place \in {"agent", "psp"}
    BY <1>3 DEF Report!Stage, Report!EndOfList, Report!Iterate, Report!Refuse, Report!GoesTo,
                Report!Validating
  <2>3. answer' = "none"
    BY <1>2, <2>2
  <2>4. IsReport(content') /\ HasLists(work')
    BY <1>2, <2>2
  <2> QED BY <1>1, <1>2, <2>1, <2>2, <2>3, <2>4 DEF Transferred
<1>4. CASE Report!Send
  <2>1. /\ place = "agent" /\ Report!MaySend /\ wire' = Report!MarshalJSON(content)
        /\ work' = Report!Decoded(wire') /\ place' = "psp" /\ stage' = "header"
        /\ i' = 0 /\ seen' = {} /\ UNCHANGED <<content, peer, answer>>
    BY <1>4 DEF Report!Send
  <2>2. peer = "checking" => SoundReport(content)
    <3> SUFFICES ASSUME peer = "checking" PROVE SoundReport(content)
      OBVIOUS
    <3>1. stage = "accepted" /\ work = content
      BY <1>2, <2>1 DEF Report!MaySend
    <3>2. /\ Report!Header(work) /\ Report!Have(work)
          /\ work.partial => Report!OmitsEnumerations(work)
          /\ \A field \in Report!Lists : SoundList(field, work)
      BY <1>2, <3>1 DEF SoFar, Rank, Report!Lists
    <3> QED BY <3>1, <3>2 DEF SoundReport
  <2>3. HasLists(work')
    BY <1>2, <2>1, DecodedHasLists
  <2>4. SoFar'
    BY <2>1 DEF SoFar, Rank, Report!Lists
  <2>5. answer' = "none" /\ IsReport(content')
    BY <1>2, <2>1
  <2> QED BY <1>1, <2>1, <2>2, <2>3, <2>4, <2>5 DEF Transferred
<1>5. CASE Report!Withhold
  <2>1. place = "agent" /\ place' = "done" /\ UNCHANGED <<content, peer, wire, work, stage, i, seen, answer>>
    BY <1>5 DEF Report!Withhold
  <2>2. SoFar'
    BY <1>2, <2>1 DEF SoFar, InLoop
  <2>3. answer' = "none" /\ IsReport(content') /\ HasLists(work')
    BY <1>2, <2>1
  <2> QED BY <1>1, <2>1, <2>2, <2>3 DEF Transferred
<1>6. CASE Report!Conclude
  <2>1. /\ place = "psp" /\ stage \in {"accepted", "refused"} /\ answer' = stage /\ place' = "done"
        /\ UNCHANGED <<content, peer, wire, work, stage, i, seen>>
    BY <1>6 DEF Report!Conclude, Report!Ended
  <2>2. SoFar'
    BY <1>2, <2>1 DEF SoFar, InLoop
  <2> QED BY <1>1, <1>2, <2>1, <2>2 DEF Transferred
<1>7. CASE UNCHANGED all
  <2>1. UNCHANGED <<content, peer, wire, work, place, stage, i, seen, answer>>
    BY <1>7 DEF all, vars
  <2>2. SoFar'
    BY <1>2, <2>1 DEF SoFar, InLoop
  <2> QED BY <1>1, <1>2, <2>1, <2>2 DEF Transferred
<1> QED BY <1>3, <1>4, <1>5, <1>6, <1>7 DEF AllNext, Report!Next

(* The invariant holds on the whole way of a report.                       *)
LEMMA TransferInvariant == AllSpec => []Transferred
<1>1. Transferred /\ [AllNext]_all => Transferred'
  BY TransferStays
<1> QED BY <1>1, TransferStarts, PTL DEF AllSpec

(* Whatever an agent or a careless peer builds, the loops answer what the  *)
(* report deserves as a whole (ValidateNodeReportBase).                    *)
THEOREM JudgedAsAWhole == AllSpec => []ReportJudgedAsAWhole
<1>1. Transferred => ReportJudgedAsAWhole
  <2> SUFFICES ASSUME Transferred, document = "report", answer # "none"
               PROVE  (answer = "accepted") <=> Report!Acceptable(Report!Decoded(wire))
    BY DEF ReportJudgedAsAWhole, Report!ReportJudgedAsAWhole
  <2>1. /\ HasLists(work) /\ SoFar /\ work = Report!Decoded(wire)
        /\ answer = stage /\ stage \in {"accepted", "refused"}
    BY DEF Transferred
  <2>2. SoundReport(work) <=> Report!Acceptable(work)
    BY <2>1, SoundIsListed DEF SoundReport, Report!Acceptable, HasLists
  <2>3. stage = "accepted" => SoundReport(work)
    BY <2>1 DEF SoFar, SoundReport, Rank, Report!Lists
  <2>4. stage = "refused" => ~SoundReport(work)
    BY <2>1 DEF SoFar
  <2> QED BY <2>1, <2>2, <2>3, <2>4
<1> QED BY <1>1, TransferInvariant, PTL

(* Neither shape of a report loses or confuses anything (MarshalJSON,      *)
(* partialReport), for every report and not only those a run tries.        *)
THEOREM EncodingLosesNothing == AllSpec => []WireIsFaithful
<1>1. Transferred => WireIsFaithful
  <2> SUFFICES ASSUME Transferred, document = "report", Report!Sent
               PROVE  Report!WireIsFaithful
    BY DEF WireIsFaithful, Report!WireIsFaithful, Report!NothingIsLost,
           Report!EnumerationsAreExplicit
  <2>1. /\ IsReport(content) /\ wire = Report!MarshalJSON(content)
        /\ peer = "checking" => SoundReport(content)
    BY DEF Transferred, Report!Sent
  <2>2. Report!NothingIsLost
    <3> SUFFICES ASSUME peer = "checking", NEW key \in DOMAIN content,
                        content[key] # Report!Decoded(wire)[key]
                 PROVE  /\ key \in Report!Enumerations \cup Report!Slices
                        /\ Report!Items(content[key]) = Report!Items(Report!Decoded(wire)[key])
      BY DEF Report!NothingIsLost
    <3>1. SameReport(content, Report!Decoded(wire))
      BY <2>1, EncodingIsFaithful DEF SoundReport
    <3> QED BY <2>1, <3>1 DEF SameReport, IsReport, Slice
  <2>3. ASSUME NEW e \in Report!Enumerations
        PROVE  IF content.partial THEN e \notin DOMAIN wire
               ELSE e \in DOMAIN wire /\ wire[e] # Nil
    <3> DEFINE keys == IF content.partial THEN Report!PartialKeys ELSE DOMAIN content
    <3>1. wire = [k \in {k \in keys : ~Report!Omitted(content, k)} |-> Report!Encoded(content, k)]
      BY <2>1, Zenon DEF Report!MarshalJSON
    <3>2. CASE content.partial
      BY <3>1, <3>2 DEF Report!PartialKeys, Report!Enumerations
    <3>3. CASE ~content.partial
      <4>1. e \in DOMAIN content
        BY <2>1, FieldsOfReport DEF IsReport, Report!Enumerations
      <4>2. ~Report!Omitted(content, e)
        BY DEF Report!Omitted, Report!Enumerations, Report!Scalars, Report!Slices
      <4>3. wire[e] = Report!Items(content[e]) /\ e \in DOMAIN wire
        BY <3>1, <3>3, <4>1, <4>2 DEF Report!Encoded
      <4> QED BY <3>3, <4>3, NilAssumption DEF Report!Items
    <3> QED BY <3>2, <3>3
  <2> QED BY <2>2, <2>3 DEF Report!WireIsFaithful, Report!EnumerationsAreExplicit
<1> QED BY <1>1, TransferInvariant, PTL

(* What an agent's own check lets out PSP accepts: what encoding changes,  *)
(* the other side does not mind (ValidateNodeReport, MarshalJSON,          *)
(* ValidateNodeReportBase).                                                *)
THEOREM CheckedIsAccepted == AllSpec => []NoSurprise
<1>1. Transferred => NoSurprise
  <2> SUFFICES ASSUME Transferred, document = "report", peer = "checking", answer = "refused"
               PROVE  FALSE
    BY DEF NoSurprise, Report!NoSurprise
  <2>1. /\ IsReport(content) /\ SoundReport(content)
        /\ work = Report!Decoded(Report!MarshalJSON(content))
        /\ stage = "refused" /\ SoFar
    BY DEF Transferred
  <2>2. SameReport(content, work)
    BY <2>1, EncodingIsFaithful DEF SoundReport
  <2>3. SoundReport(work)
    BY <2>1, <2>2, SameIsAsSound
  <2> QED BY <2>1, <2>3 DEF SoFar
<1> QED BY <1>1, TransferInvariant, PTL

-----------------------------------------------------------------------------
(* Row keys: what PSP formats is what it parses, in any base.  Both are    *)
(* recursive functions; that they exist, and what they answer, is shown by *)
(* induction on the places of a numeral and on the number.                 *)

Numeral == Seq(Keys!Digits)

IsValues(s, f) ==
  f = [k \in 0..Len(s) |-> IF k = 0 THEN 0 ELSE Keys!Base * f[k - 1] + Keys!DigitValue(s[k])]
Values(s) == CHOOSE f : IsValues(s, f)

IsDecimals(f) ==
  f = [k \in 0..MaxInt |->
         IF k < Keys!Base THEN <<Numerals[k + 1]>>
                          ELSE Append(f[k \div Keys!Base], Numerals[(k % Keys!Base) + 1])]
Decimals == CHOOSE f : IsDecimals(f)

(* ParseInt's value is that of all digits.                                 *)
LEMMA ValueIsLast == \A s : Keys!Value(s) = Values(s)[Len(s)]
BY Zenon DEF Keys!Value, Values, IsValues

(* FormatInt's spelling is the one the digits are taken from.              *)
LEMMA FormatIsDecimal == \A n : Keys!FormatInt(n) = Decimals[n]
BY Zenon DEF Keys!FormatInt, Decimals, IsDecimals

(* Quotient and remainder of a division by the base, which makes a number  *)
(* smaller.                                                                *)
LEMMA DivisionIsSmaller ==
  ASSUME NEW B \in Nat, B >= 2, NEW k \in Nat
  PROVE  /\ k \div B \in Nat /\ k % B \in 0..(B - 1) /\ k = B * (k \div B) + (k % B)
         /\ k >= B => k \div B < k
<1> DEFINE q == k \div B
<1>1. q \in Int /\ k % B \in 0..(B - 1) /\ k = B * q + (k % B)
  OBVIOUS
<1> HIDE DEF q
<1>2. q >= 0
  <2> SUFFICES ASSUME q <= -1 PROVE FALSE
    BY <1>1
  <2>1. B * q <= -B
    BY <1>1
  <2> QED BY <1>1, <2>1
<1>3. q \in Nat /\ B * q >= 2 * q
  BY <1>1, <1>2
<1>4. k >= B => q < k
  BY <1>1, <1>3
<1> QED BY <1>1, <1>3, <1>4 DEF q

(* A product of natural numbers is one.                                    *)
LEMMA ProductIsNatural == ASSUME NEW a \in Nat, NEW b \in Nat PROVE a * b \in Nat
<1>1. a * b \in Int
  OBVIOUS
<1>2. a * b >= 0
  OBVIOUS
<1> QED BY <1>1, <1>2

(* There are two digits at least.                                          *)
LEMMA BaseIsABase == Keys!Base \in Nat /\ Keys!Base >= 2
BY NumeralsAssumption DEF Keys!Base, IsSlice

(* The k-th digit has the value k.                                         *)
LEMMA DigitIsItsValue ==
  \A k \in 0..(Keys!Base - 1) :
    Numerals[k + 1] \in Keys!Digits /\ Keys!DigitValue(Numerals[k + 1]) = k
<1> SUFFICES ASSUME NEW k \in 0..(Keys!Base - 1)
             PROVE  Numerals[k + 1] \in Keys!Digits /\ Keys!DigitValue(Numerals[k + 1]) = k
  OBVIOUS
<1>1. k + 1 \in 1..Keys!Base
  BY BaseIsABase
<1>2. \A j \in 1..Keys!Base : Numerals[j] = Numerals[k + 1] => j = k + 1
  BY <1>1, NumeralsAssumption DEF Keys!Base
<1> DEFINE nth == CHOOSE j \in 1..Keys!Base : Numerals[j] = Numerals[k + 1]
<1>3. nth = k + 1
  BY <1>1, <1>2
<1>4. Keys!DigitValue(Numerals[k + 1]) = nth - 1
  BY Zenon DEF Keys!DigitValue
<1> HIDE DEF nth
<1>5. Keys!DigitValue(Numerals[k + 1]) = k
  BY <1>3, <1>4
<1> QED BY <1>1, <1>5 DEF Keys!Digits

(* The value of a digit is a number.                                       *)
LEMMA DigitValuesAreNumbers == \A c \in Keys!Digits : Keys!DigitValue(c) \in Nat
<1> SUFFICES ASSUME NEW j \in 1..Keys!Base PROVE Keys!DigitValue(Numerals[j]) \in Nat
  BY DEF Keys!Digits
<1>1. j - 1 \in 0..(Keys!Base - 1) /\ (j - 1) + 1 = j
  BY BaseIsABase
<1>2. Keys!DigitValue(Numerals[(j - 1) + 1]) = j - 1
  BY <1>1, DigitIsItsValue
<1> QED BY <1>1, <1>2

(* The values of the beginnings of a numeral, each from the one before,    *)
(* exist.                                                                  *)
LEMMA ValuesExist ==
  ASSUME NEW s \in Numeral
  PROVE  /\ Values(s)[0] = 0
         /\ \A k \in 1..Len(s) : Values(s)[k] = Keys!Base * Values(s)[k - 1] + Keys!DigitValue(s[k])
<1> DEFINE digit == [k \in 1..Len(s) |-> Keys!DigitValue(s[k])]
           B == Keys!Base
           UpTo(n) == {g \in [0..n -> Nat] :
                         \A k \in 0..n : g[k] = IF k = 0 THEN 0 ELSE B * g[k - 1] + digit[k]}
           S == {n \in Nat : n <= Len(s) => UpTo(n) # {}}
<1>1. Len(s) \in Nat /\ digit \in [1..Len(s) -> Nat] /\ B \in Nat
  <2>1. \A k \in 1..Len(s) : s[k] \in Keys!Digits
    BY DEF Numeral
  <2> QED BY <2>1, DigitValuesAreNumbers, BaseIsABase DEF Numeral
<1> HIDE DEF digit, B
<1>2. 0 \in S
  <2>1. [k \in 0..0 |-> 0] \in UpTo(0)
    OBVIOUS
  <2> QED BY <2>1
<1>3. ASSUME NEW n \in Nat, n \in S PROVE n + 1 \in S
  <2> HIDE DEF UpTo
  <2> SUFFICES ASSUME n + 1 <= Len(s) PROVE UpTo(n + 1) # {}
    BY DEF S
  <2> USE DEF UpTo
  <2>0. n <= Len(s)
    BY <1>1
  <2>1. PICK g \in UpTo(n) : TRUE
    BY <1>3, <2>0, Zenon
  <2> DEFINE h == [k \in 0..(n + 1) |-> IF k = n + 1 THEN B * g[n] + digit[n + 1] ELSE g[k]]
  <2>2. g \in [0..n -> Nat] /\ \A k \in 0..n : g[k] = IF k = 0 THEN 0 ELSE B * g[k - 1] + digit[k]
    BY <2>1
  <2>3. n \in 0..n /\ B * g[n] + digit[n + 1] \in Nat
    <3>1. g[n] \in Nat /\ digit[n + 1] \in Nat
      BY <1>1, <2>2
    <3>2. B * g[n] \in Nat
      BY <1>1, <3>1, ProductIsNatural
    <3> QED BY <1>1, <3>1, <3>2
  <2>4. h \in [0..(n + 1) -> Nat]
    <3> SUFFICES ASSUME NEW k \in 0..(n + 1) PROVE h[k] \in Nat
      OBVIOUS
    <3> QED BY <2>2, <2>3
  <2>5. ASSUME NEW k \in 0..(n + 1)
        PROVE  h[k] = IF k = 0 THEN 0 ELSE B * h[k - 1] + digit[k]
    <3>1. CASE k = n + 1
      BY <2>2, <3>1
    <3>2. CASE k # n + 1
      <4>1. k \in 0..n /\ h[k] = g[k] /\ (k # 0 => k - 1 \in 0..(n + 1) /\ k - 1 # n + 1)
        BY <3>2
      <4> QED BY <2>2, <4>1
    <3> QED BY <3>1, <3>2
  <2>6. h \in UpTo(n + 1)
    BY <2>4, <2>5
  <2> QED BY <2>6
<1> HIDE DEF S
<1>4. Len(s) \in S
  BY <1>1, <1>2, <1>3, NatSetInduction
<1>5. PICK g \in UpTo(Len(s)) : TRUE
  BY <1>1, <1>4 DEF S
<1>6. /\ g \in [0..Len(s) -> Nat]
      /\ \A k \in 0..Len(s) : g[k] = IF k = 0 THEN 0 ELSE B * g[k - 1] + digit[k]
  BY <1>5
<1>7. IsValues(s, g)
  <2>1. g = [k \in 0..Len(s) |-> IF k = 0 THEN 0 ELSE B * g[k - 1] + digit[k]]
    BY <1>6
  <2>2. \A k \in 0..Len(s) : k # 0 => digit[k] = Keys!DigitValue(s[k])
    BY <1>1 DEF digit
  <2>3. \A k \in 0..Len(s) : (IF k = 0 THEN 0 ELSE B * g[k - 1] + digit[k])
                              = (IF k = 0 THEN 0 ELSE B * g[k - 1] + Keys!DigitValue(s[k]))
    BY <2>2, Zenon
  <2> QED BY <2>1, <2>3, Zenon DEF IsValues, B
<1>8. IsValues(s, Values(s))
  BY <1>7, Zenon DEF Values
<1> DEFINE v == Values(s)
<1>9. \A k \in 0..Len(s) : v[k] = IF k = 0 THEN 0 ELSE B * v[k - 1] + Keys!DigitValue(s[k])
  BY <1>8 DEF IsValues, B
<1> HIDE DEF v
<1>10. v[0] = 0
  BY <1>1, <1>9
<1>11. \A k \in 1..Len(s) : v[k] = B * v[k - 1] + Keys!DigitValue(s[k])
  BY <1>1, <1>9
<1> QED BY <1>10, <1>11 DEF v, B

(* One more digit: the value moves up a place.                             *)
LEMMA ValueOfAppend ==
  ASSUME NEW s \in Numeral, NEW c \in Keys!Digits
  PROVE  Keys!Value(Append(s, c)) = Keys!Base * Keys!Value(s) + Keys!DigitValue(c)
<1> DEFINE t == Append(s, c)
           S == {k \in Nat : k <= Len(s) => Values(t)[k] = Values(s)[k]}
<1>1. /\ t \in Numeral /\ Len(t) = Len(s) + 1 /\ Len(s) \in Nat /\ t[Len(t)] = c
      /\ \A k \in 1..Len(s) : t[k] = s[k]
  BY DEF Numeral
<1> HIDE DEF t
<1>2. 0 \in S
  BY <1>1, ValuesExist
<1>3. ASSUME NEW k \in Nat, k \in S PROVE k + 1 \in S
  <2> SUFFICES ASSUME k + 1 <= Len(s) PROVE Values(t)[k + 1] = Values(s)[k + 1]
    OBVIOUS
  <2>1. k + 1 \in 1..Len(s) /\ k + 1 \in 1..Len(t) /\ (k + 1) - 1 = k /\ Values(t)[k] = Values(s)[k]
    BY <1>1, <1>3
  <2>2. /\ Values(t)[k + 1] = Keys!Base * Values(t)[(k + 1) - 1] + Keys!DigitValue(t[k + 1])
        /\ Values(s)[k + 1] = Keys!Base * Values(s)[(k + 1) - 1] + Keys!DigitValue(s[k + 1])
    BY <1>1, <2>1, ValuesExist, Zenon
  <2> QED BY <1>1, <2>1, <2>2
<1>4. Values(t)[Len(s)] = Values(s)[Len(s)]
  <2> HIDE DEF S
  <2>1. Len(s) \in S
    BY <1>1, <1>2, <1>3, NatSetInduction
  <2> QED BY <1>1, <2>1 DEF S
<1>5. Values(t)[Len(t)] = Keys!Base * Values(t)[Len(t) - 1] + Keys!DigitValue(t[Len(t)])
  <2>1. Len(t) \in 1..Len(t)
    BY <1>1
  <2> QED BY <1>1, <2>1, ValuesExist, Zenon
<1>6. Len(t) - 1 = Len(s)
  BY <1>1
<1> QED BY <1>1, <1>4, <1>5, <1>6, ValueIsLast DEF t

(* A numeral of one digit has that digit's value.                          *)
LEMMA ValueOfDigit == \A c \in Keys!Digits : Keys!Value(<<c>>) = Keys!DigitValue(c)
<1> SUFFICES ASSUME NEW c \in Keys!Digits PROVE Keys!Value(<<c>>) = Keys!DigitValue(c)
  OBVIOUS
<1>1. <<>> \in Numeral /\ Append(<<>>, c) = <<c>> /\ Len(<<>>) = 0
  BY DEF Numeral
<1>2. Keys!Value(<<>>) = 0
  BY <1>1, ValuesExist, ValueIsLast
<1>3. Keys!Value(<<c>>) = Keys!Base * 0 + Keys!DigitValue(c)
  BY <1>1, <1>2, ValueOfAppend
<1> QED BY <1>3, BaseIsABase, DigitValuesAreNumbers

(* The spelling of every number, from that of its quotient by the base,    *)
(* exists.                                                                 *)
LEMMA DecimalsExist ==
  /\ Decimals \in [0..MaxInt -> Numeral]
  /\ \A k \in 0..MaxInt :
       /\ k < Keys!Base => Decimals[k] = <<Numerals[k + 1]>>
       /\ k >= Keys!Base =>
            Decimals[k] = Append(Decimals[k \div Keys!Base], Numerals[(k % Keys!Base) + 1])
<1> DEFINE B == Keys!Base
           UpTo(n) == {g \in [0..n -> Numeral] :
                         \A k \in 0..n : g[k] = IF k < B THEN <<Numerals[k + 1]>>
                                                ELSE Append(g[k \div B], Numerals[(k % B) + 1])}
           S == {n \in Nat : n <= MaxInt => UpTo(n) # {}}
<1>1. B \in Nat /\ B >= 2
  BY BaseIsABase
<1>2. \A k \in 0..(B - 1) : Numerals[k + 1] \in Keys!Digits /\ <<Numerals[k + 1]>> \in Numeral
  <2>1. \A c \in Keys!Digits : <<c>> \in Seq(Keys!Digits)
    OBVIOUS
  <2> QED BY <2>1, DigitIsItsValue DEF Numeral
<1>3. \A k \in Nat : /\ k \div B \in Nat /\ k % B \in 0..(B - 1)
                     /\ k >= B => k \div B < k
  BY <1>1, DivisionIsSmaller
<1>4. \A s \in Numeral, c \in Keys!Digits : Append(s, c) \in Numeral
  BY DEF Numeral
<1> HIDE DEF B
<1>5. 0 \in S
  <2> DEFINE g == [k \in 0..0 |-> <<Numerals[0 + 1]>>]
  <2>1. 0 \in 0..(B - 1)
    BY <1>1
  <2>2. g \in [0..0 -> Numeral]
    BY <1>2, <2>1
  <2>3. \A k \in 0..0 : k < B /\ g[k] = <<Numerals[k + 1]>>
    BY <1>1
  <2> HIDE DEF g
  <2>4. g \in UpTo(0)
    BY <2>2, <2>3
  <2> QED BY <2>4
<1>6. ASSUME NEW n \in Nat, n \in S PROVE n + 1 \in S
  <2> HIDE DEF UpTo
  <2> SUFFICES ASSUME n + 1 <= MaxInt PROVE UpTo(n + 1) # {}
    BY DEF S
  <2>1. PICK g \in UpTo(n) : TRUE
    <3>1. n <= MaxInt
      BY MaxIntAssumption
    <3> QED BY <1>6, <3>1, Zenon
  <2> USE DEF UpTo
  <2> DEFINE new == IF n + 1 < B THEN <<Numerals[(n + 1) + 1]>>
                    ELSE Append(g[(n + 1) \div B], Numerals[((n + 1) % B) + 1])
             h == [k \in 0..(n + 1) |-> IF k = n + 1 THEN new ELSE g[k]]
  <2>2. /\ g \in [0..n -> Numeral]
        /\ \A k \in 0..n : g[k] = IF k < B THEN <<Numerals[k + 1]>>
                                  ELSE Append(g[k \div B], Numerals[(k % B) + 1])
    BY <2>1
  <2>3. n + 1 >= B => (n + 1) \div B \in 0..n
    BY <1>3
  <2>4. new \in Numeral
    <3>1. CASE n + 1 < B
      <4>1. n + 1 \in 0..(B - 1)
        BY <1>1, <3>1
      <4> QED BY <1>2, <3>1, <4>1
    <3>2. CASE n + 1 >= B
      <4>1. g[(n + 1) \div B] \in Numeral
        BY <2>2, <2>3, <3>2
      <4>2. Numerals[((n + 1) % B) + 1] \in Keys!Digits
        <5>1. n + 1 \in Nat
          OBVIOUS
        <5>2. (n + 1) % B \in 0..(B - 1)
          BY <1>3, <5>1, Zenon
        <5> QED BY <1>2, <5>2, Zenon
      <4>3. ~(n + 1 < B)
        BY <1>1, <3>2
      <4> QED BY <1>4, <4>1, <4>2, <4>3
    <3> QED BY <1>1, <3>1, <3>2
  <2> HIDE DEF UpTo
  <2>5. h \in [0..(n + 1) -> Numeral]
    <3> HIDE DEF new
    <3> SUFFICES ASSUME NEW k \in 0..(n + 1) PROVE h[k] \in Numeral
      OBVIOUS
    <3>1. k # n + 1 => k \in 0..n
      OBVIOUS
    <3> QED BY <2>2, <2>4, <3>1
  <2>6. ASSUME NEW k \in 0..(n + 1)
        PROVE  h[k] = IF k < B THEN <<Numerals[k + 1]>>
                      ELSE Append(h[k \div B], Numerals[(k % B) + 1])
    <3>1. k >= B => k \div B \in 0..n /\ h[k \div B] = g[k \div B]
      <4> HIDE DEF new
      <4> SUFFICES ASSUME k >= B PROVE k \div B \in 0..n /\ h[k \div B] = g[k \div B]
        OBVIOUS
      <4>1. k \div B \in Nat /\ k \div B < k
        BY <1>3
      <4>2. k \div B \in 0..n /\ k \div B # n + 1 /\ k \div B \in 0..(n + 1)
        BY <4>1
      <4> QED BY <4>2
    <3>2. k < B \/ k >= B
      BY <1>1
    <3>3. CASE k = n + 1
      <4>1. h[k] = new
        BY <3>3
      <4> HIDE DEF h
      <4> QED BY <3>1, <3>2, <3>3, <4>1
    <3>4. CASE k # n + 1
      <4>1. k \in 0..n /\ h[k] = g[k]
        BY <3>4
      <4> HIDE DEF h
      <4>2. g[k] = IF k < B THEN <<Numerals[k + 1]>>
                   ELSE Append(g[k \div B], Numerals[(k % B) + 1])
        BY <2>2, <4>1
      <4> QED BY <3>1, <3>2, <4>1, <4>2
    <3> QED BY <3>3, <3>4
  <2> HIDE DEF h
  <2>7. h \in UpTo(n + 1)
    BY <2>5, <2>6 DEF UpTo
  <2> QED BY <2>7
<1> HIDE DEF S
<1>7. MaxInt \in S /\ MaxInt \in Nat
  BY <1>5, <1>6, NatSetInduction, MaxIntAssumption
<1>8. PICK g \in UpTo(MaxInt) : TRUE
  BY <1>7 DEF S
<1>9. /\ g \in [0..MaxInt -> Numeral]
      /\ \A k \in 0..MaxInt : g[k] = IF k < B THEN <<Numerals[k + 1]>>
                                     ELSE Append(g[k \div B], Numerals[(k % B) + 1])
  BY <1>8
<1>10. IsDecimals(g)
  <2>1. g = [k \in 0..MaxInt |-> IF k < B THEN <<Numerals[k + 1]>>
                                 ELSE Append(g[k \div B], Numerals[(k % B) + 1])]
    BY <1>9
  <2> QED BY <2>1, Zenon DEF IsDecimals, B
<1>11. IsDecimals(Decimals)
  BY <1>10, Zenon DEF Decimals
<1> DEFINE d == Decimals
<1>12. /\ d = [k \in 0..MaxInt |-> d[k]]
       /\ \A k \in 0..MaxInt : d[k] = IF k < B THEN <<Numerals[k + 1]>>
                                      ELSE Append(d[k \div B], Numerals[(k % B) + 1])
  <2>1. d = [k \in 0..MaxInt |-> IF k < B THEN <<Numerals[k + 1]>>
                                 ELSE Append(d[k \div B], Numerals[(k % B) + 1])]
    BY <1>11, Zenon DEF IsDecimals, B
  <2> HIDE DEF d
  <2> QED BY <2>1
<1> HIDE DEF d
<1> DEFINE R == {n \in Nat : \A k \in 0..n : k <= MaxInt => d[k] \in Numeral}
<1>13. 0 \in R
  <2>1. 0 \in 0..(B - 1) /\ 0 \in 0..MaxInt /\ 0 < B
    BY <1>1, <1>7
  <2>2. d[0] = <<Numerals[0 + 1]>>
    BY <1>12, <2>1, Zenon
  <2>3. d[0] \in Numeral
    BY <1>2, <2>1, <2>2, Zenon
  <2> QED BY <2>3
<1>14. ASSUME NEW n \in Nat, n \in R PROVE n + 1 \in R
  <2> SUFFICES ASSUME n + 1 <= MaxInt PROVE d[n + 1] \in Numeral
    <3>1. \A k \in 0..(n + 1) : k = n + 1 \/ k \in 0..n
      OBVIOUS
    <3> QED BY <1>14, <3>1
  <2>1. n + 1 \in 0..MaxInt
    BY <1>7
  <2>2. CASE n + 1 < B
    <3>1. n + 1 \in 0..(B - 1)
      BY <1>1, <2>2
    <3> QED BY <1>2, <1>12, <2>1, <2>2, <3>1
  <2>3. CASE ~(n + 1 < B)
    <3> DEFINE q == (n + 1) \div B
    <3>0. n + 1 \in Nat /\ n + 1 >= B
      BY <1>1, <2>3
    <3>4. q \in Nat /\ (n + 1) % B \in 0..(B - 1) /\ q < n + 1
      BY <1>3, <3>0, Zenon
    <3> HIDE DEF q
    <3>5. q \in 0..n /\ q <= MaxInt
      BY <1>7, <2>1, <3>4
    <3>1. (n + 1) \div B \in 0..n /\ (n + 1) \div B <= MaxInt /\ n + 1 >= B
      BY <3>0, <3>5 DEF q
    <3>2. d[(n + 1) \div B] \in Numeral
      BY <1>14, <3>1
    <3>3. Numerals[((n + 1) % B) + 1] \in Keys!Digits
      BY <1>2, <3>4, Zenon
    <3> QED BY <1>4, <1>12, <2>1, <2>3, <3>2, <3>3
  <2> QED BY <2>2, <2>3
<1> HIDE DEF R
<1>15. MaxInt \in R
  BY <1>7, <1>13, <1>14, NatSetInduction
<1>16. \A k \in 0..MaxInt : d[k] \in Numeral
  BY <1>15 DEF R
<1>17. d \in [0..MaxInt -> Numeral]
  BY <1>12, <1>16
<1>18. \A k \in 0..MaxInt : /\ k < B => d[k] = <<Numerals[k + 1]>>
                            /\ k >= B => d[k] = Append(d[k \div B], Numerals[(k % B) + 1])
  <2>1. \A k \in 0..MaxInt : k >= B => ~(k < B)
    BY <1>1
  <2> QED BY <1>12, <2>1, Zenon
<1> QED BY <1>17, <1>18 DEF d, B

(* What PSP mints, a reader parses back.                                   *)
LEMMA FormattedIsParsed ==
  ASSUME NEW n \in 0..MaxInt
  PROVE  /\ Keys!FormatInt(n) \in Numeral /\ Keys!FormatInt(n) # <<>>
         /\ Keys!Value(Keys!FormatInt(n)) = n
<1> DEFINE d == Decimals
           B == Keys!Base
           Good(k) == d[k] # <<>> /\ Keys!Value(d[k]) = k
           R == {m \in Nat : \A k \in 0..m : k <= MaxInt => Good(k)}
<1>1. B \in Nat /\ B >= 2 /\ MaxInt \in Nat
  BY BaseIsABase, MaxIntAssumption
<1>2. \A k \in 0..(B - 1) : Numerals[k + 1] \in Keys!Digits /\ Keys!DigitValue(Numerals[k + 1]) = k
  BY DigitIsItsValue
<1>3. /\ d \in [0..MaxInt -> Numeral]
      /\ \A k \in 0..MaxInt : /\ k < B => d[k] = <<Numerals[k + 1]>>
                              /\ k >= B => d[k] = Append(d[k \div B], Numerals[(k % B) + 1])
  BY DecimalsExist
<1>4. \A k \in Nat : /\ k \div B \in Nat /\ k % B \in 0..(B - 1) /\ k = B * (k \div B) + (k % B)
                     /\ k >= B => k \div B < k
  BY <1>1, DivisionIsSmaller
<1>5. \A k \in 0..MaxInt : k < B => Good(k)
  <2> SUFFICES ASSUME NEW k \in 0..MaxInt, k < B PROVE Good(k)
    OBVIOUS
  <2>1. k \in 0..(B - 1) /\ d[k] = <<Numerals[k + 1]>>
    BY <1>1, <1>3
  <2>2. Keys!Value(<<Numerals[k + 1]>>) = k
    BY <1>2, <2>1, ValueOfDigit
  <2>3. <<Numerals[k + 1]>> # <<>>
    OBVIOUS
  <2> QED BY <2>1, <2>2, <2>3
<1>6. \A k \in 0..MaxInt : k >= B /\ Good(k \div B) => Good(k)
  <2> SUFFICES ASSUME NEW k \in 0..MaxInt, k >= B, Good(k \div B) PROVE Good(k)
    OBVIOUS
  <2>1. /\ k \div B \in 0..MaxInt /\ k % B \in 0..(B - 1) /\ k = B * (k \div B) + (k % B)
    <3> DEFINE q == k \div B
    <3>1. k \in Nat /\ k <= MaxInt
      BY <1>1
    <3>2. q \in Nat /\ k % B \in 0..(B - 1) /\ k = B * q + (k % B) /\ q < k
      BY <1>4, <3>1, Zenon
    <3> HIDE DEF q
    <3>3. q \in 0..MaxInt
      BY <1>1, <3>1, <3>2
    <3> QED BY <3>2, <3>3 DEF q
  <2>2. d[k] = Append(d[k \div B], Numerals[(k % B) + 1]) /\ d[k \div B] \in Numeral
    BY <1>3, <2>1
  <2>3. Keys!Value(d[k]) = B * Keys!Value(d[k \div B]) + Keys!DigitValue(Numerals[(k % B) + 1])
    BY <1>2, <2>1, <2>2, ValueOfAppend
  <2>4. Keys!DigitValue(Numerals[(k % B) + 1]) = k % B
    BY <1>2, <2>1
  <2>5. d[k] # <<>>
    BY <2>2 DEF Numeral
  <2>6. Keys!Value(d[k]) = B * (k \div B) + (k % B)
    BY <2>3, <2>4
  <2> QED BY <2>1, <2>5, <2>6
<1> HIDE DEF Good, B
<1>7. 0 \in R
  BY <1>1, <1>5
<1>8. ASSUME NEW m \in Nat, m \in R PROVE m + 1 \in R
  <2> SUFFICES ASSUME m + 1 <= MaxInt PROVE Good(m + 1)
    <3>1. \A k \in 0..(m + 1) : k = m + 1 \/ k \in 0..m
      OBVIOUS
    <3> QED BY <1>8, <3>1
  <2>1. m + 1 \in 0..MaxInt
    BY <1>1
  <2>2. CASE m + 1 >= B
    <3>1. (m + 1) \div B \in 0..m /\ (m + 1) \div B <= MaxInt
      BY <1>1, <1>4, <2>1, <2>2
    <3> QED BY <1>6, <1>8, <2>1, <2>2, <3>1
  <2> QED BY <1>1, <1>5, <2>1, <2>2
<1> HIDE DEF R
<1>9. MaxInt \in R
  BY <1>1, <1>7, <1>8, NatSetInduction
<1>10. Good(n)
  BY <1>1, <1>9 DEF R
<1> QED BY <1>3, <1>10, FormatIsDecimal DEF Good

(* RowID takes every key that is minted.                                   *)
LEMMA MintedIsARow ==
  ASSUME NEW kind \in Keys!Kinds, NEW id \in 1..MaxInt
  PROVE  LET e == Keys!Minted(kind, id) IN Keys!HasRowID(e.kind, e.prefix, e.rest)
<1> DEFINE s == Keys!FormatInt(id)
<1>1. s \in Numeral /\ s # <<>> /\ Keys!Value(s) = id /\ id > 0
  <2>1. id \in 0..MaxInt
    BY MaxIntAssumption
  <2> QED BY <2>1, FormattedIsParsed
<1> HIDE DEF s
<1>2. s[1] \in Keys!Digits /\ \A k \in DOMAIN s : s[k] \in Keys!Digits
  BY <1>1 DEF Numeral
<1>3. ~Keys!Signed(s)
  BY <1>2, NumeralsAssumption DEF Keys!Signed, Keys!Digits, Keys!Base
<1>4. Keys!Magnitude(s) = s
  BY <1>3 DEF Keys!Magnitude
<1>5. Keys!Numeric(s) /\ Keys!Number(s) = id
  BY <1>1, <1>2, <1>3, <1>4 DEF Keys!Numeric, Keys!Number
<1>6. Keys!InRange(id)
  BY MaxIntAssumption DEF Keys!InRange
<1>7. Keys!parseOrZero(s) = id
  BY <1>5, <1>6 DEF Keys!parseOrZero
<1> QED BY <1>1, <1>7 DEF Keys!HasRowID, Keys!Canonical, Keys!Minted, s

Keyed ==
  document = "keys" =>
    /\ \A e \in seen : e \in Keys!Entries /\ Keys!HasRowID(e.kind, e.prefix, e.rest)
    /\ answer # Keys!NoEntry =>
         ~Keys!HasRowID(answer.kind, answer.prefix, answer.rest) \/ answer \in seen

(* A spelling stands for a row exactly if it is the one PSP mints for it,  *)
(* in any base and up to any largest integer (keys.go).                    *)
THEOREM KeysAreNames == AllSpec => []KeysNameRows
<1>1. AllInit => Keyed
  BY DEF AllInit, Keys!Init, Keyed
<1>2. Keyed /\ [AllNext]_all => Keyed'
  <2> SUFFICES ASSUME Keyed, [AllNext]_all, document = "keys" PROVE Keyed'
    BY DEF Keyed, AllNext, all
  <2>1. document' = document
    BY DEF AllNext, all
  <2>2. CASE Keys!Next
    <3>1. PICK e \in Keys!Entries : Keys!Take(e) \/ Keys!Refuse(e)
      BY <2>2 DEF Keys!Next
    <3>2. CASE Keys!Take(e)
      BY <2>1, <3>2 DEF Keyed, Keys!Take
    <3>3. CASE Keys!Refuse(e)
      BY <2>1, <3>3 DEF Keyed, Keys!Refuse
    <3> QED BY <3>1, <3>2, <3>3
  <2>3. CASE UNCHANGED all
    BY <2>1, <2>3 DEF Keyed, all, vars
  <2> QED BY <2>2, <2>3 DEF AllNext
<1>3. Keyed => KeysNameRows
  <2> SUFFICES ASSUME Keyed, document = "keys" PROVE Keys!KeysNameRows
    BY DEF KeysNameRows
  <2>1. Keys!OneIdentityPerRow
    <3> SUFFICES ASSUME NEW a \in seen, NEW b \in seen,
                        a.kind = b.kind, Keys!Number(a.rest) = Keys!Number(b.rest)
                 PROVE  a = b
      BY DEF Keys!OneIdentityPerRow
    <3>1. \A e \in {a, b} : /\ e = [kind |-> e.kind, prefix |-> e.prefix, rest |-> e.rest]
                            /\ e.prefix = Keys!Prefix[e.kind]
                            /\ e.rest = Keys!FormatInt(Keys!Number(e.rest))
      <4> SUFFICES ASSUME NEW e \in {a, b}
                   PROVE  /\ e = [kind |-> e.kind, prefix |-> e.prefix, rest |-> e.rest]
                          /\ e.prefix = Keys!Prefix[e.kind]
                          /\ e.rest = Keys!FormatInt(Keys!Number(e.rest))
        OBVIOUS
      <4>1. e \in Keys!Entries /\ Keys!HasRowID(e.kind, e.prefix, e.rest)
        BY DEF Keyed
      <4>2. e = [kind |-> e.kind, prefix |-> e.prefix, rest |-> e.rest]
        BY <4>1 DEF Keys!Entries
      <4>3. /\ e.prefix = Keys!Prefix[e.kind]
            /\ Keys!parseOrZero(e.rest) > 0 /\ e.rest = Keys!FormatInt(Keys!parseOrZero(e.rest))
        BY <4>1 DEF Keys!HasRowID, Keys!Canonical
      <4>4. Keys!parseOrZero(e.rest) = Keys!Number(e.rest)
        BY <4>3 DEF Keys!parseOrZero
      <4> QED BY <4>2, <4>3, <4>4
    <3> QED BY <3>1
  <2>2. Keys!MintedComesBack
    <3> SUFFICES ASSUME NEW kind \in Keys!Kinds, NEW id \in 1..MaxInt, answer = Keys!Minted(kind, id)
                 PROVE  answer \in seen
      BY DEF Keys!MintedComesBack
    <3>1. answer # Keys!NoEntry
      BY DEF Keys!Minted, Keys!NoEntry, Keys!Kinds
    <3>2. Keys!HasRowID(answer.kind, answer.prefix, answer.rest)
      BY MintedIsARow
    <3> QED BY <3>1, <3>2 DEF Keyed
  <2> QED BY <2>1, <2>2 DEF Keys!KeysNameRows
<1> QED BY <1>1, <1>2, <1>3, PTL DEF AllSpec

-----------------------------------------------------------------------------
(* An accepted sample: every check of every section it states has passed.  *)

AllPass(s) == \A n \in 1..Len(s) : Host!Passes(s[n].check, s[n].on)

PassesAll(names, v) == \A n \in 1..Len(names) : Host!Passes(names[n], v)

(* If a list joined of two passes, both do.                                *)
LEMMA PartsPass ==
  ASSUME NEW s, NEW t, IsList(s), IsList(t), AllPass(s \o t)
  PROVE  AllPass(s) /\ AllPass(t)
<1>1. PICK U : s \in Seq(U)
  BY DEF IsList
<1>2. PICK W : t \in Seq(W)
  BY DEF IsList
<1>3. s \in Seq(U \cup W) /\ t \in Seq(U \cup W) /\ Len(s) \in Nat /\ Len(t) \in Nat
  BY <1>1, <1>2
<1> DEFINE u == s \o t
<1>4. /\ Len(u) = Len(s) + Len(t)
      /\ \A n \in 1..Len(s) : u[n] = s[n]
      /\ \A n \in 1..Len(t) : u[Len(s) + n] = t[n]
  BY <1>3
<1>5. \A n \in 1..Len(u) : Host!Passes(u[n].check, u[n].on)
  BY DEF AllPass
<1> HIDE DEF u
<1>6. AllPass(s)
  <2>1. \A n \in 1..Len(s) : n \in 1..Len(u)
    BY <1>3, <1>4
  <2> QED BY <1>4, <1>5, <2>1 DEF AllPass
<1>7. AllPass(t)
  <2>1. \A n \in 1..Len(t) : Len(s) + n \in 1..Len(u)
    BY <1>3, <1>4
  <2> QED BY <1>4, <1>5, <2>1 DEF AllPass
<1> QED BY <1>6, <1>7

(* If the checks of a part pass, each passes on that part.                 *)
LEMMA OfPasses ==
  ASSUME NEW v, NEW names, IsList(names), AllPass(Host!Of(names, v))
  PROVE  PassesAll(names, v)
<1> DEFINE s == Host!Of(names, v)
<1>1. PICK U : names \in Seq(U)
  BY DEF IsList
<1>2. Len(names) \in Nat /\ s = [n \in 1..Len(names) |-> [check |-> names[n], on |-> v]]
  BY <1>1 DEF Host!Of
<1>3. \A n \in 1..Len(names) : s[n].check = names[n] /\ s[n].on = v
  BY <1>2
<1>4. Len(s) = Len(names)
  BY <1>2
<1>5. \A n \in 1..Len(s) : Host!Passes(s[n].check, s[n].on)
  BY DEF AllPass
<1> HIDE DEF s
<1> QED BY <1>3, <1>4, <1>5 DEF PassesAll

(* An accepted sample has passed the checks of every part it has.          *)
LEMMA SectionsPass ==
  ASSUME NEW h, AllPass(Host!Checks(h))
  PROVE  /\ h.cpu # Nil /\ h.cpu.system # Nil => PassesAll(Host!SystemCPUChecks, h.cpu.system)
         /\ h.cpu # Nil /\ h.cpu.cgroup # Nil => PassesAll(Host!CgroupCPUChecks, h.cpu.cgroup)
         /\ h.memory # Nil /\ h.memory.system # Nil => PassesAll(Host!SystemMemoryChecks, h.memory.system)
         /\ h.memory # Nil /\ h.memory.cgroup # Nil => PassesAll(Host!CgroupMemoryChecks, h.memory.cgroup)
         /\ h.filesystem # Nil => PassesAll(Host!FilesystemChecks, h.filesystem)
         /\ h.network # Nil => PassesAll(Host!NetworkChecks, h.network)
         /\ h.processes # Nil => PassesAll(Host!ProcessChecks, h.processes.agent)
         /\ h.processes # Nil /\ h.processes.core # Nil => PassesAll(Host!ProcessChecks, h.processes.core)
<1>1. /\ \A names, v : InOrder(names) => Safe(Host!Of(names, v))
      /\ \A s, t : Safe(s) /\ Safe(t) => Safe(s \o t)
      /\ \A pointer, s : Safe(s) => Safe(Host!If(pointer, s))
  BY OneValueIsSafe, BothAreSafe, MaybeIsSafe
<1>2. \A s, t : Safe(s) /\ Safe(t) /\ AllPass(s \o t) => AllPass(s) /\ AllPass(t)
  BY PartsPass DEF Safe
<1>3. \A names, v : InOrder(names) /\ AllPass(Host!Of(names, v)) => PassesAll(names, v)
  BY OfPasses DEF InOrder
<1>4. \A pointer, s : AllPass(Host!If(pointer, s)) /\ pointer # Nil => AllPass(s)
  BY DEF Host!If
<1> DEFINE basic == Host!Of(<<"identity", "scope and platform", "token count", "tokens",
                              "distinct tokens">>, h)
           cpu     == Host!If(h.cpu, Host!CPUChecks(h.cpu))
           load    == Host!If(h.load, Host!Of(<<"load">>, h))
           memory  == Host!If(h.memory, Host!MemoryChecks(h.memory))
           files   == Host!If(h.filesystem, Host!Of(Host!FilesystemChecks, h.filesystem))
           network == Host!If(h.network, Host!Of(Host!NetworkChecks, h.network))
           tcp     == Host!If(h.tcp, Host!Of(<<"epoch", "counters storable">>, h.tcp))
           sockets == Host!If(h.sockets, Host!Of(Host!SocketChecks, h.sockets))
           core    == Host!If(h.processes.core, Host!Of(Host!ProcessChecks, h.processes.core))
           both    == Host!Of(Host!ProcessChecks, h.processes.agent) \o core
           process == Host!If(h.processes, both)
           runtime == Host!If(h.runtime, Host!Of(Host!RuntimeChecks, h.runtime))
           tuning  == Host!If(h.tuning, Host!Of(Host!TuningChecks, h.tuning))
<1>5. Safe(Host!CPUChecks(h.cpu)) /\ Safe(Host!MemoryChecks(h.memory))
  BY <1>1, NamesAreInOrder, Zenon DEF Host!CPUChecks, Host!MemoryChecks
<1>6. Safe(core) /\ Safe(Host!Of(Host!ProcessChecks, h.processes.agent)) /\ Safe(both)
  BY <1>1, NamesAreInOrder, Zenon
<1>7. /\ Safe(basic) /\ Safe(cpu) /\ Safe(load) /\ Safe(memory) /\ Safe(files) /\ Safe(network)
      /\ Safe(tcp) /\ Safe(sockets) /\ Safe(process) /\ Safe(runtime) /\ Safe(tuning)
  BY <1>1, <1>5, <1>6, NamesAreInOrder, Zenon
<1>8. Host!Checks(h) = ((((((((((basic \o cpu) \o load) \o memory) \o files) \o network) \o tcp)
                           \o sockets) \o process) \o runtime) \o tuning)
  BY Zenon DEF Host!Checks
<1>9. AllPass(cpu) /\ AllPass(memory) /\ AllPass(files) /\ AllPass(network) /\ AllPass(process)
  <2> HIDE DEF basic, cpu, load, memory, files, network, tcp, sockets, process, runtime, tuning
  <2> DEFINE u1 == basic \o cpu
             u2 == u1 \o load
             u3 == u2 \o memory
             u4 == u3 \o files
             u5 == u4 \o network
             u6 == u5 \o tcp
             u7 == u6 \o sockets
             u8 == u7 \o process
             u9 == u8 \o runtime
  <2>1. /\ Safe(u1) /\ Safe(u2) /\ Safe(u3) /\ Safe(u4) /\ Safe(u5)
        /\ Safe(u6) /\ Safe(u7) /\ Safe(u8) /\ Safe(u9)
    <3>1. Safe(u1) /\ Safe(u2) /\ Safe(u3)
      BY <1>1, <1>7, Zenon
    <3>2. Safe(u4) /\ Safe(u5) /\ Safe(u6)
      <4> HIDE DEF u3
      <4> QED BY <1>1, <1>7, <3>1, Zenon
    <3>3. Safe(u7) /\ Safe(u8) /\ Safe(u9)
      <4> HIDE DEF u6
      <4> QED BY <1>1, <1>7, <3>2, Zenon
    <3> QED BY <3>1, <3>2, <3>3
  <2>2. AllPass(u9 \o tuning)
    BY <1>8
  <2>3. AllPass(u9) /\ (AllPass(u9) => AllPass(u8)) /\ (AllPass(u8) => AllPass(u7) /\ AllPass(process))
    BY <1>2, <1>7, <2>1, <2>2, Zenon
  <2>4. /\ AllPass(u7) => AllPass(u6)
        /\ AllPass(u6) => AllPass(u5)
        /\ AllPass(u5) => AllPass(u4) /\ AllPass(network)
    BY <1>2, <1>7, <2>1, Zenon
  <2>5. /\ AllPass(u4) => AllPass(u3) /\ AllPass(files)
        /\ AllPass(u3) => AllPass(u2) /\ AllPass(memory)
        /\ AllPass(u2) => AllPass(u1)
        /\ AllPass(u1) => AllPass(cpu)
    BY <1>2, <1>7, <2>1, Zenon
  <2> HIDE DEF u1, u2, u3, u4, u5, u6, u7, u8, u9
  <2> QED BY <2>3, <2>4, <2>5
<1>10. ASSUME h.cpu # Nil
       PROVE  /\ h.cpu.system # Nil => PassesAll(Host!SystemCPUChecks, h.cpu.system)
              /\ h.cpu.cgroup # Nil => PassesAll(Host!CgroupCPUChecks, h.cpu.cgroup)
  <2> DEFINE one    == Host!Of(<<"one of two">>, h.cpu)
             system == Host!If(h.cpu.system, Host!Of(Host!SystemCPUChecks, h.cpu.system))
             cgroup == Host!If(h.cpu.cgroup, Host!Of(Host!CgroupCPUChecks, h.cpu.cgroup))
  <2>1. Safe(one) /\ Safe(system) /\ Safe(cgroup) /\ Safe(one \o system)
    BY <1>1, NamesAreInOrder, Zenon
  <2>2. AllPass((one \o system) \o cgroup)
    BY <1>4, <1>9, <1>10, Zenon DEF Host!CPUChecks
  <2>3. AllPass(system) /\ AllPass(cgroup)
    BY <1>2, <2>1, <2>2, Zenon
  <2> QED BY <1>3, <1>4, <2>3, NamesAreInOrder, Zenon
<1>11. ASSUME h.memory # Nil
       PROVE  /\ h.memory.system # Nil => PassesAll(Host!SystemMemoryChecks, h.memory.system)
              /\ h.memory.cgroup # Nil => PassesAll(Host!CgroupMemoryChecks, h.memory.cgroup)
  <2> DEFINE one    == Host!Of(<<"one of two">>, h.memory)
             system == Host!If(h.memory.system, Host!Of(Host!SystemMemoryChecks, h.memory.system))
             cgroup == Host!If(h.memory.cgroup, Host!Of(Host!CgroupMemoryChecks, h.memory.cgroup))
  <2>1. Safe(one) /\ Safe(system) /\ Safe(cgroup) /\ Safe(one \o system)
    BY <1>1, NamesAreInOrder, Zenon
  <2>2. AllPass((one \o system) \o cgroup)
    BY <1>4, <1>9, <1>11, Zenon DEF Host!MemoryChecks
  <2>3. AllPass(system) /\ AllPass(cgroup)
    BY <1>2, <2>1, <2>2, Zenon
  <2> QED BY <1>3, <1>4, <2>3, NamesAreInOrder, Zenon
<1>12. /\ h.filesystem # Nil => PassesAll(Host!FilesystemChecks, h.filesystem)
       /\ h.network # Nil => PassesAll(Host!NetworkChecks, h.network)
  BY <1>3, <1>4, <1>9, NamesAreInOrder, Zenon
<1>13. ASSUME h.processes # Nil
       PROVE  /\ PassesAll(Host!ProcessChecks, h.processes.agent)
              /\ h.processes.core # Nil => PassesAll(Host!ProcessChecks, h.processes.core)
  <2>1. AllPass(both)
    BY <1>4, <1>9, <1>13, Zenon
  <2>2. AllPass(Host!Of(Host!ProcessChecks, h.processes.agent)) /\ AllPass(core)
    BY <1>2, <1>6, <2>1, Zenon
  <2> QED BY <1>3, <1>4, <2>2, NamesAreInOrder, Zenon
<1> QED BY <1>10, <1>11, <1>12, <1>13, Zenon

(* What each section is then known to be.                                  *)
Words == Host!Words
Within(p, q) == p \in Words /\ q \in Words /\ p <= q /\ q <= MaxInt64

(* A word is a number, and nil is no word.                                 *)
LEMMA WordsAreNumbers ==
  /\ MaxInt64 \in Nat /\ Host!Word = 2 * (MaxInt64 + 1) /\ Words = 0..(2 * MaxInt64 + 1)
  /\ Nil \notin Words
BY SamplesAssumption, NilAssumption DEF Words, Host!Words, Host!Word

(* CPU: counters below 2^63 do not wrap when added, so the sum is within   *)
(* the total.                                                              *)
LEMMA SystemCPUIsMeasurable ==
  ASSUME NEW c, Host!IsSystemCPU(c), PassesAll(Host!SystemCPUChecks, c)
  PROVE  Within(c.counters[1] + c.counters[2], c.total)
<1> DEFINE names == Host!SystemCPUChecks
<1>1. Len(names) = 4 /\ names[2] = "total storable" /\ names[3] = "counters storable"
      /\ names[4] = "idle within total"
  BY DEF Host!SystemCPUChecks
<1> HIDE DEF names
<1>2. /\ Host!Passes("total storable", c) /\ Host!Passes("counters storable", c)
      /\ Host!Passes("idle within total", c)
  <2>1. \A n \in 1..4 : Host!Passes(names[n], c)
    BY <1>1 DEF PassesAll, names
  <2>2. Host!Passes(names[2], c) /\ Host!Passes(names[3], c) /\ Host!Passes(names[4], c)
    BY <2>1
  <2> QED BY <1>1, <2>2, Zenon
<1>3. c.total <= MaxInt64
  BY <1>2 DEF Host!Passes, Host!WithinInt64
<1>4. c.counters[1] \in Words /\ c.counters[2] \in Words /\ c.total \in Words
  BY DEF Host!IsSystemCPU, Host!Elements, Words
<1>5. c.counters[1] <= MaxInt64 /\ c.counters[2] <= MaxInt64
  <2>1. \A p \in Host!Elements(c.counters) : p # Nil => p <= MaxInt64
    BY <1>2 DEF Host!Passes, Host!Storable, Host!WithinInt64
  <2>2. c.counters[1] \in Host!Elements(c.counters) /\ c.counters[2] \in Host!Elements(c.counters)
    BY DEF Host!IsSystemCPU, Host!Elements
  <2> QED BY <1>4, <2>1, <2>2, WordsAreNumbers
<1>6. Host!Plus(c.counters[1], c.counters[2]) <= c.total
  BY <1>2 DEF Host!Passes
<1> DEFINE sum == c.counters[1] + c.counters[2]
<1>7. sum \in Nat /\ sum < Host!Word
  BY <1>4, <1>5, WordsAreNumbers
<1>8. Host!Plus(c.counters[1], c.counters[2]) = sum
  <2>1. Host!Plus(c.counters[1], c.counters[2]) = sum % Host!Word
    BY DEF Host!Plus
  <2>2. Host!Word \in Nat
    BY WordsAreNumbers
  <2> HIDE DEF sum
  <2> QED BY <1>7, <2>1, <2>2
<1> QED BY <1>3, <1>4, <1>6, <1>7, <1>8, WordsAreNumbers DEF Within

(* Cgroup CPU: a quota has a positive period, and throttled periods are    *)
(* within all periods.                                                     *)
LEMMA CgroupCPUIsMeasurable ==
  ASSUME NEW c, Host!IsCgroupCPU(c), PassesAll(Host!CgroupCPUChecks, c)
  PROVE  /\ {c.nr_throttled, c.nr_periods} # {Nil} => Within(c.nr_throttled, c.nr_periods)
         /\ <<c.quota_us, c.period_us>> # <<Nil, Nil>> =>
              c.quota_us \in Words /\ c.period_us \in Words /\ c.period_us > 0
<1> DEFINE names == Host!CgroupCPUChecks
<1>1. Len(names) = 8 /\ names[4] = "quota paired" /\ names[5] = "quota positive"
      /\ names[6] = "throttle complete" /\ names[7] = "throttled within periods"
      /\ names[8] = "cgroup storable"
  BY DEF Host!CgroupCPUChecks
<1> HIDE DEF names
<1>2. /\ Host!Passes("quota paired", c) /\ Host!Passes("quota positive", c)
      /\ Host!Passes("throttle complete", c) /\ Host!Passes("throttled within periods", c)
      /\ Host!Passes("cgroup storable", c)
  <2>1. \A n \in 1..8 : Host!Passes(names[n], c)
    BY <1>1 DEF PassesAll, names
  <2>2. /\ Host!Passes(names[4], c) /\ Host!Passes(names[5], c) /\ Host!Passes(names[6], c)
        /\ Host!Passes(names[7], c) /\ Host!Passes(names[8], c)
    BY <2>1
  <2> QED BY <1>1, <2>2, Zenon
<1>3. \A p \in {c.nr_periods, c.nr_throttled, c.quota_us, c.period_us} : p = Nil \/ p \in Words
  BY DEF Host!IsCgroupCPU, Host!Pointers, Words
<1>4. c.nr_periods # Nil <=> c.nr_throttled # Nil
  <2>1. Host!ThrottleFields(c) \in {0, 3}
    BY <1>2 DEF Host!Passes
  <2> QED BY <2>1, ThreeOrNone
<1>5. c.nr_periods # Nil => c.nr_throttled <= c.nr_periods
  BY <1>2 DEF Host!Passes
<1>6. c.nr_periods # Nil => c.nr_periods <= MaxInt64
  <2>1. \A p \in Host!Elements(Host!Throttle(c)) : p # Nil => p <= MaxInt64
    BY <1>2 DEF Host!Passes, Host!Storable, Host!WithinInt64
  <2>2. c.nr_periods \in Host!Elements(Host!Throttle(c))
    <3>1. DOMAIN Host!Throttle(c) = 1..3 /\ Host!Throttle(c)[1] = c.nr_periods
      BY DEF Host!Throttle
    <3> QED BY <3>1 DEF Host!Elements
  <2> QED BY <2>1, <2>2
<1>7. c.quota_us = Nil <=> c.period_us = Nil
  BY <1>2 DEF Host!Passes, Host!Paired
<1>8. c.quota_us # Nil => c.quota_us # 0 /\ c.period_us # 0
  BY <1>2 DEF Host!Passes
<1> QED BY <1>3, <1>4, <1>5, <1>6, <1>7, <1>8, WordsAreNumbers DEF Within

(* Memory: what is available or swapped is within its total.               *)
LEMMA SystemMemoryIsMeasurable ==
  ASSUME NEW m, Host!IsSystemMemory(m), PassesAll(Host!SystemMemoryChecks, m)
  PROVE  Within(m.swap_free, m.swap_total) /\ (m.available # Nil => Within(m.available, m.total))
<1> DEFINE names == Host!SystemMemoryChecks
<1>1. Len(names) = 4 /\ names[1] = "total storable" /\ names[2] = "swap storable"
      /\ names[3] = "available" /\ names[4] = "swap within total"
  BY DEF Host!SystemMemoryChecks
<1> HIDE DEF names
<1>2. /\ Host!Passes("total storable", m) /\ Host!Passes("swap storable", m)
      /\ Host!Passes("available", m) /\ Host!Passes("swap within total", m)
  <2>1. \A n \in 1..4 : Host!Passes(names[n], m)
    BY <1>1 DEF PassesAll, names
  <2>2. /\ Host!Passes(names[1], m) /\ Host!Passes(names[2], m) /\ Host!Passes(names[3], m)
        /\ Host!Passes(names[4], m)
    BY <2>1
  <2> QED BY <1>1, <2>2, Zenon
<1>3. m.total \in Words /\ m.swap_total \in Words /\ m.swap_free \in Words
      /\ (m.available = Nil \/ m.available \in Words)
  BY DEF Host!IsSystemMemory, Host!Pointers, Words
<1>4. m.total <= MaxInt64 /\ m.swap_free <= m.swap_total
      /\ (m.available # Nil => m.available <= m.total)
  BY <1>2 DEF Host!Passes, Host!WithinInt64
<1>5. m.swap_total <= MaxInt64
  <2>1. \A p \in {m.swap_total, m.swap_free} : p # Nil => p <= MaxInt64
    BY <1>2 DEF Host!Passes, Host!Storable, Host!WithinInt64
  <2> QED BY <1>3, <2>1, WordsAreNumbers
<1> QED BY <1>3, <1>4, <1>5 DEF Within

(* Cgroup memory: a limit that is there is positive.                       *)
LEMMA CgroupMemoryIsMeasurable ==
  ASSUME NEW m, Host!IsCgroupMemory(m), PassesAll(Host!CgroupMemoryChecks, m), m.limit_bytes # Nil
  PROVE  m.current_bytes \in Words /\ m.limit_bytes \in Words /\ m.limit_bytes > 0
<1> DEFINE names == Host!CgroupMemoryChecks
<1>1. Len(names) = 4 /\ names[3] = "limit positive"
  BY DEF Host!CgroupMemoryChecks
<1> HIDE DEF names
<1>2. Host!Passes("limit positive", m)
  <2>1. \A n \in 1..4 : Host!Passes(names[n], m)
    BY <1>1 DEF PassesAll, names
  <2>2. Host!Passes(names[3], m)
    BY <2>1
  <2> QED BY <1>1, <2>2, Zenon
<1>3. m.limit_bytes # 0
  BY <1>2 DEF Host!Passes
<1>4. m.limit_bytes \in Words /\ m.current_bytes \in Words
  BY DEF Host!IsCgroupMemory, Host!Pointers, Words
<1> QED BY <1>3, <1>4, WordsAreNumbers

(* File system: available bytes and inodes are within their totals.        *)
LEMMA FilesystemIsMeasurable ==
  ASSUME NEW f, Host!IsFilesystem(f), PassesAll(Host!FilesystemChecks, f)
  PROVE  /\ Within(f.available, f.total)
         /\ {f.available_inodes, f.total_inodes} # {Nil} => Within(f.available_inodes, f.total_inodes)
<1> DEFINE names == Host!FilesystemChecks
<1>1. Len(names) = 4 /\ names[1] = "total storable" /\ names[2] = "available"
      /\ names[3] = "inodes paired" /\ names[4] = "inodes"
  BY DEF Host!FilesystemChecks
<1> HIDE DEF names
<1>2. /\ Host!Passes("total storable", f) /\ Host!Passes("available", f)
      /\ Host!Passes("inodes paired", f) /\ Host!Passes("inodes", f)
  <2>1. \A n \in 1..4 : Host!Passes(names[n], f)
    BY <1>1 DEF PassesAll, names
  <2>2. /\ Host!Passes(names[1], f) /\ Host!Passes(names[2], f) /\ Host!Passes(names[3], f)
        /\ Host!Passes(names[4], f)
    BY <2>1
  <2> QED BY <1>1, <2>2, Zenon
<1>3. f.total \in Words /\ f.available \in Words
      /\ (f.total_inodes = Nil \/ f.total_inodes \in Words)
      /\ (f.available_inodes = Nil \/ f.available_inodes \in Words)
  BY DEF Host!IsFilesystem, Host!Pointers, Words
<1>4. f.total <= MaxInt64 /\ (f.available # Nil => f.available <= f.total)
  BY <1>2 DEF Host!Passes, Host!WithinInt64
<1>5. f.total_inodes = Nil <=> f.available_inodes = Nil
  BY <1>2 DEF Host!Passes, Host!Paired
<1>6. f.total_inodes # Nil => /\ \A p \in {f.total_inodes, f.available_inodes} : p # Nil => p <= MaxInt64
                              /\ f.available_inodes <= f.total_inodes
  BY <1>2 DEF Host!Passes, Host!Storable, Host!WithinInt64
<1> QED BY <1>3, <1>4, <1>5, <1>6, WordsAreNumbers DEF Within

(* Processes: CPU time comes with a positive unit.                         *)
LEMMA ProcessIsMeasurable ==
  ASSUME NEW p, Host!IsProcess(p), PassesAll(Host!ProcessChecks, p),
         <<p.cpu_time, p.units_per_second>> # <<Nil, Nil>>
  PROVE  p.cpu_time \in Words /\ p.units_per_second \in Words /\ p.units_per_second > 0
<1> DEFINE names == Host!ProcessChecks
<1>1. Len(names) = 6 /\ names[4] = "cpu time paired" /\ names[5] = "units positive"
  BY DEF Host!ProcessChecks
<1> HIDE DEF names
<1>2. Host!Passes("cpu time paired", p) /\ Host!Passes("units positive", p)
  <2>1. \A n \in 1..6 : Host!Passes(names[n], p)
    BY <1>1 DEF PassesAll, names
  <2>2. Host!Passes(names[4], p) /\ Host!Passes(names[5], p)
    BY <2>1
  <2> QED BY <1>1, <2>2, Zenon
<1>3. (p.cpu_time = Nil <=> p.units_per_second = Nil) /\ p.units_per_second # 0
  BY <1>2 DEF Host!Passes, Host!Paired
<1>4. /\ p.cpu_time = Nil \/ p.cpu_time \in Words
      /\ p.units_per_second = Nil \/ p.units_per_second \in Words
  BY DEF Host!IsProcess, Host!Pointers, Words
<1> QED BY <1>3, <1>4, WordsAreNumbers

(* An interface: its speed, if it has one, is a positive word.             *)
LEMMA InterfaceIsMeasurable ==
  ASSUME NEW v, PassesAll(Host!NetworkChecks, v),
         NEW link \in Host!Elements(v.interfaces), Host!IsInterface(link), link.link_speed # Nil
  PROVE  link.counters \in Words /\ link.link_speed \in Words /\ link.link_speed > 0
<1> DEFINE names == Host!NetworkChecks
<1>1. Len(names) = 5 /\ names[4] = "interfaces"
  BY DEF Host!NetworkChecks
<1> HIDE DEF names
<1>2. Host!Passes("interfaces", v)
  <2>1. \A n \in 1..5 : Host!Passes(names[n], v)
    BY <1>1 DEF PassesAll, names
  <2>2. Host!Passes(names[4], v)
    BY <2>1
  <2> QED BY <1>1, <2>2, Zenon
<1>3. Host!ValidInterface(link)
  BY <1>2 DEF Host!Passes
<1>4. link.link_speed \in 1..MaxLinkSpeedMbps
  BY <1>3 DEF Host!ValidInterface
<1>5. link.counters \in Words /\ link.link_speed \in Words
  BY Zenon DEF Host!IsInterface, Host!Pointers, Words
<1> QED BY <1>4, <1>5

(* A part of a whole, and a dividend with its divisor.                     *)
IsPart(f)  == Nil \notin Host!Elements(f) /\ f[1] <= f[2] /\ f[2] <= MaxInt64
IsRatio(r) == Nil \notin Host!Elements(r) /\ r[2] > 0

(* Two words make a part, or with a positive divisor a ratio.              *)
LEMMA PairsOfWords ==
  /\ \A p, q : Within(p, q) => IsPart(<<p, q>>)
  /\ \A p, q : p \in Words /\ q \in Words /\ q > 0 => IsRatio(<<p, q>>)
<1>1. ASSUME NEW p, NEW q, p \in Words, q \in Words
      PROVE  Nil \notin Host!Elements(<<p, q>>)
  <2> DEFINE f == <<p, q>>
  <2>1. DOMAIN f = 1..2 /\ f[1] = p /\ f[2] = q
    OBVIOUS
  <2> HIDE DEF f
  <2>2. \A n \in DOMAIN f : f[n] \in Words
    BY <1>1, <2>1
  <2>3. Nil \notin Host!Elements(f)
    BY <2>2, WordsAreNumbers, Zenon DEF Host!Elements
  <2> QED BY <2>3 DEF f
<1>2. \A p, q : <<p, q>>[1] = p /\ <<p, q>>[2] = q
  OBVIOUS
<1>3. ASSUME NEW p, NEW q, Within(p, q) PROVE IsPart(<<p, q>>)
  <2>1. Nil \notin Host!Elements(<<p, q>>)
    BY <1>1, <1>3, Zenon DEF Within
  <2> QED BY <1>2, <1>3, <2>1, Zenon DEF Within, IsPart
<1>4. ASSUME NEW p, NEW q, p \in Words, q \in Words, q > 0 PROVE IsRatio(<<p, q>>)
  <2>1. Nil \notin Host!Elements(<<p, q>>)
    BY <1>1, <1>4, Zenon
  <2>2. <<p, q>>[2] > 0
    BY <1>2, <1>4
  <2> QED BY <2>1, <2>2, Zenon DEF IsRatio
<1> QED BY <1>3, <1>4, Zenon

(* Every fraction of an accepted sample is a part of a whole.              *)
LEMMA PartsAreWithinWholes ==
  ASSUME NEW h, Host!IsSample(h), AllPass(Host!Checks(h))
  PROVE  \A f \in Host!Fractions(h) : IsPart(f)
<1> DEFINE Pair(a, b) == IF {a, b} = {Nil} THEN {} ELSE {<<a, b>>}
           CPU == IF h.cpu # Nil /\ h.cpu.system # Nil
                    THEN {<<h.cpu.system.counters[1] + h.cpu.system.counters[2],
                            h.cpu.system.total>>} ELSE {}
           Cgroup == IF h.cpu # Nil /\ h.cpu.cgroup # Nil
                       THEN Pair(h.cpu.cgroup.nr_throttled, h.cpu.cgroup.nr_periods) ELSE {}
           Memory == IF h.memory # Nil /\ h.memory.system # Nil
                       THEN {<<h.memory.system.swap_free, h.memory.system.swap_total>>}
                              \cup IF h.memory.system.available = Nil THEN {}
                                   ELSE {<<h.memory.system.available, h.memory.system.total>>}
                       ELSE {}
           Files == IF h.filesystem # Nil
                      THEN {<<h.filesystem.available, h.filesystem.total>>}
                             \cup Pair(h.filesystem.available_inodes, h.filesystem.total_inodes)
                      ELSE {}
<1>1. Host!Fractions(h) = CPU \cup Cgroup \cup Memory \cup Files
  BY Zenon DEF Host!Fractions
<1>2. \A f \in CPU : IsPart(f)
  <2> SUFFICES ASSUME h.cpu # Nil, h.cpu.system # Nil
               PROVE  IsPart(<<h.cpu.system.counters[1] + h.cpu.system.counters[2],
                               h.cpu.system.total>>)
    OBVIOUS
  <2>1. Host!IsSystemCPU(h.cpu.system) /\ PassesAll(Host!SystemCPUChecks, h.cpu.system)
    BY SectionsPass, Zenon DEF Host!IsSample
  <2>2. Within(h.cpu.system.counters[1] + h.cpu.system.counters[2], h.cpu.system.total)
    BY <2>1, SystemCPUIsMeasurable, Zenon
  <2> QED BY <2>2, PairsOfWords, Zenon
<1>3. \A f \in Cgroup : IsPart(f)
  <2> SUFFICES ASSUME h.cpu # Nil, h.cpu.cgroup # Nil,
                      {h.cpu.cgroup.nr_throttled, h.cpu.cgroup.nr_periods} # {Nil}
               PROVE  IsPart(<<h.cpu.cgroup.nr_throttled, h.cpu.cgroup.nr_periods>>)
    OBVIOUS
  <2>1. Host!IsCgroupCPU(h.cpu.cgroup) /\ PassesAll(Host!CgroupCPUChecks, h.cpu.cgroup)
    BY SectionsPass, Zenon DEF Host!IsSample
  <2>2. Within(h.cpu.cgroup.nr_throttled, h.cpu.cgroup.nr_periods)
    BY <2>1, CgroupCPUIsMeasurable, Zenon
  <2> QED BY <2>2, PairsOfWords, Zenon
<1>4. \A f \in Memory : IsPart(f)
  <2> SUFFICES ASSUME h.memory # Nil, h.memory.system # Nil
               PROVE  /\ IsPart(<<h.memory.system.swap_free, h.memory.system.swap_total>>)
                      /\ h.memory.system.available # Nil =>
                           IsPart(<<h.memory.system.available, h.memory.system.total>>)
    OBVIOUS
  <2>1. Host!IsSystemMemory(h.memory.system) /\ PassesAll(Host!SystemMemoryChecks, h.memory.system)
    BY SectionsPass, Zenon DEF Host!IsSample
  <2>2. /\ Within(h.memory.system.swap_free, h.memory.system.swap_total)
        /\ h.memory.system.available # Nil =>
             Within(h.memory.system.available, h.memory.system.total)
    BY <2>1, SystemMemoryIsMeasurable, Zenon
  <2> QED BY <2>2, PairsOfWords, Zenon
<1>5. \A f \in Files : IsPart(f)
  <2> SUFFICES ASSUME h.filesystem # Nil
               PROVE  /\ IsPart(<<h.filesystem.available, h.filesystem.total>>)
                      /\ {h.filesystem.available_inodes, h.filesystem.total_inodes} # {Nil} =>
                           IsPart(<<h.filesystem.available_inodes, h.filesystem.total_inodes>>)
    OBVIOUS
  <2>1. Host!IsFilesystem(h.filesystem) /\ PassesAll(Host!FilesystemChecks, h.filesystem)
    BY SectionsPass, Zenon DEF Host!IsSample
  <2>2. /\ Within(h.filesystem.available, h.filesystem.total)
        /\ {h.filesystem.available_inodes, h.filesystem.total_inodes} # {Nil} =>
             Within(h.filesystem.available_inodes, h.filesystem.total_inodes)
    BY <2>1, FilesystemIsMeasurable, Zenon
  <2> QED BY <2>2, PairsOfWords, Zenon
<1> HIDE DEF CPU, Cgroup, Memory, Files
<1> QED BY <1>1, <1>2, <1>3, <1>4, <1>5

(* Every ratio of an accepted sample can be computed.                      *)
LEMMA DivisorsArePositive ==
  ASSUME NEW h, Host!IsSample(h), AllPass(Host!Checks(h))
  PROVE  \A r \in Host!Ratios(h) : IsRatio(r)
<1> DEFINE Processes == IF h.processes = Nil THEN {} ELSE {h.processes.agent, h.processes.core} \ {Nil}
           Times  == {<<p.cpu_time, p.units_per_second>> : p \in Processes}
           Quota  == IF h.cpu # Nil /\ h.cpu.cgroup # Nil
                       THEN {<<h.cpu.cgroup.quota_us, h.cpu.cgroup.period_us>>} ELSE {}
           Memory == IF h.memory # Nil /\ h.memory.cgroup # Nil /\ h.memory.cgroup.limit_bytes # Nil
                       THEN {<<h.memory.cgroup.current_bytes, h.memory.cgroup.limit_bytes>>} ELSE {}
           Links  == IF h.network = Nil THEN {}
                     ELSE {<<link.counters, link.link_speed>> :
                             link \in {j \in Host!Elements(h.network.interfaces) : j.link_speed # Nil}}
<1>1. Host!Ratios(h) = {r \in Times \cup Quota \cup Memory \cup Links : r # <<Nil, Nil>>}
  BY Zenon DEF Host!Ratios
<1>2. ASSUME NEW p \in Processes, <<p.cpu_time, p.units_per_second>> # <<Nil, Nil>>
      PROVE  IsRatio(<<p.cpu_time, p.units_per_second>>)
  <2>1. /\ h.processes # Nil /\ p # Nil
        /\ p = h.processes.agent \/ p = h.processes.core
    BY <1>2
  <2>2. Host!IsProcess(p)
    BY <2>1 DEF Host!IsSample
  <2>3. PassesAll(Host!ProcessChecks, p)
    BY <2>1, SectionsPass, Zenon
  <2>4. p.cpu_time \in Words /\ p.units_per_second \in Words /\ p.units_per_second > 0
    BY <1>2, <2>2, <2>3, ProcessIsMeasurable, Zenon
  <2> QED BY <2>4, PairsOfWords, Zenon
<1>3. \A r \in Quota : r # <<Nil, Nil>> => IsRatio(r)
  <2> SUFFICES ASSUME h.cpu # Nil, h.cpu.cgroup # Nil,
                      <<h.cpu.cgroup.quota_us, h.cpu.cgroup.period_us>> # <<Nil, Nil>>
               PROVE  IsRatio(<<h.cpu.cgroup.quota_us, h.cpu.cgroup.period_us>>)
    OBVIOUS
  <2>1. Host!IsCgroupCPU(h.cpu.cgroup) /\ PassesAll(Host!CgroupCPUChecks, h.cpu.cgroup)
    BY SectionsPass, Zenon DEF Host!IsSample
  <2>2. /\ h.cpu.cgroup.quota_us \in Words /\ h.cpu.cgroup.period_us \in Words
        /\ h.cpu.cgroup.period_us > 0
    BY <2>1, CgroupCPUIsMeasurable, Zenon
  <2> QED BY <2>2, PairsOfWords, Zenon
<1>4. \A r \in Memory : IsRatio(r)
  <2> SUFFICES ASSUME h.memory # Nil, h.memory.cgroup # Nil, h.memory.cgroup.limit_bytes # Nil
               PROVE  IsRatio(<<h.memory.cgroup.current_bytes, h.memory.cgroup.limit_bytes>>)
    OBVIOUS
  <2>1. Host!IsCgroupMemory(h.memory.cgroup) /\ PassesAll(Host!CgroupMemoryChecks, h.memory.cgroup)
    BY SectionsPass, Zenon DEF Host!IsSample
  <2>2. /\ h.memory.cgroup.current_bytes \in Words /\ h.memory.cgroup.limit_bytes \in Words
        /\ h.memory.cgroup.limit_bytes > 0
    BY <2>1, CgroupMemoryIsMeasurable, Zenon
  <2> QED BY <2>2, PairsOfWords, Zenon
<1>5. \A r \in Times : r # <<Nil, Nil>> => IsRatio(r)
  <2> HIDE DEF Processes
  <2> QED BY <1>2, Zenon
<1>6. \A r \in Links : IsRatio(r)
  <2> SUFFICES ASSUME h.network # Nil,
                      NEW link \in Host!Elements(h.network.interfaces), link.link_speed # Nil
               PROVE  IsRatio(<<link.counters, link.link_speed>>)
    OBVIOUS
  <2>1. Host!IsInterface(link) /\ PassesAll(Host!NetworkChecks, h.network)
    BY SectionsPass, Zenon DEF Host!IsSample
  <2>2. link.counters \in Words /\ link.link_speed \in Words /\ link.link_speed > 0
    BY <2>1, InterfaceIsMeasurable, Zenon
  <2> QED BY <2>2, PairsOfWords, Zenon
<1> HIDE DEF Times, Quota, Memory, Links
<1> QED BY <1>1, <1>3, <1>4, <1>5, <1>6

(* In every accepted sample, whatever its numbers, parts are within wholes *)
(* as numbers and not as words, and divisors are there and positive        *)
(* (ValidateHostObservation: the counters are bounded before they are      *)
(* added, the pairs complete before they are compared).                    *)
THEOREM AcceptedCanBeMeasured == AllSpec => []AcceptedIsMeasurable
<1>1. Sampled => AcceptedIsMeasurable
  <2> SUFFICES ASSUME Sampled, document = "host", answer = "accepted"
               PROVE  /\ \A f \in Host!Fractions(content) : IsPart(f)
                      /\ \A r \in Host!Ratios(content) : IsRatio(r)
    BY Zenon DEF AcceptedIsMeasurable, Host!AcceptedIsMeasurable, IsPart, IsRatio
  <2>1. AllPass(Host!Checks(content))
    BY DEF Sampled, AllPass
  <2>2. Host!IsSample(content)
    BY SamplesAssumption, Zenon DEF Sampled
  <2> QED BY <2>1, <2>2, PartsAreWithinWholes, DivisorsArePositive, Zenon
<1>2. AllInit => Sampled
  BY SampledAtFirst
<1>3. Sampled /\ [AllNext]_all => Sampled'
  BY SampledStays
<1> QED BY <1>1, <1>2, <1>3, PTL DEF AllSpec

-----------------------------------------------------------------------------
(* The lists of Outbox and the fleets of FleetQuota, among the documents.  *)

(* A list keeps the invariant of its loop and a fleet that of its own; of  *)
(* any other document, there is no verdict on a list and no assessment.    *)
Composed ==
  /\ IF document = "list" THEN IInv ELSE total = 0 /\ verdict = Nil
  /\ IF document = "fleet" THEN AssessIInv ELSE pc = Nil

(* The invariant holds of every document before the first step.            *)
LEMMA ComposedAtFirst == AllInit => Composed
<1> SUFFICES ASSUME AllInit PROVE Composed
  OBVIOUS
<1>1. CASE document = "list" /\ Init /\ NoFleet
  BY <1>1, InitIInv DEF Composed, NoFleet, Unused
<1>2. CASE document = "fleet" /\ AssessInit /\ NoList
  BY <1>2, AssessInitIInv DEF Composed, NoList, Unused
<1>3. CASE document \notin {"list", "fleet"} /\ NoList /\ NoFleet
  BY <1>3 DEF Composed, NoList, NoFleet, Unused
<1> QED BY <1>1, <1>2, <1>3, Zenon DEF AllInit

(* A step belongs to the component of the document, and leaves the others  *)
(* as they are.                                                            *)
LEMMA ComposedStays == Composed /\ [AllNext]_all => Composed'
<1> SUFFICES ASSUME Composed, [AllNext]_all PROVE Composed'
  OBVIOUS
<1>1. UNCHANGED document
  BY DEF AllNext, all
<1>2. CASE document = "list"
  <2>1. [Next]_vars /\ UNCHANGED assessVars
    BY <1>2, Zenon DEF AllNext, all
  <2>2. IInv'
    BY <1>2, <2>1, NextIInv DEF Composed
  <2> QED BY <1>1, <1>2, <2>1, <2>2 DEF Composed, assessVars
<1>3. CASE document = "fleet"
  <2>1. [AssessNext]_assessVars /\ UNCHANGED vars
    BY <1>3, Zenon DEF AllNext, all
  <2>2. AssessIInv'
    BY <1>3, <2>1, AssessNextIInv DEF Composed
  <2> QED BY <1>1, <1>3, <2>1, <2>2 DEF Composed, vars
<1>4. CASE document \notin {"list", "fleet"}
  <2>1. UNCHANGED <<total, verdict, assessVars>>
    BY <1>4 DEF AllNext, all, vars
  <2> QED BY <1>1, <1>4, <2>1 DEF Composed, assessVars
<1> QED BY <1>2, <1>3, <1>4

(* Both loops keep their invariants whatever else crosses the wire.        *)
LEMMA ComposedThroughout == AllSpec => []Composed
<1>1. AllInit => Composed
  BY ComposedAtFirst
<1>2. Composed /\ [AllNext]_all => Composed'
  BY ComposedStays
<1> QED BY <1>1, <1>2, PTL DEF AllSpec

(* Among all documents, too: every list of tasks or results stays within   *)
(* its budget, is accepted exactly if it is acceptable as a whole, and is  *)
(* of one schema (ValidateTasks, ValidateTaskResults, validateOutbox).     *)
THEOREM ListsAreJudgedAsWholes ==
  AllSpec => [](BudgetNeverOverdrawn /\ VerdictIsReference /\ SchemasNeverMix)
<1>1. Composed => BudgetNeverOverdrawn /\ VerdictIsReference /\ SchemasNeverMix
  <2> SUFFICES ASSUME Composed
               PROVE  BudgetNeverOverdrawn /\ VerdictIsReference /\ SchemasNeverMix
    OBVIOUS
  <2>1. CASE document = "list"
    <3>1. IInv
      BY <2>1 DEF Composed
    <3> QED BY <3>1, VerdictsAreDeserved, AcceptedIsOneSchema DEF IInv
  <2>2. CASE document # "list"
    <3>1. total = 0 /\ verdict \notin {"ok", "refused"}
      BY <2>2, NilAssumption DEF Composed
    <3>2. BudgetNeverOverdrawn
      BY <3>1, BudgetAssumption DEF BudgetNeverOverdrawn
    <3>3. verdict # "ok" /\ verdict # "refused"
      BY <3>1
    <3>4. VerdictIsReference /\ SchemasNeverMix
      BY <3>3, Zenon DEF VerdictIsReference, SchemasNeverMix
    <3> QED BY <3>2, <3>4
  <2> QED BY <2>1, <2>2
<1> QED BY <1>1, ComposedThroughout, PTL

(* Among all documents, too: the residual of every fleet is that of        *)
(* unbounded arithmetic, and only what cannot be represented is refused    *)
(* (AssessFleetQuota).                                                     *)
THEOREM FleetsAreAssessed ==
  AllSpec => [](AssessmentIsExact /\ OnlyOverflowIsRefused)
<1>1. Composed => AssessmentIsExact /\ OnlyOverflowIsRefused
  <2> SUFFICES ASSUME Composed PROVE AssessmentIsExact /\ OnlyOverflowIsRefused
    OBVIOUS
  <2>1. CASE document = "fleet"
    BY <2>1 DEF Composed, AssessIInv
  <2>2. CASE document # "fleet"
    <3>1. pc \notin {"done", "error"}
      BY <2>2, NilAssumption DEF Composed
    <3> QED BY <3>1 DEF AssessmentIsExact, OnlyOverflowIsRefused
  <2> QED BY <2>1, <2>2
<1> QED BY <1>1, ComposedThroughout, PTL
=============================================================================
