--------------------------- MODULE TestBench_proof ---------------------------
(***************************************************************************)
(* What the faults of `wfgen gen` do to a stream, for any chunks, any      *)
(* assignment of faults and any offsets of late events: every event is     *)
(* sent as often as its fault says and counted once, and the order in      *)
(* which events leave is explained by swaps and late events.               *)
(*                                                                         *)
(* The clean stream holds no event twice, so that an index of it stands    *)
(* for an event; what was sent is related to it by position.               *)
(***************************************************************************)
EXTENDS TestBench, FiniteSetTheorems, SequenceTheorems, TLAPS

Event == [chunk : Nat, nr : Nat, ts : Nat, key : Keys]
Late == [event : Nat, target : Nat]

-----------------------------------------------------------------------------
(* The inductive invariant. *)

\* By time, and by chunk among equals.
ByTime(e, f) == e.ts < f.ts \/ (e.ts = f.ts /\ e.chunk <= f.chunk)

\* The clean stream: what was taken of each chunk, sorted, before all the rest.
MergeInv ==
    /\ chunks \in Inputs
    /\ cursor \in [DOMAIN chunks -> Nat]
    /\ \A c \in DOMAIN chunks : cursor[c] <= Len(chunks[c])
    /\ merged \in Seq(Event)
    /\ \A n \in DOMAIN merged : /\ merged[n].chunk \in DOMAIN chunks
                                /\ merged[n].nr <= cursor[merged[n].chunk]
    /\ \A m, n \in DOMAIN merged : m # n => merged[m] # merged[n]
    /\ \A m, n \in DOMAIN merged : m < n => ByTime(merged[m], merged[n])
    /\ \A n \in DOMAIN merged : \A c \in Heads : ByTime(merged[n], HeadOf(c))

\* Where the passes stand.
PhaseInv ==
    /\ pc \in {"merge", "transform", "insert", "verify", "pair", "done"}
    /\ pc = "merge" => /\ kind = << >> /\ at = 1 /\ consumed = {}
                       /\ result = << >> /\ deferred = << >> /\ stats = NoFaults
    /\ pc \in {"transform", "insert"} => kind # << >>

Transformed ==
    /\ kind \in [DOMAIN merged -> Faults \cup {"clean"}]
    /\ at \in 1 .. Len(merged) + 1
    /\ consumed \subseteq DOMAIN merged /\ \A n \in consumed : n <= at
    /\ result \in Seq(Event) /\ deferred \in Seq(Late)
    /\ stats \in [outOfOrder : Nat, late : Nat, duplicate : Nat, drop : Nat, clean : Nat]
    /\ pc # "transform" => at = Len(merged) + 1
    /\ pc \in {"verify", "pair", "done"} => deferred = << >>

\* What was done to an event so far.
IsLate(n) == Done(n) = "late" /\ n < Len(merged)
Handled(n) == n < at \/ n \in consumed
Waiting(n) == \E d \in DOMAIN deferred : deferred[d].event = n

Copies(n) ==
    IF ~ Handled(n) \/ Waiting(n) \/ Done(n) = "drop" THEN 0
    ELSE IF Done(n) = "duplicate" THEN 2 ELSE 1

HandledCount == at - 1 + (IF at \in consumed THEN 1 ELSE 0)

\* Events in the result and in the statistics.
CountInv ==
    /\ stats.outOfOrder + stats.late + stats.duplicate + stats.drop + stats.clean = HandledCount
    /\ Len(result) + Len(deferred) = HandledCount - stats.drop + stats.duplicate
    /\ \A n \in DOMAIN merged : Times(merged[n], result) = Copies(n)

\* A late event waits once.
WaitInv ==
    /\ \A d \in DOMAIN deferred : /\ deferred[d].event \in DOMAIN merged
                                  /\ deferred[d].event < at /\ IsLate(deferred[d].event)
    /\ \A d, e \in DOMAIN deferred : d # e => deferred[d].event # deferred[e].event

\* Others leave in order, but for the two of a swap.
OrderInv ==
    \A p, q \in DOMAIN result : \A m, n \in DOMAIN merged :
        result[p] = merged[m] /\ result[q] = merged[n] /\ m < n /\ ~ IsLate(m) /\ ~ IsLate(n)
            => p < q \/ (n = m + 1 /\ n \in consumed)

\* No event that follows stays: all are dropped or late.
NoneStays(m) == \A n \in DOMAIN merged : n > m => Done(n) = "drop" \/ IsLate(n)

\* One that follows has left, at place p of the result or before.
LeftBy(m, last) ==
    \E p \in DOMAIN result : p <= last /\ \E n \in DOMAIN merged : n > m /\ result[p] = merged[n]

\* A late event in the result is behind one that follows it.
LateInv ==
    \A q \in DOMAIN result : \A m \in DOMAIN merged :
        result[q] = merged[m] /\ IsLate(m) => pc # "transform" /\ (NoneStays(m) \/ LeftBy(m, q - 1))

\* One that waits will be.
DueInv ==
    \A d \in DOMAIN deferred :
        LET m == deferred[d].event
        IN  \/ LeftBy(m, deferred[d].target)
            \/ /\ pc = "transform" /\ Len(result) < deferred[d].target
               /\ \A p \in DOMAIN result : \A n \in DOMAIN merged : result[p] = merged[n] => n <= m
            \/ pc = "insert" /\ NoneStays(m)

Passing == Transformed /\ CountInv /\ WaitInv /\ OrderInv /\ LateInv /\ DueInv
FaultInv == kind # << >> => Passing
BenchInv == MergeInv /\ PhaseInv /\ FaultInv

-----------------------------------------------------------------------------
(* Sequences: places and occurrences. *)

\* Both sequences of a concatenation, place by place.
LEMMA ConcatPlaces ==
    ASSUME NEW S, NEW a \in Seq(S), NEW b \in Seq(S), NEW t, t = a \o b
    PROVE  /\ t \in Seq(S) /\ Len(t) = Len(a) + Len(b)
           /\ \A p \in 1 .. Len(a) : t[p] = a[p]
           /\ \A p \in 1 .. Len(b) : t[Len(a) + p] = b[p]
<1>1. Len(a) \in Nat /\ Len(b) \in Nat
  BY LenProperties
<1>2. /\ t \in Seq(S) /\ Len(t) = Len(a) + Len(b)
      /\ \A p \in 1 .. Len(a) + Len(b) : t[p] = IF p <= Len(a) THEN a[p] ELSE b[p - Len(a)]
  BY ConcatProperties
<1>3. ASSUME NEW p \in 1 .. Len(a) PROVE t[p] = a[p]
  <2>1. p \in 1 .. Len(a) + Len(b) /\ p <= Len(a)
    BY <1>1
  <2>. QED  BY ONLY <1>2, <2>1
<1>4. ASSUME NEW p \in 1 .. Len(b) PROVE t[Len(a) + p] = b[p]
  <2>1. Len(a) + p \in 1 .. Len(a) + Len(b) /\ ~ (Len(a) + p <= Len(a)) /\ Len(a) + p - Len(a) = p
    BY <1>1
  <2>. QED  BY ONLY <1>2, <2>1
<1>. QED  BY <1>2, <1>3, <1>4

\* The first elements and the last ones, place by place.
LEMMA PartPlaces ==
    ASSUME NEW S, NEW s \in Seq(S), NEW i \in 1 .. Len(s) + 1
    PROVE  /\ SubSeq(s, 1, i - 1) \in Seq(S) /\ Len(SubSeq(s, 1, i - 1)) = i - 1
           /\ \A p \in 1 .. i - 1 : SubSeq(s, 1, i - 1)[p] = s[p]
           /\ SubSeq(s, i, Len(s)) \in Seq(S) /\ Len(SubSeq(s, i, Len(s))) = Len(s) - i + 1
           /\ \A p \in 1 .. Len(s) - i + 1 : SubSeq(s, i, Len(s))[p] = s[i + p - 1]
<1>0. /\ Len(s) \in Nat /\ i \in Int /\ i - 1 \in Int /\ 1 \in Int /\ Len(s) \in Int
      /\ i >= 1 /\ i <= Len(s) + 1
  BY LenProperties
<1>1. (\A p \in 1 .. i - 1 : s[p] \in S) /\ (\A p \in i .. Len(s) : s[p] \in S)
  BY <1>0, ElementOfSeq
<1>2. /\ SubSeq(s, 1, i - 1) \in Seq(S)
      /\ Len(SubSeq(s, 1, i - 1)) = IF 1 <= i - 1 THEN i - 1 - 1 + 1 ELSE 0
      /\ \A p \in 1 .. i - 1 - 1 + 1 : SubSeq(s, 1, i - 1)[p] = s[1 + p - 1]
  BY ONLY <1>0, <1>1, SubSeqProperties
<1>3. /\ SubSeq(s, i, Len(s)) \in Seq(S)
      /\ Len(SubSeq(s, i, Len(s))) = IF i <= Len(s) THEN Len(s) - i + 1 ELSE 0
      /\ \A p \in 1 .. Len(s) - i + 1 : SubSeq(s, i, Len(s))[p] = s[i + p - 1]
  BY ONLY <1>0, <1>1, SubSeqProperties
<1>4. (IF 1 <= i - 1 THEN i - 1 - 1 + 1 ELSE 0) = i - 1 /\ i - 1 - 1 + 1 = i - 1
  BY ONLY <1>0
<1>5. (IF i <= Len(s) THEN Len(s) - i + 1 ELSE 0) = Len(s) - i + 1
  <2>. DEFINE L == Len(s)
  <2>1. L \in Nat /\ i <= L + 1
    BY <1>0
  <2>. HIDE DEF L
  <2>2. (IF i <= L THEN L - i + 1 ELSE 0) = L - i + 1
    BY <2>1, <1>0
  <2>. QED  BY <2>2 DEF L
<1>6. ASSUME NEW p \in 1 .. i - 1 PROVE SubSeq(s, 1, i - 1)[p] = s[p]
  <2>1. p \in 1 .. i - 1 - 1 + 1 /\ 1 + p - 1 = p
    BY <1>0, <1>4
  <2>. QED  BY ONLY <1>2, <2>1
<1>7. Len(SubSeq(s, 1, i - 1)) = i - 1
  BY ONLY <1>2, <1>4
<1>8. Len(SubSeq(s, i, Len(s))) = Len(s) - i + 1
  BY ONLY <1>3, <1>5
<1>. QED  BY <1>2, <1>3, <1>6, <1>7, <1>8

\* What an element inserted at a place leaves where.
LEMMA InsertPlaces ==
    ASSUME NEW S, NEW s \in Seq(S), NEW e \in S, NEW i \in 1 .. Len(s) + 1,
           NEW t, t = SX!InsertAt(s, i, e)
    PROVE  /\ t \in Seq(S) /\ Len(t) = Len(s) + 1
           /\ \A p \in 1 .. i - 1 : t[p] = s[p]
           /\ t[i] = e
           /\ \A p \in i .. Len(s) : t[p + 1] = s[p]
<1>. DEFINE a == SubSeq(s, 1, i - 1)
            b == SubSeq(s, i, Len(s))
            u == a \o << e >>
<1>0. Len(s) \in Nat /\ i \in Nat /\ i >= 1 /\ i <= Len(s) + 1
  BY LenProperties
<1>1. a \in Seq(S) /\ Len(a) = i - 1 /\ \A p \in 1 .. i - 1 : a[p] = s[p]
  BY PartPlaces
<1>2. b \in Seq(S) /\ Len(b) = Len(s) - i + 1 /\ \A p \in 1 .. Len(s) - i + 1 : b[p] = s[i + p - 1]
  BY PartPlaces
<1>3. t = u \o b
  BY DEF SX!InsertAt
<1>. HIDE DEF a, b
<1>4. << e >> \in Seq(S) /\ Len(<< e >>) = 1 /\ << e >>[1] = e /\ 1 \in 1 .. 1
  OBVIOUS
<1>5. /\ u \in Seq(S) /\ Len(u) = Len(a) + Len(<< e >>)
      /\ \A p \in 1 .. Len(a) : u[p] = a[p]
      /\ \A p \in 1 .. Len(<< e >>) : u[Len(a) + p] = << e >>[p]
  <2>. DEFINE w == << e >>
  <2>1. a \in Seq(S) /\ w \in Seq(S) /\ u = a \o w
    BY <1>1, <1>4
  <2>. HIDE DEF u, w
  <2>2. /\ u \in Seq(S) /\ Len(u) = Len(a) + Len(w)
        /\ \A p \in 1 .. Len(a) : u[p] = a[p]
        /\ \A p \in 1 .. Len(w) : u[Len(a) + p] = w[p]
    BY ONLY <2>1, ConcatPlaces
  <2>. QED  BY ONLY <2>2 DEF w
<1>. HIDE DEF u
<1>6. /\ t \in Seq(S) /\ Len(t) = Len(u) + Len(b)
      /\ \A p \in 1 .. Len(u) : t[p] = u[p]
      /\ \A p \in 1 .. Len(b) : t[Len(u) + p] = b[p]
  <2>1. u \in Seq(S) /\ b \in Seq(S) /\ t = u \o b
    BY <1>2, <1>3, <1>5
  <2>. QED  BY ONLY <2>1, ConcatPlaces
<1>7. i - 1 + 1 = i
  BY ONLY <1>0
<1>8. Len(u) = i /\ u[i] = e
  BY ONLY <1>1, <1>4, <1>5, <1>7
<1>9. Len(t) = Len(s) + 1
  <2>1. i + (Len(s) - i + 1) = Len(s) + 1
    BY ONLY <1>0
  <2>. QED  BY ONLY <2>1, <1>2, <1>6, <1>8
<1>10. ASSUME NEW p \in 1 .. i - 1 PROVE t[p] = s[p]
  <2>1. p \in 1 .. i
    BY <1>0
  <2>2. t[p] = u[p]
    BY ONLY <2>1, <1>6, <1>8
  <2>3. u[p] = a[p] /\ a[p] = s[p]
    BY ONLY <1>10, <1>1, <1>5
  <2>. QED  BY ONLY <2>2, <2>3
<1>11. t[i] = e
  <2>1. i \in 1 .. i
    BY <1>0
  <2>. QED  BY ONLY <2>1, <1>6, <1>8
<1>12. ASSUME NEW p \in i .. Len(s) PROVE t[p + 1] = s[p]
  <2>1. p + 1 - i \in 1 .. Len(s) - i + 1 /\ i + (p + 1 - i) = p + 1 /\ i + (p + 1 - i) - 1 = p
    BY <1>0
  <2>2. t[i + (p + 1 - i)] = b[p + 1 - i]
    BY ONLY <2>1, <1>2, <1>6, <1>8
  <2>3. b[p + 1 - i] = s[i + (p + 1 - i) - 1]
    BY ONLY <2>1, <1>2
  <2>. QED  BY ONLY <2>1, <2>2, <2>3
<1>. QED  BY <1>6, <1>9, <1>10, <1>11, <1>12

\* What stays when one element is removed.
LEMMA RemovePlaces ==
    ASSUME NEW S, NEW s \in Seq(S), NEW i \in 1 .. Len(s),
           NEW t, t = SX!RemoveAt(s, i)
    PROVE  /\ t \in Seq(S) /\ Len(t) = Len(s) - 1
           /\ \A p \in 1 .. i - 1 : t[p] = s[p]
           /\ \A p \in i .. Len(s) - 1 : t[p] = s[p + 1]
<1>. DEFINE a == SubSeq(s, 1, i - 1)
            b == SubSeq(s, i + 1, Len(s))
<1>0. Len(s) \in Nat /\ i \in Nat /\ i >= 1 /\ i <= Len(s)
  BY LenProperties
<1>1. a \in Seq(S) /\ Len(a) = i - 1 /\ \A p \in 1 .. i - 1 : a[p] = s[p]
  <2>1. i \in 1 .. Len(s) + 1
    BY <1>0
  <2>. QED  BY <2>1, PartPlaces
<1>2. /\ b \in Seq(S) /\ Len(b) = Len(s) - (i + 1) + 1
      /\ \A p \in 1 .. Len(s) - (i + 1) + 1 : b[p] = s[i + 1 + p - 1]
  <2>1. i + 1 \in 1 .. Len(s) + 1
    BY <1>0
  <2>. QED  BY <2>1, PartPlaces
<1>3. t = a \o b
  BY DEF SX!RemoveAt
<1>. HIDE DEF a, b
<1>4. /\ t \in Seq(S) /\ Len(t) = Len(a) + Len(b)
      /\ \A p \in 1 .. Len(a) : t[p] = a[p]
      /\ \A p \in 1 .. Len(b) : t[Len(a) + p] = b[p]
  <2>1. a \in Seq(S) /\ b \in Seq(S) /\ t = a \o b
    BY <1>1, <1>2, <1>3
  <2>. QED  BY ONLY <2>1, ConcatPlaces
<1>5. Len(t) = Len(s) - 1
  <2>1. (i - 1) + (Len(s) - (i + 1) + 1) = Len(s) - 1
    BY ONLY <1>0
  <2>. QED  BY ONLY <2>1, <1>1, <1>2, <1>4
<1>6. ASSUME NEW p \in 1 .. i - 1 PROVE t[p] = s[p]
  BY ONLY <1>6, <1>1, <1>4
<1>7. ASSUME NEW p \in i .. Len(s) - 1 PROVE t[p] = s[p + 1]
  <2>1. /\ p - i + 1 \in 1 .. Len(s) - (i + 1) + 1
        /\ i - 1 + (p - i + 1) = p /\ i + 1 + (p - i + 1) - 1 = p + 1
    BY <1>0
  <2>2. t[i - 1 + (p - i + 1)] = b[p - i + 1]
    BY ONLY <2>1, <1>1, <1>2, <1>4
  <2>3. b[p - i + 1] = s[i + 1 + (p - i + 1) - 1]
    BY ONLY <2>1, <1>2
  <2>. QED  BY ONLY <2>1, <2>2, <2>3
<1>. QED  BY <1>4, <1>5, <1>6, <1>7

Places(e, s) == {n \in DOMAIN s : s[n] = e}

\* Occurrences are counted, and none means nowhere.
LEMMA TimesCount ==
    ASSUME NEW S, NEW s \in Seq(S), NEW e
    PROVE  /\ IsFiniteSet(Places(e, s)) /\ Times(e, s) \in Nat
           /\ Times(e, s) = Cardinality(Places(e, s))
           /\ Times(e, s) = 0 <=> \A n \in DOMAIN s : s[n] # e
<1>1. IsFiniteSet(1 .. Len(s)) /\ DOMAIN s = 1 .. Len(s)
  BY LenProperties, FS_Interval
<1>2. IsFiniteSet(Places(e, s))
  BY <1>1, FS_Subset DEF Places
<1>3. Times(e, s) = Cardinality(Places(e, s))
  BY DEF Times, Places
<1>4. Times(e, s) \in Nat /\ (Times(e, s) = 0 <=> Places(e, s) = {})
  BY <1>2, <1>3, FS_CardinalityType, FS_EmptySet
<1>. QED  BY <1>2, <1>3, <1>4 DEF Places

\* Nothing occurs in the empty sequence.
LEMMA TimesEmpty ==
    ASSUME NEW e
    PROVE  Times(e, << >>) = 0
<1>1. Places(e, << >>) = {} /\ << >> \in Seq({})
  BY DEF Places
<1>. QED  BY <1>1, FS_EmptySet DEF Times, Places

\* An element put at the end occurs once more.
LEMMA TimesAppend ==
    ASSUME NEW S, NEW s \in Seq(S), NEW x \in S, NEW e
    PROVE  Times(e, Append(s, x)) = Times(e, s) + (IF x = e THEN 1 ELSE 0)
<1>. DEFINE t == Append(s, x)
<1>1. /\ t \in Seq(S) /\ DOMAIN s = 1 .. Len(s) /\ DOMAIN t = 1 .. Len(s) + 1 /\ Len(s) \in Nat
      /\ t[Len(s) + 1] = x /\ \A p \in 1 .. Len(s) : t[p] = s[p]
  BY AppendProperties, LenProperties
<1>. HIDE DEF t
<1>2. Places(e, t) = Places(e, s) \cup (IF x = e THEN {Len(s) + 1} ELSE {})
  BY <1>1 DEF Places
<1>3. Len(s) + 1 \notin Places(e, s)
  BY <1>1 DEF Places
<1>4. IsFiniteSet(Places(e, s)) /\ Cardinality(Places(e, s)) = Times(e, s) /\ Times(e, s) \in Nat
  BY TimesCount
<1>5. Cardinality(Places(e, t)) = Times(e, t)
  BY <1>1, TimesCount
<1>6. CASE x = e
  BY <1>2, <1>3, <1>4, <1>5, <1>6, FS_AddElement DEF t
<1>7. CASE x # e
  BY <1>2, <1>4, <1>5, <1>7 DEF t
<1>. QED  BY <1>6, <1>7

\* An element inserted anywhere occurs once more.
LEMMA TimesInsert ==
    ASSUME NEW S, NEW s \in Seq(S), NEW x \in S, NEW i \in 1 .. Len(s) + 1, NEW e
    PROVE  Times(e, SX!InsertAt(s, i, x)) = Times(e, s) + (IF x = e THEN 1 ELSE 0)
<1>. DEFINE t == SX!InsertAt(s, i, x)
            A == Places(e, s)
            B == Places(e, t) \ {i}
            f == [p \in A |-> IF p < i THEN p ELSE p + 1]
<1>0. t = SX!InsertAt(s, i, x)
  OBVIOUS
<1>. HIDE DEF t
<1>1. /\ t \in Seq(S) /\ Len(t) = Len(s) + 1
      /\ \A p \in 1 .. i - 1 : t[p] = s[p]
      /\ t[i] = x
      /\ \A p \in i .. Len(s) : t[p + 1] = s[p]
  BY <1>0, InsertPlaces
<1>2. /\ Len(s) \in Nat /\ DOMAIN s = 1 .. Len(s) /\ DOMAIN t = 1 .. Len(s) + 1
      /\ i \in Nat /\ i >= 1 /\ i <= Len(s) + 1
  BY <1>1, LenProperties
<1>3. A = {p \in 1 .. Len(s) : s[p] = e} /\ B = {p \in 1 .. Len(s) + 1 : t[p] = e /\ p # i}
  BY <1>2 DEF Places
<1>4. IsFiniteSet(A) /\ Cardinality(A) = Times(e, s) /\ Times(e, s) \in Nat
  BY TimesCount
<1>5. IsFiniteSet(Places(e, t)) /\ Cardinality(Places(e, t)) = Times(e, t)
  BY <1>1, TimesCount
<1>. HIDE DEF A, B
<1>6. \A p \in A : f[p] \in B
  <2>. TAKE p \in A
  <2>1. p \in 1 .. Len(s) /\ s[p] = e
    BY <1>3
  <2>2. CASE p < i
    BY <2>1, <2>2, <1>1, <1>2, <1>3
  <2>3. CASE ~ p < i
    <3>1. f[p] = p + 1 /\ p + 1 \in 1 .. Len(s) + 1 /\ p + 1 # i /\ p \in i .. Len(s)
      BY <2>1, <2>3, <1>2
    <3>2. t[p + 1] = e
      BY <3>1, <2>1, <1>1
    <3>. QED  BY <3>1, <3>2, <1>3
  <2>. QED  BY <2>2, <2>3
<1>7. \A p, q \in A : f[p] = f[q] => p = q
  <2>1. A \subseteq Nat
    BY <1>2, <1>3
  <2>. QED  BY <2>1, <1>2
<1>8. \A q \in B : \E p \in A : f[p] = q
  <2>. TAKE q \in B
  <2>1. q \in 1 .. Len(s) + 1 /\ t[q] = e /\ q # i
    BY <1>3
  <2>2. CASE q < i
    <3>1. q \in A
      BY <2>1, <2>2, <1>1, <1>2, <1>3
    <3>. QED  BY <3>1, <2>2
  <2>3. CASE q > i
    <3>1. q - 1 \in 1 .. Len(s) /\ q - 1 \in i .. Len(s) /\ ~ (q - 1 < i) /\ q - 1 + 1 = q
      BY <2>1, <2>3, <1>2
    <3>2. s[q - 1] = e
      BY <3>1, <2>1, <1>1
    <3>3. q - 1 \in A
      BY <3>1, <3>2, <1>3
    <3>. QED  BY <3>1, <3>3
  <2>. QED  BY <2>1, <2>2, <2>3, <1>2
<1>9. f \in Bijection(A, B)
  <2>. HIDE DEF f
  <2>1. f \in [A -> B]
    BY <1>6 DEF f
  <2>. QED  BY <2>1, <1>7, <1>8 DEF Bijection, Injection, Surjection, IsInjective
<1>10. IsFiniteSet(B) /\ Cardinality(B) = Times(e, s)
  <2>1. ExistsBijection(A, B)
    BY ONLY <1>9 DEF ExistsBijection
  <2>2. IsFiniteSet(A)
    BY <1>4
  <2>3. IsFiniteSet(B) /\ Cardinality(B) = Cardinality(A)
    BY ONLY <2>1, <2>2, FS_Bijection
  <2>. QED  BY ONLY <1>4, <2>3
<1>11. Places(e, t) = IF x = e THEN B \cup {i} ELSE B
  <2>1. t[i] = x /\ i \in DOMAIN t
    BY <1>1, <1>2
  <2>. QED  BY <2>1 DEF B, Places
<1>12. i \notin B
  BY DEF B
<1>13. CASE x = e
  <2>1. Cardinality(B \cup {i}) = Cardinality(B) + 1
    BY <1>10, <1>12, FS_AddElement
  <2>. QED  BY <2>1, <1>5, <1>10, <1>11, <1>13, <1>4 DEF t
<1>14. CASE x # e
  BY <1>4, <1>5, <1>10, <1>11, <1>14 DEF t
<1>. QED  BY <1>13, <1>14

-----------------------------------------------------------------------------
(* The clean stream. *)

\* The events of a chunk carry its number and theirs, and are sorted by time.
LEMMA ChunkEvents ==
    ASSUME chunks \in Inputs, NEW c \in DOMAIN chunks
    PROVE  /\ c \in Nat /\ Len(chunks[c]) \in Nat /\ DOMAIN chunks[c] = 1 .. Len(chunks[c])
           /\ \A i \in 1 .. Len(chunks[c]) :
                /\ chunks[c][i] \in Event /\ chunks[c][i].chunk = c /\ chunks[c][i].nr = i
                /\ \A j \in 1 .. Len(chunks[c]) : i < j => chunks[c][i].ts <= chunks[c][j].ts
<1>1. /\ chunks \in Seq(Seq(Event))
      /\ \A d \in DOMAIN chunks : \A i \in DOMAIN chunks[d] :
            /\ chunks[d][i].chunk = d /\ chunks[d][i].nr = i
            /\ \A j \in DOMAIN chunks[d] : i < j => chunks[d][i].ts <= chunks[d][j].ts
  BY TestBenchAssumption DEF TestBenchAssumption, Event
<1>2. DOMAIN chunks = 1 .. Len(chunks) /\ chunks \in [1 .. Len(chunks) -> Seq(Event)]
  BY ONLY <1>1, LenProperties
<1>3. chunks[c] \in Seq(Event) /\ c \in Nat
  BY ONLY <1>2, c \in DOMAIN chunks
<1>4. /\ Len(chunks[c]) \in Nat /\ DOMAIN chunks[c] = 1 .. Len(chunks[c])
      /\ \A i \in 1 .. Len(chunks[c]) : chunks[c][i] \in Event
  BY ONLY <1>3, LenProperties, ElementOfSeq
<1>. QED  BY <1>1, <1>3, <1>4

\* The head of a chunk that is left.
LEMMA HeadsOfChunks ==
    ASSUME MergeInv, NEW c \in Heads
    PROVE  /\ c \in DOMAIN chunks /\ c \in Nat
           /\ cursor[c] \in Nat /\ cursor[c] + 1 \in 1 .. Len(chunks[c])
           /\ HeadOf(c) \in Event /\ HeadOf(c).chunk = c /\ HeadOf(c).nr = cursor[c] + 1
<1>1. c \in DOMAIN chunks /\ cursor[c] < Len(chunks[c]) /\ cursor[c] \in Nat /\ chunks \in Inputs
  BY DEF MergeInv, Heads
<1>2. /\ c \in Nat /\ Len(chunks[c]) \in Nat
      /\ \A i \in 1 .. Len(chunks[c]) :
            chunks[c][i] \in Event /\ chunks[c][i].chunk = c /\ chunks[c][i].nr = i
  BY <1>1, ChunkEvents
<1>3. cursor[c] + 1 \in 1 .. Len(chunks[c])
  BY <1>1, <1>2
<1>. QED  BY <1>1, <1>2, <1>3 DEF HeadOf

\* Times and chunks are compared transitively.
LEMMA ByTimeOrders ==
    ASSUME NEW e \in Event, NEW f \in Event, NEW g \in Event, ByTime(e, f), ByTime(f, g)
    PROVE  ByTime(e, g)
BY DEF ByTime, Event

\* Nothing is taken at first.
LEMMA MergeInitially == Init => MergeInv
<1>. SUFFICES ASSUME Init PROVE MergeInv
  OBVIOUS
<1>1. chunks \in Inputs /\ cursor = [c \in DOMAIN chunks |-> 0] /\ merged = << >>
  BY DEF Init, Start
<1>2. \A c \in DOMAIN chunks : Len(chunks[c]) \in Nat
  BY <1>1, ChunkEvents
<1>3. DOMAIN << >> = {} /\ << >> \in Seq(Event)
  OBVIOUS
<1>. QED  BY <1>1, <1>2, <1>3 DEF MergeInv

\* The least head follows all that was merged and precedes what is left.
LEMMA MergeNextKeeps ==
    ASSUME MergeInv, MergeNext
    PROVE  MergeInv'
<1>1. PICK c \in Heads : /\ \A d \in Heads \ {c} : Before(c, d)
                         /\ merged' = Append(merged, HeadOf(c))
                         /\ cursor' = [cursor EXCEPT ![c] = @ + 1]
  BY DEF MergeNext
<1>. DEFINE new == HeadOf(c)
<1>2. chunks' = chunks
  BY DEF MergeNext
<1>3. /\ c \in DOMAIN chunks /\ c \in Nat /\ cursor[c] \in Nat /\ cursor[c] + 1 \in 1 .. Len(chunks[c])
      /\ new \in Event /\ new.chunk = c /\ new.nr = cursor[c] + 1
  BY HeadsOfChunks
<1>. HIDE DEF new
<1>4. /\ chunks \in Inputs /\ cursor \in [DOMAIN chunks -> Nat] /\ merged \in Seq(Event)
      /\ \A d \in DOMAIN chunks : cursor[d] <= Len(chunks[d])
  BY DEF MergeInv
<1>5. /\ cursor' \in [DOMAIN chunks -> Nat] /\ cursor'[c] = cursor[c] + 1
      /\ \A d \in DOMAIN chunks : d # c => cursor'[d] = cursor[d]
  BY <1>1, <1>3, <1>4
<1>6. /\ Len(merged) \in Nat /\ DOMAIN merged = 1 .. Len(merged)
      /\ merged' \in Seq(Event) /\ DOMAIN merged' = 1 .. Len(merged) + 1
      /\ merged'[Len(merged) + 1] = new /\ \A n \in 1 .. Len(merged) : merged'[n] = merged[n]
  BY <1>1, <1>3, <1>4, AppendProperties, LenProperties DEF new
<1>7. \A n \in 1 .. Len(merged) : /\ merged[n] \in Event
                                  /\ merged[n].chunk \in DOMAIN chunks
                                  /\ merged[n].nr <= cursor[merged[n].chunk]
  BY <1>4, <1>6, ElementOfSeq DEF MergeInv
<1>8. \A d \in DOMAIN chunks : cursor'[d] <= Len(chunks'[d])
  <2>. TAKE d \in DOMAIN chunks
  <2>1. CASE d = c
    BY <2>1, <1>2, <1>3, <1>5
  <2>2. CASE d # c
    BY <2>2, <1>2, <1>4, <1>5
  <2>. QED  BY <2>1, <2>2
<1>9. \A n \in 1 .. Len(merged) : merged[n] # new
  <2>. TAKE n \in 1 .. Len(merged)
  <2>. SUFFICES ASSUME merged[n] = new PROVE FALSE
    OBVIOUS
  <2>1. cursor[c] + 1 <= cursor[c]
    BY <1>3, <1>7
  <2>. QED  BY <2>1, <1>3
<1>10. \A n \in DOMAIN merged' : /\ merged'[n].chunk \in DOMAIN chunks'
                                 /\ merged'[n].nr <= cursor'[merged'[n].chunk]
  <2>. TAKE n \in DOMAIN merged'
  <2>1. CASE n \in 1 .. Len(merged)
    <3>. DEFINE d == merged[n].chunk
    <3>1. merged'[n] = merged[n] /\ d \in DOMAIN chunks /\ merged[n].nr <= cursor[d] /\ merged[n].nr \in Nat
      BY <2>1, <1>6, <1>7 DEF Event
    <3>2. cursor[d] <= cursor'[d] /\ cursor[d] \in Nat /\ cursor'[d] \in Nat
      BY <3>1, <1>4, <1>5
    <3>3. merged[n].nr <= cursor'[d]
      BY <3>1, <3>2
    <3>. QED  BY <3>1, <3>3, <1>2
  <2>2. CASE n = Len(merged) + 1
    BY <2>2, <1>2, <1>3, <1>5, <1>6
  <2>. QED  BY <2>1, <2>2, <1>6
<1>11. \A m, n \in DOMAIN merged' : m # n => merged'[m] # merged'[n]
  <2>1. \A m, n \in 1 .. Len(merged) : m # n => merged[m] # merged[n]
    BY <1>6 DEF MergeInv
  <2>. QED  BY <2>1, <1>6, <1>9
<1>12. \A n \in 1 .. Len(merged) : \A d \in Heads : ByTime(merged[n], HeadOf(d))
  BY <1>6 DEF MergeInv
<1>13. \A m, n \in DOMAIN merged' : m < n => ByTime(merged'[m], merged'[n])
  <2>1. \A m, n \in 1 .. Len(merged) : m < n => ByTime(merged[m], merged[n])
    BY <1>6 DEF MergeInv
  <2>2. \A n \in 1 .. Len(merged) : ByTime(merged[n], new)
    BY <1>12 DEF new
  <2>. TAKE m, n \in DOMAIN merged'
  <2>. HAVE m < n
  <2>3. m \in 1 .. Len(merged) /\ (n \in 1 .. Len(merged) \/ n = Len(merged) + 1)
    BY <1>6
  <2>4. CASE n \in 1 .. Len(merged)
    BY <2>1, <2>3, <2>4, <1>6
  <2>5. CASE n = Len(merged) + 1
    BY <2>2, <2>3, <2>5, <1>6
  <2>. QED  BY <2>3, <2>4, <2>5
<1>14. ASSUME NEW d \in DOMAIN chunks, cursor'[d] < Len(chunks[d])
       PROVE  ByTime(new, chunks[d][cursor'[d] + 1])
  <2>1. CASE d = c
    <3>1. /\ cursor'[d] + 1 \in 1 .. Len(chunks[d]) /\ cursor[d] + 1 \in 1 .. Len(chunks[d])
          /\ cursor[d] + 1 < cursor'[d] + 1
      <4>1. Len(chunks[d]) \in Nat
        BY <1>4, ChunkEvents
      <4>. QED  BY <2>1, <4>1, <1>3, <1>5, <1>14
    <3>2. /\ chunks[d][cursor[d] + 1].ts <= chunks[d][cursor'[d] + 1].ts
          /\ chunks[d][cursor[d] + 1].chunk = d /\ chunks[d][cursor'[d] + 1].chunk = d
          /\ chunks[d][cursor[d] + 1] \in Event /\ chunks[d][cursor'[d] + 1] \in Event
      BY ONLY <3>1, <1>4, ChunkEvents, d \in DOMAIN chunks
    <3>3. new = chunks[d][cursor[d] + 1]
      BY <2>1 DEF new, HeadOf
    <3>4. d \in Nat
      BY <2>1, <1>3
    <3>. QED  BY ONLY <3>2, <3>3, <3>4 DEF ByTime, Event
  <2>2. CASE d # c
    <3>1. cursor'[d] = cursor[d] /\ d \in Heads
      BY <2>2, <1>5, <1>14 DEF Heads
    <3>2. Before(c, d) /\ HeadOf(d) = chunks[d][cursor'[d] + 1]
      BY <2>2, <3>1, <1>1 DEF HeadOf
    <3>3. d \in Nat /\ HeadOf(d) \in Event /\ HeadOf(d).chunk = d
      BY <3>1, HeadsOfChunks
    <3>4. ByTime(new, HeadOf(d))
      <4>1. new.ts < HeadOf(d).ts \/ (new.ts = HeadOf(d).ts /\ c < d)
        BY <3>2 DEF Before, new
      <4>. QED  BY ONLY <4>1, <3>3, <1>3 DEF ByTime
    <3>. QED  BY <3>2, <3>4
  <2>. QED  BY <2>1, <2>2
<1>15. ASSUME NEW n \in DOMAIN merged', NEW d \in Heads'
       PROVE  ByTime(merged'[n], HeadOf(d)')
  <2>1. d \in DOMAIN chunks /\ cursor'[d] < Len(chunks[d]) /\ HeadOf(d)' = chunks[d][cursor'[d] + 1]
    BY <1>2 DEF Heads, HeadOf
  <2>2. ByTime(new, HeadOf(d)')
    BY <2>1, <1>14
  <2>3. CASE n = Len(merged) + 1
    BY <2>2, <2>3, <1>6
  <2>4. CASE n \in 1 .. Len(merged)
    <3>1. ByTime(merged[n], new) /\ merged[n] \in Event
      BY <2>4, <1>7, <1>12 DEF new
    <3>2. HeadOf(d)' \in Event
      <4>1. Len(chunks[d]) \in Nat /\ \A i \in 1 .. Len(chunks[d]) : chunks[d][i] \in Event
        BY <2>1, <1>4, ChunkEvents
      <4>2. cursor'[d] + 1 \in 1 .. Len(chunks[d])
        BY <2>1, <4>1, <1>5
      <4>. QED  BY <2>1, <4>1, <4>2
    <3>3. ByTime(merged[n], HeadOf(d)')
      BY <3>1, <3>2, <2>2, <1>3, ByTimeOrders
    <3>. QED  BY <3>3, <2>4, <1>6
  <2>. QED  BY <2>3, <2>4, <1>6
<1>. QED  BY <1>2, <1>4, <1>5, <1>6, <1>8, <1>10, <1>11, <1>13, <1>15 DEF MergeInv

\* After the merge the clean stream stays as it is.
LEMMA MergeKept ==
    ASSUME MergeInv, UNCHANGED generated
    PROVE  MergeInv'
BY DEF MergeInv, generated, Heads, HeadOf

-----------------------------------------------------------------------------
(* The first pass. *)

\* The clean stream holds events, none of them twice.
LEMMA MergedFacts ==
    ASSUME MergeInv
    PROVE  /\ Len(merged) \in Nat /\ DOMAIN merged = 1 .. Len(merged)
           /\ \A n \in 1 .. Len(merged) : merged[n] \in Event
           /\ \A m, n \in 1 .. Len(merged) : merged[m] = merged[n] => m = n
<1>1. merged \in Seq(Event) /\ \A m, n \in DOMAIN merged : m # n => merged[m] # merged[n]
  BY DEF MergeInv
<1>2. /\ Len(merged) \in Nat /\ DOMAIN merged = 1 .. Len(merged)
      /\ \A n \in 1 .. Len(merged) : merged[n] \in Event
  BY <1>1, LenProperties, ElementOfSeq
<1>. QED  BY <1>1, <1>2

\* The state of the passes, place by place.
LEMMA PassFacts ==
    ASSUME MergeInv, Transformed
    PROVE  /\ at \in Nat /\ at >= 1 /\ at <= Len(merged) + 1
           /\ consumed \subseteq 1 .. Len(merged) /\ \A n \in consumed : n <= at
           /\ Len(result) \in Nat /\ DOMAIN result = 1 .. Len(result)
           /\ Len(deferred) \in Nat /\ DOMAIN deferred = 1 .. Len(deferred)
           /\ \A d \in 1 .. Len(deferred) : /\ deferred[d] \in Late
                                            /\ deferred[d].event \in Nat /\ deferred[d].target \in Nat
<1>1. result \in Seq(Event) /\ deferred \in Seq(Late) /\ consumed \subseteq DOMAIN merged
      /\ at \in 1 .. Len(merged) + 1 /\ \A n \in consumed : n <= at
  BY DEF Transformed
<1>2. /\ Len(result) \in Nat /\ DOMAIN result = 1 .. Len(result)
      /\ Len(deferred) \in Nat /\ DOMAIN deferred = 1 .. Len(deferred)
      /\ \A d \in 1 .. Len(deferred) : deferred[d] \in Late
  BY <1>1, LenProperties, ElementOfSeq
<1>3. \A d \in 1 .. Len(deferred) : deferred[d].event \in Nat /\ deferred[d].target \in Nat
  BY <1>2 DEF Late
<1>. QED  BY <1>1, <1>2, <1>3, MergedFacts

\* What is in the result has been handled, does not wait and was not dropped.
LEMMA InResult ==
    ASSUME MergeInv, Transformed, CountInv,
           NEW p \in DOMAIN result, NEW n \in DOMAIN merged, result[p] = merged[n]
    PROVE  Handled(n) /\ ~ Waiting(n) /\ Done(n) # "drop" /\ n <= at
<1>1. Times(merged[n], result) = Copies(n)
  BY DEF CountInv
<1>2. result \in Seq(Event)
  BY DEF Transformed
<1>3. Times(merged[n], result) # 0
  BY <1>2, TimesCount
<1>4. Handled(n) /\ ~ Waiting(n) /\ Done(n) # "drop"
  BY <1>1, <1>3 DEF Copies
<1>5. n \in Nat
  BY MergedFacts
<1>. QED  BY <1>4, <1>5, PassFacts DEF Handled

\* An event that is to be sent and does not wait is in the result.
LEMMA HasPlace ==
    ASSUME MergeInv, Transformed, CountInv,
           NEW n \in DOMAIN merged, Handled(n), ~ Waiting(n), Done(n) # "drop"
    PROVE  \E p \in DOMAIN result : result[p] = merged[n]
<1>1. Times(merged[n], result) = Copies(n)
  BY DEF CountInv
<1>2. result \in Seq(Event)
  BY DEF Transformed
<1>3. Copies(n) # 0
  BY DEF Copies
<1>. QED  BY <1>1, <1>2, <1>3, TimesCount

\* An iteration of the first pass that puts out events: those of the index and
\* its neighbour, in order unless they were swapped, and none that is late.
LEMMA EmitKeeps ==
    ASSUME MergeInv, Transformed, CountInv, WaitInv, OrderInv, LateInv, DueInv,
           pc = "transform", pc' = pc, merged' = merged, kind' = kind, deferred' = deferred,
           at <= Len(merged), at' = at + 1,
           consumed' = consumed \/ consumed' = consumed \cup {at + 1},
           NEW ids \in Seq(DOMAIN merged),
           result' \in Seq(Event), Len(result') = Len(result) + Len(ids),
           \A p \in 1 .. Len(result) : result'[p] = result[p],
           \A k \in 1 .. Len(ids) : result'[Len(result) + k] = merged[ids[k]],
           \A k \in 1 .. Len(ids) :
              /\ ids[k] >= at
              /\ ~ (ids[k] \notin consumed' /\ kind[ids[k]] = "late" /\ ids[k] < Len(merged)),
           \A k, l \in 1 .. Len(ids) :
              ids[k] < ids[l] => k < l \/ (ids[l] = ids[k] + 1 /\ ids[l] \in consumed')
    PROVE  WaitInv' /\ OrderInv' /\ LateInv' /\ DueInv'
<1>1. /\ Len(merged) \in Nat /\ DOMAIN merged = 1 .. Len(merged)
      /\ \A m, n \in 1 .. Len(merged) : merged[m] = merged[n] => m = n
  BY MergedFacts
<1>2. /\ at \in Nat /\ at >= 1 /\ \A n \in consumed : n <= at
      /\ Len(result) \in Nat /\ DOMAIN result = 1 .. Len(result) /\ DOMAIN deferred = 1 .. Len(deferred)
      /\ \A d \in 1 .. Len(deferred) : deferred[d].event \in Nat /\ deferred[d].target \in Nat
  BY PassFacts
<1>3. /\ Len(ids) \in Nat /\ \A k \in 1 .. Len(ids) : ids[k] \in 1 .. Len(merged)
      /\ DOMAIN result' = 1 .. Len(result) + Len(ids)
  BY <1>1, LenProperties, ElementOfSeq
<1>4. \A n \in 1 .. Len(merged) : n <= at => (IsLate(n)' <=> IsLate(n))
  <2>. SUFFICES ASSUME NEW n \in 1 .. Len(merged), n <= at PROVE IsLate(n)' <=> IsLate(n)
    OBVIOUS
  <2>1. n # at + 1
    BY <1>2
  <2>2. n \in consumed' <=> n \in consumed
    BY <2>1
  <2>. QED  BY <2>2 DEF IsLate, Done
<1>5. \A n \in 1 .. Len(merged) :
          IsLate(n)' <=> (n \notin consumed' /\ kind[n] = "late" /\ n < Len(merged))
  <2>. SUFFICES ASSUME NEW n \in 1 .. Len(merged)
                PROVE  IsLate(n)' <=> (n \notin consumed' /\ kind[n] = "late" /\ n < Len(merged))
    OBVIOUS
  <2>. QED  BY DEF IsLate, Done
<1>6. \A k \in 1 .. Len(ids) : ~ IsLate(ids[k])'
  <2>. SUFFICES ASSUME NEW k \in 1 .. Len(ids) PROVE ~ IsLate(ids[k])'
    OBVIOUS
  <2>. QED  BY <1>3, <1>5
<1>7. \A p \in 1 .. Len(result) : \A n \in 1 .. Len(merged) : result[p] = merged[n] => n <= at
  BY <1>1, <1>2, InResult
<1>8. ASSUME NEW p \in DOMAIN result', p \notin 1 .. Len(result),
             NEW n \in 1 .. Len(merged), result'[p] = merged[n]
      PROVE  \E k \in 1 .. Len(ids) : p = Len(result) + k /\ n = ids[k]
  <2>1. p - Len(result) \in 1 .. Len(ids) /\ p = Len(result) + (p - Len(result))
    BY <1>2, <1>3, <1>8
  <2>2. result'[p] = merged[ids[p - Len(result)]]
    BY <2>1
  <2>3. n = ids[p - Len(result)]
    BY <2>1, <2>2, <1>1, <1>3, <1>8
  <2>. QED  BY <2>1, <2>3
<1>9. WaitInv'
  <2>1. \A d \in DOMAIN deferred : /\ deferred[d].event \in DOMAIN merged /\ deferred[d].event < at
                                   /\ IsLate(deferred[d].event)
    BY DEF WaitInv
  <2>2. ASSUME NEW d \in DOMAIN deferred
        PROVE  /\ deferred[d].event \in DOMAIN merged /\ deferred[d].event < at + 1
               /\ deferred[d].event \notin consumed' /\ kind[deferred[d].event] = "late"
               /\ deferred[d].event < Len(merged)
    <3>. PICK n \in 1 .. Len(merged) : n = deferred[d].event
      BY <2>1, <1>1
    <3>1. n < at /\ IsLate(n) /\ n <= at /\ n < at + 1
      BY <2>1, <1>2
    <3>2. IsLate(n)'
      BY <3>1, <1>4
    <3>3. n \notin consumed' /\ kind[n] = "late" /\ n < Len(merged)
      BY <3>2, <1>5
    <3>. QED  BY <3>1, <3>3, <1>1
  <2>3. \A d, e \in DOMAIN deferred : d # e => deferred[d].event # deferred[e].event
    BY DEF WaitInv
  <2>. QED  BY <2>2, <2>3 DEF WaitInv, IsLate, Done
<1>10. OrderInv'
  <2>. SUFFICES ASSUME NEW p \in DOMAIN result', NEW q \in DOMAIN result',
                       NEW m \in 1 .. Len(merged), NEW n \in 1 .. Len(merged),
                       result'[p] = merged[m], result'[q] = merged[n], m < n, ~ IsLate(m)', ~ IsLate(n)'
                PROVE  p < q \/ (n = m + 1 /\ n \in consumed')
    BY <1>1 DEF OrderInv
  <2>0. p \in Nat /\ q \in Nat /\ p >= 1 /\ q >= 1
    BY <1>3
  <2>1. CASE p \in 1 .. Len(result) /\ q \in 1 .. Len(result)
    <3>1. result[p] = merged[m] /\ result[q] = merged[n]
      BY <2>1
    <3>2. ~ IsLate(m) /\ ~ IsLate(n)
      BY <2>1, <3>1, <1>4, <1>7
    <3>3. p < q \/ (n = m + 1 /\ n \in consumed)
      <4>1. p \in DOMAIN result /\ q \in DOMAIN result /\ m \in DOMAIN merged /\ n \in DOMAIN merged
        BY <2>1, <1>1, <1>2
      <4>2. m < n
        OBVIOUS
      <4>. QED  BY ONLY OrderInv, <4>1, <4>2, <3>1, <3>2 DEF OrderInv
    <3>. QED  BY <3>3
  <2>2. CASE p \in 1 .. Len(result) /\ q \notin 1 .. Len(result)
    BY <2>0, <2>2, <1>2
  <2>3. CASE p \notin 1 .. Len(result) /\ q \in 1 .. Len(result)
    <3>1. PICK k \in 1 .. Len(ids) : m = ids[k]
      BY <2>3, <1>8
    <3>2. n <= at
      BY <2>3, <1>7
    <3>. QED  BY <3>1, <3>2, <1>2
  <2>4. CASE p \notin 1 .. Len(result) /\ q \notin 1 .. Len(result)
    <3>1. PICK k \in 1 .. Len(ids) : p = Len(result) + k /\ m = ids[k]
      BY <2>4, <1>8
    <3>2. PICK l \in 1 .. Len(ids) : q = Len(result) + l /\ n = ids[l]
      BY <2>4, <1>8
    <3>3. k < l \/ (n = m + 1 /\ n \in consumed')
      BY <3>1, <3>2
    <3>. QED  BY <3>1, <3>2, <3>3, <1>2
  <2>. QED  BY <2>1, <2>2, <2>3, <2>4
<1>11. LateInv'
  <2>. SUFFICES ASSUME NEW q \in DOMAIN result', NEW m \in 1 .. Len(merged),
                       result'[q] = merged[m], IsLate(m)'
                PROVE  FALSE
    BY <1>1 DEF LateInv
  <2>1. CASE q \in 1 .. Len(result)
    <3>1. result[q] = merged[m]
      BY <2>1
    <3>2. IsLate(m)
      BY <2>1, <3>1, <1>4, <1>7
    <3>. QED  BY <2>1, <3>1, <3>2, <1>1, <1>2 DEF LateInv
  <2>2. CASE q \notin 1 .. Len(result)
    <3>1. PICK k \in 1 .. Len(ids) : m = ids[k]
      BY <2>2, <1>8
    <3>. QED  BY <3>1, <1>6
  <2>. QED  BY <2>1, <2>2
<1>12. DueInv'
  <2>. SUFFICES ASSUME NEW d \in 1 .. Len(deferred)
                PROVE  \/ LeftBy(deferred[d].event, deferred[d].target)'
                       \/ /\ Len(result') < deferred[d].target
                          /\ \A p \in DOMAIN result' : \A n \in DOMAIN merged :
                                result'[p] = merged[n] => n <= deferred[d].event
    BY <1>2 DEF DueInv
  <2>. DEFINE m == deferred[d].event
              t == deferred[d].target
  <2>1. m \in Nat /\ t \in Nat /\ m < at
    BY <1>2 DEF WaitInv
  <2>2. LeftBy(m, t) \/ (/\ Len(result) < t
                         /\ \A p \in 1 .. Len(result) : \A n \in 1 .. Len(merged) :
                                result[p] = merged[n] => n <= m)
    BY <1>1, <1>2, ZenonT(30) DEF DueInv
  <2>3. LeftBy(m, t)' <=> \E p \in DOMAIN result' : p <= t /\ \E n \in 1 .. Len(merged) : n > m /\ result'[p] = merged[n]
    BY <1>1 DEF LeftBy
  <2>. HIDE DEF m, t
  <2>4. CASE LeftBy(m, t)
    <3>1. PICK p \in 1 .. Len(result) : p <= t /\ \E n \in 1 .. Len(merged) : n > m /\ result[p] = merged[n]
      BY <2>4, <1>1, <1>2 DEF LeftBy
    <3>2. p \in DOMAIN result' /\ result'[p] = result[p]
      BY <1>2, <1>3
    <3>. QED  BY <2>3, <3>1, <3>2 DEF m, t
  <2>5. CASE /\ Len(result) < t
             /\ \A p \in 1 .. Len(result) : \A n \in 1 .. Len(merged) : result[p] = merged[n] => n <= m
    <3>1. CASE Len(ids) = 0
      <4>1. Len(result') = Len(result) /\ DOMAIN result' = 1 .. Len(result)
        BY <3>1, <1>2, <1>3
      <4>. QED  BY <2>5, <4>1, <1>1 DEF m, t
    <3>2. CASE Len(ids) # 0
      <4>1. 1 \in 1 .. Len(ids) /\ Len(result) + 1 \in DOMAIN result' /\ Len(result) + 1 <= t
        BY <2>1, <2>5, <3>2, <1>2, <1>3
      <4>2. result'[Len(result) + 1] = merged[ids[1]] /\ ids[1] >= at /\ ids[1] \in 1 .. Len(merged)
        BY <4>1, <1>3
      <4>3. ids[1] > m
        BY <2>1, <4>2, <1>2
      <4>. QED  BY <2>3, <4>1, <4>2, <4>3 DEF m, t
    <3>. QED  BY <3>1, <3>2
  <2>. QED  BY <2>2, <2>4, <2>5
<1>. QED  BY <1>9, <1>10, <1>11, <1>12

\* One event at the end.
LEMMA OneMore ==
    ASSUME NEW S, NEW s \in Seq(S), NEW x \in S
    PROVE  /\ s \o << x >> \in Seq(S) /\ Len(s \o << x >>) = Len(s) + 1
           /\ (s \o << x >>)[Len(s) + 1] = x
           /\ \A p \in 1 .. Len(s) : (s \o << x >>)[p] = s[p]
           /\ \A e : Times(e, s \o << x >>) = Times(e, s) + (IF x = e THEN 1 ELSE 0)
<1>1. s \o << x >> = Append(s, x)
  BY AppendIsConcat
<1>2. /\ Append(s, x) \in Seq(S) /\ Len(Append(s, x)) = Len(s) + 1
      /\ \A p \in 1 .. Len(s) : Append(s, x)[p] = s[p]
      /\ Append(s, x)[Len(s) + 1] = x
  BY AppendProperties
<1>3. ASSUME NEW e PROVE Times(e, Append(s, x)) = Times(e, s) + (IF x = e THEN 1 ELSE 0)
  BY TimesAppend
<1>. QED  BY <1>1, <1>2, <1>3

\* One element put behind one other.
LEMMA AppendToOne ==
    ASSUME NEW S, NEW y \in S, NEW one \in Seq(S), NEW two \in Seq(S),
           Len(one) = 1, Len(two) = 2, two[1] = one[1], two[2] = y
    PROVE  Append(one, y) = two
<1>1. /\ Append(one, y) \in Seq(S) /\ Len(Append(one, y)) = Len(one) + 1
      /\ \A p \in 1 .. Len(one) : Append(one, y)[p] = one[p]
      /\ Append(one, y)[Len(one) + 1] = y
  BY ONLY one \in Seq(S), y \in S, AppendProperties
<1>2. Len(Append(one, y)) = 2 /\ Append(one, y)[1] = one[1] /\ Append(one, y)[2] = y
  BY ONLY <1>1, Len(one) = 1
<1>3. \A p \in 1 .. Len(two) : Append(one, y)[p] = two[p]
  BY ONLY <1>2, Len(two) = 2, two[1] = one[1], two[2] = y
<1>. QED  BY ONLY <1>1, <1>2, <1>3, two \in Seq(S), Len(two) = 2, SeqEqual

\* Two events at the end.
LEMMA TwoMore ==
    ASSUME NEW S, NEW s \in Seq(S), NEW x \in S, NEW y \in S
    PROVE  LET t == s \o << x, y >>
           IN  /\ t \in Seq(S) /\ Len(t) = Len(s) + 2
               /\ t[Len(s) + 1] = x /\ t[Len(s) + 2] = y /\ \A p \in 1 .. Len(s) : t[p] = s[p]
               /\ \A e : Times(e, t) = Times(e, s) + (IF x = e THEN 1 ELSE 0) + (IF y = e THEN 1 ELSE 0)
<1>. DEFINE t == s \o << x, y >>
<1>1. /\ << x >> \in Seq(S) /\ << y >> \in Seq(S)
      /\ << x, y >> = << x >> \o << y >>
  <2>1. << x >> \in Seq(S) /\ << y >> \in Seq(S)
    OBVIOUS
  <2>2. Append(<< x >>, y) = << x >> \o << y >>
    BY <2>1, AppendIsConcat
  <2>3. Append(<< x >>, y) = << x, y >>
    <3>1. << x >> \in Seq(S) /\ Len(<< x >>) = 1 /\ << x >>[1] = x
      OBVIOUS
    <3>2. << x, y >> \in Seq(S) /\ Len(<< x, y >>) = 2 /\ << x, y >>[1] = x /\ << x, y >>[2] = y
      OBVIOUS
    <3>. QED  BY <3>1, <3>2, AppendToOne
  <2>. QED  BY <2>1, <2>2, <2>3
<1>2. s \o (<< x >> \o << y >>) = (s \o << x >>) \o << y >>
  BY <1>1, ConcatAssociative
<1>3. PICK u \in Seq(S) : u = s \o << x >>
  BY OneMore
<1>4. t = u \o << y >>
  BY <1>1, <1>2, <1>3
<1>. HIDE DEF t
<1>5. /\ Len(u) = Len(s) + 1 /\ u[Len(s) + 1] = x /\ \A p \in 1 .. Len(s) : u[p] = s[p]
      /\ \A e : Times(e, u) = Times(e, s) + (IF x = e THEN 1 ELSE 0)
  BY <1>3, OneMore
<1>6. /\ u \o << y >> \in Seq(S) /\ Len(u \o << y >>) = Len(u) + 1
      /\ (u \o << y >>)[Len(u) + 1] = y
      /\ \A p \in 1 .. Len(u) : (u \o << y >>)[p] = u[p]
      /\ \A e : Times(e, u \o << y >>) = Times(e, u) + (IF y = e THEN 1 ELSE 0)
  BY OneMore
<1>7. Len(s) \in Nat
  BY LenProperties
<1>8. Len(t) = Len(s) + 2 /\ t[Len(s) + 2] = y
  <2>1. Len(s) + 1 + 1 = Len(s) + 2
    BY <1>7
  <2>. QED  BY ONLY <2>1, <1>4, <1>5, <1>6
<1>9. \A p \in 1 .. Len(s) + 1 : t[p] = u[p]
  BY ONLY <1>4, <1>5, <1>6
<1>10. t[Len(s) + 1] = x /\ \A p \in 1 .. Len(s) : t[p] = s[p]
  BY <1>5, <1>7, <1>9
<1>11. \A e : Times(e, t) = Times(e, s) + (IF x = e THEN 1 ELSE 0) + (IF y = e THEN 1 ELSE 0)
  BY ONLY <1>4, <1>5, <1>6
<1>12. t \in Seq(S)
  BY <1>4, <1>6
<1>. QED  BY <1>8, <1>10, <1>11, <1>12 DEF t

\* How many copies of an event are sent changes where the pass is.
LEMMA CopiesMove ==
    ASSUME MergeInv, Transformed, WaitInv,
           merged' = merged, kind' = kind, deferred' = deferred,
           at <= Len(merged), at' = at + 1,
           consumed' = consumed \/ consumed' = consumed \cup {at + 1},
           NEW n \in 1 .. Len(merged)
    PROVE  /\ n # at /\ (n = at + 1 => consumed' = consumed) => Copies(n)' = Copies(n)
           /\ n = at /\ n \in consumed => Copies(n)' = Copies(n)
           /\ n = at /\ n \notin consumed =>
                /\ Copies(n) = 0
                /\ Copies(n)' = IF kind[n] = "drop" THEN 0 ELSE IF kind[n] = "duplicate" THEN 2 ELSE 1
           /\ n = at + 1 /\ n \in consumed' => Copies(n) = 0 /\ Copies(n)' = 1
<1>1. /\ Len(merged) \in Nat /\ DOMAIN merged = 1 .. Len(merged)
      /\ at \in Nat /\ \A k \in consumed : k <= at
  BY MergedFacts, PassFacts
<1>2. Waiting(n)' <=> Waiting(n)
  BY DEF Waiting
<1>3. n >= at => ~ Waiting(n)
  BY <1>1 DEF Waiting, WaitInv
<1>4. (Handled(n)' <=> n < at + 1 \/ n \in consumed') /\ (Handled(n) <=> n < at \/ n \in consumed)
  BY DEF Handled
<1>5. n # at + 1 \/ consumed' = consumed => (n \in consumed' <=> n \in consumed)
  OBVIOUS
<1>6. n # at /\ n # at + 1 => (Handled(n)' <=> Handled(n))
  BY <1>1, <1>4, <1>5
<1>7. /\ Done(n)' = (IF n \in consumed' THEN "clean" ELSE kind[n])
      /\ Done(n) = (IF n \in consumed THEN "clean" ELSE kind[n])
  BY DEF Done
<1>8. /\ Copies(n)' = (IF ~ Handled(n)' \/ Waiting(n)' \/ Done(n)' = "drop" THEN 0
                       ELSE IF Done(n)' = "duplicate" THEN 2 ELSE 1)
      /\ Copies(n) = (IF ~ Handled(n) \/ Waiting(n) \/ Done(n) = "drop" THEN 0
                      ELSE IF Done(n) = "duplicate" THEN 2 ELSE 1)
  BY DEF Copies
<1>9. CASE n # at /\ n # at + 1
  BY <1>2, <1>5, <1>6, <1>7, <1>8, <1>9
<1>10. CASE n = at + 1
  <2>1. ~ (n < at) /\ ~ (n < at + 1) /\ n \notin consumed /\ n # at /\ ~ Waiting(n)
    BY <1>1, <1>3, <1>10
  <2>2. ~ Handled(n) /\ Copies(n) = 0
    BY <2>1, <1>4, <1>8
  <2>3. consumed' = consumed => ~ Handled(n)' /\ Copies(n)' = 0
    BY <2>1, <1>4, <1>8
  <2>4. n \in consumed' => Handled(n)' /\ Done(n)' = "clean" /\ ~ Waiting(n)'
    BY <2>1, <1>2, <1>4, <1>7
  <2>5. n \in consumed' => Copies(n)' = 1
    BY <2>4, <1>8
  <2>. QED  BY <2>1, <2>2, <2>3, <2>5, <1>10
<1>11. CASE n = at
  <2>1. ~ (n < at) /\ n < at + 1 /\ n # at + 1 /\ ~ Waiting(n)
    BY <1>1, <1>3, <1>11
  <2>2. Handled(n)' /\ (Handled(n) <=> n \in consumed) /\ (n \in consumed' <=> n \in consumed)
    BY <2>1, <1>4, <1>5
  <2>. QED  BY <2>1, <2>2, <1>2, <1>7, <1>8, <1>11
<1>. QED  BY <1>9, <1>10, <1>11

Counters == {"outOfOrder", "late", "duplicate", "drop", "clean"}
Stats == [outOfOrder : Nat, late : Nat, duplicate : Nat, drop : Nat, clean : Nat]
SumOf(s) == s.outOfOrder + s.late + s.duplicate + s.drop + s.clean

\* One counter goes up by one, and the sum with it.
LEMMA CountOne ==
    ASSUME NEW s \in Stats, NEW c \in Counters, NEW t, t = [s EXCEPT ![c] = @ + 1]
    PROVE  /\ t \in Stats /\ SumOf(t) = SumOf(s) + 1 /\ SumOf(s) \in Nat
           /\ s.drop \in Nat /\ s.duplicate \in Nat
           /\ t.drop = s.drop + (IF c = "drop" THEN 1 ELSE 0)
           /\ t.duplicate = s.duplicate + (IF c = "duplicate" THEN 1 ELSE 0)
<1>1. CASE c = "outOfOrder"
  BY <1>1 DEF Stats, SumOf
<1>2. CASE c = "late"
  BY <1>2 DEF Stats, SumOf
<1>3. CASE c = "duplicate"
  BY <1>3 DEF Stats, SumOf
<1>4. CASE c = "drop"
  BY <1>4 DEF Stats, SumOf
<1>5. CASE c = "clean"
  BY <1>5 DEF Stats, SumOf
<1>. QED  BY <1>1, <1>2, <1>3, <1>4, <1>5 DEF Counters

\* A swap counts twice.
LEMMA CountSwap ==
    ASSUME NEW s \in Stats, NEW t, t = [s EXCEPT !.outOfOrder = @ + 1, !.clean = @ + 1]
    PROVE  /\ t \in Stats /\ SumOf(t) = SumOf(s) + 2 /\ SumOf(s) \in Nat
           /\ s.drop \in Nat /\ s.duplicate \in Nat /\ t.drop = s.drop /\ t.duplicate = s.duplicate
<1>. DEFINE u == [s EXCEPT !["outOfOrder"] = @ + 1]
            v == [u EXCEPT !["clean"] = @ + 1]
<1>1. /\ u \in Stats /\ SumOf(u) = SumOf(s) + 1 /\ SumOf(s) \in Nat
      /\ s.drop \in Nat /\ s.duplicate \in Nat
      /\ u.drop = s.drop + (IF "outOfOrder" = "drop" THEN 1 ELSE 0)
      /\ u.duplicate = s.duplicate + (IF "outOfOrder" = "duplicate" THEN 1 ELSE 0)
  <2>1. "outOfOrder" \in Counters /\ u = [s EXCEPT !["outOfOrder"] = @ + 1]
    BY DEF Counters
  <2>. HIDE DEF u
  <2>. QED  BY ONLY <2>1, s \in Stats, CountOne
<1>2. t = v
  BY DEF Stats
<1>3. u \in Stats /\ "clean" \in Counters /\ v = [u EXCEPT !["clean"] = @ + 1]
  BY <1>1 DEF Counters
<1>. HIDE DEF u, v
<1>4. /\ v \in Stats /\ SumOf(v) = SumOf(u) + 1 /\ SumOf(u) \in Nat
      /\ u.drop \in Nat /\ u.duplicate \in Nat
      /\ v.drop = u.drop + (IF "clean" = "drop" THEN 1 ELSE 0)
      /\ v.duplicate = u.duplicate + (IF "clean" = "duplicate" THEN 1 ELSE 0)
  BY ONLY <1>3, CountOne
<1>. QED  BY ONLY <1>1, <1>2, <1>4

\* Two more events, of two more places of the clean stream.
LEMMA TwoMoreCounted ==
    ASSUME NEW a \in Nat, NEW l \in Nat, NEW w \in Nat, NEW d \in Nat, NEW u \in Nat,
           l + w = a - 1 - d + u
    PROVE  l + 2 + w = a + 1 - d + u
OBVIOUS

\* The count of events handled moves with the pass.
LEMMA HandledMoves ==
    ASSUME MergeInv, Transformed, at' = at + 1
    PROVE  /\ HandledCount \in Nat
           /\ at \notin consumed => HandledCount = at - 1
           /\ at \in consumed => HandledCount = at
           /\ consumed' = consumed => HandledCount' = at
           /\ at + 1 \in consumed' => HandledCount' = at + 1
<1>1. at \in Nat /\ at >= 1 /\ \A n \in consumed : n <= at
  BY PassFacts
<1>2. at + 1 \notin consumed
  BY <1>1
<1>3. HandledCount' = at' - 1 + (IF at' \in consumed' THEN 1 ELSE 0)
  BY DEF HandledCount
<1>. QED  BY <1>1, <1>2, <1>3 DEF HandledCount

\* The parts of the invariant that speak of places follow for an event that
\* leaves as it is.
LEMMA OneOut ==
    ASSUME MergeInv, Passing, pc = "transform", at <= Len(merged), at \notin consumed,
           kind[at] \notin {"drop", "duplicate"}, kind[at] = "late" => at = Len(merged),
           Emit(<< merged[at] >>, "clean"), UNCHANGED << consumed, deferred >>
    PROVE  Passing'
<1>1. /\ Len(merged) \in Nat /\ DOMAIN merged = 1 .. Len(merged)
      /\ (\A n \in 1 .. Len(merged) : merged[n] \in Event)
      /\ (\A m, n \in 1 .. Len(merged) : merged[m] = merged[n] => m = n)
  BY MergedFacts
<1>2. at \in 1 .. Len(merged) /\ at \in Nat
  BY <1>1, PassFacts DEF Passing
<1>3. /\ result' = result \o << merged[at] >> /\ stats' = [stats EXCEPT !["clean"] = @ + 1]
      /\ at' = at + 1 /\ pc' = pc /\ merged' = merged /\ kind' = kind
      /\ consumed' = consumed /\ deferred' = deferred
  BY DEF Emit, generated
<1>4. /\ kind \in [DOMAIN merged -> Faults \cup {"clean"}]
      /\ consumed \subseteq DOMAIN merged /\ (\A n \in consumed : n <= at)
      /\ result \in Seq(Event) /\ deferred \in Seq(Late) /\ stats \in Stats
  BY DEF Passing, Transformed, Stats
<1>5. /\ result' \in Seq(Event) /\ Len(result') = Len(result) + 1
      /\ result'[Len(result) + 1] = merged[at] /\ (\A p \in 1 .. Len(result) : result'[p] = result[p])
      /\ (\A e : Times(e, result') = Times(e, result) + (IF merged[at] = e THEN 1 ELSE 0))
  <2>1. merged[at] \in Event
    BY <1>1, <1>2
  <2>. QED  BY <2>1, <1>3, <1>4, OneMore
<1>6. /\ stats' \in Stats /\ SumOf(stats') = SumOf(stats) + 1 /\ SumOf(stats) \in Nat
      /\ stats.drop \in Nat /\ stats.duplicate \in Nat
      /\ stats'.drop = stats.drop /\ stats'.duplicate = stats.duplicate
  <2>1. /\ stats \in Stats /\ stats' = [stats EXCEPT !["clean"] = @ + 1]
        /\ "clean" \in Counters /\ "clean" # "drop" /\ "clean" # "duplicate"
    BY <1>3, <1>4 DEF Counters
  <2>2. /\ stats' \in Stats /\ SumOf(stats') = SumOf(stats) + 1 /\ SumOf(stats) \in Nat
        /\ stats.drop \in Nat /\ stats.duplicate \in Nat
        /\ stats'.drop = stats.drop + (IF "clean" = "drop" THEN 1 ELSE 0)
        /\ stats'.duplicate = stats.duplicate + (IF "clean" = "duplicate" THEN 1 ELSE 0)
    BY ONLY <2>1, CountOne
  <2>. QED  BY ONLY <2>1, <2>2
<1>7. Transformed'
  <2>1. at + 1 \in 1 .. Len(merged) + 1 /\ \A n \in consumed : n <= at + 1
    BY ONLY <1>1, <1>2, <1>4
  <2>. QED  BY <2>1, <1>3, <1>4, <1>5, <1>6 DEF Transformed, Stats
<1>8. WaitInv' /\ OrderInv' /\ LateInv' /\ DueInv'
  <2>. DEFINE ids == << at >>
  <2>0. at \in DOMAIN merged
    BY <1>1, <1>2
  <2>1. ids \in Seq(DOMAIN merged) /\ Len(ids) = 1 /\ ids[1] = at
    BY ONLY <2>0
  <2>. HIDE DEF ids
  <2>2. \A k \in 1 .. Len(ids) : k = 1 /\ ids[k] = at
    BY <2>1
  <2>3. \A k \in 1 .. Len(ids) : result'[Len(result) + k] = merged[ids[k]]
    BY <2>2, <1>5
  <2>4. \A k \in 1 .. Len(ids) :
            ids[k] >= at /\ ~ (ids[k] \notin consumed' /\ kind[ids[k]] = "late" /\ ids[k] < Len(merged))
    <3>. TAKE k \in 1 .. Len(ids)
    <3>1. at >= at /\ ~ (kind[at] = "late" /\ at < Len(merged))
      <4>0. at \in Nat /\ at >= at
        BY ONLY <1>2
      <4>1. CASE kind[at] = "late"
        <5>1. at = Len(merged)
          BY <4>1
        <5>. QED  BY ONLY <4>0, <5>1
      <4>2. CASE kind[at] # "late"
        BY ONLY <4>0, <4>2
      <4>. QED  BY <4>1, <4>2
    <3>2. ids[k] = at
      BY <2>2
    <3>. QED  BY ONLY <3>1, <3>2
  <2>5. \A k, l \in 1 .. Len(ids) :
            ids[k] < ids[l] => k < l \/ (ids[l] = ids[k] + 1 /\ ids[l] \in consumed')
    BY <2>2, <1>2
  <2>6. Len(result') = Len(result) + Len(ids)
    BY <2>1, <1>5
  <2>. QED  BY <2>1, <2>3, <2>4, <2>5, <2>6, <1>3, <1>5, EmitKeeps DEF Passing
<1>9. \A n \in 1 .. Len(merged) : Times(merged[n], result') = Copies(n)'
  <2>. TAKE n \in 1 .. Len(merged)
  <2>1. Times(merged[n], result) = Copies(n)
    BY <1>1 DEF Passing, CountInv
  <2>2. CASE n # at
    <3>1. Copies(n)' = Copies(n)
      BY <2>2, <1>3, CopiesMove DEF Passing
    <3>2. merged[at] # merged[n]
      BY <2>2, <1>1, <1>2
    <3>3. Times(merged[n], result) \in Nat
      BY <1>4, TimesCount
    <3>. QED  BY <2>1, <3>1, <3>2, <3>3, <1>5
  <2>3. CASE n = at
    <3>1. /\ Copies(n) = 0
          /\ Copies(n)' = IF kind[n] = "drop" THEN 0 ELSE IF kind[n] = "duplicate" THEN 2 ELSE 1
      BY <2>3, <1>3, CopiesMove DEF Passing
    <3>. QED  BY <2>1, <2>3, <3>1, <1>5
  <2>. QED  BY <2>2, <2>3
<1>10. CountInv'
  <2>1. HandledCount = at - 1 /\ HandledCount' = at
    BY <1>3, HandledMoves DEF Passing
  <2>2. SumOf(stats) = HandledCount /\ Len(result) + Len(deferred) = HandledCount - stats.drop + stats.duplicate
    BY DEF Passing, CountInv, SumOf
  <2>3. SumOf(stats') = HandledCount'
    BY <2>1, <2>2, <1>2, <1>6
  <2>4. Len(result') + Len(deferred') = HandledCount' - stats'.drop + stats'.duplicate
    <3>1. Len(result) \in Nat /\ Len(deferred) \in Nat
      BY PassFacts DEF Passing
    <3>2. Len(result') = Len(result) + 1 /\ deferred' = deferred
      BY <1>3, <1>5
    <3>. QED  BY ONLY <3>1, <3>2, <2>1, <2>2, <1>2, <1>6
  <2>. QED  BY <2>3, <2>4, <1>1, <1>3, <1>9 DEF CountInv, SumOf
<1>. QED  BY <1>7, <1>8, <1>10 DEF Passing

\* An event that is dropped, or was sent already as the partner of a swap.
LEMMA NoneOut ==
    ASSUME MergeInv, Passing, pc = "transform", at <= Len(merged),
           at' = at + 1, result' = result,
           UNCHANGED << pc, generated, kind, consumed, deferred >>,
           \/ at \in consumed /\ stats' = stats
           \/ at \notin consumed /\ kind[at] = "drop" /\ stats' = [stats EXCEPT !["drop"] = @ + 1]
    PROVE  Passing'
<1>1. /\ Len(merged) \in Nat /\ DOMAIN merged = 1 .. Len(merged)
  BY MergedFacts
<1>2. at \in 1 .. Len(merged) /\ at \in Nat
  BY <1>1, PassFacts DEF Passing
<1>3. /\ pc' = pc /\ merged' = merged /\ kind' = kind
      /\ consumed' = consumed /\ deferred' = deferred
  BY DEF generated
<1>4. /\ kind \in [DOMAIN merged -> Faults \cup {"clean"}]
      /\ consumed \subseteq DOMAIN merged /\ (\A n \in consumed : n <= at)
      /\ result \in Seq(Event) /\ deferred \in Seq(Late) /\ stats \in Stats
  BY DEF Passing, Transformed, Stats
<1>5. /\ Len(result) \in Nat /\ Len(deferred) \in Nat
  BY PassFacts DEF Passing
<1>6. /\ HandledCount' = at /\ SumOf(stats) = HandledCount
      /\ Len(result) + Len(deferred) = HandledCount - stats.drop + stats.duplicate
      /\ (at \in consumed => HandledCount = at) /\ (at \notin consumed => HandledCount = at - 1)
  BY <1>3, HandledMoves DEF Passing, CountInv, SumOf
<1>7. stats' \in Stats /\ SumOf(stats') = at /\ Len(result) + Len(deferred) = at - stats'.drop + stats'.duplicate
  <2>1. CASE at \in consumed /\ stats' = stats
    BY ONLY <2>1, <1>4, <1>6
  <2>2. CASE at \notin consumed /\ kind[at] = "drop" /\ stats' = [stats EXCEPT !["drop"] = @ + 1]
    <3>1. /\ stats \in Stats /\ stats' = [stats EXCEPT !["drop"] = @ + 1]
          /\ "drop" \in Counters /\ "drop" # "duplicate"
      BY <2>2, <1>4 DEF Counters
    <3>2. /\ stats' \in Stats /\ SumOf(stats') = SumOf(stats) + 1 /\ SumOf(stats) \in Nat
          /\ stats.drop \in Nat /\ stats.duplicate \in Nat
          /\ stats'.drop = stats.drop + (IF "drop" = "drop" THEN 1 ELSE 0)
          /\ stats'.duplicate = stats.duplicate + (IF "drop" = "duplicate" THEN 1 ELSE 0)
      BY ONLY <3>1, CountOne
    <3>3. stats'.drop = stats.drop + 1 /\ stats'.duplicate = stats.duplicate
      BY ONLY <3>1, <3>2
    <3>. QED  BY ONLY <3>2, <3>3, <2>2, <1>2, <1>5, <1>6
  <2>. QED  BY <2>1, <2>2
<1>8. Transformed'
  <2>1. at + 1 \in 1 .. Len(merged) + 1 /\ \A n \in consumed : n <= at + 1
    BY ONLY <1>1, <1>2, <1>4
  <2>. QED  BY <2>1, <1>3, <1>4, <1>7 DEF Transformed, Stats
<1>9. WaitInv' /\ OrderInv' /\ LateInv' /\ DueInv'
  <2>. DEFINE ids == << >>
  <2>1. ids \in Seq(DOMAIN merged) /\ Len(ids) = 0
    OBVIOUS
  <2>. HIDE DEF ids
  <2>2. \A k \in 1 .. Len(ids) : FALSE
    BY ONLY <2>1
  <2>3. Len(result') = Len(result) + Len(ids)
    BY ONLY <2>1, <1>5, result' = result
  <2>4. \A p \in 1 .. Len(result) : result'[p] = result[p]
    OBVIOUS
  <2>. QED  BY <2>1, <2>2, <2>3, <2>4, <1>3, <1>4, EmitKeeps DEF Passing
<1>10. \A n \in 1 .. Len(merged) : Times(merged[n], result') = Copies(n)'
  <2>. TAKE n \in 1 .. Len(merged)
  <2>1. Times(merged[n], result) = Copies(n)
    BY <1>1 DEF Passing, CountInv
  <2>2. Copies(n)' = Copies(n)
    <3>1. CASE n # at
      BY <3>1, <1>3, CopiesMove DEF Passing
    <3>2. CASE n = at /\ at \in consumed
      BY <3>2, <1>3, CopiesMove DEF Passing
    <3>3. CASE n = at /\ at \notin consumed
      <4>1. kind[n] = "drop"
        BY <3>3
      <4>. QED  BY <4>1, <3>3, <1>3, CopiesMove DEF Passing
    <3>. QED  BY <3>1, <3>2, <3>3
  <2>. QED  BY <2>1, <2>2
<1>11. CountInv'
  BY <1>1, <1>3, <1>6, <1>7, <1>10 DEF CountInv, SumOf
<1>. QED  BY <1>8, <1>9, <1>11 DEF Passing

\* An event is sent twice, or after its successor.
LEMMA TwoOut ==
    ASSUME MergeInv, Passing, pc = "transform", at <= Len(merged), at \notin consumed,
           UNCHANGED << pc, generated, kind, deferred >>, at' = at + 1,
           \/ /\ kind[at] = "duplicate" /\ result' = result \o << merged[at], merged[at] >>
              /\ consumed' = consumed /\ stats' = [stats EXCEPT !["duplicate"] = @ + 1]
           \/ /\ kind[at] = "outOfOrder" /\ at < Len(merged)
              /\ result' = result \o << merged[at + 1], merged[at] >>
              /\ consumed' = consumed \cup {at + 1}
              /\ stats' = [stats EXCEPT !.outOfOrder = @ + 1, !.clean = @ + 1]
    PROVE  Passing'
<1>. DEFINE Twice == kind[at] = "duplicate" /\ consumed' = consumed
            Swapped == kind[at] = "outOfOrder" /\ at < Len(merged) /\ consumed' = consumed \cup {at + 1}
            first == IF Twice THEN at ELSE at + 1
<1>0. Twice \/ Swapped
  OBVIOUS
<1>1. /\ Len(merged) \in Nat /\ DOMAIN merged = 1 .. Len(merged)
      /\ (\A n \in 1 .. Len(merged) : merged[n] \in Event)
  BY MergedFacts
<1>2. at \in 1 .. Len(merged) /\ at \in Nat
  BY <1>1, PassFacts DEF Passing
<1>3. /\ pc' = pc /\ merged' = merged /\ kind' = kind /\ deferred' = deferred
      /\ (consumed' = consumed \/ consumed' = consumed \cup {at + 1})
  BY DEF generated
<1>4. /\ kind \in [DOMAIN merged -> Faults \cup {"clean"}]
      /\ consumed \subseteq DOMAIN merged /\ (\A n \in consumed : n <= at)
      /\ result \in Seq(Event) /\ deferred \in Seq(Late) /\ stats \in Stats
  BY DEF Passing, Transformed, Stats
<1>5. /\ Len(result) \in Nat /\ Len(deferred) \in Nat
  BY PassFacts DEF Passing
<1>6. first \in 1 .. Len(merged) /\ result' = result \o << merged[first], merged[at] >>
  <2>1. CASE kind[at] = "duplicate"
    BY <2>1, <1>2
  <2>2. CASE kind[at] = "outOfOrder"
    <3>1. at + 1 \in 1 .. Len(merged)
      BY <2>2, <1>1, <1>2
    <3>. QED  BY <2>2, <3>1
  <2>. QED  BY <2>1, <2>2
<1>7. /\ result' \in Seq(Event) /\ Len(result') = Len(result) + 2
      /\ result'[Len(result) + 1] = merged[first] /\ result'[Len(result) + 2] = merged[at]
      /\ (\A p \in 1 .. Len(result) : result'[p] = result[p])
      /\ (\A e : Times(e, result') = Times(e, result) + (IF merged[first] = e THEN 1 ELSE 0)
                                                     + (IF merged[at] = e THEN 1 ELSE 0))
  <2>1. merged[at] \in Event /\ merged[first] \in Event
    BY ONLY <1>1, <1>2, <1>6
  <2>. HIDE DEF first
  <2>. QED  BY ONLY <2>1, <1>4, <1>6, TwoMore
<1>8. /\ SumOf(stats) = HandledCount /\ HandledCount = at - 1
      /\ Len(result) + Len(deferred) = HandledCount - stats.drop + stats.duplicate
      /\ (Twice => HandledCount' = at) /\ (Swapped => HandledCount' = at + 1)
  BY HandledMoves DEF Passing, CountInv, SumOf
<1>9. /\ stats' \in Stats /\ SumOf(stats') = HandledCount'
      /\ Len(result) + 2 + Len(deferred) = HandledCount' - stats'.drop + stats'.duplicate
  <2>1. CASE kind[at] = "duplicate"
    <3>1. /\ stats \in Stats /\ stats' = [stats EXCEPT !["duplicate"] = @ + 1] /\ HandledCount' = at
          /\ "duplicate" \in Counters /\ "duplicate" # "drop"
      BY <2>1, <1>4, <1>8 DEF Counters
    <3>2. /\ stats' \in Stats /\ SumOf(stats') = SumOf(stats) + 1 /\ SumOf(stats) \in Nat
          /\ stats.drop \in Nat /\ stats.duplicate \in Nat
          /\ stats'.drop = stats.drop + (IF "duplicate" = "drop" THEN 1 ELSE 0)
          /\ stats'.duplicate = stats.duplicate + (IF "duplicate" = "duplicate" THEN 1 ELSE 0)
      BY ONLY <3>1, CountOne
    <3>3. stats'.drop = stats.drop /\ stats'.duplicate = stats.duplicate + 1
      BY ONLY <3>1, <3>2
    <3>4. /\ SumOf(stats) = HandledCount /\ HandledCount = at - 1
          /\ Len(result) + Len(deferred) = HandledCount - stats.drop + stats.duplicate
      BY <1>8
    <3>. QED  BY ONLY <3>1, <3>2, <3>3, <3>4, <1>2, <1>5
  <2>2. CASE kind[at] = "outOfOrder"
    <3>1. /\ stats' = [stats EXCEPT !.outOfOrder = @ + 1, !.clean = @ + 1] /\ HandledCount' = at + 1
      BY <2>2, <1>8
    <3>2. /\ stats' \in Stats /\ SumOf(stats') = SumOf(stats) + 2 /\ SumOf(stats) \in Nat
          /\ stats.drop \in Nat /\ stats.duplicate \in Nat
          /\ stats'.drop = stats.drop /\ stats'.duplicate = stats.duplicate
      BY ONLY <3>1, <1>4, CountSwap
    <3>3. /\ SumOf(stats) = HandledCount /\ HandledCount = at - 1
          /\ Len(result) + Len(deferred) = HandledCount - stats.drop + stats.duplicate
      BY <1>8
    <3>4. HandledCount' = at + 1
      BY ONLY <3>1
    <3>5. Len(result) + 2 + Len(deferred) = HandledCount' - stats'.drop + stats'.duplicate
      <4>1. stats'.drop = stats.drop /\ stats'.duplicate = stats.duplicate
        BY ONLY <3>2
      <4>2. stats.drop \in Nat /\ stats.duplicate \in Nat
        BY ONLY <3>2
      <4>3. Len(result) + Len(deferred) = at - 1 - stats.drop + stats.duplicate
        BY ONLY <3>3
      <4>. QED  BY ONLY <3>4, <4>1, <4>2, <4>3, <1>2, <1>5, TwoMoreCounted
    <3>6. SumOf(stats') = HandledCount'
      <4>1. SumOf(stats') = SumOf(stats) + 2
        BY ONLY <3>2
      <4>. QED  BY ONLY <3>3, <3>4, <4>1, <1>2
    <3>. QED  BY ONLY <3>2, <3>5, <3>6
  <2>. QED  BY <2>1, <2>2
<1>10. Transformed'
  <2>1. /\ at + 1 \in 1 .. Len(merged) + 1 /\ at + 1 <= at + 1
        /\ \A n \in consumed : n <= at + 1
    BY ONLY <1>1, <1>2, <1>4
  <2>2. consumed' \subseteq DOMAIN merged
    BY <1>0, <1>1, <1>4, <1>6
  <2>3. \A n \in consumed' : n <= at + 1
    BY ONLY <2>1, <1>3
  <2>. QED  BY <2>1, <2>2, <2>3, <1>3, <1>4, <1>7, <1>9 DEF Transformed, Stats
<1>11. WaitInv' /\ OrderInv' /\ LateInv' /\ DueInv'
  <2>. DEFINE ids == << first, at >>
  <2>0. first \in DOMAIN merged /\ at \in DOMAIN merged
    BY ONLY <1>1, <1>2, <1>6
  <2>1. ids \in Seq(DOMAIN merged) /\ Len(ids) = 2 /\ ids[1] = first /\ ids[2] = at
    BY ONLY <2>0
  <2>. HIDE DEF ids
  <2>2. \A k \in 1 .. Len(ids) : (k = 1 /\ ids[k] = first) \/ (k = 2 /\ ids[k] = at)
    BY ONLY <2>1
  <2>3. \A k \in 1 .. Len(ids) : result'[Len(result) + k] = merged[ids[k]]
    BY ONLY <2>2, <1>7
  <2>4. /\ first >= at /\ at >= at
        /\ ~ (first \notin consumed' /\ kind[first] = "late")
        /\ ~ (at \notin consumed' /\ kind[at] = "late")
    <3>1. at >= at /\ at + 1 >= at
      BY ONLY <1>2
    <3>. QED  BY <3>1, <1>0
  <2>5. \A k \in 1 .. Len(ids) :
            ids[k] >= at /\ ~ (ids[k] \notin consumed' /\ kind[ids[k]] = "late" /\ ids[k] < Len(merged))
    BY ONLY <2>2, <2>4
  <2>6. first = at \/ (first = at + 1 /\ first \in consumed')
    BY <1>0
  <2>7. ASSUME NEW k \in 1 .. Len(ids), NEW l \in 1 .. Len(ids), ids[k] < ids[l]
        PROVE  k < l \/ (ids[l] = ids[k] + 1 /\ ids[l] \in consumed')
    <3>1. ids[k] # ids[l]
      <4>1. ids[k] \in Nat
        BY ONLY <2>2, <2>6, <1>2
      <4>. QED  BY ONLY <4>1, <2>7
    <3>2. CASE k = 1 /\ l = 2
      BY ONLY <3>2
    <3>3. CASE k = 2 /\ l = 1
      BY ONLY <3>1, <3>3, <2>1, <2>6
    <3>. QED  BY <2>2, <3>1, <3>2, <3>3
  <2>8. Len(result') = Len(result) + Len(ids)
    BY ONLY <2>1, <1>7
  <2>9. \A p \in 1 .. Len(result) : result'[p] = result[p]
    BY ONLY <1>7
  <2>. HIDE DEF Twice, Swapped, first
  <2>10. /\ \A k \in 1 .. Len(ids) :
              /\ ids[k] >= at
              /\ ~ (ids[k] \notin consumed' /\ kind[ids[k]] = "late" /\ ids[k] < Len(merged))
         /\ \A k, l \in 1 .. Len(ids) :
              ids[k] < ids[l] => k < l \/ (ids[l] = ids[k] + 1 /\ ids[l] \in consumed')
    BY ONLY <2>5, <2>7
  <2>. QED  BY <2>1, <2>3, <2>8, <2>9, <2>10, <1>3, <1>7, EmitKeeps DEF Passing
<1>12. \A n \in 1 .. Len(merged) : Times(merged[n], result') = Copies(n)'
  <2>. TAKE n \in 1 .. Len(merged)
  <2>1. Times(merged[n], result) = Copies(n) /\ Times(merged[n], result) \in Nat
    BY <1>1, <1>4, TimesCount DEF Passing, CountInv
  <2>2. /\ merged[first] = merged[n] <=> first = n
        /\ merged[at] = merged[n] <=> at = n
    BY <1>2, <1>6, MergedFacts
  <2>3. Times(merged[n], result') = Copies(n) + (IF first = n THEN 1 ELSE 0) + (IF at = n THEN 1 ELSE 0)
    BY ONLY <2>1, <2>2, <1>7
  <2>4. CASE n # at /\ n # first
    <3>1. Copies(n)' = Copies(n)
      <4>1. n = at + 1 => consumed' = consumed
        BY <2>4, <1>0
      <4>. QED  BY <4>1, <2>4, <1>3, CopiesMove DEF Passing
    <3>. QED  BY ONLY <2>1, <2>3, <2>4, <3>1
  <2>5. CASE n = at
    <3>1. /\ Copies(n) = 0
          /\ Copies(n)' = IF kind[n] = "drop" THEN 0 ELSE IF kind[n] = "duplicate" THEN 2 ELSE 1
      BY <2>5, <1>3, CopiesMove DEF Passing
    <3>2. /\ (kind[n] = "duplicate" /\ first = n) \/ (kind[n] = "outOfOrder" /\ first = at + 1)
      BY <2>5
    <3>3. first = at + 1 => first # n
      BY ONLY <2>5, <1>2
    <3>. QED  BY ONLY <2>3, <2>5, <3>1, <3>2, <3>3
  <2>6. CASE n = first /\ n # at
    <3>1. n = at + 1 /\ n \in consumed'
      BY <2>6, <1>0
    <3>2. Copies(n) = 0 /\ Copies(n)' = 1
      BY <3>1, <1>3, CopiesMove DEF Passing
    <3>. QED  BY ONLY <2>3, <2>6, <3>2
  <2>. QED  BY <2>4, <2>5, <2>6
<1>13. CountInv'
  <2>1. Len(result') + Len(deferred') = HandledCount' - stats'.drop + stats'.duplicate
    BY ONLY <1>3, <1>7, <1>9
  <2>. QED  BY <2>1, <1>1, <1>3, <1>9, <1>12 DEF CountInv, SumOf
<1>. QED  BY <1>10, <1>11, <1>13 DEF Passing

\* One more is handled, and waits.
LEMMA TallyLater ==
    ASSUME NEW r \in Nat, NEW d \in Nat, NEW h \in Nat, NEW x \in Nat, NEW u \in Nat,
           r + d = h - 1 - x + u
    PROVE  r + (d + 1) = h - x + u
OBVIOUS

\* A late event is put aside.
LEMMA DeferKeeps ==
    ASSUME MergeInv, Passing, Defer
    PROVE  Passing'
<1>1. /\ Len(merged) \in Nat /\ DOMAIN merged = 1 .. Len(merged)
  BY MergedFacts
<1>2. /\ pc = "transform" /\ at <= Len(merged) /\ at < Len(merged) /\ at \notin consumed /\ kind[at] = "late"
      /\ pc' = pc /\ merged' = merged /\ kind' = kind /\ consumed' = consumed /\ at' = at + 1
      /\ stats' = [stats EXCEPT !["late"] = @ + 1] /\ result' = result \o << >>
  BY DEF Defer, Transforming, Emit, generated
<1>3. at \in 1 .. Len(merged) /\ at \in Nat
  BY <1>1, <1>2, PassFacts DEF Passing
<1>4. /\ kind \in [DOMAIN merged -> Faults \cup {"clean"}]
      /\ consumed \subseteq DOMAIN merged /\ (\A n \in consumed : n <= at)
      /\ result \in Seq(Event) /\ deferred \in Seq(Late) /\ stats \in Stats
  BY DEF Passing, Transformed, Stats
<1>5. /\ Len(result) \in Nat /\ Len(deferred) \in Nat /\ DOMAIN deferred = 1 .. Len(deferred)
      /\ DOMAIN result = 1 .. Len(result)
  BY PassFacts DEF Passing
<1>6. PICK offset \in 1 .. Lesser(Len(merged) - at, LateSpan) :
            deferred' = Append(deferred, [event |-> at, target |-> Len(result) + offset])
  BY DEF Defer
<1>7. offset \in Nat /\ offset >= 1
  OBVIOUS
<1>. DEFINE new == [event |-> at, target |-> Len(result) + offset]
<1>8. new \in Late /\ new.event = at /\ new.target = Len(result) + offset
  BY <1>3, <1>5, <1>7 DEF Late
<1>9. deferred' = Append(deferred, new)
  BY <1>6
<1>. HIDE DEF new
<1>10. /\ deferred' \in Seq(Late) /\ Len(deferred') = Len(deferred) + 1
       /\ DOMAIN deferred' = 1 .. Len(deferred) + 1
       /\ deferred'[Len(deferred) + 1] = new /\ (\A d \in 1 .. Len(deferred) : deferred'[d] = deferred[d])
  <2>1. /\ deferred' \in Seq(Late) /\ Len(deferred') = Len(deferred) + 1
        /\ deferred'[Len(deferred) + 1] = new /\ (\A d \in 1 .. Len(deferred) : deferred'[d] = deferred[d])
    BY ONLY <1>4, <1>8, <1>9, AppendProperties
  <2>. QED  BY <2>1, LenProperties
<1>11. result' = result
  BY <1>2, <1>4, ConcatEmptySeq
<1>12. \A n \in 1 .. Len(merged) : IsLate(n)' <=> IsLate(n)
  BY <1>2 DEF IsLate, Done
<1>13. /\ HandledCount' = at /\ HandledCount = at - 1 /\ SumOf(stats) = HandledCount
       /\ Len(result) + Len(deferred) = HandledCount - stats.drop + stats.duplicate
  BY <1>2, HandledMoves DEF Passing, CountInv, SumOf
<1>14. /\ stats' \in Stats /\ SumOf(stats') = HandledCount'
       /\ Len(result) + (Len(deferred) + 1) = HandledCount' - stats'.drop + stats'.duplicate
  <2>1. /\ stats \in Stats /\ stats' = [stats EXCEPT !["late"] = @ + 1]
        /\ "late" \in Counters /\ "late" # "drop" /\ "late" # "duplicate"
    BY <1>2, <1>4 DEF Counters
  <2>2. /\ stats' \in Stats /\ SumOf(stats') = SumOf(stats) + 1 /\ SumOf(stats) \in Nat
        /\ stats.drop \in Nat /\ stats.duplicate \in Nat
        /\ stats'.drop = stats.drop + (IF "late" = "drop" THEN 1 ELSE 0)
        /\ stats'.duplicate = stats.duplicate + (IF "late" = "duplicate" THEN 1 ELSE 0)
    BY ONLY <2>1, CountOne
  <2>3. stats'.drop = stats.drop /\ stats'.duplicate = stats.duplicate
    BY ONLY <2>1, <2>2
  <2>4. SumOf(stats') = HandledCount'
    BY ONLY <2>2, <1>3, <1>13
  <2>5. Len(result) + Len(deferred) = at - 1 - stats.drop + stats.duplicate
    BY ONLY <1>13
  <2>6. Len(result) + (Len(deferred) + 1) = at - stats.drop + stats.duplicate
    <3>1. PICK r, d, x, u : /\ r \in Nat /\ d \in Nat /\ x \in Nat /\ u \in Nat
                            /\ r = Len(result) /\ d = Len(deferred) /\ x = stats.drop /\ u = stats.duplicate
      BY ONLY <2>2, <1>5
    <3>2. r + d = at - 1 - x + u
      BY ONLY <3>1, <2>5
    <3>3. r \in Nat /\ d \in Nat /\ x \in Nat /\ u \in Nat /\ at \in Nat
      BY <3>1, <1>3
    <3>4. r + (d + 1) = at - x + u
      BY ONLY <3>2, <3>3, TallyLater
    <3>. QED  BY ONLY <3>1, <3>4
  <2>. QED  BY ONLY <2>2, <2>3, <2>4, <2>6, <1>13
<1>15. Transformed'
  <2>1. at + 1 \in 1 .. Len(merged) + 1 /\ \A n \in consumed : n <= at + 1
    BY ONLY <1>1, <1>3, <1>4
  <2>. QED  BY <2>1, <1>2, <1>4, <1>10, <1>11, <1>14 DEF Transformed, Stats
<1>16. \A d \in 1 .. Len(deferred) : /\ deferred[d].event \in 1 .. Len(merged) /\ deferred[d].event < at
                                     /\ IsLate(deferred[d].event)
  BY <1>1, <1>5 DEF Passing, WaitInv
<1>17. \A n \in 1 .. Len(merged) : Times(merged[n], result') = Copies(n)'
  <2>. TAKE n \in 1 .. Len(merged)
  <2>1. Times(merged[n], result) = Copies(n)
    BY <1>1 DEF Passing, CountInv
  <2>2. Waiting(n)' <=> Waiting(n) \/ n = at
    <3>1. Waiting(n)' <=> \E d \in 1 .. Len(deferred) + 1 : deferred'[d].event = n
      BY <1>10 DEF Waiting
    <3>2. (\E d \in 1 .. Len(deferred) + 1 : deferred'[d].event = n)
            <=> (\E d \in 1 .. Len(deferred) : deferred[d].event = n) \/ n = at
      BY <1>5, <1>8, <1>10
    <3>. QED  BY <3>1, <3>2, <1>5 DEF Waiting
  <2>3. (Handled(n)' <=> n < at + 1 \/ n \in consumed) /\ (Handled(n) <=> n < at \/ n \in consumed)
    BY <1>2 DEF Handled
  <2>4. Done(n)' = Done(n)
    BY <1>2 DEF Done
  <2>5. CASE n = at
    <3>1. ~ Handled(n)
      BY <2>3, <2>5, <1>2, <1>3
    <3>. QED  BY <2>1, <2>2, <2>5, <3>1, <1>11 DEF Copies
  <2>6. CASE n # at
    <3>1. Handled(n)' <=> Handled(n)
      BY <2>3, <2>6, <1>3
    <3>. QED  BY <2>1, <2>2, <2>4, <2>6, <3>1, <1>11 DEF Copies
  <2>. QED  BY <2>5, <2>6
<1>18. CountInv'
  <2>1. Len(result') + Len(deferred') = HandledCount' - stats'.drop + stats'.duplicate
    BY ONLY <1>10, <1>11, <1>14
  <2>. QED  BY <2>1, <1>1, <1>2, <1>14, <1>17 DEF CountInv, SumOf
<1>19. WaitInv'
  <2>1. \A d \in 1 .. Len(deferred) + 1 :
            /\ deferred'[d].event \in 1 .. Len(merged) /\ deferred'[d].event < at + 1
            /\ Done(deferred'[d].event) = "late" /\ deferred'[d].event < Len(merged)
    <3>. TAKE d \in 1 .. Len(deferred) + 1
    <3>1. CASE d \in 1 .. Len(deferred)
      <4>1. /\ deferred'[d] = deferred[d]
            /\ deferred[d].event \in 1 .. Len(merged) /\ deferred[d].event < at /\ IsLate(deferred[d].event)
        BY <3>1, <1>10, <1>16
      <4>2. deferred[d].event < at + 1
        BY <4>1, <1>3
      <4>. QED  BY <4>1, <4>2 DEF IsLate
    <3>2. CASE d = Len(deferred) + 1
      <4>1. deferred'[d].event = at
        BY <3>2, <1>8, <1>10
      <4>2. at < at + 1 /\ Done(at) = "late"
        BY <1>2, <1>3 DEF Done
      <4>. QED  BY <4>1, <4>2, <1>2, <1>3
    <3>. QED  BY <3>1, <3>2, <1>5
  <2>2. ASSUME NEW d \in 1 .. Len(deferred) + 1, NEW e \in 1 .. Len(deferred) + 1, d # e
        PROVE  deferred'[d].event # deferred'[e].event
    <3>1. \A k \in 1 .. Len(deferred) : deferred'[k].event = deferred[k].event /\ deferred'[k].event # at
      BY <1>3, <1>10, <1>16
    <3>2. deferred'[Len(deferred) + 1].event = at
      BY <1>8, <1>10
    <3>3. \A k, l \in 1 .. Len(deferred) : k # l => deferred[k].event # deferred[l].event
      BY <1>5 DEF Passing, WaitInv
    <3>. QED  BY <2>2, <3>1, <3>2, <3>3, <1>5
  <2>. QED  BY <2>1, <2>2, <1>1, <1>2, <1>10 DEF WaitInv, IsLate, Done
<1>20. OrderInv'
  BY <1>1, <1>2, <1>11, <1>12 DEF Passing, OrderInv
<1>21. LateInv'
  <2>. SUFFICES ASSUME NEW q \in DOMAIN result, NEW m \in 1 .. Len(merged),
                       result[q] = merged[m], IsLate(m)
                PROVE  FALSE
    BY <1>1, <1>2, <1>11, <1>12 DEF LateInv
  <2>. QED  BY <1>1, <1>2 DEF Passing, LateInv
<1>22. DueInv'
  <2>. SUFFICES ASSUME NEW d \in 1 .. Len(deferred) + 1
                PROVE  \/ LeftBy(deferred'[d].event, deferred'[d].target)
                       \/ /\ Len(result) < deferred'[d].target
                          /\ \A p \in DOMAIN result : \A n \in DOMAIN merged :
                                result[p] = merged[n] => n <= deferred'[d].event
    BY <1>2, <1>10, <1>11 DEF DueInv, LeftBy
  <2>1. CASE d \in 1 .. Len(deferred)
    <3>1. deferred'[d] = deferred[d]
      BY <2>1, <1>10
    <3>2. d \in DOMAIN deferred /\ pc # "insert"
      BY <2>1, <1>2, <1>5
    <3>. QED  BY <3>1, <3>2 DEF Passing, DueInv
  <2>2. CASE d = Len(deferred) + 1
    <3>1. deferred'[d].event = at /\ deferred'[d].target = Len(result) + offset
      BY <2>2, <1>8, <1>10
    <3>2. Len(result) < Len(result) + offset
      BY <1>5, <1>7
    <3>3. \A p \in DOMAIN result : \A n \in DOMAIN merged : result[p] = merged[n] => n <= at
      BY InResult DEF Passing
    <3>. QED  BY <3>1, <3>2, <3>3
  <2>. QED  BY <2>1, <2>2, <1>5
<1>. QED  BY <1>15, <1>18, <1>19, <1>20, <1>21, <1>22 DEF Passing

-----------------------------------------------------------------------------
(* The second pass. *)

\* Where the waiting event n is put in, place i, and what becomes of the others.
LateMove(n, i) ==
    /\ i = Lesser(deferred[n].target, Len(result)) + 1
    /\ \A m \in 1 .. Len(deferred) : deferred[m].target <= deferred[n].target
    /\ result' \in Seq(Event) /\ Len(result') = Len(result) + 1
    /\ \A p \in 1 .. i - 1 : result'[p] = result[p]
    /\ result'[i] = merged[deferred[n].event]
    /\ \A p \in i .. Len(result) : result'[p + 1] = result[p]
    /\ \A e : Times(e, result') = Times(e, result) + (IF merged[deferred[n].event] = e THEN 1 ELSE 0)
    /\ deferred' \in Seq(Late) /\ Len(deferred') = Len(deferred) - 1
    /\ \A d \in 1 .. n - 1 : deferred'[d] = deferred[d]
    /\ \A d \in n .. Len(deferred) - 1 : deferred'[d] = deferred[d + 1]

\* InsertLate is such a move.
LEMMA InsertMoves ==
    ASSUME MergeInv, Passing, InsertLate
    PROVE  \E n \in 1 .. Len(deferred), i \in 1 .. Len(result) + 1 : LateMove(n, i)
<1>1. /\ Len(result) \in Nat /\ Len(deferred) \in Nat /\ DOMAIN deferred = 1 .. Len(deferred)
      /\ \A d \in 1 .. Len(deferred) : deferred[d].event \in Nat /\ deferred[d].target \in Nat
  BY PassFacts DEF Passing
<1>2. result \in Seq(Event) /\ deferred \in Seq(Late)
  BY DEF Passing, Transformed
<1>3. PICK n \in 1 .. Len(deferred) :
        /\ \A m \in (1 .. Len(deferred)) \ {n} :
                \/ deferred[m].target < deferred[n].target
                \/ deferred[m].target = deferred[n].target /\ n < m
        /\ result' = SX!InsertAt(result, Lesser(deferred[n].target, Len(result)) + 1,
                                merged[deferred[n].event])
        /\ deferred' = SX!RemoveAt(deferred, n)
  BY <1>1 DEF InsertLate
<1>. DEFINE i == Lesser(deferred[n].target, Len(result)) + 1
            x == merged[deferred[n].event]
<1>4. deferred[n].target \in Nat
  BY <1>1
<1>5. i \in 1 .. Len(result) + 1
  BY <1>1, <1>4 DEF Lesser
<1>6. x \in Event
  <2>1. deferred[n].event \in DOMAIN merged
    BY <1>1 DEF Passing, WaitInv
  <2>. QED  BY <2>1, MergedFacts
<1>7. \A m \in 1 .. Len(deferred) : deferred[m].target <= deferred[n].target
  <2>. TAKE m \in 1 .. Len(deferred)
  <2>1. deferred[m].target \in Nat
    BY <1>1
  <2>2. CASE m = n
    BY ONLY <2>2, <1>4
  <2>3. CASE m # n
    BY <2>1, <2>3, <1>3, <1>4
  <2>. QED  BY <2>2, <2>3
<1>8. result' = SX!InsertAt(result, i, x) /\ i = Lesser(deferred[n].target, Len(result)) + 1
  BY <1>3
<1>. HIDE DEF i, x
<1>9. /\ result' \in Seq(Event) /\ Len(result') = Len(result) + 1
      /\ (\A p \in 1 .. i - 1 : result'[p] = result[p])
      /\ result'[i] = x
      /\ (\A p \in i .. Len(result) : result'[p + 1] = result[p])
  BY ONLY <1>2, <1>5, <1>6, <1>8, InsertPlaces
<1>10. \A e : Times(e, result') = Times(e, result) + (IF x = e THEN 1 ELSE 0)
  BY ONLY <1>2, <1>5, <1>6, <1>8, TimesInsert
<1>11. /\ deferred' \in Seq(Late) /\ Len(deferred') = Len(deferred) - 1
       /\ (\A d \in 1 .. n - 1 : deferred'[d] = deferred[d])
       /\ (\A d \in n .. Len(deferred) - 1 : deferred'[d] = deferred[d + 1])
  BY ONLY <1>2, <1>3, n \in 1 .. Len(deferred), RemovePlaces
<1>12. LateMove(n, i)
  BY <1>7, <1>8, <1>9, <1>10, <1>11 DEF LateMove, x
<1>. QED  BY <1>5, <1>12

\* What is in the result after a move was there before, or is the event put in;
\* the others keep their order.
LEMMA MoveResult ==
    ASSUME MergeInv, Passing,
           NEW n \in 1 .. Len(deferred), NEW i \in 1 .. Len(result) + 1, LateMove(n, i),
           NEW p \in DOMAIN result', p # i
    PROVE  \E q \in 1 .. Len(result) : /\ result'[p] = result[q]
                                       /\ (q < i /\ p = q) \/ (q >= i /\ p = q + 1)
<1>1. Len(result) \in Nat /\ i \in Nat /\ i >= 1 /\ i <= Len(result) + 1
  BY PassFacts DEF Passing
<1>2. p \in 1 .. Len(result) + 1
  BY LenProperties DEF LateMove
<1>3. CASE p < i
  <2>1. p \in 1 .. i - 1 /\ p \in 1 .. Len(result)
    BY <1>1, <1>2, <1>3
  <2>. QED  BY <2>1, <1>3 DEF LateMove
<1>4. CASE p > i
  <2>1. p - 1 \in i .. Len(result) /\ p - 1 \in 1 .. Len(result) /\ p = (p - 1) + 1 /\ p - 1 >= i
    BY <1>1, <1>2, <1>4
  <2>2. result'[(p - 1) + 1] = result[p - 1]
    BY <2>1 DEF LateMove
  <2>. QED  BY <2>1, <2>2
<1>. QED  BY <1>1, <1>2, <1>3, <1>4

\* What waits after a move waited before, and is not the event put in; every
\* other still waits.
LEMMA MoveDeferred ==
    ASSUME MergeInv, Passing,
           NEW n \in 1 .. Len(deferred), NEW i, LateMove(n, i)
    PROVE  /\ DOMAIN deferred' = 1 .. Len(deferred) - 1
           /\ \A d \in 1 .. Len(deferred) - 1 :
                 \E e \in 1 .. Len(deferred) : /\ e # n /\ deferred'[d] = deferred[e]
                                               /\ (e < n /\ e = d) \/ (e > n /\ e = d + 1)
           /\ \A e \in 1 .. Len(deferred) :
                 e # n => \E d \in 1 .. Len(deferred) - 1 : deferred'[d] = deferred[e]
<1>1. Len(deferred) \in Nat /\ n \in Nat /\ n >= 1 /\ n <= Len(deferred)
  BY PassFacts DEF Passing
<1>2. DOMAIN deferred' = 1 .. Len(deferred) - 1
  <2>1. deferred' \in Seq(Late) /\ Len(deferred') = Len(deferred) - 1
    BY DEF LateMove
  <2>. QED  BY <2>1, LenProperties
<1>3. ASSUME NEW d \in 1 .. Len(deferred) - 1
      PROVE  \E e \in 1 .. Len(deferred) : /\ e # n /\ deferred'[d] = deferred[e]
                                           /\ (e < n /\ e = d) \/ (e > n /\ e = d + 1)
  <2>1. CASE d < n
    <3>1. d \in 1 .. n - 1 /\ d \in 1 .. Len(deferred) /\ d # n
      BY <2>1, <1>1
    <3>. QED  BY <3>1, <2>1 DEF LateMove
  <2>2. CASE d >= n
    <3>1. d \in n .. Len(deferred) - 1 /\ d + 1 \in 1 .. Len(deferred) /\ d + 1 > n /\ d + 1 # n
      BY <2>2, <1>1
    <3>. QED  BY <3>1 DEF LateMove
  <2>. QED  BY <2>1, <2>2, <1>1
<1>4. ASSUME NEW e \in 1 .. Len(deferred), e # n
      PROVE  \E d \in 1 .. Len(deferred) - 1 : deferred'[d] = deferred[e]
  <2>1. CASE e < n
    <3>1. e \in 1 .. n - 1 /\ e \in 1 .. Len(deferred) - 1
      BY <2>1, <1>1
    <3>. QED  BY <3>1 DEF LateMove
  <2>2. CASE e > n
    <3>1. e - 1 \in n .. Len(deferred) - 1 /\ e - 1 \in 1 .. Len(deferred) - 1 /\ (e - 1) + 1 = e
      BY <2>2, <1>1
    <3>2. deferred'[e - 1] = deferred[(e - 1) + 1]
      BY <3>1 DEF LateMove
    <3>. QED  BY <3>1, <3>2
  <2>. QED  BY <2>1, <2>2, <1>1, <1>4
<1>. QED  BY <1>2, <1>3, <1>4

\* A late event is put in.
LEMMA InsertKeeps ==
    ASSUME MergeInv, Passing, InsertLate
    PROVE  Passing'
<1>1. PICK n \in 1 .. Len(deferred), i \in 1 .. Len(result) + 1 : LateMove(n, i)
  BY InsertMoves
<1>. DEFINE e == deferred[n].event
<1>2. /\ pc = "insert" /\ pc' = pc /\ merged' = merged /\ kind' = kind /\ at' = at
      /\ consumed' = consumed /\ stats' = stats
  BY DEF InsertLate, generated
<1>3. /\ Len(merged) \in Nat /\ DOMAIN merged = 1 .. Len(merged)
      /\ (\A k, m \in 1 .. Len(merged) : merged[k] = merged[m] => k = m)
  BY MergedFacts
<1>4. /\ Len(result) \in Nat /\ DOMAIN result = 1 .. Len(result)
      /\ Len(deferred) \in Nat /\ DOMAIN deferred = 1 .. Len(deferred)
      /\ (\A d \in 1 .. Len(deferred) : deferred[d].event \in Nat /\ deferred[d].target \in Nat)
      /\ consumed \subseteq 1 .. Len(merged)
  BY PassFacts DEF Passing
<1>5. at = Len(merged) + 1
  BY <1>2 DEF Passing, Transformed
<1>6. /\ e \in 1 .. Len(merged) /\ IsLate(e)
      /\ (\A d \in 1 .. Len(deferred) : d # n => deferred[d].event # e)
  BY <1>3, <1>4 DEF Passing, WaitInv
<1>7. \A m \in 1 .. Len(merged) : (IsLate(m)' <=> IsLate(m)) /\ (Done(m)' = Done(m)) /\ Handled(m) /\ Handled(m)'
  BY <1>2, <1>3, <1>5 DEF IsLate, Done, Handled
<1>8. DOMAIN result' = 1 .. Len(result) + 1 /\ i \in 1 .. Len(result) + 1 /\ i \in Nat
  BY <1>1, LenProperties DEF LateMove
<1>9. result'[i] = merged[e]
  BY <1>1 DEF LateMove
<1>10. /\ DOMAIN deferred' = 1 .. Len(deferred) - 1
       /\ (\A d \in 1 .. Len(deferred) - 1 :
                 \E k \in 1 .. Len(deferred) : /\ k # n /\ deferred'[d] = deferred[k]
                                               /\ (k < n /\ k = d) \/ (k > n /\ k = d + 1))
       /\ (\A k \in 1 .. Len(deferred) :
                 k # n => \E d \in 1 .. Len(deferred) - 1 : deferred'[d] = deferred[k])
  BY <1>1, MoveDeferred
<1>11. \A p \in 1 .. Len(result) + 1 : p # i =>
          \E q \in 1 .. Len(result) : /\ result'[p] = result[q]
                                      /\ (q < i /\ p = q) \/ (q >= i /\ p = q + 1)
  BY <1>1, <1>8, MoveResult
<1>. HIDE DEF e
<1>12. Transformed'
  <2>1. result' \in Seq(Event) /\ deferred' \in Seq(Late)
    BY <1>1 DEF LateMove
  <2>. QED  BY <2>1, <1>2 DEF Passing, Transformed
<1>13. \A m \in 1 .. Len(merged) : Waiting(m)' <=> Waiting(m) /\ m # e
  <2>. TAKE m \in 1 .. Len(merged)
  <2>1. Waiting(m)' <=> \E d \in 1 .. Len(deferred) - 1 : deferred'[d].event = m
    BY <1>10 DEF Waiting
  <2>2. Waiting(m) <=> \E k \in 1 .. Len(deferred) : deferred[k].event = m
    BY <1>4 DEF Waiting
  <2>3. ASSUME NEW d \in 1 .. Len(deferred) - 1, deferred'[d].event = m PROVE Waiting(m) /\ m # e
    BY <2>2, <2>3, <1>6, <1>10
  <2>4. ASSUME NEW k \in 1 .. Len(deferred), deferred[k].event = m, m # e PROVE Waiting(m)'
    <3>1. k # n
      BY <2>4 DEF e
    <3>. QED  BY <2>1, <2>4, <3>1, <1>10
  <2>. QED  BY <2>1, <2>2, <2>3, <2>4
<1>14. \A m \in 1 .. Len(merged) : Times(merged[m], result') = Copies(m)'
  <2>. TAKE m \in 1 .. Len(merged)
  <2>1. Times(merged[m], result) = Copies(m)
    BY <1>3 DEF Passing, CountInv
  <2>2. Times(merged[m], result') = Times(merged[m], result) + (IF merged[e] = merged[m] THEN 1 ELSE 0)
    BY <1>1 DEF LateMove, e
  <2>3. CASE m = e
    <3>1. Waiting(e)
      BY <1>4 DEF Waiting, e
    <3>2. Copies(m) = 0
      BY <2>3, <3>1 DEF Copies
    <3>3. Copies(m)' = 1
      <4>1. Handled(m)' /\ ~ Waiting(m)' /\ Done(m)' = "late"
        BY <2>3, <1>6, <1>7, <1>13 DEF IsLate
      <4>. QED  BY <4>1 DEF Copies
    <3>. QED  BY ONLY <2>1, <2>2, <2>3, <3>2, <3>3
  <2>4. CASE m # e
    <3>1. Copies(m)' = Copies(m)
      BY <2>4, <1>7, <1>13 DEF Copies
    <3>2. merged[e] # merged[m]
      BY <2>4, <1>3, <1>6
    <3>3. Copies(m) \in Nat
      BY DEF Copies
    <3>. QED  BY ONLY <2>1, <2>2, <3>1, <3>2, <3>3
  <2>. QED  BY <2>3, <2>4
<1>15. CountInv'
  <2>1. HandledCount' = HandledCount
    BY <1>2 DEF HandledCount
  <2>2. Len(result') + Len(deferred') = Len(result) + Len(deferred)
    <3>1. Len(result') = Len(result) + 1 /\ Len(deferred') = Len(deferred) - 1
      BY <1>1 DEF LateMove
    <3>. QED  BY ONLY <3>1, <1>4
  <2>. QED  BY <2>1, <2>2, <1>2, <1>3, <1>14 DEF Passing, CountInv
<1>16. WaitInv'
  <2>1. ASSUME NEW d \in 1 .. Len(deferred) - 1
        PROVE  /\ deferred'[d].event \in 1 .. Len(merged)
               /\ deferred'[d].event < at /\ IsLate(deferred'[d].event)
    <3>. PICK k \in 1 .. Len(deferred) : deferred'[d] = deferred[k]
      BY <1>10
    <3>. QED  BY <1>3, <1>4 DEF Passing, WaitInv
  <2>2. ASSUME NEW d \in 1 .. Len(deferred) - 1, NEW f \in 1 .. Len(deferred) - 1, d # f
        PROVE  deferred'[d].event # deferred'[f].event
    <3>1. PICK k \in 1 .. Len(deferred) : /\ k # n /\ deferred'[d] = deferred[k]
                                          /\ (k < n /\ k = d) \/ (k > n /\ k = d + 1)
      BY <1>10
    <3>2. PICK l \in 1 .. Len(deferred) : /\ l # n /\ deferred'[f] = deferred[l]
                                          /\ (l < n /\ l = f) \/ (l > n /\ l = f + 1)
      BY <1>10
    <3>3. k # l
      BY <2>2, <3>1, <3>2, <1>4
    <3>. QED  BY <3>1, <3>2, <3>3, <1>4 DEF Passing, WaitInv
  <2>. QED  BY <2>1, <2>2, <1>2, <1>3, <1>10 DEF WaitInv, IsLate, Done
<1>17. OrderInv'
  <2>. SUFFICES ASSUME NEW p \in 1 .. Len(result) + 1, NEW q \in 1 .. Len(result) + 1,
                       NEW k \in 1 .. Len(merged), NEW m \in 1 .. Len(merged),
                       result'[p] = merged[k], result'[q] = merged[m], k < m, ~ IsLate(k), ~ IsLate(m)
                PROVE  p < q \/ (m = k + 1 /\ m \in consumed)
    BY <1>2, <1>3, <1>7, <1>8 DEF OrderInv
  <2>1. p # i /\ q # i
    BY <1>3, <1>6, <1>9
  <2>2. PICK u \in 1 .. Len(result) : /\ result'[p] = result[u]
                                      /\ (u < i /\ p = u) \/ (u >= i /\ p = u + 1)
    BY <2>1, <1>11
  <2>3. PICK v \in 1 .. Len(result) : /\ result'[q] = result[v]
                                      /\ (v < i /\ q = v) \/ (v >= i /\ q = v + 1)
    BY <2>1, <1>11
  <2>4. u < v \/ (m = k + 1 /\ m \in consumed)
    <3>1. /\ u \in DOMAIN result /\ v \in DOMAIN result /\ k \in DOMAIN merged /\ m \in DOMAIN merged
          /\ result[u] = merged[k] /\ result[v] = merged[m] /\ k < m /\ ~ IsLate(k) /\ ~ IsLate(m)
      BY <2>2, <2>3, <1>3, <1>4
    <3>2. OrderInv
      BY DEF Passing
    <3>. QED  BY ONLY <3>1, <3>2 DEF OrderInv
  <2>. QED  BY <2>2, <2>3, <2>4, <1>4, <1>8
<1>18. \A k \in 1 .. Len(merged) : NoneStays(k)' <=> NoneStays(k)
  BY <1>2, <1>3, <1>7 DEF NoneStays
<1>19. ASSUME NEW k \in 1 .. Len(merged), NEW last \in Nat, LeftBy(k, last)
       PROVE  \E p \in 1 .. Len(result) : /\ p <= last
                                          /\ \E m \in 1 .. Len(merged) : m > k /\ result[p] = merged[m]
  BY <1>3, <1>4, <1>19 DEF LeftBy
<1>20. ASSUME NEW k \in 1 .. Len(merged), NEW last, NEW p \in 1 .. Len(result) + 1, p <= last,
              NEW m \in 1 .. Len(merged), m > k, result'[p] = merged[m]
       PROVE  LeftBy(k, last)'
  BY <1>20, <1>2, <1>3, <1>8 DEF LeftBy
<1>21. LateInv'
  <2>. SUFFICES ASSUME NEW q \in 1 .. Len(result) + 1, NEW k \in 1 .. Len(merged),
                       result'[q] = merged[k], IsLate(k)
                PROVE  NoneStays(k)' \/ LeftBy(k, q - 1)'
    BY <1>2, <1>3, <1>7, <1>8 DEF LateInv
  <2>1. CASE q = i
    <3>1. k = e
      BY <2>1, <1>3, <1>6, <1>9
    <3>2. LeftBy(e, deferred[n].target) \/ NoneStays(e)
      BY <1>2, <1>4 DEF Passing, DueInv, e
    <3>3. CASE LeftBy(e, deferred[n].target)
      <4>1. deferred[n].target \in Nat
        BY <1>4
      <4>2. PICK p \in 1 .. Len(result) :
              /\ p <= deferred[n].target /\ \E m \in 1 .. Len(merged) : m > e /\ result[p] = merged[m]
        BY <3>3, <4>1, <1>6, <1>19
      <4>3. i = Lesser(deferred[n].target, Len(result)) + 1
        BY <1>1 DEF LateMove
      <4>4. p <= i - 1 /\ p \in 1 .. i - 1 /\ p \in 1 .. Len(result) + 1
        BY <4>1, <4>2, <4>3, <1>4, <1>8, SMTT(20) DEF Lesser
      <4>5. result'[p] = result[p]
        BY <4>4, <1>1 DEF LateMove
      <4>. QED  BY <4>2, <4>4, <4>5, <2>1, <3>1, <1>20
    <3>. QED  BY <3>1, <3>2, <3>3, <1>18
  <2>2. CASE q # i
    <3>1. PICK v \in 1 .. Len(result) : /\ result'[q] = result[v]
                                        /\ (v < i /\ q = v) \/ (v >= i /\ q = v + 1)
      BY <2>2, <1>11
    <3>2. NoneStays(k) \/ LeftBy(k, v - 1)
      BY <3>1, <1>3, <1>4 DEF Passing, LateInv
    <3>3. CASE LeftBy(k, v - 1)
      <4>1. v - 1 \in Nat
        BY <1>4
      <4>2. PICK p \in 1 .. Len(result), m \in 1 .. Len(merged) :
              p <= v - 1 /\ m > k /\ result[p] = merged[m]
        BY <3>3, <4>1, <1>19
      <4>3. CASE p < i
        <5>1. p \in 1 .. i - 1 /\ p <= q - 1 /\ p \in 1 .. Len(result) + 1
          BY <4>2, <4>3, <3>1, <1>4, <1>8
        <5>2. result'[p] = result[p]
          BY <5>1, <1>1 DEF LateMove
        <5>. QED  BY <5>1, <5>2, <4>2, <1>20
      <4>4. CASE p >= i
        <5>1. p \in i .. Len(result) /\ p + 1 <= q - 1 /\ p + 1 \in 1 .. Len(result) + 1
          BY <4>2, <4>4, <3>1, <1>4, <1>8
        <5>2. result'[p + 1] = result[p]
          BY <5>1, <1>1 DEF LateMove
        <5>. QED  BY <5>1, <5>2, <4>2, <1>20
      <4>. QED  BY <4>3, <4>4, <1>4, <1>8
    <3>. QED  BY <3>2, <3>3, <1>18
  <2>. QED  BY <2>1, <2>2
<1>22. DueInv'
  <2>. SUFFICES ASSUME NEW d \in 1 .. Len(deferred) - 1
                PROVE  \/ LeftBy(deferred[d].event, deferred[d].target)'
                       \/ NoneStays(deferred[d].event)'
    BY <1>2, <1>10 DEF DueInv
  <2>1. PICK k \in 1 .. Len(deferred) : deferred'[d] = deferred[k]
    BY <1>10
  <2>2. deferred[k].event \in 1 .. Len(merged) /\ deferred[k].target \in Nat
    BY <1>3, <1>4 DEF Passing, WaitInv
  <2>3. PICK m \in 1 .. Len(merged), t \in Nat : m = deferred[k].event /\ t = deferred[k].target
    BY <2>2
  <2>4. LeftBy(m, t) \/ NoneStays(m)
    BY <2>3, <1>2, <1>4 DEF Passing, DueInv
  <2>5. NoneStays(m)' => NoneStays(deferred[d].event)'
    BY <2>1, <2>3 DEF NoneStays
  <2>6. LeftBy(m, t)' => LeftBy(deferred[d].event, deferred[d].target)'
    BY <2>1, <2>3 DEF LeftBy
  <2>7. CASE LeftBy(m, t)
    <3>1. PICK p \in 1 .. Len(result), o \in 1 .. Len(merged) : p <= t /\ o > m /\ result[p] = merged[o]
      BY <2>7, <1>19
    <3>2. i = Lesser(deferred[n].target, Len(result)) + 1 /\ t <= deferred[n].target
      BY <1>1, <2>3 DEF LateMove
    <3>3. p \in 1 .. i - 1 /\ p \in 1 .. Len(result) + 1
      <4>1. deferred[n].target \in Nat
        BY <1>4
      <4>2. p \in Nat /\ p >= 1 /\ p <= Len(result) /\ p <= deferred[n].target
        BY <4>1, <3>1, <3>2, <1>4
      <4>3. p <= i - 1
        BY ONLY <4>1, <4>2, <3>2, <1>4, SMTT(20) DEF Lesser
      <4>. QED  BY ONLY <4>2, <4>3, <1>4, <1>8
    <3>4. result'[p] = result[p]
      BY <3>3, <1>1 DEF LateMove
    <3>. QED  BY <3>1, <3>3, <3>4, <2>6, <1>20
  <2>. QED  BY <2>4, <2>5, <2>6, <2>7, <1>18
<1>. QED  BY <1>12, <1>15, <1>16, <1>17, <1>21, <1>22 DEF Passing

\* Between the passes: a late event that nothing has left behind is followed by
\* none that stays.
LEMMA SecondPassKeeps ==
    ASSUME MergeInv, Passing, SecondPass
    PROVE  Passing'
<1>1. /\ pc = "transform" /\ pc' = "insert" /\ at > Len(merged)
      /\ merged' = merged /\ kind' = kind /\ at' = at /\ consumed' = consumed /\ result' = result
      /\ deferred' = deferred /\ stats' = stats
  BY DEF SecondPass, generated, faulted
<1>2. /\ Len(merged) \in Nat /\ DOMAIN merged = 1 .. Len(merged) /\ at \in Nat /\ at <= Len(merged) + 1
  BY MergedFacts, PassFacts DEF Passing
<1>3. at = Len(merged) + 1
  BY <1>1, <1>2
<1>4. Transformed' /\ CountInv' /\ WaitInv' /\ OrderInv'
  <2>1. Transformed'
    BY <1>1, <1>3 DEF Passing, Transformed
  <2>2. CountInv'
    <3>1. HandledCount' = HandledCount
      BY <1>1 DEF HandledCount
    <3>2. \A n \in DOMAIN merged : Copies(n)' = Copies(n)
      BY <1>1 DEF Copies, Handled, Waiting, Done
    <3>. QED  BY <1>1, <3>1, <3>2 DEF Passing, CountInv
  <2>3. \A n : IsLate(n)' <=> IsLate(n)
    BY <1>1 DEF IsLate, Done
  <2>4. WaitInv'
    BY <1>1, <2>3 DEF Passing, WaitInv, IsLate, Done
  <2>5. OrderInv'
    BY <1>1, <2>3 DEF Passing, OrderInv
  <2>. QED  BY <2>1, <2>2, <2>4, <2>5
<1>5. LateInv'
  <2>. SUFFICES ASSUME NEW q \in DOMAIN result, NEW m \in DOMAIN merged, result[q] = merged[m], IsLate(m)'
                PROVE  FALSE
    BY <1>1 DEF LateInv
  <2>1. IsLate(m)
    BY <1>1 DEF IsLate, Done
  <2>. QED  BY <1>1, <2>1 DEF Passing, LateInv
<1>6. DueInv'
  <2>. SUFFICES ASSUME NEW d \in DOMAIN deferred
                PROVE  \/ LeftBy(deferred[d].event, deferred[d].target)
                       \/ NoneStays(deferred[d].event)
    BY <1>1 DEF DueInv, LeftBy, NoneStays, IsLate, Done
  <2>1. CASE LeftBy(deferred[d].event, deferred[d].target)
    BY <2>1
  <2>2. CASE \A p \in DOMAIN result : \A n \in DOMAIN merged :
                result[p] = merged[n] => n <= deferred[d].event
    <3>. SUFFICES ASSUME NEW n \in DOMAIN merged, n > deferred[d].event, Done(n) # "drop", ~ IsLate(n)
                  PROVE  FALSE
      BY DEF NoneStays
    <3>1. Handled(n)
      BY <1>2, <1>3 DEF Handled
    <3>2. ~ Waiting(n)
      BY DEF Passing, WaitInv, Waiting
    <3>3. PICK p \in DOMAIN result : result[p] = merged[n]
      BY <3>1, <3>2, HasPlace DEF Passing
    <3>4. n <= deferred[d].event
      BY <2>2, <3>3
    <3>5. n \in Nat /\ deferred[d].event \in Nat
      BY <1>2, PassFacts DEF Passing
    <3>6. n > deferred[d].event
      OBVIOUS
    <3>. QED  BY ONLY <3>4, <3>5, <3>6
  <2>. QED  BY <1>1, <2>1, <2>2 DEF Passing, DueInv
<1>. QED  BY <1>4, <1>5, <1>6 DEF Passing

\* Nothing waits any more.
LEMMA LastKeeps ==
    ASSUME MergeInv, Passing, UNCHANGED << generated, faulted >>,
           \/ pc = "insert" /\ pc' = "verify" /\ deferred = << >>
           \/ pc \in {"verify", "pair"} /\ pc' \in {"pair", "done"}
           \/ pc' = pc
    PROVE  Passing'
<1>1. /\ merged' = merged /\ kind' = kind /\ at' = at /\ consumed' = consumed /\ result' = result
      /\ deferred' = deferred /\ stats' = stats
  BY DEF generated, faulted
<1>2. Transformed'
  BY <1>1 DEF Passing, Transformed
<1>3. CountInv'
  <2>1. HandledCount' = HandledCount
    BY <1>1 DEF HandledCount
  <2>2. \A n \in DOMAIN merged : Copies(n)' = Copies(n)
    BY <1>1 DEF Copies, Handled, Waiting, Done
  <2>. QED  BY <1>1, <2>1, <2>2 DEF Passing, CountInv
<1>4. \A n : IsLate(n)' <=> IsLate(n)
  BY <1>1 DEF IsLate, Done
<1>5. WaitInv'
  BY <1>1, <1>4 DEF Passing, WaitInv, IsLate, Done
<1>6. OrderInv'
  BY <1>1, <1>4 DEF Passing, OrderInv
<1>7. \A m : NoneStays(m)' <=> NoneStays(m)
  BY <1>1, <1>4 DEF NoneStays, Done
<1>8. \A m, last : LeftBy(m, last)' <=> LeftBy(m, last)
  BY <1>1 DEF LeftBy
<1>9. LateInv'
  <2>. SUFFICES ASSUME NEW q \in DOMAIN result, NEW m \in DOMAIN merged, result[q] = merged[m], IsLate(m)
                PROVE  pc' # "transform" /\ (NoneStays(m) \/ LeftBy(m, q - 1))
    BY <1>1, <1>4, <1>7, <1>8 DEF LateInv
  <2>. QED  BY DEF Passing, LateInv
<1>10. DueInv'
  <2>1. CASE pc' = pc
    BY <2>1, <1>1 DEF Passing, DueInv, LeftBy, NoneStays, IsLate, Done
  <2>2. CASE pc # pc'
    <3>1. deferred = << >>
      BY <2>2 DEF Passing, Transformed
    <3>. QED  BY <1>1, <3>1 DEF DueInv
  <2>. QED  BY <2>1, <2>2
<1>. QED  BY <1>2, <1>3, <1>5, <1>6, <1>9, <1>10 DEF Passing

\* The faults are assigned: nothing is done yet.
LEMMA AssignKeeps ==
    ASSUME MergeInv, PhaseInv, Assign
    PROVE  PhaseInv' /\ FaultInv'
<1>1. /\ pc = "merge" /\ kind = << >> /\ at = 1 /\ consumed = {}
      /\ result = << >> /\ deferred = << >> /\ stats = NoFaults
  BY DEF Assign, PhaseInv
<1>2. at' = at /\ consumed' = consumed /\ deferred' = deferred /\ merged' = merged
  BY DEF Assign, generated
<1>3. CASE merged = << >> \/ Faults = {}
  <2>1. pc' = "verify" /\ kind' = << >>
    BY <1>1, <1>3 DEF Assign
  <2>. QED  BY <2>1 DEF PhaseInv, FaultInv
<1>4. CASE ~ (merged = << >> \/ Faults = {})
  <2>1. /\ kind' \in [DOMAIN merged -> Faults \cup {"clean"}]
        /\ pc' = "transform" /\ result' = << >> /\ stats' = NoFaults
    BY <1>1, <1>4 DEF Assign
  <2>2. /\ Len(merged) \in Nat /\ DOMAIN merged = 1 .. Len(merged) /\ merged \in Seq(Event)
    BY MergedFacts DEF MergeInv
  <2>3. kind' # << >>
    <3>1. Len(merged) # 0
      BY <1>4, <2>2, EmptySeq
    <3>2. 1 \in DOMAIN kind'
      BY <2>1, <2>2, <3>1
    <3>3. DOMAIN << >> = {}
      OBVIOUS
    <3>. QED  BY <3>2, <3>3
  <2>4. Transformed'
    <3>1. 1 \in 1 .. Len(merged) + 1
      BY <2>2
    <3>. QED  BY <3>1, <2>1, <1>1, <1>2 DEF Transformed, NoFaults
  <2>5. CountInv'
    <3>1. HandledCount' = 0
      BY <1>1, <1>2 DEF HandledCount
    <3>2. ASSUME NEW n \in DOMAIN merged PROVE Times(merged[n], result') = Copies(n)'
      <4>1. ~ Handled(n)'
        BY <1>1, <1>2, <2>2 DEF Handled
      <4>2. Copies(n)' = 0
        BY <4>1 DEF Copies
      <4>. QED  BY <4>2, <2>1, TimesEmpty
    <3>3. Len(result') = 0 /\ Len(deferred') = 0
      BY <1>1, <1>2, <2>1
    <3>4. /\ stats'.outOfOrder = 0 /\ stats'.late = 0 /\ stats'.duplicate = 0
          /\ stats'.drop = 0 /\ stats'.clean = 0
      BY <2>1 DEF NoFaults
    <3>. QED  BY <3>1, <3>2, <3>3, <3>4, <1>2 DEF CountInv
  <2>6. WaitInv' /\ OrderInv' /\ LateInv' /\ DueInv'
    <3>1. DOMAIN result' = {} /\ DOMAIN deferred' = {}
      BY <1>1, <1>2, <2>1
    <3>. QED  BY <3>1 DEF WaitInv, OrderInv, LateInv, DueInv
  <2>7. PhaseInv'
    BY <2>1, <2>3 DEF PhaseInv
  <2>. QED  BY <2>4, <2>5, <2>6, <2>7 DEF FaultInv, Passing
<1>. QED  BY <1>3, <1>4

-----------------------------------------------------------------------------
(* The whole program. *)

\* One iteration of the first pass, whichever branch it takes.
LEMMA IterationKeeps ==
    ASSUME MergeInv, Passing,
           EmitClean \/ Drop \/ Duplicate \/ Swap \/ Defer \/ Degrade \/ SkipPartner
    PROVE  Passing'
<1>1. /\ Len(merged) \in Nat /\ at \in Nat /\ at >= 1 /\ at <= Len(merged) + 1
      /\ consumed \subseteq 1 .. Len(merged) /\ result \in Seq(Event)
  BY MergedFacts, PassFacts DEF Passing, Transformed
<1>2. CASE EmitClean
  <2>1. kind[at] = "clean"
    BY <1>2 DEF EmitClean, Transforming
  <2>. QED  BY <1>2, <2>1, OneOut DEF EmitClean, Transforming
<1>3. CASE Drop
  <2>1. result' = result
    BY <1>1, <1>3, ConcatEmptySeq DEF Drop, Emit
  <2>2. /\ pc = "transform" /\ at <= Len(merged) /\ at \notin consumed /\ kind[at] = "drop"
        /\ at' = at + 1 /\ stats' = [stats EXCEPT !["drop"] = @ + 1]
        /\ UNCHANGED << pc, generated, kind, consumed, deferred >>
    BY <1>3 DEF Drop, Transforming, Emit
  <2>. QED  BY <2>1, <2>2, NoneOut
<1>4. CASE Duplicate
  <2>1. /\ pc = "transform" /\ at <= Len(merged) /\ at \notin consumed /\ kind[at] = "duplicate"
        /\ at' = at + 1 /\ stats' = [stats EXCEPT !["duplicate"] = @ + 1]
        /\ result' = result \o << merged[at], merged[at] >>
        /\ UNCHANGED << pc, generated, kind, deferred >> /\ consumed' = consumed
    BY <1>4 DEF Duplicate, Transforming, Emit
  <2>. QED  BY <2>1, TwoOut
<1>5. CASE Swap
  <2>1. /\ pc = "transform" /\ at <= Len(merged) /\ at < Len(merged)
        /\ at \notin consumed /\ kind[at] = "outOfOrder"
        /\ at' = at + 1 /\ stats' = [stats EXCEPT !.outOfOrder = @ + 1, !.clean = @ + 1]
        /\ result' = result \o << merged[at + 1], merged[at] >>
        /\ UNCHANGED << pc, generated, kind, deferred >> /\ consumed' = consumed \cup {at + 1}
    BY <1>5 DEF Swap, Transforming
  <2>. QED  BY <2>1, TwoOut
<1>6. CASE Defer
  BY <1>6, DeferKeeps
<1>7. CASE Degrade
  <2>1. at = Len(merged) /\ kind[at] \in {"outOfOrder", "late"} /\ at \notin consumed
    BY <1>7 DEF Degrade, Transforming
  <2>. QED  BY <1>7, <2>1, OneOut DEF Degrade, Transforming
<1>8. CASE SkipPartner
  <2>1. /\ pc = "transform" /\ at \in consumed /\ at' = at + 1 /\ result' = result /\ stats' = stats
        /\ UNCHANGED << pc, generated, kind, consumed, deferred >>
    BY <1>8 DEF SkipPartner
  <2>2. at <= Len(merged)
    BY <2>1, <1>1
  <2>. QED  BY <2>1, <2>2, NoneOut
<1>. QED  BY <1>2, <1>3, <1>4, <1>5, <1>6, <1>7, <1>8

\* Every iteration leaves the phase and what is generated alone.
LEMMA IterationStays ==
    ASSUME PhaseInv,
           EmitClean \/ Drop \/ Duplicate \/ Swap \/ Defer \/ Degrade \/ SkipPartner \/ InsertLate
    PROVE  pc \in {"transform", "insert"} /\ kind # << >> /\ UNCHANGED << pc, generated, kind >>
<1>1. pc \in {"transform", "insert"} /\ UNCHANGED << pc, generated, kind >>
  BY DEF EmitClean, Drop, Duplicate, Swap, Defer, Degrade, SkipPartner, InsertLate, Transforming, Emit
<1>. QED  BY <1>1 DEF PhaseInv

\* The initial states satisfy the invariant.
LEMMA BenchInitially == Init => BenchInv
<1>. SUFFICES ASSUME Init PROVE BenchInv
  OBVIOUS
<1>1. MergeInv
  BY MergeInitially
<1>2. PhaseInv /\ FaultInv
  BY DEF Init, Start, PhaseInv, FaultInv
<1>. QED  BY <1>1, <1>2 DEF BenchInv

\* Every step preserves the invariant.
LEMMA BenchStep == BenchInv /\ [Next]_vars => BenchInv'
<1>. SUFFICES ASSUME MergeInv, PhaseInv, FaultInv, [Next]_vars PROVE BenchInv'
  BY DEF BenchInv
<1>1. CASE MergeNext
  <2>1. /\ pc = "merge" /\ kind = << >> /\ UNCHANGED << pc, faulted >>
    BY <1>1 DEF MergeNext, PhaseInv
  <2>2. PhaseInv' /\ FaultInv'
    BY <2>1 DEF PhaseInv, FaultInv, faulted
  <2>. QED  BY <1>1, <2>2, MergeNextKeeps DEF BenchInv
<1>2. CASE Assign
  <2>1. MergeInv'
    BY <1>2, MergeKept DEF Assign
  <2>. QED  BY <1>2, <2>1, AssignKeeps DEF BenchInv
<1>3. CASE EmitClean \/ Drop \/ Duplicate \/ Swap \/ Defer \/ Degrade \/ SkipPartner \/ InsertLate
  <2>1. pc \in {"transform", "insert"} /\ kind # << >> /\ UNCHANGED << pc, generated, kind >>
    BY <1>3, IterationStays
  <2>2. Passing
    BY <2>1 DEF FaultInv
  <2>3. Passing'
    BY <1>3, <2>2, IterationKeeps, InsertKeeps
  <2>4. MergeInv'
    BY <2>1, MergeKept
  <2>5. PhaseInv'
    BY <2>1 DEF PhaseInv
  <2>. QED  BY <2>3, <2>4, <2>5 DEF BenchInv, FaultInv
<1>4. CASE SecondPass
  <2>1. pc = "transform" /\ pc' = "insert" /\ kind # << >> /\ kind' = kind /\ UNCHANGED generated
    BY <1>4 DEF SecondPass, PhaseInv, faulted
  <2>2. Passing'
    BY <1>4, <2>1, SecondPassKeeps DEF FaultInv
  <2>. QED  BY <2>1, <2>2, MergeKept DEF BenchInv, PhaseInv, FaultInv
<1>5. CASE Sent \/ Verify \/ PairAlerts \/ Judge \/ UNCHANGED vars
  <2>1. /\ UNCHANGED << generated, faulted >> /\ kind' = kind
        /\ \/ pc = "insert" /\ pc' = "verify" /\ deferred = << >>
           \/ pc \in {"verify", "pair"} /\ pc' \in {"pair", "done"}
           \/ pc' = pc
    BY <1>5 DEF Sent, Verify, PairAlerts, Judge, vars, faulted
  <2>2. kind # << >> => Passing'
    BY <2>1, LastKeeps DEF FaultInv
  <2>3. PhaseInv'
    BY <2>1 DEF PhaseInv, faulted
  <2>. QED  BY <2>1, <2>2, <2>3, MergeKept DEF BenchInv, FaultInv
<1>. QED  BY <1>1, <1>2, <1>3, <1>4, <1>5 DEF Next

\* The invariant holds throughout.
THEOREM BenchInductive == Spec => []BenchInv
BY BenchInitially, BenchStep, PTL DEF Spec

\* What was taken of a chunk is in the clean stream; the merge goes on while
\* anything is left.
TakenInv ==
    /\ \A c \in DOMAIN chunks : \A i \in 1 .. cursor[c] : \E n \in DOMAIN merged : merged[n] = chunks[c][i]
    /\ pc # "merge" => Heads = {}

\* Every step preserves this.
LEMMA TakenStep == BenchInv /\ TakenInv /\ [Next]_vars => TakenInv'
<1>. SUFFICES ASSUME BenchInv, TakenInv, [Next]_vars PROVE TakenInv'
  OBVIOUS
<1>0. MergeInv /\ PhaseInv
  BY DEF BenchInv
<1>1. CASE MergeNext
  <2>1. PICK c \in Heads : /\ merged' = Append(merged, HeadOf(c))
                           /\ cursor' = [cursor EXCEPT ![c] = @ + 1]
    BY <1>1 DEF MergeNext
  <2>2. pc = "merge" /\ pc' = pc /\ chunks' = chunks
    BY <1>1 DEF MergeNext
  <2>3. /\ c \in DOMAIN chunks /\ cursor[c] \in Nat /\ HeadOf(c) \in Event
        /\ cursor \in [DOMAIN chunks -> Nat] /\ merged \in Seq(Event)
    BY <1>0, HeadsOfChunks DEF MergeInv
  <2>4. /\ Len(merged) \in Nat /\ DOMAIN merged = 1 .. Len(merged) /\ DOMAIN merged' = 1 .. Len(merged) + 1
        /\ merged'[Len(merged) + 1] = HeadOf(c) /\ \A n \in 1 .. Len(merged) : merged'[n] = merged[n]
    BY <2>1, <2>3, AppendProperties, LenProperties
  <2>5. ASSUME NEW d \in DOMAIN chunks, NEW i \in 1 .. cursor'[d]
        PROVE  \E n \in DOMAIN merged' : merged'[n] = chunks[d][i]
    <3>1. CASE i \in 1 .. cursor[d]
      <4>1. PICK n \in 1 .. Len(merged) : merged[n] = chunks[d][i]
        BY <3>1, <2>4 DEF TakenInv
      <4>. QED  BY <4>1, <2>4
    <3>2. CASE i \notin 1 .. cursor[d]
      <4>1. d = c /\ i = cursor[c] + 1
        BY <2>1, <2>3, <3>2
      <4>2. Len(merged) + 1 \in DOMAIN merged' /\ merged'[Len(merged) + 1] = chunks[d][i]
        BY <4>1, <2>4 DEF HeadOf
      <4>. QED  BY <4>2
    <3>. QED  BY <3>1, <3>2
  <2>. QED  BY <2>2, <2>5 DEF TakenInv
<1>2. CASE Assign
  BY <1>2 DEF Assign, TakenInv, generated, Heads
<1>3. CASE EmitClean \/ Drop \/ Duplicate \/ Swap \/ Defer \/ Degrade \/ SkipPartner \/ InsertLate
  <2>1. UNCHANGED << pc, generated >>
    BY <1>0, <1>3, IterationStays
  <2>. QED  BY <2>1 DEF TakenInv, generated, Heads
<1>4. CASE SecondPass \/ Sent \/ Verify \/ PairAlerts \/ Judge \/ UNCHANGED vars
  <2>1. UNCHANGED generated /\ (pc' = pc \/ pc # "merge")
    BY <1>4 DEF SecondPass, Sent, Verify, PairAlerts, Judge, vars
  <2>. QED  BY <2>1 DEF TakenInv, generated, Heads
<1>. QED  BY <1>1, <1>2, <1>3, <1>4 DEF Next

\* The merge of the chunks neither loses nor repeats an event (datagen/mod.rs).
THEOREM MergeComplete ==
    Spec => [](pc # "merge" =>
                  \A c \in DOMAIN chunks : \A i \in DOMAIN chunks[c] : Times(chunks[c][i], merged) = 1)
<1>1. Init => TakenInv
  BY DEF Init, Start, TakenInv
<1>2. BenchInv /\ TakenInv =>
        (pc # "merge" => \A c \in DOMAIN chunks : \A i \in DOMAIN chunks[c] : Times(chunks[c][i], merged) = 1)
  <2>. SUFFICES ASSUME BenchInv, TakenInv, pc # "merge",
                       NEW c \in DOMAIN chunks, NEW i \in DOMAIN chunks[c]
                PROVE  Times(chunks[c][i], merged) = 1
    OBVIOUS
  <2>1. MergeInv
    BY DEF BenchInv
  <2>2. /\ chunks \in Inputs /\ cursor[c] \in Nat /\ cursor[c] <= Len(chunks[c]) /\ merged \in Seq(Event)
    BY <2>1 DEF MergeInv
  <2>3. Len(chunks[c]) \in Nat /\ DOMAIN chunks[c] = 1 .. Len(chunks[c])
    BY <2>2, ChunkEvents
  <2>4. i \in 1 .. cursor[c]
    BY <2>2, <2>3 DEF TakenInv, Heads
  <2>5. PICK n \in DOMAIN merged : merged[n] = chunks[c][i]
    BY <2>4 DEF TakenInv
  <2>6. Places(chunks[c][i], merged) = {n}
    BY <2>1, <2>5, MergedFacts DEF Places
  <2>7. Cardinality({n}) = 1
    BY FS_Singleton
  <2>8. Times(chunks[c][i], merged) = Cardinality(Places(chunks[c][i], merged))
    BY DEF Times, Places
  <2>. QED  BY ONLY <2>6, <2>7, <2>8
<1>. QED  BY <1>1, <1>2, TakenStep, BenchInductive, PTL DEF Spec

\* Every event is counted once and sent as often as its fault says
\* (fault_gen.rs:94-186).
THEOREM EveryEventAccounted == Spec => []FaultsAccounted
<1>1. BenchInv => FaultsAccounted
  <2>. SUFFICES ASSUME BenchInv, pc \in {"verify", "pair", "done"}, kind # << >>
                PROVE  /\ stats.outOfOrder + stats.late + stats.duplicate + stats.drop + stats.clean = Len(merged)
                       /\ Len(result) = Len(merged) - stats.drop + stats.duplicate
                       /\ \A n \in DOMAIN merged :
                            Times(merged[n], result) = CASE Done(n) = "drop" -> 0
                                                         [] Done(n) = "duplicate" -> 2
                                                         [] OTHER -> 1
    BY DEF FaultsAccounted
  <2>1. MergeInv /\ Passing
    BY DEF BenchInv, FaultInv
  <2>2. at = Len(merged) + 1 /\ deferred = << >>
    BY <2>1 DEF Passing, Transformed
  <2>3. /\ Len(merged) \in Nat /\ DOMAIN merged = 1 .. Len(merged)
        /\ consumed \subseteq 1 .. Len(merged) /\ Len(result) \in Nat
    BY <2>1, MergedFacts, PassFacts DEF Passing
  <2>4. HandledCount = Len(merged)
    <3>1. at \notin consumed
      BY <2>2, <2>3
    <3>. QED  BY <2>2, <2>3, <3>1 DEF HandledCount
  <2>5. \A n \in DOMAIN merged : Handled(n) /\ ~ Waiting(n)
    BY <2>2, <2>3 DEF Handled, Waiting
  <2>6. \A n \in DOMAIN merged :
            Times(merged[n], result) = CASE Done(n) = "drop" -> 0
                                         [] Done(n) = "duplicate" -> 2
                                         [] OTHER -> 1
    <3>. TAKE n \in DOMAIN merged
    <3>1. Times(merged[n], result) = Copies(n)
      BY <2>1 DEF Passing, CountInv
    <3>. QED  BY <2>5, <3>1 DEF Copies
  <2>7. Len(result) = Len(merged) - stats.drop + stats.duplicate
    <3>1. Len(result) + Len(deferred) = HandledCount - stats.drop + stats.duplicate
      BY <2>1 DEF Passing, CountInv
    <3>2. Len(deferred) = 0
      BY <2>2
    <3>. QED  BY ONLY <3>1, <3>2, <2>3, <2>4
  <2>8. stats.outOfOrder + stats.late + stats.duplicate + stats.drop + stats.clean = Len(merged)
    BY <2>1, <2>4 DEF Passing, CountInv
  <2>. QED  BY <2>6, <2>7, <2>8
<1>. QED  BY <1>1, BenchInductive, PTL

\* Whatever leaves out of order was swapped or late, and a late event that
\* anything could arrive before does arrive later (fault_gen.rs:94-186).
THEOREM OrderExplained == Spec => []ArrivalExplained
<1>1. BenchInv => ArrivalExplained
  <2>. SUFFICES ASSUME BenchInv, pc \in {"verify", "pair", "done"} PROVE ArrivalExplained
    BY DEF ArrivalExplained
  <2>1. MergeInv
    BY DEF BenchInv
  <2>2. ASSUME NEW m \in DOMAIN merged, NEW n \in DOMAIN merged, m < n
        PROVE  \/ merged[m].ts < merged[n].ts
               \/ merged[m].ts = merged[n].ts /\ merged[m].chunk <= merged[n].chunk
    BY <2>1, <2>2 DEF MergeInv, ByTime
  <2>. DEFINE sent == {n \in DOMAIN merged : Done(n) # "drop"}
  <2>3. ASSUME kind # << >>
        PROVE  /\ \A m, n \in sent :
                    m < n /\ ~ IsLate(m) /\ ~ IsLate(n) /\ ~ Ahead(merged[m], merged[n], result)
                        => n = m + 1 /\ n \in consumed
               /\ \A m \in sent : IsLate(m) /\ (\E n \in sent : n > m /\ ~ IsLate(n))
                    => \E n \in sent : n > m /\ Ahead(merged[n], merged[m], result)
    <3>1. Passing
      BY <2>3 DEF BenchInv, FaultInv
    <3>2. at = Len(merged) + 1 /\ deferred = << >>
      BY <3>1 DEF Passing, Transformed
    <3>3. Len(merged) \in Nat /\ DOMAIN merged = 1 .. Len(merged) /\ DOMAIN result = 1 .. Len(result)
      BY <2>1, <3>1, MergedFacts, PassFacts DEF Passing
    <3>4. \A n \in DOMAIN merged : Handled(n) /\ ~ Waiting(n)
      BY <3>2, <3>3 DEF Handled, Waiting
    <3>5. ASSUME NEW m \in sent PROVE \E p \in DOMAIN result : result[p] = merged[m]
      BY <2>1, <3>1, <3>4, HasPlace DEF Passing
    <3>6. ASSUME NEW m \in sent, NEW n \in sent,
                 m < n, ~ IsLate(m), ~ IsLate(n), ~ Ahead(merged[m], merged[n], result)
          PROVE  n = m + 1 /\ n \in consumed
      <4>1. PICK p \in DOMAIN result : result[p] = merged[m]
        BY <3>5
      <4>2. PICK q \in DOMAIN result : result[q] = merged[n] /\ ~ (p < q)
        BY <3>6, <4>1 DEF Ahead
      <4>3. m \in DOMAIN merged /\ n \in DOMAIN merged
        OBVIOUS
      <4>4. OrderInv
        BY <3>1 DEF Passing
      <4>. QED  BY ONLY <3>6, <4>1, <4>2, <4>3, <4>4 DEF OrderInv
    <3>7. ASSUME NEW m \in sent, IsLate(m), NEW k \in sent, k > m, ~ IsLate(k)
          PROVE  \E n \in sent : n > m /\ Ahead(merged[n], merged[m], result)
      <4>1. PICK q \in DOMAIN result : result[q] = merged[m]
        BY <3>5
      <4>2. ~ NoneStays(m)
        BY <3>7 DEF NoneStays
      <4>3. LeftBy(m, q - 1)
        BY <3>1, <3>7, <4>1, <4>2 DEF Passing, LateInv
      <4>4. PICK p \in DOMAIN result, n \in DOMAIN merged : p <= q - 1 /\ n > m /\ result[p] = merged[n]
        BY <4>3 DEF LeftBy
      <4>5. n \in sent
        BY <2>1, <3>1, <4>4, InResult DEF Passing
      <4>6. \A o \in DOMAIN result : result[o] = merged[m] => o = q
        <5>1. Copies(m) = 1
          BY <3>4, <3>7 DEF Copies, IsLate
        <5>2. Times(merged[m], result) = 1 /\ result \in Seq(Event)
          BY <3>1, <5>1 DEF Passing, CountInv, Transformed
        <5>3. IsFiniteSet(Places(merged[m], result)) /\ Cardinality(Places(merged[m], result)) = 1
          BY <5>2, TimesCount
        <5>4. PICK o : Places(merged[m], result) = {o}
          BY <5>3, FS_Singleton
        <5>. QED  BY <5>4, <4>1 DEF Places
      <4>7. p < q
        BY <3>3, <4>1, <4>4
      <4>8. Ahead(merged[n], merged[m], result)
        BY <4>4, <4>6, <4>7 DEF Ahead
      <4>. QED  BY <4>4, <4>5, <4>8
    <3>. QED  BY <3>6, <3>7
  <2>. QED  BY <2>2, <2>3 DEF ArrivalExplained, IsLate
<1>. QED  BY <1>1, BenchInductive, PTL

-----------------------------------------------------------------------------
(* The comparison of the alerts. *)

Alert == [key : Keys, time : Nat, score : Nat]
Tally == [matched : Nat, mismatched : Nat, missing : Nat, unexpected : Nat]

\* The expected alerts that a tally has counted, and the actual ones.
OfExpected(s) == s.matched + s.mismatched + s.missing
OfActual(s) == s.matched + s.mismatched + s.unexpected

\* The alerts not gone through yet: of keys to come, or left in the group.
ToCome(alerts, keys, left) == {n \in DOMAIN alerts : alerts[n].key \in keys \/ n \in left}
Awaited(a, alerts, keys, left) == {n \in ToCome(alerts, keys, left) : alerts[n] = a}

Same(E, A) == \A a \in SX!ToSet(E) \cup SX!ToSet(A) : Times(a, E) = Times(a, A)
Tied(E) == \E a, b \in SX!ToSet(E) : a.key = b.key /\ a.time = b.time /\ a.score # b.score

\* Nothing missed, nothing unexpected, no pair that does not match.
Spotless == tally.missing = 0 /\ tally.unexpected = 0 /\ tally.mismatched = 0

\* The group at hand is one of neither side's keys to come.
GroupInv(E, A) ==
    /\ todo \subseteq DOMAIN E /\ free \subseteq DOMAIN A
    /\ \A n \in todo : E[n].key \notin groups
    /\ \A k \in free : A[k].key \notin groups
    /\ \A n \in todo : \A k \in free : E[n].key = A[k].key

\* Whatever was gone through is in the tally.
TallyInv(E, A) ==
    /\ tally \in Tally
    /\ OfExpected(tally) + Cardinality(ToCome(E, groups, todo)) = Len(E)
    /\ OfActual(tally) + Cardinality(ToCome(A, groups, free)) = Len(A)

\* As long as the tally is spotless both sides lost the same alerts.
EvenInv(E, A) ==
    Spotless => \A a \in Alert :
        Times(a, E) + Cardinality(Awaited(a, A, groups, free)) =
        Times(a, A) + Cardinality(Awaited(a, E, groups, todo))

PairInv(E, A) == GroupInv(E, A) /\ TallyInv(E, A) /\ EvenInv(E, A) /\ (Same(E, A) /\ ~ Tied(E) => Spotless)

\* Where the comparison stands, and what is compared when no fault was dealt.
CompareInv ==
    /\ pc \notin {"pair", "done"} => NotPaired
    /\ pc \in {"pair", "done"} => PairInv(Expected, Actual)
    /\ pc = "done" => AllPaired /\ report = Report
    /\ pc \notin {"merge", "transform", "insert"} /\ kind = << >> =>
            result = merged /\ stats.drop = 0 /\ stats.duplicate = 0

\* The sets of alerts to come are finite, and empty at the end.
LEMMA ToComeCounted ==
    ASSUME NEW S, NEW s \in Seq(S), NEW keys, NEW left
    PROVE  /\ IsFiniteSet(ToCome(s, keys, left)) /\ Cardinality(ToCome(s, keys, left)) \in Nat
           /\ \A a : IsFiniteSet(Awaited(a, s, keys, left)) /\ Cardinality(Awaited(a, s, keys, left)) \in Nat
           /\ \A a : Cardinality(Awaited(a, s, keys, left)) = 0 <=> Awaited(a, s, keys, left) = {}
<1>1. IsFiniteSet(DOMAIN s)
  BY LenProperties, FS_Interval
<1>2. IsFiniteSet(ToCome(s, keys, left)) /\ \A a : IsFiniteSet(Awaited(a, s, keys, left))
  <2>1. ToCome(s, keys, left) \subseteq DOMAIN s
    BY DEF ToCome
  <2>2. \A a : Awaited(a, s, keys, left) \subseteq DOMAIN s
    BY <2>1 DEF Awaited
  <2>. QED  BY <1>1, <2>1, <2>2, FS_Subset
<1>. QED  BY <1>2, FS_CardinalityType, FS_EmptySet

\* An alert is gone through.
LEMMA OneGone ==
    ASSUME NEW S, NEW s \in Seq(S), NEW keys, NEW left,
           NEW n \in DOMAIN s, n \in left, s[n].key \notin keys
    PROVE  Cardinality(ToCome(s, keys, left)) = Cardinality(ToCome(s, keys, left \ {n})) + 1
<1>. DEFINE before == ToCome(s, keys, left)
            after == ToCome(s, keys, left \ {n})
<1>1. after = before \ {n} /\ n \in before
  BY DEF ToCome
<1>2. IsFiniteSet(before) /\ Cardinality(before) \in Nat
  BY ToComeCounted
<1>3. Cardinality(before) = Cardinality(after) + 1
  <2>. HIDE DEF before, after
  <2>1. Cardinality(before \ {n}) = Cardinality(before) - 1
    BY <1>1, <1>2, FS_RemoveElement
  <2>2. Cardinality(after) = Cardinality(before) - 1
    BY ONLY <1>1, <2>1
  <2>. QED  BY ONLY <1>2, <2>2
<1>. QED  BY <1>3

\* It was the only one like it to be gone through, if it is like another.
LEMMA OneFewer ==
    ASSUME NEW S, NEW s \in Seq(S), NEW keys, NEW left,
           NEW n \in DOMAIN s, n \in left, s[n].key \notin keys, NEW a
    PROVE  Cardinality(Awaited(a, s, keys, left))
                = Cardinality(Awaited(a, s, keys, left \ {n})) + (IF s[n] = a THEN 1 ELSE 0)
<1>. DEFINE same == Awaited(a, s, keys, left)
            rest == Awaited(a, s, keys, left \ {n})
<1>1. IsFiniteSet(same) /\ Cardinality(same) \in Nat
  BY ToComeCounted
<1>2. rest = same \ (IF s[n] = a THEN {n} ELSE {}) /\ (s[n] = a => n \in same)
  BY DEF Awaited, ToCome
<1>3. Cardinality(same) = Cardinality(rest) + (IF s[n] = a THEN 1 ELSE 0)
  <2>. HIDE DEF same, rest
  <2>1. CASE s[n] = a
    <3>1. rest = same \ {n} /\ n \in same
      BY <1>2, <2>1
    <3>2. Cardinality(same \ {n}) = Cardinality(same) - 1
      BY <1>1, <3>1, FS_RemoveElement
    <3>3. Cardinality(rest) = Cardinality(same) - 1
      BY ONLY <3>1, <3>2
    <3>. QED  BY ONLY <1>1, <2>1, <3>3
  <2>2. CASE s[n] # a
    <3>1. rest = same
      BY <1>2, <2>2
    <3>. QED  BY ONLY <1>1, <2>2, <3>1
  <2>. QED  BY <2>1, <2>2
<1>. QED  BY <1>3

\* The groups are collected: everything is to come.
LEMMA PairStarts ==
    ASSUME NEW E \in Seq(Alert), NEW A \in Seq(Alert), NotPaired, CollectGroups(E, A)
    PROVE  PairInv(E, A)'
<1>1. /\ groups' = KeysOf(E) \cup KeysOf(A) /\ todo' = {} /\ free' = {} /\ tally' = NoTally
  BY DEF NotPaired, CollectGroups
<1>2. /\ ToCome(E, groups', todo') = DOMAIN E
      /\ ToCome(A, groups', free') = DOMAIN A
  BY <1>1 DEF ToCome, KeysOf
<1>3. GroupInv(E, A)'
  BY <1>1 DEF GroupInv
<1>4. TallyInv(E, A)'
  <2>1. /\ DOMAIN E = 1 .. Len(E) /\ Len(E) \in Nat
        /\ DOMAIN A = 1 .. Len(A) /\ Len(A) \in Nat
    BY LenProperties
  <2>2. \A n \in Nat : Cardinality(1 .. n) = n
    <3>. TAKE n \in Nat
    <3>1. Cardinality(1 .. n) = IF 1 > n THEN 0 ELSE n - 1 + 1
      BY FS_Interval
    <3>. QED  BY <3>1
  <2>3. Cardinality(DOMAIN E) = Len(E) /\ Cardinality(DOMAIN A) = Len(A)
    BY <2>1, <2>2
  <2>. QED  BY <1>1, <1>2, <2>1, <2>3 DEF TallyInv, NoTally, Tally, OfExpected, OfActual
<1>5. EvenInv(E, A)'
  <2>. SUFFICES ASSUME NEW a \in Alert
                PROVE  Times(a, E) + Cardinality(Awaited(a, A, groups', free'))
                        = Times(a, A) + Cardinality(Awaited(a, E, groups', todo'))
    BY DEF EvenInv
  <2>1. Awaited(a, A, groups', free') = Places(a, A) /\ Awaited(a, E, groups', todo') = Places(a, E)
    BY <1>2 DEF Awaited, Places
  <2>2. /\ Times(a, E) = Cardinality(Places(a, E)) /\ Times(a, E) \in Nat
        /\ Times(a, A) = Cardinality(Places(a, A)) /\ Times(a, A) \in Nat
    BY TimesCount
  <2>. QED  BY ONLY <2>1, <2>2
<1>6. Spotless'
  BY <1>1 DEF Spotless, NoTally
<1>. QED  BY <1>3, <1>4, <1>5, <1>6 DEF PairInv

\* A group begins: its alerts are to come, as before.
LEMMA BeginKeeps ==
    ASSUME NEW E \in Seq(Alert), NEW A \in Seq(Alert), PairInv(E, A), BeginGroup(E, A)
    PROVE  PairInv(E, A)'
<1>1. PICK key \in groups : /\ groups' = groups \ {key}
                            /\ todo' = OfGroup(E, key) /\ free' = OfGroup(A, key)
  BY DEF BeginGroup
<1>2. todo = {} /\ free = {} /\ tally' = tally
  BY DEF BeginGroup
<1>3. /\ ToCome(E, groups', todo') = ToCome(E, groups, todo)
      /\ ToCome(A, groups', free') = ToCome(A, groups, free)
  BY <1>1, <1>2 DEF ToCome, OfGroup
<1>4. GroupInv(E, A)'
  BY <1>1 DEF GroupInv, OfGroup
<1>5. TallyInv(E, A)' /\ (Spotless' <=> Spotless)
  BY <1>2, <1>3 DEF PairInv, TallyInv, Spotless
<1>6. \A a : /\ Awaited(a, E, groups', todo') = Awaited(a, E, groups, todo)
             /\ Awaited(a, A, groups', free') = Awaited(a, A, groups, free)
  BY <1>3 DEF Awaited
<1>7. EvenInv(E, A)'
  BY <1>5, <1>6 DEF PairInv, EvenInv
<1>. QED  BY <1>4, <1>5, <1>7 DEF PairInv

\* When both sides raised the same, each alert left of a group has a
\* counterpart among those left of the other side.
LEMMA Counterpart ==
    ASSUME NEW E \in Seq(Alert), NEW A \in Seq(Alert), PairInv(E, A), Same(E, A), ~ Tied(E)
    PROVE  /\ Spotless
           /\ \A n \in todo : \E k \in free : A[k] = E[n]
           /\ \A k \in free : \E n \in todo : E[n] = A[k]
<1>1. Spotless /\ GroupInv(E, A)
  BY DEF PairInv
<1>2. ASSUME NEW a \in SX!ToSet(E) \cup SX!ToSet(A)
      PROVE  Awaited(a, E, groups, todo) = {} <=> Awaited(a, A, groups, free) = {}
  <2>1. a \in Alert
    <3>1. DOMAIN E = 1 .. Len(E) /\ DOMAIN A = 1 .. Len(A)
      BY LenProperties
    <3>. QED  BY <3>1, ElementOfSeq DEF SX!ToSet
  <2>2. Times(a, E) = Times(a, A) /\ Times(a, E) \in Nat
    BY TimesCount DEF Same
  <2>3. Times(a, E) + Cardinality(Awaited(a, A, groups, free))
            = Times(a, A) + Cardinality(Awaited(a, E, groups, todo))
    BY <1>1, <2>1 DEF PairInv, EvenInv
  <2>4. /\ Cardinality(Awaited(a, A, groups, free)) \in Nat
        /\ Cardinality(Awaited(a, E, groups, todo)) \in Nat
        /\ Cardinality(Awaited(a, A, groups, free)) = 0 <=> Awaited(a, A, groups, free) = {}
        /\ Cardinality(Awaited(a, E, groups, todo)) = 0 <=> Awaited(a, E, groups, todo) = {}
    BY ToComeCounted
  <2>. QED  BY ONLY <2>2, <2>3, <2>4
<1>3. ASSUME NEW n \in todo PROVE \E k \in free : A[k] = E[n]
  <2>1. n \in DOMAIN E /\ E[n].key \notin groups
    BY <1>1 DEF GroupInv
  <2>2. n \in Awaited(E[n], E, groups, todo)
    BY <2>1 DEF Awaited, ToCome
  <2>3. E[n] \in SX!ToSet(E)
    BY <2>1 DEF SX!ToSet
  <2>4. PICK k : k \in Awaited(E[n], A, groups, free)
    BY <1>2, <2>2, <2>3
  <2>. QED  BY <2>1, <2>4 DEF Awaited, ToCome
<1>4. ASSUME NEW k \in free PROVE \E n \in todo : E[n] = A[k]
  <2>1. k \in DOMAIN A /\ A[k].key \notin groups
    BY <1>1 DEF GroupInv
  <2>2. k \in Awaited(A[k], A, groups, free)
    BY <2>1 DEF Awaited, ToCome
  <2>3. A[k] \in SX!ToSet(A)
    BY <2>1 DEF SX!ToSet
  <2>4. PICK n : n \in Awaited(A[k], E, groups, todo)
    BY <1>2, <2>2, <2>3
  <2>. QED  BY <2>1, <2>4 DEF Awaited, ToCome
<1>. QED  BY <1>1, <1>3, <1>4

\* Alerts that agree in everything compared are one.
LEMMA SameAlert ==
    ASSUME NEW a \in Alert, NEW b \in Alert, a.key = b.key, a.time = b.time, a.score = b.score
    PROVE  a = b
BY DEF Alert

LEMMA TallyCounts ==
    ASSUME NEW s \in Tally
    PROVE  OfExpected(s) \in Nat /\ OfActual(s) \in Nat
<1>1. s.matched \in Nat /\ s.mismatched \in Nat /\ s.missing \in Nat /\ s.unexpected \in Nat
  BY DEF Tally
<1>2. \A a, b, c \in Nat : a + b + c \in Nat
  OBVIOUS
<1>. QED  BY ONLY <1>1, <1>2 DEF OfExpected, OfActual

\* What is missing enters the tally of the expected alerts.
LEMMA TallyMissed ==
    ASSUME NEW s \in Tally, NEW t, t = [s EXCEPT !.missing = @ + 1]
    PROVE  /\ t \in Tally /\ s.missing \in Nat /\ t.missing = s.missing + 1
           /\ OfExpected(s) \in Nat /\ OfExpected(t) = OfExpected(s) + 1
           /\ OfActual(s) \in Nat /\ OfActual(t) = OfActual(s)
BY DEF Tally, OfExpected, OfActual

\* What is unexpected, that of the actual ones.
LEMMA TallyUnexpected ==
    ASSUME NEW s \in Tally, NEW x \in Nat, NEW t, t = [s EXCEPT !.unexpected = @ + x]
    PROVE  /\ t \in Tally /\ s.unexpected \in Nat /\ t.unexpected = s.unexpected + x
           /\ OfExpected(s) \in Nat /\ OfExpected(t) = OfExpected(s)
           /\ OfActual(s) \in Nat /\ OfActual(t) = OfActual(s) + x
BY DEF Tally, OfExpected, OfActual

\* A pair that matches enters both.
LEMMA TallyMatched ==
    ASSUME NEW s \in Tally, NEW t, t = [s EXCEPT !.matched = @ + 1]
    PROVE  /\ t \in Tally /\ s.mismatched \in Nat /\ t.mismatched = s.mismatched
           /\ t.missing = s.missing /\ t.unexpected = s.unexpected
           /\ OfExpected(s) \in Nat /\ OfExpected(t) = OfExpected(s) + 1
           /\ OfActual(s) \in Nat /\ OfActual(t) = OfActual(s) + 1
BY DEF Tally, OfExpected, OfActual

\* And so does one that does not.
LEMMA TallyMismatched ==
    ASSUME NEW s \in Tally, NEW t, t = [s EXCEPT !.mismatched = @ + 1]
    PROVE  /\ t \in Tally /\ s.mismatched \in Nat /\ t.mismatched = s.mismatched + 1
           /\ t.missing = s.missing /\ t.unexpected = s.unexpected
           /\ OfExpected(s) \in Nat /\ OfExpected(t) = OfExpected(s) + 1
           /\ OfActual(s) \in Nat /\ OfActual(t) = OfActual(s) + 1
BY DEF Tally, OfExpected, OfActual

\* An alert is paired, or found missing.
LEMMA PairNextKeeps ==
    ASSUME NEW E \in Seq(Alert), NEW A \in Seq(Alert), PairInv(E, A), PairNext(E, A, Exactly)
    PROVE  PairInv(E, A)'
<1>1. PICK n \in todo :
        /\ todo' = todo \ {n}
        /\ IF free = {} THEN tally' = [tally EXCEPT !.missing = @ + 1] /\ UNCHANGED free
           ELSE \E j \in free :
                    /\ IsBest(j, E[n], A)
                    /\ free' = free \ {j}
                    /\ tally' = IF Fits(E[n], A[j], Exactly)
                                THEN [tally EXCEPT !.matched = @ + 1]
                                ELSE [tally EXCEPT !.mismatched = @ + 1]
  BY DEF PairNext
<1>2. groups' = groups
  BY DEF PairNext
<1>3. GroupInv(E, A) /\ TallyInv(E, A) /\ EvenInv(E, A)
  BY DEF PairInv
<1>4. n \in DOMAIN E /\ E[n].key \notin groups /\ E[n] \in Alert
  <2>1. n \in DOMAIN E /\ E[n].key \notin groups
    BY <1>3 DEF GroupInv
  <2>. QED  BY <2>1, LenProperties, ElementOfSeq
<1>5. /\ Cardinality(ToCome(E, groups, todo)) = Cardinality(ToCome(E, groups', todo')) + 1
      /\ \A a : Cardinality(Awaited(a, E, groups, todo))
                    = Cardinality(Awaited(a, E, groups', todo')) + (IF E[n] = a THEN 1 ELSE 0)
  <2>1. E \in Seq(Alert) /\ n \in todo /\ n \in DOMAIN E /\ E[n].key \notin groups
    BY <1>4
  <2>2. todo' = todo \ {n}
    BY <1>1
  <2>3. Cardinality(ToCome(E, groups, todo)) = Cardinality(ToCome(E, groups, todo \ {n})) + 1
    BY <2>1, OneGone
  <2>4. ASSUME NEW a
        PROVE  Cardinality(Awaited(a, E, groups, todo))
                    = Cardinality(Awaited(a, E, groups, todo \ {n})) + (IF E[n] = a THEN 1 ELSE 0)
    BY <2>1, OneFewer
  <2>. QED  BY ONLY <1>2, <2>2, <2>3, <2>4
<1>6. free' \subseteq free
  BY <1>1
<1>7. GroupInv(E, A)'
  BY <1>1, <1>2, <1>3, <1>6 DEF GroupInv
<1>8. /\ tally \in Tally
      /\ Cardinality(ToCome(E, groups', todo')) \in Nat /\ Cardinality(ToCome(A, groups', free')) \in Nat
      /\ \A a : /\ Cardinality(Awaited(a, E, groups', todo')) \in Nat
                /\ Cardinality(Awaited(a, A, groups', free')) \in Nat
  BY <1>3, ToComeCounted DEF TallyInv
<1>9. CASE free = {}
  <2>1. tally' = [tally EXCEPT !.missing = @ + 1] /\ free' = free
    BY <1>1, <1>9
  <2>5. /\ tally' \in Tally /\ tally.missing \in Nat /\ tally'.missing = tally.missing + 1
        /\ OfExpected(tally) \in Nat /\ OfExpected(tally') = OfExpected(tally) + 1
        /\ OfActual(tally) \in Nat /\ OfActual(tally') = OfActual(tally)
    <3>1. tally \in Tally /\ tally' = [tally EXCEPT !.missing = @ + 1]
      BY <1>8, <2>1
    <3>. QED  BY ONLY <3>1, TallyMissed
  <2>2. TallyInv(E, A)'
    <3>1. /\ OfExpected(tally) + Cardinality(ToCome(E, groups, todo)) = Len(E)
          /\ OfActual(tally) + Cardinality(ToCome(A, groups', free')) = Len(A)
      BY <1>2, <1>3, <2>1 DEF TallyInv
    <3>2. /\ Cardinality(ToCome(E, groups, todo)) = Cardinality(ToCome(E, groups', todo')) + 1
          /\ Cardinality(ToCome(E, groups', todo')) \in Nat
      BY <1>5, <1>8
    <3>3. /\ OfExpected(tally') + Cardinality(ToCome(E, groups', todo')) = Len(E)
          /\ OfActual(tally') + Cardinality(ToCome(A, groups', free')) = Len(A)
      BY ONLY <2>5, <3>1, <3>2
    <3>. QED  BY <2>5, <3>3 DEF TallyInv
  <2>3. ~ Spotless'
    BY <2>5 DEF Spotless
  <2>4. ~ (Same(E, A) /\ ~ Tied(E))
    BY <1>9, Counterpart
  <2>. QED  BY <1>7, <2>2, <2>3, <2>4 DEF PairInv, EvenInv
<1>10. CASE free # {}
  <2>1. PICK j \in free :
            /\ IsBest(j, E[n], A)
            /\ free' = free \ {j}
            /\ tally' = IF Fits(E[n], A[j], Exactly) THEN [tally EXCEPT !.matched = @ + 1]
                                                     ELSE [tally EXCEPT !.mismatched = @ + 1]
    BY <1>1, <1>10
  <2>2. j \in DOMAIN A /\ A[j].key \notin groups /\ A[j] \in Alert /\ E[n].key = A[j].key
    <3>1. j \in DOMAIN A /\ A[j].key \notin groups /\ E[n].key = A[j].key
      BY <1>3 DEF GroupInv
    <3>. QED  BY <3>1, LenProperties, ElementOfSeq
  <2>3. /\ Cardinality(ToCome(A, groups, free)) = Cardinality(ToCome(A, groups', free')) + 1
        /\ \A a : Cardinality(Awaited(a, A, groups, free))
                    = Cardinality(Awaited(a, A, groups', free')) + (IF A[j] = a THEN 1 ELSE 0)
    <3>1. A \in Seq(Alert) /\ j \in free /\ j \in DOMAIN A /\ A[j].key \notin groups
      BY <2>2
    <3>2. free' = free \ {j}
      BY <2>1
    <3>3. Cardinality(ToCome(A, groups, free)) = Cardinality(ToCome(A, groups, free \ {j})) + 1
      BY <3>1, OneGone
    <3>4. ASSUME NEW a
          PROVE  Cardinality(Awaited(a, A, groups, free))
                    = Cardinality(Awaited(a, A, groups, free \ {j})) + (IF A[j] = a THEN 1 ELSE 0)
      BY <3>1, OneFewer
    <3>. QED  BY ONLY <1>2, <3>2, <3>3, <3>4
  <2>7. /\ Fits(E[n], A[j], Exactly) => tally' = [tally EXCEPT !.matched = @ + 1]
        /\ ~ Fits(E[n], A[j], Exactly) => tally' = [tally EXCEPT !.mismatched = @ + 1]
    BY <2>1
  <2>8. /\ tally' \in Tally /\ tally.mismatched \in Nat
        /\ Fits(E[n], A[j], Exactly) => tally'.mismatched = tally.mismatched
        /\ ~ Fits(E[n], A[j], Exactly) => tally'.mismatched = tally.mismatched + 1
        /\ tally'.missing = tally.missing /\ tally'.unexpected = tally.unexpected
        /\ OfExpected(tally) \in Nat /\ OfExpected(tally') = OfExpected(tally) + 1
        /\ OfActual(tally) \in Nat /\ OfActual(tally') = OfActual(tally) + 1
    <3>0. tally \in Tally
      BY <1>8
    <3>1. CASE Fits(E[n], A[j], Exactly)
      <4>1. tally' = [tally EXCEPT !.matched = @ + 1]
        BY <2>7, <3>1
      <4>2. /\ tally' \in Tally /\ tally.mismatched \in Nat /\ tally'.mismatched = tally.mismatched
            /\ tally'.missing = tally.missing /\ tally'.unexpected = tally.unexpected
            /\ OfExpected(tally) \in Nat /\ OfExpected(tally') = OfExpected(tally) + 1
            /\ OfActual(tally) \in Nat /\ OfActual(tally') = OfActual(tally) + 1
        BY ONLY <3>0, <4>1, TallyMatched
      <4>. QED  BY <3>1, <4>2
    <3>2. CASE ~ Fits(E[n], A[j], Exactly)
      <4>1. tally' = [tally EXCEPT !.mismatched = @ + 1]
        BY <2>7, <3>2
      <4>2. /\ tally' \in Tally /\ tally.mismatched \in Nat /\ tally'.mismatched = tally.mismatched + 1
            /\ tally'.missing = tally.missing /\ tally'.unexpected = tally.unexpected
            /\ OfExpected(tally) \in Nat /\ OfExpected(tally') = OfExpected(tally) + 1
            /\ OfActual(tally) \in Nat /\ OfActual(tally') = OfActual(tally) + 1
        BY ONLY <3>0, <4>1, TallyMismatched
      <4>. QED  BY <3>2, <4>2
    <3>. QED  BY <3>1, <3>2
  <2>4. TallyInv(E, A)'
    <3>1. /\ OfExpected(tally) + Cardinality(ToCome(E, groups, todo)) = Len(E)
          /\ OfActual(tally) + Cardinality(ToCome(A, groups, free)) = Len(A)
      BY <1>3 DEF TallyInv
    <3>2. /\ Cardinality(ToCome(E, groups, todo)) = Cardinality(ToCome(E, groups', todo')) + 1
          /\ Cardinality(ToCome(A, groups, free)) = Cardinality(ToCome(A, groups', free')) + 1
          /\ Cardinality(ToCome(E, groups', todo')) \in Nat /\ Cardinality(ToCome(A, groups', free')) \in Nat
      BY <1>5, <1>8, <2>3
    <3>3. /\ OfExpected(tally') + Cardinality(ToCome(E, groups', todo')) = Len(E)
          /\ OfActual(tally') + Cardinality(ToCome(A, groups', free')) = Len(A)
      BY ONLY <2>8, <3>1, <3>2, SMTT(20)
    <3>. QED  BY <2>8, <3>3 DEF TallyInv
  <2>5. CASE Fits(E[n], A[j], Exactly)
    <3>1. E[n] = A[j]
      <4>1. E[n].score = A[j].score /\ E[n].time = A[j].time
        BY <1>4, <2>2, <2>5, SMTT(20) DEF Fits, Exactly, Distance, Difference, Alert
      <4>. QED  BY <1>4, <2>2, <4>1, SameAlert
    <3>2. Spotless' <=> Spotless
      BY <2>5, <2>8 DEF Spotless
    <3>3. EvenInv(E, A)'
      <4>. SUFFICES ASSUME Spotless, NEW a \in Alert
                    PROVE  Times(a, E) + Cardinality(Awaited(a, A, groups', free'))
                            = Times(a, A) + Cardinality(Awaited(a, E, groups', todo'))
        BY <3>2 DEF EvenInv
      <4>1. Times(a, E) + Cardinality(Awaited(a, A, groups, free))
                = Times(a, A) + Cardinality(Awaited(a, E, groups, todo))
        BY <1>3 DEF EvenInv
      <4>2. Times(a, E) \in Nat /\ Times(a, A) \in Nat
        BY TimesCount
      <4>3. /\ Cardinality(Awaited(a, A, groups, free))
                = Cardinality(Awaited(a, A, groups', free')) + (IF E[n] = a THEN 1 ELSE 0)
            /\ Cardinality(Awaited(a, E, groups, todo))
                = Cardinality(Awaited(a, E, groups', todo')) + (IF E[n] = a THEN 1 ELSE 0)
        BY <1>5, <2>3, <3>1
      <4>. QED  BY ONLY <1>8, <4>1, <4>2, <4>3, SMTT(20)
    <3>. QED  BY <1>7, <2>4, <3>2, <3>3 DEF PairInv
  <2>6. CASE ~ Fits(E[n], A[j], Exactly)
    <3>1. ~ Spotless'
      BY <2>6, <2>8 DEF Spotless
    <3>2. ASSUME Same(E, A), ~ Tied(E) PROVE FALSE
      <4>1. PICK k \in free : A[k] = E[n]
        BY <3>2, Counterpart
      <4>2. A[j].time = E[n].time
        <5>1. Distance(E[n], A[k]) = 0
          BY <1>4, <4>1 DEF Distance, Difference, Alert
        <5>2. Distance(E[n], A[j]) = 0 \/ Distance(E[n], A[j]) < 0
          BY <2>1, <4>1, <5>1 DEF IsBest
        <5>. QED  BY <1>4, <2>2, <5>2, SMTT(20) DEF Distance, Difference, Alert
      <4>3. PICK m \in todo : E[m] = A[j]
        BY <3>2, Counterpart
      <4>4. E[m] \in SX!ToSet(E) /\ E[n] \in SX!ToSet(E)
        BY <1>3 DEF GroupInv, SX!ToSet
      <4>5. E[m].score = E[n].score
        BY <2>2, <3>2, <4>2, <4>3, <4>4 DEF Tied
      <4>. QED  BY <1>4, <2>6, <4>2, <4>3, <4>5, SMTT(20) DEF Fits, Exactly, Distance, Difference, Alert
    <3>. QED  BY <1>7, <2>4, <3>1, <3>2 DEF PairInv, EvenInv
  <2>. QED  BY <2>5, <2>6
<1>. QED  BY <1>9, <1>10

\* What is left of the actual alerts is counted as unexpected.
LEMMA EndKeeps ==
    ASSUME NEW E \in Seq(Alert), NEW A \in Seq(Alert), PairInv(E, A), EndGroup
    PROVE  PairInv(E, A)'
<1>1. /\ todo = {} /\ free # {} /\ free' = {} /\ todo' = todo /\ groups' = groups
      /\ tally' = [tally EXCEPT !.unexpected = @ + Cardinality(free)]
  BY DEF EndGroup
<1>2. GroupInv(E, A) /\ TallyInv(E, A)
  BY DEF PairInv
<1>3. GroupInv(E, A)'
  BY <1>1, <1>2 DEF GroupInv
<1>. DEFINE before == ToCome(A, groups, free)
            after == ToCome(A, groups, {})
<1>4. Cardinality(before) = Cardinality(free) + Cardinality(after)
  <2>1. before = free \cup after /\ free \cap after = {} /\ free \subseteq before
    BY <1>2 DEF ToCome, GroupInv
  <2>2. IsFiniteSet(before) /\ IsFiniteSet(after) /\ Cardinality(after) \in Nat
    BY ToComeCounted
  <2>. HIDE DEF before, after
  <2>3. IsFiniteSet(free)
    BY <2>1, <2>2, FS_Subset
  <2>4. Cardinality(before) = Cardinality(free) + Cardinality(after) - Cardinality({})
    BY <2>1, <2>2, <2>3, FS_Union
  <2>. QED  BY <2>2, <2>3, <2>4, FS_EmptySet, FS_CardinalityType
<1>5. Cardinality(free) \in Nat /\ Cardinality(free) # 0 /\ Cardinality(after) \in Nat
  <2>1. free \subseteq DOMAIN A /\ IsFiniteSet(DOMAIN A)
    BY <1>2, LenProperties, FS_Interval DEF GroupInv
  <2>2. IsFiniteSet(free)
    BY <2>1, FS_Subset
  <2>. QED  BY <1>1, <2>2, FS_EmptySet, FS_CardinalityType, ToComeCounted
<1>6. TallyInv(E, A)'
  <2>1. /\ tally \in Tally
        /\ OfExpected(tally) + Cardinality(ToCome(E, groups, todo)) = Len(E)
        /\ OfActual(tally) + Cardinality(before) = Len(A)
    BY <1>2 DEF TallyInv
  <2>2. Cardinality(ToCome(A, groups', free')) = Cardinality(after)
    BY <1>1
  <2>. HIDE DEF before, after
  <2>3. /\ tally' \in Tally
        /\ OfExpected(tally) \in Nat /\ OfExpected(tally') = OfExpected(tally)
        /\ OfActual(tally) \in Nat /\ OfActual(tally') = OfActual(tally) + Cardinality(free)
    BY <1>1, <1>5, <2>1, TallyUnexpected
  <2>4. OfActual(tally') + Cardinality(after) = Len(A)
    BY <1>4, <1>5, <2>1, <2>3
  <2>. QED  BY <1>1, <2>1, <2>2, <2>3, <2>4 DEF TallyInv
<1>7. ~ Spotless'
  <2>1. tally.unexpected \in Nat /\ tally'.unexpected = tally.unexpected + Cardinality(free)
    BY <1>1, <1>2, <1>5, TallyUnexpected DEF TallyInv
  <2>. QED  BY <1>5, <2>1 DEF Spotless
<1>8. ~ (Same(E, A) /\ ~ Tied(E))
  BY <1>1, Counterpart
<1>. QED  BY <1>3, <1>6, <1>7, <1>8 DEF PairInv, EvenInv

\* At the end the report is exact.
LEMMA ReportExact ==
    ASSUME NEW E \in Seq(Alert), NEW A \in Seq(Alert), PairInv(E, A), AllPaired, report = Report
    PROVE  /\ report.status = "pass" => Same(E, A)
           /\ Same(E, A) /\ ~ Tied(E) => report.status = "pass"
           /\ report.missing - report.unexpected = Len(E) - Len(A)
           /\ report.matched + report.mismatched + report.missing = Len(E)
<1>1. GroupInv(E, A) /\ TallyInv(E, A) /\ EvenInv(E, A)
  BY DEF PairInv
<1>2. ToCome(E, groups, todo) = {} /\ ToCome(A, groups, free) = {}
  BY DEF AllPaired, ToCome
<1>3. /\ report.status = "pass" <=> Spotless
      /\ report.matched = tally.matched /\ report.mismatched = tally.mismatched
      /\ report.missing = tally.missing /\ report.unexpected = tally.unexpected
  BY DEF Report, Spotless
<1>4. ASSUME Spotless PROVE Same(E, A)
  <2>. SUFFICES ASSUME NEW a \in SX!ToSet(E) \cup SX!ToSet(A) PROVE Times(a, E) = Times(a, A)
    BY DEF Same
  <2>1. a \in Alert
    <3>1. DOMAIN E = 1 .. Len(E) /\ DOMAIN A = 1 .. Len(A)
      BY LenProperties
    <3>. QED  BY <3>1, ElementOfSeq DEF SX!ToSet
  <2>2. Cardinality(Awaited(a, E, groups, todo)) = 0 /\ Cardinality(Awaited(a, A, groups, free)) = 0
    <3>1. Awaited(a, E, groups, todo) = {} /\ Awaited(a, A, groups, free) = {}
      BY <1>2 DEF Awaited
    <3>. QED  BY <3>1, FS_EmptySet
  <2>3. Times(a, E) + Cardinality(Awaited(a, A, groups, free))
            = Times(a, A) + Cardinality(Awaited(a, E, groups, todo))
    BY <1>1, <1>4, <2>1 DEF EvenInv
  <2>4. Times(a, E) \in Nat /\ Times(a, A) \in Nat
    BY TimesCount
  <2>. QED  BY ONLY <2>2, <2>3, <2>4
<1>6. /\ tally.matched \in Nat /\ tally.mismatched \in Nat /\ tally.missing \in Nat /\ tally.unexpected \in Nat
  BY <1>1 DEF TallyInv, Tally
<1>5. OfExpected(tally) = Len(E) /\ OfActual(tally) = Len(A)
  <2>1. Cardinality(ToCome(E, groups, todo)) = 0 /\ Cardinality(ToCome(A, groups, free)) = 0
    BY <1>2, FS_EmptySet
  <2>2. /\ OfExpected(tally) + Cardinality(ToCome(E, groups, todo)) = Len(E)
        /\ OfActual(tally) + Cardinality(ToCome(A, groups, free)) = Len(A)
    BY <1>1 DEF TallyInv
  <2>3. OfExpected(tally) \in Nat /\ OfActual(tally) \in Nat
    BY ONLY <1>1, TallyCounts DEF TallyInv
  <2>. QED  BY ONLY <2>1, <2>2, <2>3
<1>. QED  BY <1>3, <1>4, <1>5, <1>6 DEF PairInv, OfExpected, OfActual

\* Each step of the comparison.
LEMMA PairKeeps ==
    ASSUME NEW E \in Seq(Alert), NEW A \in Seq(Alert), PairInv(E, A), Pair(E, A, Exactly)
    PROVE  PairInv(E, A)'
BY BeginKeeps, PairNextKeeps, EndKeeps DEF Pair

\* The alerts of a stream of events.
LEMMA AlertsOfStream ==
    ASSUME NEW s \in Seq(Event)
    PROVE  Alerts(s) \in Seq(Alert) /\ Len(Alerts(s)) = Len(s)
<1>1. Len(s) \in Nat /\ DOMAIN s = 1 .. Len(s)
  BY LenProperties
<1>2. ASSUME NEW n \in 1 .. Len(s)
      PROVE  [key |-> s[n].key, time |-> s[n].ts, score |-> s[n].chunk] \in Alert
  <2>1. s[n] \in Event
    BY <1>1, <1>2, ElementOfSeq
  <2>. QED  BY <2>1 DEF Event, Alert
<1>3. Alerts(s) \in [1 .. Len(s) -> Alert]
  BY <1>1, <1>2 DEF Alerts
<1>. QED  BY <1>1, <1>3, IsASeq, LenProperties

\* Both sides of the comparison, once there is something to send.
LEMMA SidesCompared ==
    ASSUME BenchInv, CompareInv, pc \in {"verify", "pair", "done"}
    PROVE  /\ merged \in Seq(Event) /\ result \in Seq(Event)
           /\ Expected \in Seq(Alert) /\ Len(Expected) = Len(merged)
           /\ Actual \in Seq(Alert) /\ Len(Actual) = Len(result)
<1>1. merged \in Seq(Event)
  BY DEF BenchInv, MergeInv
<1>2. result \in Seq(Event)
  <2>1. CASE kind = << >>
    BY <1>1, <2>1 DEF CompareInv
  <2>2. CASE kind # << >>
    BY <2>2 DEF BenchInv, FaultInv, Passing, Transformed
  <2>. QED  BY <2>1, <2>2
<1>. QED  BY <1>1, <1>2, AlertsOfStream DEF Expected, Actual

\* As long as nothing is sent there is nothing to compare.
LEMMA BeforeComparing ==
    ASSUME CompareInv, pc \notin {"pair", "done"}, UNCHANGED compared,
           pc' \in {"merge", "transform", "insert"}
    PROVE  CompareInv'
BY DEF CompareInv, compared, pairing, NotPaired

\* Every step keeps the comparison in order.
LEMMA CompareStep == BenchInv /\ CompareInv /\ [Next]_vars => CompareInv'
<1>. SUFFICES ASSUME BenchInv, CompareInv, [Next]_vars PROVE CompareInv'
  OBVIOUS
<1>0. PhaseInv
  BY DEF BenchInv
<1>1. CASE MergeNext \/ SecondPass
  <2>1. pc \notin {"pair", "done"} /\ UNCHANGED compared /\ pc' \in {"merge", "insert"}
    BY <1>1 DEF MergeNext, SecondPass
  <2>. QED  BY <2>1, BeforeComparing
<1>2. CASE Assign
  <2>1. pc = "merge" /\ UNCHANGED compared /\ merged' = merged
    BY <1>2 DEF Assign, generated
  <2>2. CASE merged = << >> \/ Faults = {}
    <3>1. pc' = "verify" /\ result' = merged /\ stats' = [stats EXCEPT !.clean = Len(merged)]
      BY <1>2, <2>2 DEF Assign
    <3>2. stats'.drop = 0 /\ stats'.duplicate = 0
      BY <1>0, <2>1, <3>1 DEF PhaseInv, NoFaults
    <3>3. NotPaired'
      BY <2>1 DEF CompareInv, compared, pairing, NotPaired
    <3>. QED  BY <2>1, <3>1, <3>2, <3>3 DEF CompareInv
  <2>3. CASE ~ (merged = << >> \/ Faults = {})
    <3>1. pc' = "transform"
      BY <1>2, <2>3 DEF Assign
    <3>. QED  BY <2>1, <3>1, BeforeComparing
  <2>. QED  BY <2>2, <2>3
<1>3. CASE EmitClean \/ Drop \/ Duplicate \/ Swap \/ Defer \/ Degrade \/ SkipPartner \/ InsertLate
  <2>1. pc \in {"transform", "insert"} /\ pc' = pc
    BY <1>0, <1>3, IterationStays
  <2>2. UNCHANGED compared
    BY <1>3 DEF EmitClean, Drop, Duplicate, Swap, Defer, Degrade, SkipPartner, InsertLate, Emit
  <2>. QED  BY <2>1, <2>2, BeforeComparing
<1>4. CASE Sent
  <2>1. pc = "insert" /\ pc' = "verify" /\ kind' # << >> /\ UNCHANGED compared
    BY <1>0, <1>4 DEF Sent, PhaseInv, faulted
  <2>. QED  BY <2>1 DEF CompareInv, compared, pairing, NotPaired
<1>5. CASE Verify \/ PairAlerts \/ Judge \/ UNCHANGED vars
  <2>1. UNCHANGED << generated, faulted >>
    BY <1>5 DEF Verify, PairAlerts, Judge, vars
  <2>2. /\ merged' = merged /\ result' = result /\ kind' = kind /\ stats' = stats
        /\ Expected' = Expected /\ Actual' = Actual
    BY <2>1 DEF generated, faulted, Expected, Actual, Alerts
  <2>3. pc' \notin {"merge", "transform", "insert"} => pc \notin {"merge", "transform", "insert"}
    BY <1>5 DEF Verify, PairAlerts, Judge, vars
  <2>4. CASE Verify
    <3>1. pc = "verify" /\ pc' = "pair" /\ CollectGroups(Expected, Actual) /\ NotPaired
      BY <2>4 DEF Verify, CompareInv
    <3>2. PICK E \in Seq(Alert), A \in Seq(Alert) : E = Expected /\ A = Actual
      BY <3>1, SidesCompared
    <3>3. PairInv(E, A)'
      BY <3>1, <3>2, PairStarts
    <3>4. PairInv(Expected, Actual)'
      BY <2>2, <3>2, <3>3
    <3>. QED  BY <2>2, <2>3, <3>1, <3>4 DEF CompareInv
  <2>5. CASE PairAlerts
    <3>1. pc = "pair" /\ pc' = "pair" /\ Pair(Expected, Actual, Exactly) /\ PairInv(Expected, Actual)
      BY <2>5 DEF PairAlerts, CompareInv
    <3>2. PICK E \in Seq(Alert), A \in Seq(Alert) : E = Expected /\ A = Actual
      BY <3>1, SidesCompared
    <3>3. PairInv(E, A)'
      BY <3>1, <3>2, PairKeeps
    <3>4. PairInv(Expected, Actual)'
      BY <2>2, <3>2, <3>3
    <3>. QED  BY <2>2, <2>3, <3>1, <3>4 DEF CompareInv
  <2>6. CASE Judge \/ UNCHANGED vars
    <3>1. UNCHANGED pairing
      BY <2>6 DEF Judge, vars, compared
    <3>2. PairInv(Expected, Actual)' <=> PairInv(Expected, Actual)
      BY <2>2, <3>1 DEF pairing, PairInv, GroupInv, TallyInv, EvenInv, Spotless
    <3>3. (NotPaired' <=> NotPaired) /\ (AllPaired' <=> AllPaired) /\ Report' = Report
      BY <3>1 DEF pairing, NotPaired, AllPaired, Report
    <3>4. CASE Judge
      BY <2>2, <2>3, <3>2, <3>3, <3>4 DEF Judge, CompareInv
    <3>5. CASE UNCHANGED vars
      <4>1. pc' = pc /\ report' = report
        BY <3>5 DEF vars, compared
      <4>. QED  BY <2>2, <3>2, <3>3, <4>1 DEF CompareInv
    <3>. QED  BY <2>6, <3>4, <3>5
  <2>. QED  BY <1>5, <2>4, <2>5, <2>6
<1>. QED  BY <1>1, <1>2, <1>3, <1>4, <1>5 DEF Next

\* With no tolerance the verdict tells equal sides from unequal ones, and what
\* is missing or unexpected is what the faults dropped or repeated
\* (verify/mod.rs:27-150, matching.rs:17-80).
THEOREM VerdictIsExact == Spec => []VerdictExact
<1>1. Init => CompareInv
  BY DEF Init, Start, CompareInv
<1>2. BenchInv /\ CompareInv /\ FaultsAccounted => VerdictExact
  <2>. SUFFICES ASSUME BenchInv, CompareInv, FaultsAccounted, pc = "done" PROVE VerdictExact
    BY DEF VerdictExact
  <2>1. PairInv(Expected, Actual) /\ AllPaired /\ report = Report
    BY DEF CompareInv
  <2>2. /\ Expected \in Seq(Alert) /\ Len(Expected) = Len(merged)
        /\ Actual \in Seq(Alert) /\ Len(Actual) = Len(result)
        /\ Len(merged) \in Nat /\ Len(result) \in Nat
    BY SidesCompared, LenProperties
  <2>3. /\ report.status = "pass" => Same(Expected, Actual)
        /\ Same(Expected, Actual) /\ ~ Tied(Expected) => report.status = "pass"
        /\ report.missing - report.unexpected = Len(Expected) - Len(Actual)
        /\ report.matched + report.mismatched + report.missing = Len(Expected)
    BY <2>1, <2>2, ReportExact
  <2>4. Len(Expected) - Len(Actual) = stats.drop - stats.duplicate
    <3>1. CASE kind = << >>
      <4>1. result = merged /\ stats.drop = 0 /\ stats.duplicate = 0
        BY <3>1 DEF CompareInv
      <4>. QED  BY ONLY <2>2, <4>1
    <3>2. CASE kind # << >>
      <4>1. Len(result) = Len(merged) - stats.drop + stats.duplicate
        BY <3>2 DEF FaultsAccounted
      <4>2. stats.drop \in Nat /\ stats.duplicate \in Nat
        BY <3>2 DEF BenchInv, FaultInv, Passing, Transformed
      <4>. QED  BY ONLY <2>2, <4>1, <4>2
    <3>. QED  BY <3>1, <3>2
  <2>. QED  BY <2>3, <2>4 DEF VerdictExact, Same, Tied
<1>. QED  BY <1>1, <1>2, CompareStep, BenchInductive, EveryEventAccounted, PTL DEF Spec

=============================================================================
