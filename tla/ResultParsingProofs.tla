---------------------------- MODULE ResultParsingProofs ----------------------------
(***************************************************************************)
(* Theorems about ResultParsing for any bodies, any number of chunks and   *)
(* songs and any widths of the integers.                                   *)
(*                                                                         *)
(* What is said of all songs of a body is said of the sequence that        *)
(* FlattenSeq makes of the chunks.  Its recursive function is opened here  *)
(* by induction over the naturals, from the fact that every set of them    *)
(* has a least element.                                                    *)
(***************************************************************************)
EXTENDS ResultParsing, SequenceTheorems, WellFoundedInduction, TLAPS

\* Every set of naturals has a least element.
LEMMA LeastNatural ==
  ASSUME NEW T \in SUBSET Nat, T # {}
  PROVE  \E x \in T : \A y \in T : ~(y < x)
<1>1. \E x \in T : \A y \in T : <<y, x>> \notin OpToRel(<, Nat)
  BY NatLessThanWellFounded, WFMin
<1>2. \A x, y \in Nat : y < x => <<y, x>> \in OpToRel(<, Nat)
  BY DEF OpToRel
<1> QED
  BY <1>1, <1>2

\* Induction, about the set of the numbers of which something holds.
LEMMA NatSetInduction ==
  ASSUME NEW T, 0 \in T, \A n \in Nat : n \in T => n + 1 \in T
  PROVE  \A n \in Nat : n \in T
<1> SUFFICES ASSUME Nat \ T # {} PROVE FALSE
  OBVIOUS
<1>1. PICK x \in Nat \ T : \A y \in Nat \ T : ~(y < x)
  BY LeastNatural
<1>2. x # 0 /\ x - 1 \in Nat /\ x - 1 < x /\ (x - 1) + 1 = x
  BY <1>1
<1>3. x - 1 \in T
  BY <1>1, <1>2
<1> QED
  BY <1>1, <1>2, <1>3

-----------------------------------------------------------------------------
(* FlattenSeq *)

\* f takes every number of sequences to their concatenation.
Flattens(f, seqs, n) ==
  f = [i \in 1..n |-> IF i = 1 THEN seqs[i] ELSE f[i - 1] \o seqs[i]]

LEMMA FlattensExists ==
  ASSUME NEW seqs, NEW n \in Nat
  PROVE  \E f : Flattens(f, seqs, n)
<1> DEFINE T == {m \in Nat : \E f : Flattens(f, seqs, m)}
<1>1. 0 \in T
  <2>1. Flattens([i \in 1..0 |-> seqs], seqs, 0)
    BY DEF Flattens
  <2> QED
    BY <2>1
<1>2. ASSUME NEW m \in Nat, m \in T PROVE m + 1 \in T
  <2>1. PICK f : Flattens(f, seqs, m)
    BY <1>2
  <2> DEFINE last == IF m = 0 THEN seqs[1] ELSE f[m] \o seqs[m + 1]
             g == [i \in 1..m + 1 |-> IF i = m + 1 THEN last ELSE f[i]]
  <2>2. ASSUME NEW i \in 1..m + 1
        PROVE  g[i] = IF i = 1 THEN seqs[i] ELSE g[i - 1] \o seqs[i]
    <3>1. CASE i = m + 1
      BY <3>1
    <3>2. CASE i # m + 1
      <4>1. i \in 1..m /\ (i # 1 => i - 1 \in 1..m) /\ i - 1 # m + 1
        BY <3>2
      <4>2. f[i] = IF i = 1 THEN seqs[i] ELSE f[i - 1] \o seqs[i]
        BY <2>1, <4>1 DEF Flattens
      <4> QED
        BY <3>2, <4>1, <4>2
    <3> QED
      BY <3>1, <3>2
  <2>3. g = [i \in 1..m + 1 |-> IF i = 1 THEN seqs[i] ELSE g[i - 1] \o seqs[i]]
    BY <2>2
  <2>4. \E h : Flattens(h, seqs, m + 1)
    <3> HIDE DEF g
    <3> QED
      BY <2>3 DEF Flattens
  <2> QED
    BY <2>4
<1>3. n \in T
  <2> HIDE DEF T
  <2> QED
    BY <1>1, <1>2, NatSetInduction
<1> QED
  BY <1>3

LEMMA FlattenSeqDef ==
  ASSUME NEW seqs, NEW n \in Nat \ {0}, Len(seqs) = n
  PROVE  \E f : Flattens(f, seqs, n) /\ FlattenSeq(seqs) = f[n]
<1> DEFINE F == CHOOSE f : f = [i \in 1..Len(seqs) |->
                                  IF i = 1 THEN seqs[i] ELSE f[i - 1] \o seqs[i]]
<1>1. FlattenSeq(seqs) = F[Len(seqs)]
  BY DEF FlattenSeq
<1>2. \E f : f = [i \in 1..Len(seqs) |-> IF i = 1 THEN seqs[i] ELSE f[i - 1] \o seqs[i]]
  BY FlattensExists DEF Flattens
<1>3. F = [i \in 1..Len(seqs) |-> IF i = 1 THEN seqs[i] ELSE F[i - 1] \o seqs[i]]
  BY <1>2, Zenon
<1> HIDE DEF F
<1> QED
  BY <1>1, <1>3, Zenon DEF Flattens

\* pre takes every k to the first k sequences, concatenated.
Concatenates(pre, seqs) ==
  /\ pre[0] = <<>>
  /\ \A i \in 1..Len(seqs) : pre[i] = pre[i - 1] \o seqs[i]
  /\ pre[Len(seqs)] = FlattenSeq(seqs)

LEMMA ConcatenatesTyped ==
  ASSUME NEW S, NEW seqs \in Seq(Seq(S)), NEW pre, Concatenates(pre, seqs)
  PROVE  \A i \in 0..Len(seqs) : pre[i] \in Seq(S)
<1> DEFINE T == {i \in Nat : i <= Len(seqs) => pre[i] \in Seq(S)}
<1>0. pre[0] = <<>> /\ \A i \in 1..Len(seqs) : pre[i] = pre[i - 1] \o seqs[i]
  BY Zenon DEF Concatenates
<1>1. 0 \in T
  <2>1. pre[0] \in Seq(S)
    BY <1>0, EmptySeq, Zenon
  <2> QED
    BY <2>1
<1>2. ASSUME NEW m \in Nat, m \in T PROVE m + 1 \in T
  <2>1. CASE m + 1 <= Len(seqs)
    <3>1. m + 1 \in 1..Len(seqs) /\ (m + 1) - 1 = m /\ pre[m] \in Seq(S)
          /\ seqs[m + 1] \in Seq(S)
      BY <1>2, <2>1
    <3>2. pre[m + 1] = pre[m] \o seqs[m + 1]
      BY <1>0, <3>1, Zenon
    <3>3. pre[m + 1] \in Seq(S)
      BY <3>1, <3>2, ConcatProperties, Zenon
    <3> QED
      BY <3>3
  <2> QED
    BY <2>1
<1> HIDE DEF T
<1>3. \A n \in Nat : n \in T
  BY <1>1, <1>2, NatSetInduction
<1> QED
  BY <1>3 DEF T

LEMMA ConcatenatesExists ==
  ASSUME NEW S, NEW seqs \in Seq(Seq(S))
  PROVE  \E pre \in [0..Len(seqs) -> Seq(S)] : Concatenates(pre, seqs)
<1> DEFINE n == Len(seqs)
<1>1. CASE n = 0
  <2>1. seqs = <<>> /\ FlattenSeq(seqs) = <<>>
    BY <1>1 DEF FlattenSeq
  <2>2. Concatenates([i \in 0..0 |-> <<>>], seqs)
    BY <1>1, <2>1 DEF Concatenates
  <2> QED
    BY <1>1, <2>2
<1>2. CASE n # 0
  <2>1. n \in Nat \ {0}
    BY <1>2
  <2>2. PICK f : Flattens(f, seqs, n) /\ FlattenSeq(seqs) = f[n]
    BY <2>1, FlattenSeqDef
  <2> DEFINE pre == [i \in 0..n |-> IF i = 0 THEN <<>> ELSE f[i]]
  <2>3. ASSUME NEW i \in 1..n PROVE pre[i] = pre[i - 1] \o seqs[i]
    <3>1. f[i] = IF i = 1 THEN seqs[i] ELSE f[i - 1] \o seqs[i]
      BY <2>2 DEF Flattens
    <3>4. pre[i] = f[i] /\ pre[i - 1] = IF i = 1 THEN <<>> ELSE f[i - 1]
      BY <2>1
    <3> HIDE DEF pre
    <3>2. CASE i = 1
      <4>1. <<>> \o seqs[i] = seqs[i]
        BY ConcatEmptySeq
      <4> QED
        BY <3>1, <3>2, <3>4, <4>1, Zenon
    <3>3. CASE i # 1
      BY <3>1, <3>3, <3>4, Zenon
    <3> QED
      BY <3>2, <3>3
  <2>4. pre[0] = <<>> /\ pre[n] = FlattenSeq(seqs)
    BY <2>1, <2>2
  <2>5. Concatenates(pre, seqs) /\ pre = [i \in 0..n |-> pre[i]]
    <3>1. pre = [i \in 0..n |-> pre[i]]
      OBVIOUS
    <3> HIDE DEF pre
    <3> QED
      BY <2>3, <2>4, <3>1 DEF Concatenates
  <2> HIDE DEF pre
  <2>6. pre \in [0..n -> Seq(S)]
    BY <2>5, ConcatenatesTyped
  <2> QED
    BY <2>5, <2>6
<1> QED
  BY <1>1, <1>2

Starts(s, t) == Len(s) <= Len(t) /\ \A i \in 1..Len(s) : t[i] = s[i]

\* What is in a prefix stays where it is in every longer one.
LEMMA PrefixesGrow ==
  ASSUME NEW S, NEW seqs \in Seq(Seq(S)), NEW pre \in [0..Len(seqs) -> Seq(S)],
         Concatenates(pre, seqs), NEW k \in 0..Len(seqs), NEW n \in k..Len(seqs)
  PROVE  Starts(pre[k], pre[n])
<1> USE DEF Starts
<1> DEFINE T == {d \in Nat : k + d <= Len(seqs) => Starts(pre[k], pre[k + d])}
<1>1. 0 \in T
  OBVIOUS
<1>2. ASSUME NEW d \in Nat, d \in T PROVE d + 1 \in T
  <2>1. CASE k + (d + 1) <= Len(seqs)
    <3>1. /\ k + d \in 0..Len(seqs) /\ k + d + 1 \in 1..Len(seqs)
          /\ (k + d + 1) - 1 = k + d /\ k + (d + 1) = k + d + 1
      BY <2>1
    <3>2. PICK m \in 0..Len(seqs) : m = k + d
      BY <3>1
    <3>3. m + 1 \in 1..Len(seqs) /\ m + 1 \in 0..Len(seqs) /\ (m + 1) - 1 = m /\ Starts(pre[k], pre[m])
      BY <1>2, <3>1, <3>2
    <3>4. pre[m + 1] = pre[m] \o seqs[m + 1] /\ seqs[m + 1] \in Seq(S)
      <4>1. pre[m + 1] = pre[m] \o seqs[m + 1]
        BY <3>3, Zenon DEF Concatenates
      <4> QED
        BY <3>3, <4>1
    <3>5. /\ Len(pre[m + 1]) = Len(pre[m]) + Len(seqs[m + 1])
          /\ \A i \in 1..Len(pre[m]) : pre[m + 1][i] = pre[m][i]
      BY <3>3, <3>4
    <3>6. Starts(pre[k], pre[m + 1])
      BY <3>3, <3>4, <3>5
    <3> QED
      BY <3>1, <3>2, <3>6
  <2> QED
    BY <2>1
<1>3. \A d \in Nat : d \in T
  <2> HIDE DEF T
  <2> QED
    BY <1>1, <1>2, NatSetInduction
<1>4. n - k \in Nat /\ k + (n - k) = n /\ n <= Len(seqs)
  OBVIOUS
<1> QED
  BY <1>3, <1>4

\* The j-th element of the k-th sequence is where the ones before it end, plus j.
Placed(pre, seqs, k) ==
  /\ Len(pre[k]) = Len(pre[k - 1]) + Len(seqs[k])
  /\ Len(pre[k]) <= Len(FlattenSeq(seqs))
  /\ \A j \in 1..Len(seqs[k]) : FlattenSeq(seqs)[Len(pre[k - 1]) + j] = seqs[k][j]

LEMMA FlattenedAt ==
  ASSUME NEW S, NEW seqs \in Seq(Seq(S)), NEW pre \in [0..Len(seqs) -> Seq(S)],
         Concatenates(pre, seqs), NEW k \in 1..Len(seqs)
  PROVE  Placed(pre, seqs, k)
<1>1. /\ k - 1 \in 0..Len(seqs) /\ k \in 0..Len(seqs) /\ Len(seqs) \in k..Len(seqs)
      /\ seqs[k] \in Seq(S)
  OBVIOUS
<1>2. pre[k] = pre[k - 1] \o seqs[k] /\ pre[Len(seqs)] = FlattenSeq(seqs)
  BY DEF Concatenates
<1>3. /\ Len(pre[k]) = Len(pre[k - 1]) + Len(seqs[k])
      /\ \A j \in 1..Len(seqs[k]) : pre[k][Len(pre[k - 1]) + j] = seqs[k][j]
  BY <1>1, <1>2
<1>4. Starts(pre[k], pre[Len(seqs)])
  BY <1>1, PrefixesGrow, Zenon
<1>5. ASSUME NEW j \in 1..Len(seqs[k])
      PROVE  pre[Len(seqs)][Len(pre[k - 1]) + j] = seqs[k][j]
  <2>1. Len(pre[k - 1]) + j \in 1..Len(pre[k])
    BY <1>1, <1>3
  <2> QED
    BY <1>3, <1>4, <2>1 DEF Starts
<1> QED
  BY <1>2, <1>3, <1>4, <1>5 DEF Starts, Placed

-----------------------------------------------------------------------------
(* The readers of numbers *)

LEMMA Limits ==
  /\ LongLimit \in Nat \ {0} /\ IntLimit \in Nat \ {0} /\ IntLimit <= LongLimit
  /\ LongLimit \in Int /\ IntLimit \in Int /\ 1 < IntLimit
BY CoAssumption DEF CoAssumption

LEMMA Modulo ==
  ASSUME NEW m \in Nat \ {0}, NEW n \in Int
  PROVE  /\ n % m \in 0..m - 1
         /\ n \in 0..m - 1 => n % m = n
         /\ n \in m..2 * m - 1 => n % m = n - m
OBVIOUS

\* A conversion gives a number of the type, the same number if it is one already,
\* and of the numbers a JSON parser makes only 0 becomes 0.
LEMMA WrapFacts ==
  ASSUME NEW limit \in Nat \ {0}, NEW n \in Int
  PROVE  /\ Wrap(n, limit) \in -limit .. limit - 1
         /\ Fits(n, limit) => Wrap(n, limit) = n
         /\ n \in -limit .. 2 * limit - 1 /\ Wrap(n, limit) = 0 => n = 0
<1>1. PICK m \in Nat \ {0} : m = 2 * limit
  OBVIOUS
<1>2. PICK q \in Int : q = n + limit
  OBVIOUS
<1>3. /\ q % m \in 0..m - 1
      /\ q \in 0..m - 1 => q % m = q
      /\ q \in m..2 * m - 1 => q % m = q - m
  BY Modulo
<1>4. PICK r \in Int : r = q % m
  BY <1>3
<1>5. Wrap(n, limit) = r - limit
  BY <1>1, <1>2, <1>4 DEF Wrap
<1> QED
  BY <1>1, <1>2, <1>3, <1>4, <1>5 DEF Fits

LEMMA ValueOrFacts ==
  ASSUME NEW d
  PROVE  /\ ValueOr({}, d) = d
         /\ \A n : ValueOr({n}, d) = n
BY DEF ValueOr

LEMMA TruncInt == ASSUME NEW h \in Int PROVE Trunc(h) \in Int
BY DEF Trunc

\* What coerce_int may return: nothing or a number of 64 bits; if the number the
\* value stands for fits, that one; and nothing only for what stands for 0.
LEMMA CoercedIntsFacts ==
  ASSUME NEW v, IsValue(v), NEW o \in CoercedInts(v)
  PROVE  /\ (o = {} \/ \E n \in Longs : o = {n})
         /\ (Fits(Denoted(v), LongLimit) => o = {Denoted(v)} \/ (o = {} /\ Denoted(v) = 0))
         /\ v.kind # "bool" => (o # {}) = HoldsId(v)
<1> USE Limits
<1>1. CASE v.kind = "integer"
  <2>1. v.n \in Int
    BY <1>1 DEF IsValue
  <2>2. o = {Wrap(v.n, LongLimit)} /\ Denoted(v) = v.n /\ HoldsId(v)
    BY <1>1 DEF CoercedInts, Denoted, HoldsId
  <2>3. Wrap(v.n, LongLimit) \in Longs
        /\ (Fits(v.n, LongLimit) => Wrap(v.n, LongLimit) = v.n)
    BY <2>1, WrapFacts DEF Longs
  <2> QED
    BY <2>2, <2>3
<1>2. CASE v.kind = "real"
  <2>1. v.halves \in Int /\ Trunc(v.halves) \in Int
    BY <1>2, TruncInt DEF IsValue
  <2>2. Denoted(v) = Trunc(v.halves) /\ HoldsId(v)
    BY <1>2 DEF Denoted, HoldsId
  <2>3. CASE Fits(Trunc(v.halves), LongLimit)
    <3>1. o = {Trunc(v.halves)}
      BY <1>2, <2>3 DEF CoercedInts
    <3>2. Trunc(v.halves) \in Longs
      BY <2>1, <2>3 DEF Fits, Longs
    <3> QED
      BY <2>2, <3>1, <3>2
  <2>4. CASE ~Fits(Trunc(v.halves), LongLimit)
    <3>1. \E n \in Longs : o = {n}
      BY <1>2, <2>4 DEF CoercedInts
    <3> QED
      BY <2>2, <2>4, <3>1
  <2> QED
    BY <2>3, <2>4
<1>3. CASE v.kind = "bool"
  <2>1. o = {IF v.b THEN 1 ELSE 0} /\ Denoted(v) = IF v.b THEN 1 ELSE 0
    BY <1>3 DEF CoercedInts, Denoted
  <2>2. 0 \in Longs /\ 1 \in Longs
    BY DEF Longs
  <2> QED
    BY <1>3, <2>1, <2>2
<1>4. CASE v.kind = "string"
  <2>1. o = ParsedInt(v.text)
    BY <1>4 DEF CoercedInts
  <2>2. CASE v.text.form = "integer" /\ Fits(v.text.n, LongLimit)
    <3>1. o = {v.text.n} /\ Denoted(v) = v.text.n /\ HoldsId(v)
      BY <1>4, <2>1, <2>2 DEF ParsedInt, Denoted, HoldsId
    <3>2. v.text.n \in Longs
      BY <1>4, <2>2 DEF IsValue, IsText, Fits, Longs
    <3> QED
      BY <3>1, <3>2
  <2>3. CASE v.text.form = "integer" /\ ~Fits(v.text.n, LongLimit)
    BY <1>4, <2>1, <2>3 DEF ParsedInt, Denoted, HoldsId
  <2>4. CASE v.text.form # "integer"
    BY <1>4, <2>1, <2>4 DEF ParsedInt, Denoted, HoldsId
  <2> QED
    BY <2>2, <2>3, <2>4
<1>5. CASE v.kind \notin {"integer", "real", "bool", "string"}
  BY <1>5 DEF CoercedInts, Denoted, HoldsId
<1> QED
  BY <1>1, <1>2, <1>3, <1>4, <1>5

LEMMA DenotedInt == ASSUME NEW v, IsValue(v) PROVE Denoted(v) \in Int
BY TruncInt DEF IsValue, IsText, Denoted

\* What coerce_int returned, or 0, is the number the value stands for if it fits.
LEMMA CoercedOrZero ==
  ASSUME NEW v, IsValue(v), NEW o \in CoercedInts(v)
  PROVE  ValueOr(o, 0) \in Longs /\ ReadAs(ValueOr(o, 0), v, LongLimit)
<1>1. o = {} \/ \E n \in Longs : o = {n}
  BY CoercedIntsFacts
<1>2. Fits(Denoted(v), LongLimit) => o = {Denoted(v)} \/ (o = {} /\ Denoted(v) = 0)
  BY CoercedIntsFacts
<1>3. ASSUME NEW n, o = {n} PROVE ValueOr(o, 0) = n
  BY <1>3, ValueOrFacts
<1>4. o = {} => ValueOr(o, 0) = 0
  BY ValueOrFacts
<1>5. 0 \in Longs
  BY Limits DEF Longs
<1> QED
  BY <1>1, <1>2, <1>3, <1>4, <1>5 DEF ReadAs

\* Every reader gives numbers of its type, and the number the value stands for
\* if that fits.
LEMMA Int64sOfFacts ==
  ASSUME NEW v, IsValue(v), NEW n \in Int64sOf(v)
  PROVE  n \in Longs /\ ReadAs(n, v, LongLimit)
BY CoercedOrZero DEF Int64sOf

LEMMA IntsOfFacts ==
  ASSUME NEW v, IsValue(v), NEW n \in IntsOf(v)
  PROVE  n \in Ints /\ ReadAs(n, v, IntLimit)
<1>1. PICK o \in CoercedInts(v) : n = Wrap(ValueOr(o, 0), IntLimit)
  BY DEF IntsOf
<1>2. ValueOr(o, 0) \in Int /\ ReadAs(ValueOr(o, 0), v, LongLimit)
  BY CoercedOrZero, Limits DEF Longs
<1>3. /\ n \in -IntLimit .. IntLimit - 1
      /\ Fits(ValueOr(o, 0), IntLimit) => n = ValueOr(o, 0)
  BY <1>1, <1>2, WrapFacts, Limits
<1>4. Fits(Denoted(v), IntLimit) => Fits(Denoted(v), LongLimit)
  BY DenotedInt, Limits DEF Fits
<1> QED
  BY <1>2, <1>3, <1>4 DEF Ints, ReadAs

LEMMA IdsOfFacts ==
  ASSUME NEW v, IsValue(v), NEW id \in IdsOf(v)
  PROVE  /\ id \subseteq Ints /\ (id # {}) = HoldsId(v)
         /\ \A m \in id : ReadAs(m, v, IntLimit)
<1>1. PICK o \in CoercedIds(v) : id = {Wrap(n, IntLimit) : n \in o}
  BY DEF IdsOf
<1>2. CASE v.kind = "bool"
  <2>1. o = {}
    BY <1>1, <1>2 DEF CoercedIds
  <2> QED
    BY <1>1, <1>2, <2>1 DEF HoldsId
<1>3. CASE v.kind # "bool"
  <2>1. o \in CoercedInts(v)
    BY <1>1, <1>3 DEF CoercedIds
  <2>2. (o # {}) = HoldsId(v) /\ (o = {} \/ \E n \in Longs : o = {n})
    BY <1>3, <2>1, CoercedIntsFacts
  <2>3. \A n \in o : n \in Int
    BY <2>2, Limits DEF Longs
  <2>4. \A n \in o : /\ Wrap(n, IntLimit) \in Ints
                     /\ Fits(n, IntLimit) => Wrap(n, IntLimit) = n
    BY <2>3, WrapFacts, Limits DEF Ints
  <2>5. ASSUME NEW m \in id PROVE ReadAs(m, v, IntLimit)
    <3>1. PICK n \in o : m = Wrap(n, IntLimit)
      BY <1>1
    <3>2. Fits(Denoted(v), LongLimit) => n = Denoted(v)
      BY <2>1, <3>1, CoercedIntsFacts
    <3>3. Fits(Denoted(v), IntLimit) => Fits(Denoted(v), LongLimit)
      BY DenotedInt, Limits DEF Fits
    <3>4. Fits(n, IntLimit) => m = n
      BY <2>4, <3>1
    <3>5. ASSUME Fits(Denoted(v), IntLimit) PROVE m = Denoted(v)
      <4>1. n = Denoted(v)
        BY <3>2, <3>3, <3>5
      <4> QED
        BY <3>4, <3>5, <4>1
    <3> QED
      BY <3>5 DEF ReadAs
  <2>6. id \subseteq Ints /\ (id # {}) = HoldsId(v)
    BY <1>1, <2>2, <2>4
  <2> QED
    BY <2>5, <2>6
<1> QED
  BY <1>2, <1>3

LEMMA TimesFacts ==
  ASSUME NEW v, IsValue(v), NEW n \in Times(v)
  PROVE  n \in Ints /\ (v.kind # "string" => ReadAs(n, v, IntLimit))
<1> USE Limits
<1>1. CASE v.kind = "string"
  BY <1>1 DEF Times, Ints
<1>2. CASE v.kind = "real"
  <2>1. Trunc(v.halves) \in Int /\ Denoted(v) = Trunc(v.halves)
    BY <1>2, TruncInt DEF IsValue, Denoted
  <2> QED
    BY <1>2, <2>1 DEF Times, Ints, Fits, ReadAs
<1>3. CASE v.kind \notin {"string", "real"}
  <2>1. n \in IntsOf(v)
    BY <1>3 DEF Times
  <2> QED
    BY <2>1, IntsOfFacts
<1> QED
  BY <1>1, <1>2, <1>3

-----------------------------------------------------------------------------
(* Texts *)

LEMMA StrIsText == ASSUME NEW v, IsValue(v) PROVE IsText(Str(v))
<1>1. CASE v.kind = "string"
  <2>1. Str(v) = v.text
    BY <1>1, ValueOrFacts DEF Str, CoercedString
  <2> QED
    BY <1>1, <2>1 DEF IsValue
<1>2. ASSUME NEW w PROVE IsText(Word(w))
  BY DEF IsText, Word
<1>3. ASSUME NEW n \in Int PROVE IsText(IntegerText(n)) /\ IsText(DecimalText(n))
  BY DEF IsText, IntegerText, Spelled, DecimalText
<1>4. CASE v.kind = "bool"
  <2>1. CoercedString(v) = {Word(IF v.b THEN "true" ELSE "false")}
    BY <1>4 DEF CoercedString
  <2>2. Str(v) = Word(IF v.b THEN "true" ELSE "false")
    BY <2>1, ValueOrFacts DEF Str
  <2> QED
    BY <1>2, <2>2
<1>5. CASE v.kind = "integer"
  <2>1. CoercedString(v) = {IntegerText(Wrap(v.n, LongLimit))}
    BY <1>5 DEF CoercedString
  <2>2. Str(v) = IntegerText(Wrap(v.n, LongLimit))
    BY <2>1, ValueOrFacts DEF Str
  <2>3. v.n \in Int
    BY <1>5, Limits DEF IsValue
  <2>4. Wrap(v.n, LongLimit) \in Int
    BY <2>3, WrapFacts, Limits
  <2> QED
    BY <1>3, <2>2, <2>4
<1>6. CASE v.kind = "real"
  <2>1. \/ CoercedString(v) = {IntegerText(v.halves \div 2)}
        \/ CoercedString(v) = {DecimalText(v.halves)}
    BY <1>6 DEF CoercedString
  <2>2. Str(v) = IntegerText(v.halves \div 2) \/ Str(v) = DecimalText(v.halves)
    <3>1. \A n, d : ValueOr({n}, d) = n
      BY ValueOrFacts
    <3> QED
      BY <2>1, <3>1, Zenon DEF Str
  <2>3. v.halves \in Int /\ v.halves \div 2 \in Int
    BY <1>6 DEF IsValue
  <2> QED
    BY <1>3, <2>2, <2>3
<1>7. CASE v.kind \notin {"string", "bool", "integer", "real"}
  <2>1. Str(v) = EmptyText
    BY <1>7, ValueOrFacts DEF Str, CoercedString
  <2> QED
    BY <1>2, <2>1 DEF EmptyText
<1> QED
  BY <1>1, <1>4, <1>5, <1>6, <1>7

\* An integer that fits is printed as it is.
LEMMA TextOfInteger ==
  ASSUME NEW v, IsValue(v), v.kind = "integer", Fits(v.n, LongLimit)
  PROVE  Str(v) = IntegerText(v.n)
<1>1. v.n \in Int
  BY Limits DEF IsValue
<1>2. Wrap(v.n, LongLimit) = v.n
  BY <1>1, WrapFacts, Limits
<1>3. CoercedString(v) = {IntegerText(v.n)}
  BY <1>2 DEF CoercedString
<1> QED
  BY <1>3, ValueOrFacts DEF Str

\* What the readers of numbers make of a text.
LEMMA IntsOfText ==
  /\ \A n \in Int : Fits(n, LongLimit) => CoercedInts(String(IntegerText(n))) = {{n}}
  /\ \A h : CoercedInts(String(DecimalText(h))) = {{}}
  /\ \A w : CoercedInts(String(Word(w))) = {{}}
BY DEF CoercedInts, String, ParsedInt, IntegerText, Spelled, DecimalText, Word

\* The text of a number that fits is read as that number, or is unreadable.
LEMMA NumberOfItsText ==
  ASSUME NEW v, IsValue(v), v.kind # "string", Fits(Denoted(v), LongLimit),
         NEW o \in CoercedInts(String(Str(v)))
  PROVE  o = {} \/ (o = {Denoted(v)} /\ v.kind \in {"integer", "real"})
<1>1. CASE v.kind = "integer"
  <2>1. Denoted(v) = v.n /\ v.n \in Int
    BY <1>1, Limits DEF Denoted, IsValue
  <2> QED
    BY <1>1, <2>1, TextOfInteger, IntsOfText
<1>2. CASE v.kind = "real"
  <2>1. v.halves \in Int /\ Denoted(v) = Trunc(v.halves)
    BY <1>2 DEF IsValue, Denoted
  <2>2. CASE v.halves % 2 = 0 /\ Fits(v.halves \div 2, LongLimit)
    <3>1. CoercedString(v) = {IntegerText(v.halves \div 2)}
      BY <1>2, <2>2 DEF CoercedString
    <3>2. Str(v) = IntegerText(v.halves \div 2)
      BY <3>1, ValueOrFacts DEF Str
    <3>3. Trunc(v.halves) = v.halves \div 2 /\ v.halves \div 2 \in Int
      BY <2>1, <2>2 DEF Trunc
    <3> QED
      BY <1>2, <2>1, <2>2, <3>2, <3>3, IntsOfText
  <2>3. CASE ~(v.halves % 2 = 0 /\ Fits(v.halves \div 2, LongLimit))
    <3>1. CoercedString(v) = {DecimalText(v.halves)}
      BY <1>2, <2>3 DEF CoercedString
    <3>2. Str(v) = DecimalText(v.halves)
      BY <3>1, ValueOrFacts DEF Str
    <3> QED
      BY <3>2, IntsOfText
  <2> QED
    BY <2>2, <2>3
<1>3. CASE v.kind \notin {"integer", "real"}
  <2>1. \E w : Str(v) = Word(w)
    <3>1. CASE v.kind = "bool"
      <4>1. CoercedString(v) = {Word(IF v.b THEN "true" ELSE "false")}
        BY <3>1 DEF CoercedString
      <4> QED
        BY <4>1, ValueOrFacts DEF Str
    <3>2. CASE v.kind # "bool"
      <4>1. CoercedString(v) = {}
        BY <1>3, <3>2 DEF CoercedString
      <4> QED
        BY <4>1, ValueOrFacts DEF Str, EmptyText
    <3> QED
      BY <3>1, <3>2
  <2> QED
    BY <2>1, IntsOfText
<1> QED
  BY <1>1, <1>2, <1>3

\* What is read of a number that fits agrees with its text.
LEMMA ReadAgrees ==
  ASSUME NEW v, IsValue(v), NEW n, NEW limit \in {IntLimit, LongLimit}, ReadAs(n, v, limit)
  PROVE  Agrees({n}, v, limit)
<1> SUFFICES ASSUME v.kind # "string", Fits(Denoted(v), limit), NEW o \in CoercedInts(String(Str(v)))
             PROVE  o \subseteq {n}
  BY DEF Agrees
<1>1. Fits(Denoted(v), LongLimit)
  BY DenotedInt, Limits DEF Fits
<1>2. n = Denoted(v)
  BY DEF ReadAs
<1> QED
  BY <1>1, <1>2, NumberOfItsText

LEMMA IdAgrees ==
  ASSUME NEW v, IsValue(v), NEW id \in IdsOf(v)
  PROVE  Agrees(id, v, IntLimit)
<1> SUFFICES ASSUME v.kind # "string", Fits(Denoted(v), IntLimit),
                    NEW o \in CoercedInts(String(Str(v)))
             PROVE  o \subseteq id
  BY DEF Agrees
<1>1. Fits(Denoted(v), LongLimit)
  BY DenotedInt, Limits DEF Fits
<1>2. CASE o = {}
  BY <1>2
<1>3. CASE o = {Denoted(v)} /\ v.kind \in {"integer", "real"}
  <2>1. id # {} /\ \A m \in id : m = Denoted(v)
    BY <1>3, IdsOfFacts DEF HoldsId, ReadAs
  <2> QED
    BY <1>3, <2>1
<1> QED
  BY <1>1, <1>2, <1>3, NumberOfItsText

\* No text is both true and false.
LEMMA TextTruth ==
  ASSUME NEW t
  PROVE  CoercedBool(String(t)) = IF IsFalse(t) THEN {FALSE} ELSE IF IsTrue(t) THEN {TRUE} ELSE {}
<1>1. ~(IsFalse(t) /\ IsTrue(t))
  <2>1. \A w : w \in {"", " ", "false", "no", "off"} => w \notin {"true", "yes", "on"}
    OBVIOUS
  <2>2. t.form = "word" => t.form # "integer"
    OBVIOUS
  <2>3. t.n = 0 => t.n # 1
    OBVIOUS
  <2> QED
    BY <2>1, <2>2, <2>3, Zenon DEF IsFalse, IsTrue, Is
<1>2. /\ String(t).kind = "string" /\ String(t).text = t
  BY DEF String
<1>3. CoercedBool(String(t)) =
        CASE IsFalse(t) -> {FALSE} [] IsTrue(t) -> {TRUE} [] OTHER -> {}
  BY <1>2 DEF CoercedBool
<1> QED
  BY <1>1, <1>3

\* What text is true or false.
LEMMA BoolOfText ==
  /\ CoercedBool(String(Word("true"))) = {TRUE}
  /\ CoercedBool(String(Word("false"))) = {FALSE}
  /\ \A n : CoercedBool(String(IntegerText(n))) =
              IF n = 0 THEN {FALSE} ELSE IF n = 1 THEN {TRUE} ELSE {}
  /\ \A h : CoercedBool(String(DecimalText(h))) = {}
<1>1. /\ IsTrue(Word("true")) /\ ~IsFalse(Word("true")) /\ IsFalse(Word("false"))
  BY DEF IsTrue, IsFalse, Is, Word
<1>2. /\ \A n : IsFalse(IntegerText(n)) <=> n = 0
      /\ \A n : IsTrue(IntegerText(n)) <=> n = 1
  BY DEF IsTrue, IsFalse, Is, IntegerText, Spelled
<1>3. \A h : ~IsFalse(DecimalText(h)) /\ ~IsTrue(DecimalText(h))
  BY DEF IsTrue, IsFalse, Is, DecimalText
<1>4. ASSUME NEW n
      PROVE  CoercedBool(String(IntegerText(n))) =
               IF n = 0 THEN {FALSE} ELSE IF n = 1 THEN {TRUE} ELSE {}
  <2>1. PICK t : t = IntegerText(n)
    OBVIOUS
  <2>2. (IsFalse(t) <=> n = 0) /\ (IsTrue(t) <=> n = 1)
    BY <1>2, <2>1
  <2>3. CoercedBool(String(t)) =
          IF IsFalse(t) THEN {FALSE} ELSE IF IsTrue(t) THEN {TRUE} ELSE {}
    BY TextTruth
  <2> QED
    BY <2>1, <2>2, <2>3, Zenon
<1>5. ASSUME NEW h PROVE CoercedBool(String(DecimalText(h))) = {}
  BY <1>3, TextTruth
<1>6. /\ CoercedBool(String(Word("true"))) = {TRUE}
      /\ CoercedBool(String(Word("false"))) = {FALSE}
  BY <1>1, TextTruth
<1> QED
  BY <1>4, <1>5, <1>6, Zenon

\* A value and its own text are never read as different truths.
LEMMA TruthOfItsText ==
  ASSUME NEW v, IsValue(v), NEW b \in CoercedBool(v)
  PROVE  CoercedBool(String(Str(v))) \subseteq {b}
<1> USE Limits
<1>1. CASE v.kind = "bool"
  <2>1. b = v.b /\ v.b \in BOOLEAN
    BY <1>1 DEF CoercedBool, IsValue
  <2>2. CoercedString(v) = {Word(IF v.b THEN "true" ELSE "false")}
    BY <1>1 DEF CoercedString
  <2>3. Str(v) = Word(IF v.b THEN "true" ELSE "false")
    BY <2>2, ValueOrFacts DEF Str
  <2> QED
    BY <2>1, <2>3, BoolOfText
<1>2. CASE v.kind = "integer"
  <2>1. b = (v.n # 0) /\ v.n \in -LongLimit .. 2 * LongLimit - 1
    BY <1>2 DEF CoercedBool, IsValue
  <2>2. PICK w : w = Wrap(v.n, LongLimit)
    OBVIOUS
  <2>3. (w = 0 => v.n = 0) /\ (v.n = 0 => w = 0)
    BY <2>1, <2>2, WrapFacts DEF Fits
  <2>4. CoercedString(v) = {IntegerText(w)}
    BY <1>2, <2>2 DEF CoercedString
  <2>5. Str(v) = IntegerText(w)
    BY <2>4, ValueOrFacts DEF Str
  <2> QED
    BY <2>1, <2>3, <2>5, BoolOfText
<1>3. CASE v.kind = "real"
  <2>1. b = (v.halves # 0) /\ v.halves \in Int
    BY <1>3 DEF CoercedBool, IsValue
  <2>2. \/ /\ v.halves % 2 = 0
           /\ CoercedString(v) = {IntegerText(v.halves \div 2)}
        \/ CoercedString(v) = {DecimalText(v.halves)}
    BY <1>3 DEF CoercedString
  <2>3. CASE v.halves % 2 = 0 /\ CoercedString(v) = {IntegerText(v.halves \div 2)}
    <3>1. (v.halves \div 2 = 0) <=> (v.halves = 0)
      BY <2>1, <2>3
    <3>2. Str(v) = IntegerText(v.halves \div 2)
      BY <2>3, ValueOrFacts DEF Str
    <3>3. PICK q : q = v.halves \div 2
      OBVIOUS
    <3>4. (q = 0 => b = FALSE) /\ (q = 1 => b = TRUE)
      <4>1. (v.halves = 0 => b = FALSE) /\ (v.halves # 0 => b = TRUE)
        BY <2>1
      <4> QED
        BY <2>1, <3>1, <3>3, <4>1
    <3> QED
      BY <3>2, <3>3, <3>4, BoolOfText
  <2>4. CASE CoercedString(v) = {DecimalText(v.halves)}
    <3>1. Str(v) = DecimalText(v.halves)
      BY <2>4, ValueOrFacts DEF Str
    <3> QED
      BY <3>1, BoolOfText
  <2> QED
    BY <2>2, <2>3, <2>4
<1>4. CASE v.kind = "string"
  <2>1. Str(v) = v.text
    BY <1>4, ValueOrFacts DEF Str, CoercedString
  <2>2. CoercedBool(String(v.text)) = CoercedBool(v)
    BY <1>4 DEF CoercedBool, String
  <2>3. CoercedBool(v) = {b}
    <3>1. CoercedBool(v) = {FALSE} \/ CoercedBool(v) = {TRUE} \/ CoercedBool(v) = {}
      BY <2>2, TextTruth
    <3> QED
      BY <3>1
  <2> QED
    BY <2>1, <2>2, <2>3
<1>5. CASE v.kind \notin {"bool", "integer", "real", "string"}
  BY <1>5 DEF CoercedBool
<1> QED
  BY <1>1, <1>2, <1>3, <1>4, <1>5

-----------------------------------------------------------------------------
(* Offsets *)

\* f adds up the first parts of a clock, every one a sixtieth of the last.
Totals(f, parts, n) ==
  f = [k \in 0..n |-> IF k = 0 THEN 0 ELSE f[k - 1] * 60 + ValueOr(parts[k], 0)]

LEMMA TotalDef ==
  ASSUME NEW parts, NEW n, n = Len(parts), {NotFinite} \notin ToSet(parts),
         \E f : Totals(f, parts, n)
  PROVE  \E f : Totals(f, parts, n) /\ Total(parts) = f[n]
<1> DEFINE F == CHOOSE f : f = [k \in 0..Len(parts) |->
                     IF k = 0 THEN 0 ELSE f[k - 1] * 60 + ValueOr(parts[k], 0)]
<1>1. Total(parts) = F[Len(parts)]
  BY Zenon DEF Total
<1>2. \E f : f = [k \in 0..Len(parts) |->
                    IF k = 0 THEN 0 ELSE f[k - 1] * 60 + ValueOr(parts[k], 0)]
  BY Zenon DEF Totals
<1>3. F = [k \in 0..Len(parts) |-> IF k = 0 THEN 0 ELSE F[k - 1] * 60 + ValueOr(parts[k], 0)]
  BY <1>2, Zenon
<1> HIDE DEF F
<1> QED
  BY <1>1, <1>3, Zenon DEF Totals

LEMMA TotalOfTwo ==
  ASSUME NEW parts, Len(parts) = 2, NEW m \in Int, NEW s \in Int,
         parts[1] = {m}, parts[2] = {s}, {NotFinite} \notin ToSet(parts)
  PROVE  Total(parts) = 60 * m + s
<1>1. ValueOr(parts[1], 0) = m /\ ValueOr(parts[2], 0) = s
  BY ValueOrFacts
<1> DEFINE g == [k \in 0..2 |-> IF k = 0 THEN 0 ELSE IF k = 1 THEN m ELSE m * 60 + s]
<1>2. ASSUME NEW k \in 0..2
      PROVE  g[k] = IF k = 0 THEN 0 ELSE g[k - 1] * 60 + ValueOr(parts[k], 0)
  <2>1. g[0] = 0 /\ g[1] = m /\ g[2] = m * 60 + s
    OBVIOUS
  <2>2. g[1] = g[0] * 60 + m
    BY <2>1
  <2> HIDE DEF g
  <2>3. CASE k = 0
    BY <2>1, <2>3
  <2>4. CASE k = 1
    <3>1. k # 0 /\ k - 1 = 0 /\ ValueOr(parts[k], 0) = ValueOr(parts[1], 0) /\ g[k] = g[1]
      BY <2>4
    <3> QED
      BY <1>1, <2>2, <3>1
  <2>5. CASE k = 2
    BY <1>1, <2>1, <2>5
  <2> QED
    BY <2>3, <2>4, <2>5
<1>3. Totals(g, parts, 2)
  BY <1>2 DEF Totals
<1> HIDE DEF g
<1>4. PICK f : Totals(f, parts, 2) /\ Total(parts) = f[2]
  BY <1>3, TotalDef
<1>5. /\ f[0] = 0 /\ f[1] = f[0] * 60 + ValueOr(parts[1], 0)
      /\ f[2] = f[1] * 60 + ValueOr(parts[2], 0)
  BY <1>4 DEF Totals
<1> QED
  BY <1>1, <1>4, <1>5

InSeconds(h, m, s) == 3600 * h + 60 * m + s

LEMMA TotalOfThree ==
  ASSUME NEW parts, Len(parts) = 3, NEW h \in Int, NEW m \in Int, NEW s \in Int,
         parts[1] = {h}, parts[2] = {m}, parts[3] = {s}, {NotFinite} \notin ToSet(parts)
  PROVE  Total(parts) = InSeconds(h, m, s)
<1>1. ValueOr(parts[1], 0) = h /\ ValueOr(parts[2], 0) = m /\ ValueOr(parts[3], 0) = s
  BY ValueOrFacts
<1> DEFINE g == [k \in 0..3 |-> IF k = 0 THEN 0 ELSE IF k = 1 THEN h
                                ELSE IF k = 2 THEN h * 60 + m ELSE (h * 60 + m) * 60 + s]
<1>2. ASSUME NEW k \in 0..3
      PROVE  g[k] = IF k = 0 THEN 0 ELSE g[k - 1] * 60 + ValueOr(parts[k], 0)
  <2>1. g[0] = 0 /\ g[1] = h /\ g[2] = h * 60 + m /\ g[3] = (h * 60 + m) * 60 + s
    OBVIOUS
  <2>2. g[1] = g[0] * 60 + h /\ g[2] = g[1] * 60 + m /\ g[3] = g[2] * 60 + s
    BY <2>1
  <2> HIDE DEF g
  <2>3. CASE k = 0
    BY <2>1, <2>3
  <2>4. CASE k = 1
    <3>1. k # 0 /\ k - 1 = 0 /\ ValueOr(parts[k], 0) = ValueOr(parts[1], 0) /\ g[k] = g[1]
      BY <2>4
    <3> QED
      BY <1>1, <2>2, <3>1
  <2>5. CASE k = 2
    <3>1. k # 0 /\ k - 1 = 1 /\ ValueOr(parts[k], 0) = ValueOr(parts[2], 0) /\ g[k] = g[2]
      BY <2>5
    <3> QED
      BY <1>1, <2>2, <3>1
  <2>6. CASE k = 3
    <3>1. k # 0 /\ k - 1 = 2 /\ ValueOr(parts[k], 0) = ValueOr(parts[3], 0) /\ g[k] = g[3]
      BY <2>6
    <3> QED
      BY <1>1, <2>2, <3>1
  <2> QED
    BY <2>3, <2>4, <2>5, <2>6
<1>3. Totals(g, parts, 3)
  BY <1>2 DEF Totals
<1> HIDE DEF g
<1>4. PICK f : Totals(f, parts, 3) /\ Total(parts) = f[3]
  BY <1>3, TotalDef
<1>5. /\ f[0] = 0 /\ f[1] = f[0] * 60 + ValueOr(parts[1], 0)
      /\ f[2] = f[1] * 60 + ValueOr(parts[2], 0)
      /\ f[3] = f[2] * 60 + ValueOr(parts[3], 0)
  <2>1. f = [k \in 0..3 |-> IF k = 0 THEN 0 ELSE f[k - 1] * 60 + ValueOr(parts[k], 0)]
    BY <1>4 DEF Totals
  <2>2. ASSUME NEW k \in 0..3
        PROVE  f[k] = IF k = 0 THEN 0 ELSE f[k - 1] * 60 + ValueOr(parts[k], 0)
    BY <2>1
  <2>3. f[0] = 0
    BY <2>2
  <2>4. f[1] = f[1 - 1] * 60 + ValueOr(parts[1], 0)
    BY <2>2
  <2>5. f[2] = f[2 - 1] * 60 + ValueOr(parts[2], 0)
    BY <2>2
  <2>6. f[3] = f[3 - 1] * 60 + ValueOr(parts[3], 0)
    BY <2>2
  <2> QED
    BY <2>3, <2>4, <2>5, <2>6
<1> QED
  BY <1>1, <1>4, <1>5 DEF InSeconds

\* What a number of seconds, and so a place in the file, may be.
Places == Int \cup {NotFinite}

\* The loop over the parts reads hours, minutes and seconds as such.
LEMMA SecondsMeant ==
  ASSUME NEW t, IsText(t)
  PROVE  Seconds(t) = Meant(t) /\ Seconds(t) \subseteq Places
<1>1. CASE t.form = "integer"
  BY <1>1 DEF Seconds, Meant, IsText, Places
<1>2. CASE t.form = "decimal"
  BY <1>2 DEF Seconds, Meant, IsText, Places
<1>3. CASE t.form = "nonfinite"
  BY <1>3 DEF Seconds, Meant, Places
<1>4. CASE t.form \notin {"integer", "decimal", "nonfinite", "clock"}
  BY <1>4 DEF Seconds, Meant
<1>5. CASE t.form = "clock"
  <2>1. PICK p \in Seq(SUBSET Places) : p = t.parts
    BY <1>5 DEF IsText, Places
  <2>2. PICK n \in Nat : n = Len(p) /\ n >= 2
    BY <1>5, <2>1, LenProperties DEF IsText
  <2>3. ToSet(p) = {p[k] : k \in 1..n}
    BY <2>2 DEF ToSet
  <2>4. ASSUME NEW k \in 1..n, p[k] # {}
        PROVE  \E x \in Places : p[k] = {x}
    <3>1. p[k] \in ToSet(p) /\ p[k] \subseteq Places
      BY <2>1, <2>2, <2>3
    <3>2. \A x, y \in p[k] : x = y
      BY <1>5, <2>1, <3>1 DEF IsText
    <3> QED
      BY <2>4, <3>1, <3>2
  <2>5. Seconds(t) = IF n <= 3 /\ {} \notin ToSet(p) THEN {Total(p)} ELSE {}
    <3>1. Len(t.parts) = n /\ t.parts = p
      BY <2>1, <2>2
    <3> QED
      BY <1>5, <3>1 DEF Seconds
  <2>6. {NotFinite} \in ToSet(p) => Total(p) = NotFinite
    BY Zenon DEF Total
  <2>7. CASE n = 2
    <3>1. Meant(t) = {IF NotFinite \in {m, s} THEN NotFinite ELSE 60 * m + s :
                        m \in p[1], s \in p[2]}
      BY <1>5, <2>1, <2>2, <2>7 DEF Meant
    <3>2. ToSet(p) = {p[1], p[2]}
      BY <2>3, <2>7
    <3>3. CASE p[1] = {} \/ p[2] = {}
      BY <2>5, <3>1, <3>2, <3>3
    <3>4. CASE p[1] # {} /\ p[2] # {}
      <4>1. PICK m \in Places : p[1] = {m}
        BY <2>4, <2>7, <3>4
      <4>2. PICK s \in Places : p[2] = {s}
        BY <2>4, <2>7, <3>4
      <4>3. Seconds(t) = {Total(p)}
        BY <2>5, <2>7, <3>2, <3>4
      <4>4. Meant(t) = {IF NotFinite \in {m, s} THEN NotFinite ELSE 60 * m + s}
        BY <3>1, <4>1, <4>2
      <4>5. CASE NotFinite \in {m, s}
        BY <2>6, <3>2, <4>1, <4>2, <4>3, <4>4, <4>5 DEF Places
      <4>6. CASE NotFinite \notin {m, s}
        <5>1. m \in Int /\ s \in Int
          BY <4>6 DEF Places
        <5>3. {NotFinite} \notin ToSet(p)
          BY <3>2, <4>1, <4>2, <4>6
        <5>2. Total(p) = 60 * m + s
          BY <2>2, <2>7, <4>1, <4>2, <5>1, <5>3, TotalOfTwo
        <5> QED
          BY <4>3, <4>4, <4>6, <5>1, <5>2 DEF Places
      <4> QED
        BY <4>5, <4>6
    <3> QED
      BY <3>3, <3>4
  <2>8. CASE n = 3
    <3>1. Meant(t) = {IF NotFinite \in {h, m, s} THEN NotFinite ELSE 3600 * h + 60 * m + s :
                        h \in p[1], m \in p[2], s \in p[3]}
      BY <1>5, <2>1, <2>2, <2>8 DEF Meant
    <3>2. ToSet(p) = {p[1], p[2], p[3]}
      BY <2>3, <2>8
    <3>3. CASE p[1] = {} \/ p[2] = {} \/ p[3] = {}
      BY <2>5, <3>1, <3>2, <3>3
    <3>4. CASE p[1] # {} /\ p[2] # {} /\ p[3] # {}
      <4>0. PICK h \in Places : p[1] = {h}
        BY <2>4, <2>8, <3>4
      <4>1. PICK m \in Places : p[2] = {m}
        BY <2>4, <2>8, <3>4
      <4>2. PICK s \in Places : p[3] = {s}
        BY <2>4, <2>8, <3>4
      <4>3. Seconds(t) = {Total(p)}
        BY <2>5, <2>8, <3>2, <3>4
      <4>4. Meant(t) = {IF NotFinite \in {h, m, s} THEN NotFinite ELSE 3600 * h + 60 * m + s}
        BY <3>1, <4>0, <4>1, <4>2
      <4>5. CASE NotFinite \in {h, m, s}
        BY <2>6, <3>2, <4>0, <4>1, <4>2, <4>3, <4>4, <4>5 DEF Places
      <4>6. CASE NotFinite \notin {h, m, s}
        <5>1. h \in Int /\ m \in Int /\ s \in Int
          BY <4>6 DEF Places
        <5>3. {NotFinite} \notin ToSet(p)
          BY <3>2, <4>0, <4>1, <4>2, <4>6
        <5>4. Len(p) = 3
          BY <2>2, <2>8
        <5>5. Total(p) = InSeconds(h, m, s)
          BY <4>0, <4>1, <4>2, <5>1, <5>3, <5>4, TotalOfThree, Zenon
        <5>2. Total(p) = 3600 * h + 60 * m + s
          BY <5>5 DEF InSeconds
        <5> QED
          BY <4>3, <4>4, <4>6, <5>1, <5>2 DEF Places
      <4> QED
        BY <4>5, <4>6
    <3> QED
      BY <3>3, <3>4
  <2>9. CASE n > 3
    <3>1. Meant(t) = {}
      <4>1. n # 2 /\ n # 3
        BY <2>9
      <4>2. Len(t.parts) = n /\ n # 2 /\ n # 3
        BY <2>1, <2>2, <4>1, Zenon
      <4> QED
        BY <1>5, <4>2 DEF Meant
    <3> QED
      BY <2>5, <2>9, <3>1
  <2> QED
    BY <2>2, <2>7, <2>8, <2>9
<1> QED
  BY <1>1, <1>2, <1>3, <1>4, <1>5

-----------------------------------------------------------------------------
(* The songs of a body *)

SongsSent(b) == UNION {ToSet(b.blocks[k].songs) : k \in 1..Len(b.blocks)}
SongsOf(b) == [k \in 1..Len(b.blocks) |-> b.blocks[k].songs]
SentBy(b) == FlattenSeq(SongsOf(b))

ConcatenatedPrefixes(b) ==
  CHOOSE pre \in [0..Len(SongsOf(b)) -> Seq(SongsSent(b))] : Concatenates(pre, SongsOf(b))

\* How many songs come before the k-th block.
Before(b, k) == Len(ConcatenatedPrefixes(b)[k - 1])

LEMMA BodyFacts ==
  ASSUME NEW b \in Bodies
  PROVE  /\ Len(b.blocks) \in Nat
         /\ b.op # "enterprise" => Len(b.blocks) = 1
         /\ \A k \in 1..Len(b.blocks) :
              /\ IsBlock(b.blocks[k])
              /\ b.blocks[k].songs \in Seq(SongsSent(b))
              /\ Len(b.blocks[k].songs) \in Nat
              /\ \A j \in 1..Len(b.blocks[k].songs) : IsSong(b.blocks[k].songs[j])
<1>1. /\ b.blocks \in Seq(ToSet(b.blocks)) /\ \A x \in ToSet(b.blocks) : IsBlock(x)
      /\ b.op # "enterprise" => Len(b.blocks) = 1
  BY RPAssumption DEF RPAssumption, IsBody
<1>2. Len(b.blocks) \in Nat
  BY <1>1, LenProperties
<1>3. ASSUME NEW k \in 1..Len(b.blocks)
      PROVE  /\ IsBlock(b.blocks[k])
             /\ b.blocks[k].songs \in Seq(SongsSent(b))
             /\ Len(b.blocks[k].songs) \in Nat
             /\ \A j \in 1..Len(b.blocks[k].songs) : IsSong(b.blocks[k].songs[j])
  <2>1. b.blocks[k] \in ToSet(b.blocks)
    <3>1. DOMAIN b.blocks = 1..Len(b.blocks)
      BY <1>1, LenProperties
    <3> QED
      BY <3>1, Zenon DEF ToSet
  <2>2. IsBlock(b.blocks[k])
    BY <1>1, <2>1
  <2>3. PICK x : x = b.blocks[k].songs
    OBVIOUS
  <2>4. x \in Seq(ToSet(x)) /\ \A s \in ToSet(x) : IsSong(s)
    BY <2>2, <2>3 DEF IsBlock
  <2>5. ToSet(x) \subseteq SongsSent(b)
    BY <2>3 DEF SongsSent
  <2>6. x \in Seq(SongsSent(b))
    BY <2>4, <2>5
  <2>7. \A j \in 1..Len(x) : IsSong(x[j])
    BY <2>4 DEF ToSet
  <2> QED
    BY <2>2, <2>3, <2>4, <2>6, <2>7, LenProperties, Zenon
<1> QED
  BY <1>1, <1>2, <1>3, Zenon

LEMMA PrefixesFacts ==
  ASSUME NEW b \in Bodies
  PROVE  /\ SongsOf(b) \in Seq(Seq(SongsSent(b))) /\ Len(SongsOf(b)) = Len(b.blocks)
         /\ ConcatenatedPrefixes(b) \in [0..Len(SongsOf(b)) -> Seq(SongsSent(b))]
         /\ Concatenates(ConcatenatedPrefixes(b), SongsOf(b))
<1>1. SongsOf(b) \in Seq(Seq(SongsSent(b))) /\ Len(SongsOf(b)) = Len(b.blocks)
  <2>1. PICK n \in Nat : n = Len(b.blocks)
    BY BodyFacts
  <2>2. \A k \in 1..n : b.blocks[k].songs \in Seq(SongsSent(b))
    BY <2>1, BodyFacts
  <2>3. SongsOf(b) = [k \in 1..n |-> b.blocks[k].songs]
    BY <2>1 DEF SongsOf
  <2> QED
    BY <2>1, <2>2, <2>3
<1>2. \E pre \in [0..Len(SongsOf(b)) -> Seq(SongsSent(b))] : Concatenates(pre, SongsOf(b))
  BY <1>1, ConcatenatesExists
<1> QED
  BY <1>1, <1>2, Zenon DEF ConcatenatedPrefixes

\* Where the songs of each block are among all songs.
LEMMA BeforeFacts ==
  ASSUME NEW b \in Bodies
  PROVE  /\ Len(SentBy(b)) \in Nat
         /\ Before(b, 1) = 0
         /\ Before(b, Len(b.blocks) + 1) = Len(SentBy(b))
         /\ \A k \in 1..Len(b.blocks) :
              /\ Before(b, k) \in Nat
              /\ Before(b, k + 1) = Before(b, k) + Len(b.blocks[k].songs)
              /\ Before(b, k + 1) <= Len(SentBy(b))
              /\ \A j \in 1..Len(b.blocks[k].songs) :
                   SentBy(b)[Before(b, k) + j] = b.blocks[k].songs[j]
<1> DEFINE S == SongsSent(b)
<1>1. PICK seqs \in Seq(Seq(S)) : seqs = SongsOf(b) /\ Len(seqs) = Len(b.blocks)
  BY PrefixesFacts
<1>2. PICK pre \in [0..Len(seqs) -> Seq(S)] : pre = ConcatenatedPrefixes(b) /\ Concatenates(pre, seqs)
  BY <1>1, PrefixesFacts
<1> HIDE DEF S
<1>3. pre[0] = <<>> /\ pre[Len(seqs)] = SentBy(b)
  BY <1>1, <1>2 DEF Concatenates, SentBy
<1>4. Before(b, 1) = 0
  <2>1. Before(b, 1) = Len(pre[0])
    BY <1>2 DEF Before
  <2> QED
    BY <1>3, <2>1
<1>5. Before(b, Len(b.blocks) + 1) = Len(SentBy(b)) /\ Len(SentBy(b)) \in Nat
  <2>1. (Len(b.blocks) + 1) - 1 = Len(seqs)
    BY <1>1
  <2>2. pre[Len(seqs)] \in Seq(S)
    OBVIOUS
  <2>3. Before(b, Len(b.blocks) + 1) = Len(pre[Len(seqs)])
    BY <1>2, <2>1 DEF Before
  <2> QED
    BY <1>3, <2>2, <2>3, LenProperties
<1>6. ASSUME NEW k \in 1..Len(b.blocks)
      PROVE  /\ Before(b, k) \in Nat
             /\ Before(b, k + 1) = Before(b, k) + Len(b.blocks[k].songs)
             /\ Before(b, k + 1) <= Len(SentBy(b))
             /\ \A j \in 1..Len(b.blocks[k].songs) :
                  SentBy(b)[Before(b, k) + j] = b.blocks[k].songs[j]
  <2>1. k \in 1..Len(seqs) /\ k - 1 \in 0..Len(seqs) /\ (k + 1) - 1 = k
    BY <1>1
  <2>2. /\ Len(pre[k]) = Len(pre[k - 1]) + Len(seqs[k])
        /\ Len(pre[k]) <= Len(FlattenSeq(seqs))
        /\ \A j \in 1..Len(seqs[k]) : FlattenSeq(seqs)[Len(pre[k - 1]) + j] = seqs[k][j]
    <3>1. Concatenates(pre, seqs) /\ k \in 1..Len(seqs)
      BY <1>2, <2>1
    <3>2. Placed(pre, seqs, k)
      BY <3>1, FlattenedAt
    <3> QED
      BY <3>2 DEF Placed
  <2>3. seqs[k] = b.blocks[k].songs
    BY <1>1 DEF SongsOf
  <2>4. Before(b, k) = Len(pre[k - 1]) /\ Before(b, k + 1) = Len(pre[k])
    BY <1>2, <2>1 DEF Before
  <2>5. pre[k - 1] \in Seq(S)
    BY <2>1
  <2>6. FlattenSeq(seqs) = SentBy(b)
    BY <1>1 DEF SentBy
  <2>7. Len(pre[k - 1]) \in Nat
    BY <2>5, LenProperties
  <2> QED
    BY <2>2, <2>3, <2>4, <2>6, <2>7, Zenon
<1> QED
  BY <1>4, <1>5, <1>6, Zenon

\* Every song sent is one.
LEMMA SongsAreSongs ==
  ASSUME NEW b \in Bodies, NEW k \in 1..Len(b.blocks), NEW j \in 1..Len(b.blocks[k].songs)
  PROVE  /\ Before(b, k) + j \in 1..Len(SentBy(b))
         /\ IsSong(SentBy(b)[Before(b, k) + j])
<1>1. /\ Before(b, k) \in Nat /\ Len(SentBy(b)) \in Nat
      /\ Before(b, k + 1) = Before(b, k) + Len(b.blocks[k].songs)
      /\ Before(b, k + 1) <= Len(SentBy(b))
      /\ SentBy(b)[Before(b, k) + j] = b.blocks[k].songs[j]
  BY BeforeFacts
<1>2. Len(b.blocks[k].songs) \in Nat /\ IsSong(b.blocks[k].songs[j])
  BY BodyFacts
<1> QED
  BY <1>1, <1>2

-----------------------------------------------------------------------------
(* The inductive invariant *)

Matches == [title: STRING, block: Nat, score: Int, audio: SUBSET Int, from: Int, to: Int,
            start: SUBSET Places, end: SUBSET Places]
Entries == [title: STRING, block: Nat, score: Int]
           \cup [title: STRING, block: Nat, score: Int, running: BOOLEAN]
SongsOfOp(op) == IF op = "enterprise" THEN Matches ELSE Entries

\* Where reading stands.
TypeInv ==
  /\ body \in Bodies
  /\ at \in 1..Len(body.blocks) + 1
  /\ pc \in {"read", "move", "done"}
  /\ pc # "done" => at \in 1..Len(body.blocks)
  /\ pc = "move" => body.op = "enterprise"
  /\ body.op # "enterprise" => at = 1
  /\ songs \in Seq(SongsOfOp(body.op)) /\ out \in Seq(SongsOfOp(body.op))
  /\ base \subseteq Places

\* How many songs have been read and returned, by where reading stands.
CountInv ==
  /\ pc = "read" => Len(out) = Before(body, at) /\ Len(songs) <= Len(Block.songs)
  /\ pc = "move" => Len(out) + Len(songs) = Before(body, at + 1)
  /\ pc = "done" /\ body.op \in {"enterprise", "match", "lyrics", "streams"} =>
       Len(out) + Len(songs) = Len(SentBy(body))
  /\ pc = "done" /\ body.op = "enterprise" => songs = <<>>
  /\ body.op \in {"recognize", "notification"} => songs = <<>> /\ out = <<>>
  /\ body.op = "match" => out = <<>>

\* s is what reading sent, a song of the body b, may give.
IsReading(b, s, sent) ==
  /\ IsSong(sent)
  /\ s.title = sent.title
  /\ s.score \in IntsOf(sent.score)
  /\ s.block \in 1..Len(b.blocks)
  /\ b.op = "enterprise" =>
       s.from \in IntsOf(sent.from) /\ s.to \in IntsOf(sent.to) /\ s.audio \in IdsOf(sent.audio)
  /\ b.op = "streams" => s.running = Truth(sent.running)

\* The k-th song returned or read is a reading of the k-th song sent.
SongInv ==
  /\ \A k \in 1..Len(out) : IsReading(body, out[k], SentBy(body)[k])
  /\ \A k \in 1..Len(songs) : IsReading(body, songs[k], SentBy(body)[Len(out) + k])

IsAnchored(b, s) ==
  LET from == Seconds(Str(b.blocks[s.block].offset)) IN
  /\ s.start = {Place(h, s.from) : h \in from}
  /\ s.end = {Place(h, s.to) : h \in from}

\* The base is that of the chunk in hand, and so are the songs.
BaseInv ==
  body.op = "enterprise" =>
    /\ pc # "done" => \A k \in 1..Len(songs) : songs[k].block = at
    /\ pc = "move" => base = Seconds(Str(Block.offset))
    /\ \A k \in 1..Len(out) : IsAnchored(body, out[k])

EventInv ==
  /\ pc # "done" => event = Nothing
  /\ \/ event = Nothing
     \/ body.op = "match" /\ songs = <<>> /\ event = [type |-> "error"]
     \/ body.op = "match" /\ songs # <<>>
        /\ \E id \in Int64sOf(Block.radio_id) :
             event = [type |-> "match", radio_id |-> id, song |-> Head(songs),
                      alternatives |-> Tail(songs)]
     \/ body.op = "recognize"
        /\ \E audio \in IdsOf(Head(Block.songs).audio) :
             event = [type |-> "recognition", title |-> Head(Block.songs).title,
                      audio |-> audio, song_link |-> Str(Block.link),
                      blocks |-> ParsedMeta(Block.meta)]
     \/ body.op = "notification"
        /\ \E id \in IntsOf(Block.radio_id), time \in Times(Block.time) :
             event = [type |-> "notification", radio_id |-> id, time |-> time,
                      stream_running |-> CoercedBool(Block.running)]
  /\ pc = "done" /\ body.op = "match" => event # Nothing

-----------------------------------------------------------------------------
(* What reading a song gives *)

\* What j_bool reads is a truth.
LEMMA TruthFacts ==
  ASSUME NEW v, IsValue(v)
  PROVE  Truth(v) \in BOOLEAN
<1>1. CoercedBool(v) = {} \/ CoercedBool(v) = {TRUE} \/ CoercedBool(v) = {FALSE}
  <2>1. CASE v.kind = "bool"
    <3>1. CoercedBool(v) = {v.b} /\ v.b \in BOOLEAN
      BY <2>1 DEF CoercedBool, IsValue
    <3> QED
      BY <3>1
  <2>2. CASE v.kind = "integer"
    <3>1. CoercedBool(v) = {v.n # 0}
      BY <2>2 DEF CoercedBool
    <3> QED
      BY <3>1
  <2>3. CASE v.kind = "real"
    <3>1. CoercedBool(v) = {v.halves # 0}
      BY <2>3 DEF CoercedBool
    <3> QED
      BY <3>1
  <2>4. CASE v.kind = "string"
    <3>1. CoercedBool(v) = CoercedBool(String(v.text))
      BY <2>4 DEF CoercedBool, String
    <3> QED
      BY <3>1, TextTruth
  <2>5. CASE v.kind \notin {"bool", "integer", "real", "string"}
    BY <2>5 DEF CoercedBool
  <2> QED
    BY <2>1, <2>2, <2>3, <2>4, <2>5
<1>2. /\ ValueOr({}, FALSE) = FALSE /\ ValueOr({TRUE}, FALSE) = TRUE
      /\ ValueOr({FALSE}, FALSE) = FALSE
  BY ValueOrFacts
<1>3. Truth(v) = ValueOr(CoercedBool(v), FALSE)
  BY DEF Truth
<1> QED
  BY <1>1, <1>2, <1>3

LEMMA ReadSongsFacts ==
  ASSUME NEW sent, IsSong(sent), NEW k \in Nat, k \in 1..Len(body.blocks),
         body.op \in {"enterprise", "match", "lyrics", "streams"}, NEW s \in ReadSongs(sent, k)
  PROVE  s \in SongsOfOp(body.op) /\ IsReading(body, s, sent) /\ s.block = k
<1>1. /\ sent.title \in STRING /\ IsValue(sent.score) /\ IsValue(sent.audio)
      /\ IsValue(sent.from) /\ IsValue(sent.to) /\ IsValue(sent.running)
  BY DEF IsSong
<1>2. Ints \subseteq Int
  BY Limits DEF Ints
<1>3. IntsOf(sent.score) \subseteq Int /\ IntsOf(sent.from) \subseteq Int
      /\ IntsOf(sent.to) \subseteq Int /\ \A id \in IdsOf(sent.audio) : id \subseteq Int
  BY <1>1, <1>2, IntsOfFacts, IdsOfFacts
<1>4. CASE body.op = "enterprise"
  <2>1. s \in ReadMatches(sent, k)
    BY <1>4 DEF ReadSongs
  <2>2. PICK score \in IntsOf(sent.score), audio \in IdsOf(sent.audio),
             from \in IntsOf(sent.from), to \in IntsOf(sent.to) :
          s = [title |-> sent.title, block |-> k, score |-> score, audio |-> audio,
               from |-> from, to |-> to, start |-> {}, end |-> {}]
    BY <2>1 DEF ReadMatches
  <2>3. s \in Matches
    BY <1>1, <1>3, <2>2 DEF Matches
  <2> QED
    BY <1>4, <2>2, <2>3 DEF IsReading, SongsOfOp
<1>5. CASE body.op \in {"match", "lyrics"}
  <2>1. s \in {[title |-> sent.title, block |-> k, score |-> score] : score \in IntsOf(sent.score)}
    BY <1>5 DEF ReadSongs, ReadCandidates, ReadLyrics
  <2>2. PICK score \in IntsOf(sent.score) :
          s = [title |-> sent.title, block |-> k, score |-> score]
    BY <2>1
  <2>3. s \in Entries
    BY <1>1, <1>3, <2>2 DEF Entries
  <2> QED
    BY <1>5, <2>2, <2>3 DEF IsReading, SongsOfOp
<1>6. CASE body.op = "streams"
  <2>1. s \in ReadStreams(sent, k)
    BY <1>6 DEF ReadSongs
  <2>2. PICK score \in IntsOf(sent.score) :
          s = [title |-> sent.title, block |-> k, score |-> score,
               running |-> Truth(sent.running)]
    BY <2>1 DEF ReadStreams
  <2>3. Truth(sent.running) \in BOOLEAN
    BY <1>1, TruthFacts
  <2>4. s \in Entries
    BY <1>1, <1>3, <2>2, <2>3 DEF Entries
  <2> QED
    BY <1>6, <2>2, <2>4 DEF IsReading, SongsOfOp
<1> QED
  BY <1>4, <1>5, <1>6

\* Giving a song its place changes nothing else of it.
LEMMA AnchoredFacts ==
  ASSUME NEW s \in Matches, base \subseteq Places
  PROVE  /\ Anchored(s) \in Matches
         /\ Anchored(s).title = s.title /\ Anchored(s).block = s.block
         /\ Anchored(s).score = s.score /\ Anchored(s).audio = s.audio
         /\ Anchored(s).from = s.from /\ Anchored(s).to = s.to
         /\ Anchored(s).start = {Place(b, s.from) : b \in base}
         /\ Anchored(s).end = {Place(b, s.to) : b \in base}
<1>1. PICK start, end : /\ start = {Place(b, s.from) : b \in base}
                        /\ end = {Place(b, s.to) : b \in base}
  OBVIOUS
<1>2. start \subseteq Places /\ end \subseteq Places
  <2>1. \A b \in Places, ms \in Int : Place(b, ms) \in Places
    BY DEF Place, Places
  <2> QED
    BY <1>1, <2>1 DEF Matches
<1>3. Anchored(s) = [s EXCEPT !.start = start, !.end = end]
  BY <1>1 DEF Anchored
<1>4. PICK r : r = Anchored(s)
  OBVIOUS
<1>5. /\ r \in Matches /\ r.title = s.title /\ r.block = s.block /\ r.score = s.score
      /\ r.audio = s.audio /\ r.from = s.from /\ r.to = s.to /\ r.start = start /\ r.end = end
  BY <1>2, <1>3, <1>4 DEF Matches
<1> QED
  BY <1>1, <1>4, <1>5, Zenon

-----------------------------------------------------------------------------
(* Where reading stands *)

LEMMA SameBody == ASSUME [Next]_vars PROVE body' = body
BY DEF Next, vars, ReadSong, ChunkRead, MoveSong, NextChunk, ListRead, MatchRead,
       NotificationRead, RecognitionRead, Done

\* The block in hand and its next song.
LEMMA NextSong ==
  ASSUME TypeInv, pc = "read"
  PROVE  /\ at \in Nat /\ at \in 1..Len(body.blocks)
         /\ Len(Block.songs) \in Nat /\ Len(songs) \in Nat /\ Len(out) \in Nat
         /\ Len(songs) < Len(Block.songs) => IsSong(Block.songs[Len(songs) + 1])
<1>1. body \in Bodies /\ at \in 1..Len(body.blocks)
  BY DEF TypeInv
<1>2. Len(songs) \in Nat /\ Len(out) \in Nat
  BY LenProperties DEF TypeInv
<1>3. /\ Len(Block.songs) \in Nat
      /\ \A j \in 1..Len(Block.songs) : IsSong(Block.songs[j])
  BY <1>1, BodyFacts, Zenon DEF Block
<1> QED
  BY <1>1, <1>2, <1>3

LEMMA InitTypeInv == ASSUME Init PROVE TypeInv
<1>1. body \in Bodies /\ at = 1 /\ songs = <<>> /\ out = <<>> /\ base = {}
      /\ pc = IF body.op = "enterprise" /\ body.blocks = <<>> THEN "done" ELSE "read"
  BY DEF Init
<1>2. PICK n \in Nat : n = Len(body.blocks) /\ (body.op # "enterprise" => n = 1)
  BY <1>1, BodyFacts
<1>3. n = 0 => body.blocks = <<>>
  <2>1. body.blocks \in Seq(ToSet(body.blocks))
    BY <1>1, RPAssumption DEF RPAssumption, IsBody
  <2> QED
    BY <1>2, <2>1, EmptySeq
<1>4. <<>> \in Seq(SongsOfOp(body.op))
  BY EmptySeq
<1>5. 1 \in 1..n + 1 /\ (pc # "done" => 1 \in 1..n)
  <2>1. n = 0 => body.op = "enterprise" /\ body.blocks = <<>>
    BY <1>2, <1>3
  <2>2. n = 0 => pc = "done"
    BY <1>1, <2>1, Zenon
  <2> QED
    BY <2>2
<1>6. at \in 1..Len(body.blocks) + 1 /\ (pc # "done" => at \in 1..Len(body.blocks))
  BY <1>1, <1>2, <1>5, Zenon
<1>7. songs \in Seq(SongsOfOp(body.op)) /\ out \in Seq(SongsOfOp(body.op)) /\ base \subseteq Places
  BY <1>1, <1>4
<1>8. pc \in {"read", "move", "done"} /\ pc # "move" /\ (body.op # "enterprise" => at = 1)
  BY <1>1
<1> QED
  BY <1>1, <1>6, <1>7, <1>8, Zenon DEF TypeInv

LEMMA StepTypeInv == ASSUME TypeInv, [Next]_vars PROVE TypeInv'
<1> DEFINE S == SongsOfOp(body.op)
<1>1. /\ body \in Bodies /\ at \in 1..Len(body.blocks) + 1 /\ base \subseteq Places
      /\ songs \in Seq(S) /\ out \in Seq(S) /\ body' = body /\ SongsOfOp(body'.op) = S
  BY SameBody DEF TypeInv
<1>2. Len(body.blocks) \in Nat
  BY <1>1, BodyFacts
<1>3. CASE ReadSong
  <2>1. /\ pc = "read" /\ Len(songs) < Len(Block.songs)
        /\ body.op \in {"enterprise", "match", "lyrics", "streams"}
        /\ \E s \in ReadSongs(Block.songs[Len(songs) + 1], at) : songs' = Append(songs, s)
        /\ UNCHANGED <<body, at, pc, base, out, event>>
    BY <1>3 DEF ReadSong
  <2>2. IsSong(Block.songs[Len(songs) + 1]) /\ at \in Nat /\ at \in 1..Len(body.blocks)
    BY <2>1, NextSong
  <2>3. PICK s \in S : songs' = Append(songs, s)
    BY <2>1, <2>2, ReadSongsFacts
  <2>4. songs' \in Seq(S)
    BY <1>1, <2>3, AppendProperties
  <2> QED
    BY <1>1, <2>1, <2>4 DEF TypeInv
<1>4. CASE ChunkRead
  <2>1. /\ pc = "read" /\ body.op = "enterprise" /\ pc' = "move"
        /\ base' = Seconds(Str(Block.offset))
        /\ UNCHANGED <<body, at, songs, out, event>>
    BY <1>4 DEF ChunkRead, BaseOf
  <2>2. base' \subseteq Places
    <3>1. at \in 1..Len(body.blocks)
      BY <2>1 DEF TypeInv
    <3>2. IsValue(Block.offset)
      BY <1>1, <3>1, BodyFacts DEF Block, IsBlock
    <3> QED
      BY <2>1, <3>2, StrIsText, SecondsMeant
  <2> QED
    BY <1>1, <2>1, <2>2 DEF TypeInv
<1>5. CASE MoveSong
  <2>1. /\ pc = "move" /\ songs # <<>> /\ out' = Append(out, Anchored(Head(songs)))
        /\ songs' = Tail(songs) /\ body.op = "enterprise"
        /\ UNCHANGED <<body, at, pc, base, event>>
    BY <1>5 DEF MoveSong, TypeInv
  <2>2. S = Matches
    BY <2>1 DEF SongsOfOp
  <2>3. Head(songs) \in S /\ Tail(songs) \in Seq(S)
    BY <1>1, <2>1, HeadTailProperties
  <2>4. Anchored(Head(songs)) \in S
    BY <1>1, <2>2, <2>3, AnchoredFacts
  <2>5. out' \in Seq(S) /\ songs' \in Seq(S)
    BY <1>1, <2>1, <2>3, <2>4, AppendProperties
  <2> QED
    BY <1>1, <2>1, <2>5 DEF TypeInv
<1>6. CASE NextChunk
  BY <1>1, <1>2, <1>6 DEF NextChunk, TypeInv
<1>7. CASE ListRead
  <2>1. <<>> \in Seq(S)
    BY EmptySeq
  <2> QED
    BY <1>1, <1>7, <2>1 DEF ListRead, TypeInv
<1>8. CASE MatchRead
  BY <1>1, <1>8 DEF MatchRead, TypeInv
<1>9. CASE RecognitionRead
  BY <1>1, <1>9 DEF RecognitionRead, TypeInv
<1>10. CASE NotificationRead
  BY <1>1, <1>10 DEF NotificationRead, TypeInv
<1>11. CASE Done \/ UNCHANGED vars
  BY <1>11 DEF Done, vars, TypeInv
<1> QED
  BY <1>3, <1>4, <1>5, <1>6, <1>7, <1>8, <1>9, <1>10, <1>11 DEF Next

-----------------------------------------------------------------------------
(* How many songs *)

LEMMA InitCountInv == ASSUME Init PROVE CountInv
<1>1. body \in Bodies /\ at = 1 /\ songs = <<>> /\ out = <<>>
      /\ pc = IF body.op = "enterprise" /\ body.blocks = <<>> THEN "done" ELSE "read"
  BY DEF Init
<1>2. Before(body, 1) = 0 /\ Before(body, Len(body.blocks) + 1) = Len(SentBy(body))
  BY <1>1, BeforeFacts
<1>3. Len(songs) = 0 /\ Len(out) = 0
  BY <1>1
<1>4. pc = "read" => Len(songs) <= Len(Block.songs)
  BY <1>3, InitTypeInv, NextSong
<1>5. pc = "done" => Len(out) + Len(songs) = Len(SentBy(body))
  <2>1. pc = "done" => Len(body.blocks) = 0
    BY <1>1
  <2> QED
    BY <1>2, <1>3, <2>1
<1>6. pc # "move"
  BY <1>1
<1> QED
  BY <1>1, <1>2, <1>3, <1>4, <1>5, <1>6 DEF CountInv

LEMMA StepCountInv ==
  ASSUME TypeInv, TypeInv', CountInv, [Next]_vars
  PROVE  CountInv'
<1>1. /\ body \in Bodies /\ at \in 1..Len(body.blocks) + 1 /\ body' = body
      /\ Len(songs) \in Nat /\ Len(out) \in Nat /\ Len(body.blocks) \in Nat
  BY SameBody, BodyFacts, LenProperties DEF TypeInv
<1>2. body.op # "enterprise" => at = 1 /\ Len(body.blocks) = 1
  BY <1>1, BodyFacts DEF TypeInv
<1>3. CASE ReadSong
  <2>1. /\ pc = "read" /\ pc' = "read" /\ Len(songs) < Len(Block.songs) /\ at' = at
        /\ body.op \in {"enterprise", "match", "lyrics", "streams"} /\ out' = out
        /\ \E s : songs' = Append(songs, s)
    BY <1>3 DEF ReadSong
  <2>2. Len(songs') = Len(songs) + 1
    BY <2>1 DEF TypeInv
  <2>3. Block' = Block /\ Len(Block.songs) \in Nat
    BY <1>1, <2>1, NextSong DEF Block
  <2>4. Len(songs') <= Len(Block'.songs)
    BY <1>1, <2>1, <2>2, <2>3
  <2> QED
    BY <1>1, <2>1, <2>4 DEF CountInv
<1>4. CASE ChunkRead
  <2>1. /\ pc = "read" /\ pc' = "move" /\ Len(songs) = Len(Block.songs) /\ at' = at
        /\ body.op = "enterprise" /\ out' = out /\ songs' = songs
    BY <1>4 DEF ChunkRead
  <2>2. at \in 1..Len(body.blocks)
    BY <2>1 DEF TypeInv
  <2>3. Before(body, at + 1) = Before(body, at) + Len(Block.songs)
    BY <1>1, <2>2, BeforeFacts DEF Block
  <2>4. Len(out) + Len(songs) = Before(body, at + 1)
    BY <2>1, <2>3 DEF CountInv
  <2> QED
    BY <1>1, <2>1, <2>4 DEF CountInv
<1>5. CASE MoveSong
  <2>1. /\ pc = "move" /\ pc' = "move" /\ at' = at /\ body.op = "enterprise"
        /\ songs # <<>> /\ songs' = Tail(songs) /\ \E s : out' = Append(out, s)
    BY <1>5 DEF MoveSong, TypeInv
  <2>2. Len(songs') = Len(songs) - 1 /\ Len(out') = Len(out) + 1
    BY <2>1 DEF TypeInv
  <2>3. Len(out') + Len(songs') = Len(out) + Len(songs)
    BY <1>1, <2>2
  <2> QED
    BY <1>1, <2>1, <2>3 DEF CountInv
<1>6. CASE NextChunk
  <2>1. /\ pc = "move" /\ songs = <<>> /\ songs' = songs /\ out' = out /\ at' = at + 1
        /\ pc' = IF at = Len(body.blocks) THEN "done" ELSE "read"
        /\ body.op = "enterprise" /\ at \in 1..Len(body.blocks)
    BY <1>6 DEF NextChunk, TypeInv
  <2>2. Len(songs) = 0 /\ Len(out) = Before(body, at + 1)
    <3>1. Len(songs) = 0
      BY <2>1
    <3>2. Len(out) + Len(songs) = Before(body, at + 1)
      BY <2>1 DEF CountInv
    <3> QED
      BY <1>1, <3>1, <3>2
  <2>3. CASE at = Len(body.blocks)
    <3>1. Len(out) = Len(SentBy(body))
      BY <1>1, <2>2, <2>3, BeforeFacts
    <3>2. Len(out') + Len(songs') = Len(SentBy(body'))
      BY <1>1, <2>1, <2>2, <3>1
    <3> QED
      BY <1>1, <2>1, <2>3, <3>2 DEF CountInv
  <2>4. CASE at # Len(body.blocks)
    <3>1. pc' = "read"
      BY <2>1, <2>4
    <3>2. Len(Block'.songs) \in Nat
      <4>1. at' \in 1..Len(body.blocks) /\ Block' = body.blocks[at']
        BY <1>1, <3>1 DEF TypeInv, Block
      <4> QED
        BY <1>1, <4>1, BodyFacts
    <3>3. Len(songs') <= Len(Block'.songs) /\ Len(out') = Before(body', at')
      BY <1>1, <2>1, <2>2, <3>2
    <3> QED
      BY <1>1, <2>1, <3>1, <3>3 DEF CountInv
  <2> QED
    BY <2>3, <2>4
<1>7. CASE ListRead \/ MatchRead
  <2>1. /\ pc = "read" /\ pc' = "done" /\ body.op \in {"lyrics", "streams", "match"}
        /\ Len(songs) = Len(Block.songs)
    BY <1>7 DEF ListRead, MatchRead
  <2>2. at = 1 /\ Len(body.blocks) = 1
    BY <1>2, <2>1
  <2>3. Len(out) = 0 /\ Len(songs) = Len(SentBy(body))
    <3>1. /\ Before(body, 1) = 0 /\ Before(body, 1 + 1) = Len(SentBy(body))
          /\ Before(body, 1 + 1) = Before(body, 1) + Len(body.blocks[1].songs)
      <4>1. PICK n \in Nat : n = Len(body.blocks) /\ n = 1
        BY <2>2
      <4>2. 1 \in 1..Len(body.blocks)
        BY <4>1
      <4>3. Before(body, 1 + 1) = Before(body, 1) + Len(body.blocks[1].songs)
        BY <1>1, <4>2, BeforeFacts
      <4>4. Before(body, 1) = 0 /\ Before(body, Len(body.blocks) + 1) = Len(SentBy(body))
        BY <1>1, BeforeFacts
      <4> QED
        BY <2>2, <4>3, <4>4
    <3> QED
      BY <1>1, <2>1, <2>2, <3>1 DEF CountInv, Block
  <2>4. out = <<>>
    BY <2>3, EmptySeq DEF TypeInv
  <2>5. CASE ListRead
    <3>1. out' = songs /\ songs' = <<>> /\ body.op \in {"lyrics", "streams"}
      BY <2>5 DEF ListRead
    <3>2. Len(out') + Len(songs') = Len(SentBy(body'))
      BY <1>1, <2>3, <3>1
    <3> QED
      BY <1>1, <2>1, <3>1, <3>2 DEF CountInv
  <2>6. CASE MatchRead
    <3>1. out' = out /\ songs' = songs /\ body.op = "match"
      BY <2>6 DEF MatchRead
    <3>2. Len(out') + Len(songs') = Len(SentBy(body'))
      BY <1>1, <2>3, <3>1
    <3> QED
      BY <1>1, <2>1, <2>4, <3>1, <3>2 DEF CountInv
  <2> QED
    BY <1>7, <2>5, <2>6
<1>8. CASE RecognitionRead \/ NotificationRead
  <2>1. /\ pc' = "done" /\ body.op \in {"recognize", "notification"}
        /\ songs' = songs /\ out' = out
    BY <1>8 DEF RecognitionRead, NotificationRead
  <2> QED
    BY <1>1, <2>1 DEF CountInv
<1>9. CASE Done \/ UNCHANGED vars
  BY <1>9 DEF Done, vars, CountInv, Block
<1> QED
  BY <1>3, <1>4, <1>5, <1>6, <1>7, <1>8, <1>9 DEF Next

-----------------------------------------------------------------------------
(* What each song is *)

LEMMA InitSongInv == ASSUME Init PROVE SongInv
BY DEF Init, SongInv

LEMMA StepSongInv ==
  ASSUME TypeInv, CountInv, SongInv, [Next]_vars
  PROVE  SongInv'
<1> DEFINE S == SongsOfOp(body.op)
           sent == SentBy(body)
<1>1. /\ body \in Bodies /\ body' = body /\ songs \in Seq(S) /\ out \in Seq(S)
      /\ Len(songs) \in Nat /\ Len(out) \in Nat /\ base \subseteq Places
  BY SameBody, LenProperties DEF TypeInv
<1>2. /\ \A k \in 1..Len(out) : IsReading(body, out[k], sent[k])
      /\ \A k \in 1..Len(songs) : IsReading(body, songs[k], sent[Len(out) + k])
  BY DEF SongInv
<1> SUFFICES /\ \A k \in 1..Len(out') : IsReading(body, out'[k], sent[k])
             /\ \A k \in 1..Len(songs') : IsReading(body, songs'[k], sent[Len(out') + k])
  BY <1>1 DEF SongInv
<1>3. CASE ReadSong
  <2>1. /\ pc = "read" /\ Len(songs) < Len(Block.songs) /\ out' = out
        /\ body.op \in {"enterprise", "match", "lyrics", "streams"}
        /\ \E s \in ReadSongs(Block.songs[Len(songs) + 1], at) : songs' = Append(songs, s)
    BY <1>3 DEF ReadSong
  <2> DEFINE n == Len(songs) + 1
  <2>2. /\ IsSong(Block.songs[n]) /\ at \in Nat /\ at \in 1..Len(body.blocks)
        /\ n \in 1..Len(Block.songs)
    BY <2>1, NextSong
  <2>3. sent[Len(out) + n] = Block.songs[n]
    <3>1. Len(out) = Before(body, at)
      BY <2>1 DEF CountInv
    <3> QED
      BY <1>1, <2>2, <3>1, BeforeFacts DEF Block
  <2>4. PICK s : /\ songs' = Append(songs, s) /\ s \in S
                 /\ IsReading(body, s, Block.songs[n])
    BY <2>1, <2>2, ReadSongsFacts
  <2>5. /\ Len(songs') = n /\ songs'[n] = s
        /\ \A k \in 1..Len(songs) : songs'[k] = songs[k]
    BY <1>1, <2>4
  <2>6. ASSUME NEW k \in 1..Len(songs')
        PROVE  IsReading(body, songs'[k], sent[Len(out) + k])
    <3>1. CASE k = n
      BY <2>3, <2>4, <2>5, <3>1
    <3>2. CASE k # n
      <4>1. k \in 1..Len(songs)
        BY <1>1, <2>5, <3>2
      <4> QED
        BY <1>2, <2>5, <4>1
    <3> QED
      BY <3>1, <3>2
  <2> QED
    BY <1>2, <2>1, <2>6
<1>4. CASE MoveSong
  <2>1. /\ songs # <<>> /\ out' = Append(out, Anchored(Head(songs))) /\ songs' = Tail(songs)
        /\ body.op = "enterprise"
    BY <1>4 DEF MoveSong, TypeInv
  <2>2. S = Matches
    BY <2>1 DEF SongsOfOp
  <2>3. PICK s \in Matches : s = songs[1] /\ s = Head(songs)
    BY <1>1, <2>1, <2>2
  <2>4. PICK r \in Matches : r = Anchored(s) /\ out' = Append(out, r)
    BY <1>1, <2>1, <2>3, AnchoredFacts
  <2>5. IsReading(body, s, sent[Len(out) + 1])
    <3>1. 1 \in 1..Len(songs)
      BY <1>1, <2>1
    <3> QED
      BY <1>2, <2>3, <3>1
  <2>6. IsReading(body, r, sent[Len(out) + 1])
    <3>1. /\ r.title = s.title /\ r.block = s.block /\ r.score = s.score /\ r.audio = s.audio
          /\ r.from = s.from /\ r.to = s.to
      BY <1>1, <2>4, AnchoredFacts
    <3> QED
      BY <2>1, <2>5, <3>1 DEF IsReading
  <2>7. /\ Len(out') = Len(out) + 1 /\ out'[Len(out) + 1] = r
        /\ \A k \in 1..Len(out) : out'[k] = out[k]
    BY <1>1, <2>2, <2>4
  <2>8. /\ Len(songs') = Len(songs) - 1
        /\ \A k \in 1..Len(songs') : songs'[k] = songs[k + 1]
    BY <1>1, <2>1
  <2>9. ASSUME NEW k \in 1..Len(out')
        PROVE  IsReading(body, out'[k], sent[k])
    <3>1. CASE k = Len(out) + 1
      BY <2>6, <2>7, <3>1
    <3>2. CASE k # Len(out) + 1
      <4>1. k \in 1..Len(out)
        BY <1>1, <2>7, <3>2
      <4> QED
        BY <1>2, <2>7, <4>1
    <3> QED
      BY <3>1, <3>2
  <2>10. ASSUME NEW k \in 1..Len(songs')
         PROVE  IsReading(body, songs'[k], sent[Len(out') + k])
    <3>1. k + 1 \in 1..Len(songs) /\ Len(out') + k = Len(out) + (k + 1)
      BY <1>1, <2>7, <2>8
    <3>2. IsReading(body, songs[k + 1], sent[Len(out) + (k + 1)])
      BY <1>2, <3>1, Zenon
    <3> QED
      BY <2>8, <3>1, <3>2
  <2> QED
    BY <2>9, <2>10
<1>5. CASE ListRead
  <2>1. /\ out' = songs /\ songs' = <<>> /\ body.op \in {"lyrics", "streams"} /\ pc = "read"
    BY <1>5 DEF ListRead
  <2>2. Len(out) = 0
    BY <1>1, <2>1, BeforeFacts DEF CountInv, TypeInv
  <2>3. \A k \in 1..Len(songs) : Len(out) + k = k
    BY <1>1, <2>2
  <2>4. \A k \in 1..Len(out') : IsReading(body, out'[k], sent[k])
    BY <1>2, <2>1, <2>3
  <2> QED
    BY <2>1, <2>4
<1>6. CASE UNCHANGED <<songs, out>>
  BY <1>2, <1>6
<1>7. ReadSong \/ MoveSong \/ ListRead \/ UNCHANGED <<songs, out>>
  BY DEF Next, vars, ChunkRead, NextChunk, MatchRead, RecognitionRead, NotificationRead, Done
<1> QED
  BY <1>3, <1>4, <1>5, <1>6, <1>7

-----------------------------------------------------------------------------
(* Where each match is *)

LEMMA InitBaseInv == ASSUME Init PROVE BaseInv
BY DEF Init, BaseInv

LEMMA StepBaseInv ==
  ASSUME TypeInv, BaseInv, CountInv, [Next]_vars
  PROVE  BaseInv'
<1>1. /\ body' = body /\ songs \in Seq(SongsOfOp(body.op)) /\ out \in Seq(SongsOfOp(body.op))
      /\ Len(songs) \in Nat /\ Len(out) \in Nat /\ base \subseteq Places
  BY SameBody, LenProperties DEF TypeInv
<1> SUFFICES ASSUME body.op = "enterprise"
             PROVE  /\ pc' # "done" => \A k \in 1..Len(songs') : songs'[k].block = at'
                    /\ pc' = "move" => base' = Seconds(Str(Block'.offset))
                    /\ \A k \in 1..Len(out') : IsAnchored(body, out'[k])
  BY <1>1 DEF BaseInv
<1>2. /\ pc # "done" => \A k \in 1..Len(songs) : songs[k].block = at
      /\ pc = "move" => base = Seconds(Str(Block.offset))
      /\ \A k \in 1..Len(out) : IsAnchored(body, out[k])
      /\ songs \in Seq(Matches) /\ out \in Seq(Matches)
  BY <1>1 DEF BaseInv, SongsOfOp
<1>3. CASE ReadSong
  <2>1. /\ pc = "read" /\ pc' = "read" /\ at' = at /\ out' = out
        /\ Len(songs) < Len(Block.songs)
        /\ \E s \in ReadSongs(Block.songs[Len(songs) + 1], at) : songs' = Append(songs, s)
    BY <1>3 DEF ReadSong
  <2>2. /\ IsSong(Block.songs[Len(songs) + 1]) /\ at \in Nat /\ at \in 1..Len(body.blocks)
    BY <2>1, NextSong
  <2>3. PICK s : songs' = Append(songs, s) /\ s.block = at
    BY <2>1, <2>2, ReadSongsFacts
  <2>4. ASSUME NEW k \in 1..Len(songs') PROVE songs'[k].block = at
    BY <1>2, <2>1, <2>3
  <2> QED
    BY <1>2, <2>1, <2>4
<1>4. CASE ChunkRead
  BY <1>1, <1>2, <1>4 DEF ChunkRead, BaseOf, Block
<1>5. CASE MoveSong
  <2>1. /\ pc = "move" /\ pc' = "move" /\ at' = at /\ base' = base /\ songs # <<>>
        /\ out' = Append(out, Anchored(Head(songs))) /\ songs' = Tail(songs)
    BY <1>5 DEF MoveSong
  <2>2. PICK s \in Matches : s = songs[1] /\ s = Head(songs) /\ s.block = at
    BY <1>2, <2>1
  <2>3. PICK r \in Matches : r = Anchored(s) /\ out' = Append(out, r)
    BY <1>1, <2>1, <2>2, AnchoredFacts
  <2>4. /\ r.block = s.block /\ r.from = s.from /\ r.to = s.to
        /\ r.start = {Place(b, s.from) : b \in base} /\ r.end = {Place(b, s.to) : b \in base}
    BY <1>1, <2>3, AnchoredFacts
  <2>5. base = Seconds(Str(body.blocks[r.block].offset))
    BY <1>2, <2>1, <2>2, <2>4 DEF Block
  <2>6. IsAnchored(body, r)
    BY <2>4, <2>5 DEF IsAnchored
  <2>7. /\ Len(out') = Len(out) + 1 /\ out'[Len(out) + 1] = r
        /\ \A k \in 1..Len(out) : out'[k] = out[k]
    BY <1>2, <2>3
  <2>8. ASSUME NEW k \in 1..Len(out') PROVE IsAnchored(body, out'[k])
    <3>1. CASE k = Len(out) + 1
      BY <2>6, <2>7, <3>1
    <3>2. CASE k # Len(out) + 1
      <4>1. k \in 1..Len(out)
        BY <1>1, <2>7, <3>2
      <4> QED
        BY <1>2, <2>7, <4>1
    <3> QED
      BY <3>1, <3>2
  <2>9. ASSUME NEW k \in 1..Len(songs') PROVE songs'[k].block = at'
    <3>1. k + 1 \in 1..Len(songs) /\ songs'[k] = songs[k + 1]
      BY <1>2, <2>1
    <3> QED
      BY <1>2, <2>1, <3>1
  <2>10. base' = Seconds(Str(Block'.offset))
    BY <1>1, <1>2, <2>1 DEF Block
  <2> QED
    BY <2>8, <2>9, <2>10
<1>6. CASE NextChunk
  <2>1. /\ songs = <<>> /\ songs' = songs /\ out' = out /\ pc' # "move"
    BY <1>6 DEF NextChunk
  <2> QED
    BY <1>2, <2>1
<1>7. CASE Done \/ UNCHANGED vars
  BY <1>1, <1>2, <1>7 DEF Done, vars, Block
<1>8. ~ListRead /\ ~MatchRead /\ ~RecognitionRead /\ ~NotificationRead
  BY DEF ListRead, MatchRead, RecognitionRead, NotificationRead
<1> QED
  BY <1>3, <1>4, <1>5, <1>6, <1>7, <1>8 DEF Next

-----------------------------------------------------------------------------
(* What the caller of a callback gets *)

LEMMA InitEventInv == ASSUME Init PROVE EventInv
<1>1. body \in Bodies /\ event = Nothing
      /\ pc = IF body.op = "enterprise" /\ body.blocks = <<>> THEN "done" ELSE "read"
  BY DEF Init
<1> QED
  BY <1>1 DEF EventInv

LEMMA StepEventInv ==
  ASSUME TypeInv, EventInv, [Next]_vars
  PROVE  EventInv'
<1>1. body' = body
  BY SameBody
<1>2. CASE ReadSong \/ ChunkRead \/ MoveSong \/ NextChunk \/ ListRead
  <2>1. pc # "done" /\ event' = event /\ (pc' = "done" => body.op # "match")
    BY <1>2 DEF ReadSong, ChunkRead, MoveSong, NextChunk, ListRead, TypeInv
  <2>2. event' = Nothing
    BY <2>1 DEF EventInv
  <2> QED
    BY <1>1, <2>1, <2>2 DEF EventInv
<1>3. CASE MatchRead
  <2>1. /\ body.op = "match" /\ pc' = "done" /\ UNCHANGED <<body, at, songs, base, out>>
        /\ \/ songs = <<>> /\ event' = [type |-> "error"]
           \/ /\ songs # <<>>
              /\ \E id \in Int64sOf(Block.radio_id) :
                   event' = [type |-> "match", radio_id |-> id, song |-> Head(songs),
                             alternatives |-> Tail(songs)]
    BY <1>3 DEF MatchRead, Others
  <2>2. event' # Nothing
    BY <2>1 DEF Nothing
  <2>3. Block' = Block
    BY <2>1 DEF Block
  <2> QED
    BY <2>1, <2>2, <2>3 DEF EventInv
<1>4. CASE RecognitionRead
  <2>1. /\ body.op = "recognize" /\ pc' = "done" /\ UNCHANGED <<body, at, songs, base, out>>
        /\ \E audio \in IdsOf(Head(Block.songs).audio) :
             event' = [type |-> "recognition", title |-> Head(Block.songs).title,
                       audio |-> audio, song_link |-> Str(Block.link),
                       blocks |-> ParsedMeta(Block.meta)]
    BY <1>4 DEF RecognitionRead
  <2>2. Block' = Block
    BY <2>1 DEF Block
  <2> QED
    BY <2>1, <2>2 DEF EventInv
<1>5. CASE NotificationRead
  <2>1. /\ body.op = "notification" /\ pc' = "done" /\ UNCHANGED <<body, at, songs, base, out>>
        /\ \E id \in IntsOf(Block.radio_id), time \in Times(Block.time) :
             event' = [type |-> "notification", radio_id |-> id, time |-> time,
                       stream_running |-> CoercedBool(Block.running)]
    BY <1>5 DEF NotificationRead
  <2>2. Block' = Block
    BY <2>1 DEF Block
  <2> QED
    BY <2>1, <2>2 DEF EventInv
<1>6. CASE Done \/ UNCHANGED vars
  BY <1>6 DEF Done, vars, EventInv, Block
<1> QED
  BY <1>2, <1>3, <1>4, <1>5, <1>6 DEF Next

-----------------------------------------------------------------------------
(* The theorems *)

IInv == TypeInv /\ CountInv /\ SongInv /\ BaseInv /\ EventInv

LEMMA Invariance == Spec => []IInv
<1>1. Init => IInv
  BY InitTypeInv, InitCountInv, InitSongInv, InitBaseInv, InitEventInv DEF IInv
<1>2. IInv /\ [Next]_vars => IInv'
  <2> SUFFICES ASSUME IInv, [Next]_vars PROVE IInv'
    OBVIOUS
  <2>1. TypeInv /\ CountInv /\ SongInv /\ BaseInv /\ EventInv
    BY DEF IInv
  <2>2. TypeInv'
    BY <2>1, StepTypeInv
  <2> QED
    BY <2>1, <2>2, StepCountInv, StepSongInv, StepBaseInv, StepEventInv DEF IInv
<1> QED
  BY <1>1, <1>2, PTL DEF Spec

\* The songs read are not more than the songs sent, and each is a reading of the
\* one in its place.
LEMMA ReadIsReading ==
  ASSUME IInv
  PROVE  /\ Len(Read) = Len(out) + Len(songs) /\ Len(Read) \in Nat
         /\ Len(SentBy(body)) \in Nat /\ Len(Read) <= Len(SentBy(body))
         /\ Sent = SentBy(body)
         /\ \A k \in 1..Len(Read) : IsReading(body, Read[k], SentBy(body)[k])
<1> DEFINE S == SongsOfOp(body.op)
<1>1. TypeInv /\ CountInv /\ SongInv
  BY DEF IInv
<1>2. /\ body \in Bodies /\ songs \in Seq(S) /\ out \in Seq(S)
      /\ Len(songs) \in Nat /\ Len(out) \in Nat
  BY <1>1, LenProperties DEF TypeInv
<1> HIDE DEF S
<1>3. /\ Len(Read) = Len(out) + Len(songs)
      /\ \A k \in 1..Len(out) : Read[k] = out[k]
      /\ \A k \in 1..Len(songs) : Read[Len(out) + k] = songs[k]
  BY <1>2 DEF Read
<1>4. Len(SentBy(body)) \in Nat
  BY <1>2, BeforeFacts
<1>5. Sent = SentBy(body)
  BY DEF Sent, SentBy, SongsOf
<1>6. Len(out) + Len(songs) <= Len(SentBy(body))
  <2>1. CASE pc # "done"
    <3>1. /\ at \in 1..Len(body.blocks) /\ at \in Nat /\ Before(body, at) \in Nat
          /\ Before(body, at + 1) = Before(body, at) + Len(Block.songs)
          /\ Before(body, at + 1) <= Len(SentBy(body))
      <4>1. at \in 1..Len(body.blocks) /\ at \in Nat
        BY <1>1, <2>1 DEF TypeInv
      <4> QED
        BY <1>2, <4>1, BeforeFacts DEF Block
    <3>2. Len(Block.songs) \in Nat
      BY <1>2, <3>1, BodyFacts DEF Block
    <3>3. Len(out) + Len(songs) <= Before(body, at + 1)
      BY <1>1, <1>2, <2>1, <3>1, <3>2 DEF TypeInv, CountInv
    <3> QED
      BY <1>2, <1>4, <3>1, <3>2, <3>3
  <2>2. CASE pc = "done"
    <3>1. body.op \in {"enterprise", "recognize", "lyrics", "streams", "match", "notification"}
      BY <1>2, RPAssumption DEF RPAssumption, IsBody
    <3>2. CASE body.op \in {"recognize", "notification"}
      <4>1. Len(out) = 0 /\ Len(songs) = 0
        BY <1>1, <3>2 DEF CountInv
      <4> QED
        BY <1>4, <4>1
    <3>3. CASE body.op \in {"enterprise", "match", "lyrics", "streams"}
      <4>1. Len(out) + Len(songs) = Len(SentBy(body))
        BY <1>1, <2>2, <3>3 DEF CountInv
      <4> QED
        BY <1>4, <4>1
    <3> QED
      BY <3>1, <3>2, <3>3
  <2> QED
    BY <2>1, <2>2
<1>7. ASSUME NEW k \in 1..Len(Read)
      PROVE  IsReading(body, Read[k], SentBy(body)[k])
  <2>1. CASE k <= Len(out)
    <3>1. k \in 1..Len(out)
      BY <1>2, <1>3, <2>1
    <3> QED
      BY <1>1, <1>3, <3>1 DEF SongInv
  <2>2. CASE k > Len(out)
    <3>1. PICK j \in 1..Len(songs) : k = Len(out) + j
      <4>1. k - Len(out) \in 1..Len(songs) /\ k = Len(out) + (k - Len(out))
        BY <1>2, <1>3, <2>2
      <4> QED
        BY <4>1
    <3>2. IsReading(body, songs[j], SentBy(body)[Len(out) + j])
      BY <1>1 DEF SongInv
    <3> QED
      BY <1>3, <3>1, <3>2
  <2> QED
    BY <1>2, <1>3, <2>1, <2>2
<1> QED
  BY <1>2, <1>3, <1>4, <1>5, <1>6, <1>7

\* What a returned or a read song is a reading of.
LEMMA EverySongIsReading ==
  ASSUME IInv, NEW s \in ToSet(songs) \cup ToSet(out)
  PROVE  \E sent : IsReading(body, s, sent)
<1>1. /\ songs \in Seq(SongsOfOp(body.op)) /\ out \in Seq(SongsOfOp(body.op))
      /\ SongInv
  BY DEF IInv, TypeInv
<1>2. CASE s \in ToSet(songs)
  <2>1. PICK k \in 1..Len(songs) : s = songs[k]
    BY <1>1, <1>2 DEF ToSet
  <2> QED
    BY <1>1, <2>1 DEF SongInv
<1>3. CASE s \in ToSet(out)
  <2>1. PICK k \in 1..Len(out) : s = out[k]
    BY <1>1, <1>3 DEF ToSet
  <2> QED
    BY <1>1, <2>1 DEF SongInv
<1> QED
  BY <1>2, <1>3

\* The fields of the block in hand are values.
LEMMA BlockValues ==
  ASSUME IInv, body.op # "enterprise"
  PROVE  /\ at = 1 /\ Len(body.blocks) = 1 /\ Block = body.blocks[1]
         /\ IsValue(Block.radio_id) /\ IsValue(Block.running) /\ IsValue(Block.time)
         /\ Len(Block.songs) \in Nat
         /\ \A j \in 1..Len(Block.songs) : IsSong(Block.songs[j]) /\ SentBy(body)[j] = Block.songs[j]
         /\ Len(SentBy(body)) = Len(Block.songs)
<1>1. body \in Bodies /\ at = 1
  BY DEF IInv, TypeInv
<1>2. Len(body.blocks) = 1
  BY <1>1, BodyFacts
<1>3. 1 \in 1..Len(body.blocks)
  BY <1>2
<1>4. /\ IsBlock(body.blocks[1]) /\ Len(body.blocks[1].songs) \in Nat
      /\ \A j \in 1..Len(body.blocks[1].songs) : IsSong(body.blocks[1].songs[j])
  BY <1>1, <1>3, BodyFacts
<1>5. /\ Before(body, 1) = 0
      /\ Before(body, 1 + 1) = Before(body, 1) + Len(body.blocks[1].songs)
      /\ Before(body, Len(body.blocks) + 1) = Len(SentBy(body))
      /\ \A j \in 1..Len(body.blocks[1].songs) :
           SentBy(body)[Before(body, 1) + j] = body.blocks[1].songs[j]
  BY <1>1, <1>3, BeforeFacts
<1>6. \A j \in 1..Len(body.blocks[1].songs) : SentBy(body)[j] = body.blocks[1].songs[j]
  <2>1. \A j \in 1..Len(body.blocks[1].songs) : 0 + j = j
    BY <1>4
  <2> QED
    BY <1>5, <2>1
<1>7. Len(SentBy(body)) = Len(body.blocks[1].songs)
  BY <1>2, <1>4, <1>5
<1>8. IsValue(body.blocks[1].radio_id) /\ IsValue(body.blocks[1].running)
      /\ IsValue(body.blocks[1].time)
  BY <1>4 DEF IsBlock
<1> QED
  BY <1>1, <1>2, <1>4, <1>6, <1>7, <1>8, Zenon DEF Block

\* The event, by its type.
LEMMA EventKinds ==
  ASSUME IInv
  PROVE  /\ event.type = "error" => body.op = "match" /\ songs = <<>>
         /\ event.type = "match" =>
              /\ body.op = "match" /\ songs # <<>>
              /\ event.radio_id \in Int64sOf(Block.radio_id)
              /\ event.song = Head(songs) /\ event.alternatives = Tail(songs)
         /\ event.type = "recognition" =>
              /\ body.op = "recognize"
              /\ event.audio \in IdsOf(Head(Block.songs).audio)
              /\ event.song_link = Str(Block.link)
              /\ event.blocks = ParsedMeta(Block.meta)
         /\ event.type = "notification" =>
              /\ body.op = "notification"
              /\ event.radio_id \in IntsOf(Block.radio_id) /\ event.time \in Times(Block.time)
              /\ event.stream_running = CoercedBool(Block.running)
         /\ pc = "done" /\ body.op = "match" => event.type \in {"error", "match"}
<1> USE DEF Nothing
<1>1. EventInv
  BY DEF IInv
<1>2. CASE event = Nothing
  BY <1>1, <1>2 DEF EventInv
<1>3. CASE body.op = "match" /\ songs = <<>> /\ event = [type |-> "error"]
  BY <1>3
<1>4. CASE /\ body.op = "match" /\ songs # <<>>
           /\ \E id \in Int64sOf(Block.radio_id) :
                event = [type |-> "match", radio_id |-> id, song |-> Head(songs),
                         alternatives |-> Tail(songs)]
  BY <1>4
<1>5. CASE /\ body.op = "recognize"
           /\ \E audio \in IdsOf(Head(Block.songs).audio) :
                event = [type |-> "recognition", title |-> Head(Block.songs).title,
                         audio |-> audio, song_link |-> Str(Block.link),
                         blocks |-> ParsedMeta(Block.meta)]
  BY <1>5
<1>6. CASE /\ body.op = "notification"
           /\ \E id \in IntsOf(Block.radio_id), time \in Times(Block.time) :
                event = [type |-> "notification", radio_id |-> id, time |-> time,
                         stream_running |-> CoercedBool(Block.running)]
  BY <1>6
<1> QED
  BY <1>1, <1>2, <1>3, <1>4, <1>5, <1>6 DEF EventInv

\* The one song of a recognition.
LEMMA RecognizedSong ==
  ASSUME IInv, body.op = "recognize"
  PROVE  IsValue(Head(Block.songs).audio) /\ Head(Block.songs) = SentBy(body)[1]
<1>1. body \in Bodies /\ Block = body.blocks[1]
      /\ \A j \in 1..Len(Block.songs) : IsSong(Block.songs[j]) /\ SentBy(body)[j] = Block.songs[j]
  BY BlockValues DEF IInv, TypeInv
<1>2. Len(Block.songs) = 1
  BY <1>1, RPAssumption DEF RPAssumption, IsBody
<1>3. IsSong(Block.songs[1]) /\ SentBy(body)[1] = Block.songs[1]
  BY <1>1, <1>2
<1>4. Head(Block.songs) = Block.songs[1]
  OBVIOUS
<1> QED
  BY <1>3, <1>4 DEF IsSong

LEMMA SentIsSequence == ASSUME IInv PROVE Sent \in Seq(SongsSent(body))
<1>1. body \in Bodies
  BY DEF IInv, TypeInv
<1>2. PICK seqs \in Seq(Seq(SongsSent(body))) : seqs = SongsOf(body)
  BY <1>1, PrefixesFacts
<1>3. PICK pre \in [0..Len(seqs) -> Seq(SongsSent(body))] :
        pre[Len(seqs)] = FlattenSeq(seqs)
  BY <1>1, <1>2, PrefixesFacts DEF Concatenates
<1>4. Len(seqs) \in 0..Len(seqs)
  BY <1>2
<1>5. Sent = FlattenSeq(seqs)
  BY <1>2 DEF Sent, SongsOf
<1> QED
  BY <1>3, <1>4, <1>5

\* Every value that is read has the type of the field it is read into, whatever
\* the server sent there.
THEOREM TypeCorrect == Spec => []TypeOK
<1>1. IInv => TypeOK
  <2> SUFFICES ASSUME IInv PROVE TypeOK
    OBVIOUS
  <2>1. at \in 1..Len(body.blocks) + 1 /\ pc \in {"read", "move", "done"}
    BY DEF IInv, TypeInv
  <2>2. ASSUME NEW s \in ToSet(songs) \cup ToSet(out)
        PROVE  /\ s.score \in Ints
               /\ body.op = "enterprise" => {s.from, s.to} \cup s.audio \subseteq Ints
               /\ s.block \in 1..Len(body.blocks)
    <3>1. PICK sent : IsReading(body, s, sent)
      BY EverySongIsReading
    <3>2. /\ IsValue(sent.score) /\ IsValue(sent.audio) /\ IsValue(sent.from) /\ IsValue(sent.to)
      BY <3>1 DEF IsReading, IsSong
    <3>3. s.score \in Ints /\ s.block \in 1..Len(body.blocks)
      BY <3>1, <3>2, IntsOfFacts DEF IsReading
    <3>4. ASSUME body.op = "enterprise" PROVE s.from \in Ints /\ s.to \in Ints /\ s.audio \subseteq Ints
      BY <3>1, <3>2, <3>4, IntsOfFacts, IdsOfFacts DEF IsReading
    <3> QED
      BY <3>3, <3>4
  <2>3. event.type = "match" => event.radio_id \in Longs
    <3> SUFFICES ASSUME event.type = "match" PROVE event.radio_id \in Longs
      OBVIOUS
    <3>1. event.radio_id \in Int64sOf(Block.radio_id) /\ IsValue(Block.radio_id)
      BY EventKinds, BlockValues
    <3> QED
      BY <3>1, Int64sOfFacts
  <2>4. event.type = "notification" => event.radio_id \in Ints /\ event.time \in Ints
    <3> SUFFICES ASSUME event.type = "notification"
                 PROVE  event.radio_id \in Ints /\ event.time \in Ints
      OBVIOUS
    <3>1. /\ event.radio_id \in IntsOf(Block.radio_id) /\ event.time \in Times(Block.time)
          /\ IsValue(Block.radio_id) /\ IsValue(Block.time)
      BY EventKinds, BlockValues
    <3> QED
      BY <3>1, IntsOfFacts, TimesFacts
  <2>5. event.type = "recognition" => event.audio \subseteq Ints
    <3> SUFFICES ASSUME event.type = "recognition" PROVE event.audio \subseteq Ints
      OBVIOUS
    <3>1. event.audio \in IdsOf(Head(Block.songs).audio) /\ IsValue(Head(Block.songs).audio)
      BY EventKinds, RecognizedSong
    <3> QED
      BY <3>1, IdsOfFacts
  <2> QED
    BY <2>1, <2>2, <2>3, <2>4, <2>5 DEF TypeOK
<1> QED
  BY Invariance, <1>1, PTL

\* Every song of every chunk, entry of a list or song of a callback comes out once
\* and in the order of the body.
THEOREM SongsOnceInOrder == Spec => []EverySongOnceInOrder
<1>1. IInv => EverySongOnceInOrder
  <2> SUFFICES ASSUME IInv PROVE EverySongOnceInOrder
    OBVIOUS
  <2>1. PICK n \in Nat, m \in Nat :
          /\ n = Len(Read) /\ m = Len(Sent) /\ n <= m /\ Len(Read) = Len(out) + Len(songs)
          /\ Sent = SentBy(body)
          /\ \A k \in 1..n : Read[k].title = Sent[k].title
    BY ReadIsReading DEF IsReading
  <2> DEFINE T == {Sent[k].title : k \in 1..m}
  <2>2. /\ Titles(Read) = [k \in 1..n |-> Read[k].title]
        /\ Titles(Sent) = [k \in 1..m |-> Sent[k].title]
    BY <2>1 DEF Titles
  <2>3. PICK t \in Seq(T) : /\ t = Titles(Sent) /\ Len(t) = m
                            /\ \A k \in 1..m : t[k] = Sent[k].title
    <3>1. \A k \in 1..m : Sent[k].title \in T
      OBVIOUS
    <3>2. PICK g : g = [k \in 1..m |-> Sent[k].title]
      OBVIOUS
    <3> HIDE DEF T
    <3>3. g \in [1..m -> T]
      BY <3>1, <3>2
    <3>4. g \in Seq(T) /\ Len(g) = m
      BY <3>3
    <3>5. \A k \in 1..m : g[k] = Sent[k].title
      BY <3>2
    <3> QED
      BY <2>2, <3>2, <3>4, <3>5, Zenon
  <2>4. PICK r \in Seq(T) : /\ r = Titles(Read) /\ Len(r) = n
                            /\ \A k \in 1..n : r[k] = t[k]
    <3>1. \A k \in 1..n : Read[k].title \in T /\ Read[k].title = t[k]
      BY <2>1, <2>3
    <3> HIDE DEF T
    <3> QED
      BY <2>2, <3>1
  <2> HIDE DEF T
  <2>5. IsPrefix(r, t)
    BY <2>1, <2>3, <2>4 DEF IsPrefix
  <2>6. n = m => r = t
    BY <2>3, <2>4
  <2>7. pc = "done" /\ body.op \in {"enterprise", "match", "lyrics", "streams"} => n = m
    BY <2>1 DEF IInv, CountInv
  <2>8. ASSUME pc = "done", body.op = "match"
        PROVE  /\ (event.type = "error") = (Sent = <<>>)
               /\ event.type = "match" =>
                    Titles(<<event.song>> \o event.alternatives) = Titles(Sent)
    <3>1. out = <<>> /\ songs \in Seq(Entries) /\ Read = songs
      <4>1. out = <<>> /\ songs \in Seq(Entries)
        BY <2>8 DEF IInv, CountInv, TypeInv, SongsOfOp
      <4> QED
        BY <4>1, ConcatEmptySeq DEF Read
    <3>2. Len(songs) = m
      BY <2>1, <2>7, <2>8, <3>1
    <3>3. event.type \in {"error", "match"}
      BY <2>8, EventKinds
    <3>4. (Sent = <<>>) => m = 0
      BY <2>1
    <3>5. m = 0 => Sent = <<>>
      BY <2>1, <2>8, SentIsSequence, EmptySeq
    <3>6. CASE event.type = "error"
      <4>1. m = 0
        BY <3>2, <3>6, EventKinds
      <4> QED
        BY <3>5, <3>6, <4>1
    <3>7. CASE event.type = "match"
      <4>1. songs # <<>> /\ event.song = Head(songs) /\ event.alternatives = Tail(songs)
        BY <3>7, EventKinds
      <4>2. m # 0
        BY <3>1, <3>2, <4>1
      <4>3. <<Head(songs)>> \o Tail(songs) = songs
        BY <3>1, <4>1, HeadTailProperties
      <4>4. Titles(songs) = Titles(Sent)
        BY <2>3, <2>4, <2>6, <2>7, <2>8, <3>1
      <4> QED
        BY <3>4, <3>7, <4>1, <4>2, <4>3, <4>4
    <3> QED
      BY <3>3, <3>6, <3>7
  <2>9. IsPrefix(Titles(Read), Titles(Sent))
    BY <2>3, <2>4, <2>5
  <2>10. pc = "done" /\ body.op \in {"enterprise", "match", "lyrics", "streams"} =>
           Titles(Read) = Titles(Sent)
    BY <2>3, <2>4, <2>6, <2>7
  <2> QED
    BY <2>8, <2>9, <2>10 DEF EverySongOnceInOrder
<1> QED
  BY Invariance, <1>1, PTL

\* A number that fits its field is read as it was sent, save the time of a
\* notification if it is text, and an id exists exactly when a number was sent as
\* one.
THEOREM NumbersReadAsSent == Spec => []ReadAsSent
<1>1. IInv => ReadAsSent
  <2> SUFFICES ASSUME IInv PROVE ReadAsSent
    OBVIOUS
  <2>1. /\ Sent = SentBy(body)
        /\ \A k \in 1..Len(Read) : IsReading(body, Read[k], SentBy(body)[k])
    BY ReadIsReading
  <2>2. ASSUME NEW k \in 1..Len(Read)
        PROVE  /\ ReadAs(Read[k].score, Sent[k].score, IntLimit)
               /\ body.op = "enterprise" =>
                    /\ ReadAs(Read[k].from, Sent[k].from, IntLimit)
                    /\ ReadAs(Read[k].to, Sent[k].to, IntLimit)
                    /\ (Read[k].audio # {}) = HoldsId(Sent[k].audio)
                    /\ \A id \in Read[k].audio : ReadAs(id, Sent[k].audio, IntLimit)
    <3>1. PICK s, sent : s = Read[k] /\ sent = Sent[k] /\ IsReading(body, s, sent)
      BY <2>1
    <3>2. /\ IsValue(sent.score) /\ IsValue(sent.audio) /\ IsValue(sent.from)
          /\ IsValue(sent.to)
      BY <3>1 DEF IsReading, IsSong
    <3>3. ReadAs(s.score, sent.score, IntLimit)
      BY <3>1, <3>2, IntsOfFacts DEF IsReading
    <3>4. ASSUME body.op = "enterprise"
          PROVE  /\ ReadAs(s.from, sent.from, IntLimit) /\ ReadAs(s.to, sent.to, IntLimit)
                 /\ (s.audio # {}) = HoldsId(sent.audio)
                 /\ \A id \in s.audio : ReadAs(id, sent.audio, IntLimit)
      <4>1. /\ s.from \in IntsOf(sent.from) /\ s.to \in IntsOf(sent.to)
            /\ s.audio \in IdsOf(sent.audio)
        BY <3>1, <3>4 DEF IsReading
      <4> QED
        BY <3>2, <4>1, IntsOfFacts, IdsOfFacts
    <3> QED
      BY <3>1, <3>3, <3>4
  <2>3. event.type = "recognition" =>
          /\ (event.audio # {}) = HoldsId(Sent[1].audio)
          /\ \A id \in event.audio : ReadAs(id, Sent[1].audio, IntLimit)
    <3> SUFFICES ASSUME event.type = "recognition"
                 PROVE  /\ (event.audio # {}) = HoldsId(Sent[1].audio)
                        /\ \A id \in event.audio : ReadAs(id, Sent[1].audio, IntLimit)
      OBVIOUS
    <3>1. /\ event.audio \in IdsOf(Head(Block.songs).audio)
          /\ IsValue(Head(Block.songs).audio) /\ Head(Block.songs) = SentBy(body)[1]
      BY EventKinds, RecognizedSong
    <3> QED
      BY <2>1, <3>1, IdsOfFacts
  <2>4. event.type = "match" => ReadAs(event.radio_id, Block.radio_id, LongLimit)
    <3> SUFFICES ASSUME event.type = "match"
                 PROVE  ReadAs(event.radio_id, Block.radio_id, LongLimit)
      OBVIOUS
    <3>1. event.radio_id \in Int64sOf(Block.radio_id) /\ IsValue(Block.radio_id)
      BY EventKinds, BlockValues
    <3> QED
      BY <3>1, Int64sOfFacts
  <2>5. event.type = "notification" =>
          /\ ReadAs(event.radio_id, Block.radio_id, IntLimit)
          /\ Block.time.kind # "string" => ReadAs(event.time, Block.time, IntLimit)
    <3> SUFFICES ASSUME event.type = "notification"
                 PROVE  /\ ReadAs(event.radio_id, Block.radio_id, IntLimit)
                        /\ Block.time.kind # "string" => ReadAs(event.time, Block.time, IntLimit)
      OBVIOUS
    <3>1. /\ event.radio_id \in IntsOf(Block.radio_id) /\ IsValue(Block.radio_id)
          /\ event.time \in Times(Block.time) /\ IsValue(Block.time)
      BY EventKinds, BlockValues
    <3> QED
      BY <3>1, IntsOfFacts, TimesFacts
  <2> QED
    BY <2>2, <2>3, <2>4, <2>5 DEF ReadAsSent
<1> QED
  BY Invariance, <1>1, PTL

\* A number that fits its field, and stream_running, are never read as one thing
\* from the value and as another from its text.
THEOREM TextAgreesWithValue == Spec => []NeverContradictsItsText
<1>1. IInv => NeverContradictsItsText
  <2> SUFFICES ASSUME IInv PROVE NeverContradictsItsText
    OBVIOUS
  <2>1. /\ Sent = SentBy(body)
        /\ \A k \in 1..Len(Read) : IsReading(body, Read[k], SentBy(body)[k])
    BY ReadIsReading
  <2>2. ASSUME NEW k \in 1..Len(Read)
        PROVE  /\ Agrees({Read[k].score}, Sent[k].score, IntLimit)
               /\ body.op = "enterprise" =>
                    /\ Agrees({Read[k].from}, Sent[k].from, IntLimit)
                    /\ Agrees({Read[k].to}, Sent[k].to, IntLimit)
                    /\ Agrees(Read[k].audio, Sent[k].audio, IntLimit)
    <3>1. PICK s, sent : s = Read[k] /\ sent = Sent[k] /\ IsReading(body, s, sent)
      BY <2>1
    <3>2. /\ IsValue(sent.score) /\ IsValue(sent.audio) /\ IsValue(sent.from)
          /\ IsValue(sent.to) /\ s.score \in IntsOf(sent.score)
      BY <3>1 DEF IsReading, IsSong
    <3>3. Agrees({s.score}, sent.score, IntLimit)
      BY <3>2, IntsOfFacts, ReadAgrees
    <3>4. ASSUME body.op = "enterprise"
          PROVE  /\ Agrees({s.from}, sent.from, IntLimit) /\ Agrees({s.to}, sent.to, IntLimit)
                 /\ Agrees(s.audio, sent.audio, IntLimit)
      <4>1. /\ s.from \in IntsOf(sent.from) /\ s.to \in IntsOf(sent.to)
            /\ s.audio \in IdsOf(sent.audio)
        BY <3>1, <3>4 DEF IsReading
      <4> QED
        BY <3>2, <4>1, IntsOfFacts, ReadAgrees, IdAgrees
    <3> QED
      BY <3>1, <3>3, <3>4
  <2>3. event.type = "recognition" => Agrees(event.audio, Sent[1].audio, IntLimit)
    <3> SUFFICES ASSUME event.type = "recognition"
                 PROVE  Agrees(event.audio, Sent[1].audio, IntLimit)
      OBVIOUS
    <3>1. /\ event.audio \in IdsOf(Head(Block.songs).audio)
          /\ IsValue(Head(Block.songs).audio) /\ Head(Block.songs) = SentBy(body)[1]
      BY EventKinds, RecognizedSong
    <3> QED
      BY <2>1, <3>1, IdAgrees
  <2>4. event.type = "match" => Agrees({event.radio_id}, Block.radio_id, LongLimit)
    <3> SUFFICES ASSUME event.type = "match"
                 PROVE  Agrees({event.radio_id}, Block.radio_id, LongLimit)
      OBVIOUS
    <3>1. event.radio_id \in Int64sOf(Block.radio_id) /\ IsValue(Block.radio_id)
      BY EventKinds, BlockValues
    <3> QED
      BY <3>1, Int64sOfFacts, ReadAgrees
  <2>5. ASSUME event.type = "notification"
        PROVE  /\ Agrees({event.radio_id}, Block.radio_id, IntLimit)
               /\ Agrees({event.time}, Block.time, IntLimit)
               /\ \A b \in event.stream_running :
                    CoercedBool(String(Str(Block.running))) \subseteq {b}
    <3>1. /\ event.radio_id \in IntsOf(Block.radio_id) /\ IsValue(Block.radio_id)
          /\ event.time \in Times(Block.time) /\ IsValue(Block.time)
          /\ event.stream_running = CoercedBool(Block.running) /\ IsValue(Block.running)
      BY <2>5, EventKinds, BlockValues
    <3>2. Agrees({event.radio_id}, Block.radio_id, IntLimit)
      BY <3>1, IntsOfFacts, ReadAgrees
    <3>3. Agrees({event.time}, Block.time, IntLimit)
      <4>1. CASE Block.time.kind = "string"
        BY <4>1 DEF Agrees
      <4>2. CASE Block.time.kind # "string"
        BY <3>1, <4>2, TimesFacts, ReadAgrees
      <4> QED
        BY <4>1, <4>2
    <3> QED
      BY <3>1, <3>2, <3>3, TruthOfItsText
  <2> QED
    BY <2>2, <2>3, <2>4, <2>5 DEF NeverContradictsItsText
<1> QED
  BY Invariance, <1>1, PTL

\* A match is placed in the file from the offset of its own chunk, and has no
\* place exactly when that offset cannot be read.
THEOREM MatchesAnchored == Spec => []AnchoredByItsChunk
<1>1. IInv => AnchoredByItsChunk
  <2> SUFFICES ASSUME IInv, body.op = "enterprise", NEW s \in ToSet(out)
               PROVE  /\ s.start = {Place(b, s.from) :
                                      b \in Meant(Str(body.blocks[s.block].offset))}
                      /\ s.end = {Place(b, s.to) :
                                    b \in Meant(Str(body.blocks[s.block].offset))}
    BY DEF AnchoredByItsChunk
  <2>1. body \in Bodies /\ out \in Seq(Matches)
    BY DEF IInv, TypeInv, SongsOfOp
  <2>2. PICK k \in 1..Len(out) : s = out[k]
    BY <2>1 DEF ToSet
  <2>3. IsAnchored(body, s)
    BY <2>2 DEF IInv, BaseInv
  <2>4. s.block \in 1..Len(body.blocks)
    <3>1. PICK sent : IsReading(body, s, sent)
      BY EverySongIsReading
    <3> QED
      BY <3>1 DEF IsReading
  <2>5. IsValue(body.blocks[s.block].offset)
    BY <2>1, <2>4, BodyFacts DEF IsBlock
  <2>6. Seconds(Str(body.blocks[s.block].offset)) = Meant(Str(body.blocks[s.block].offset))
    BY <2>5, StrIsText, SecondsMeant
  <2> QED
    BY <2>3, <2>6 DEF IsAnchored
<1> QED
  BY Invariance, <1>1, PTL

-----------------------------------------------------------------------------
(* Links *)

\* A key no model knows is in extras as it was sent.
LEMMA ExtrasField ==
  ASSUME NEW v, v.kind = "object", NEW known, NEW key, key \notin known
  PROVE  Field(Object(Extras(v, known)), key) = Field(v, key)
<1>1. PICK e : e = Extras(v, known)
  OBVIOUS
<1>2. e = [k \in DOMAIN v.of \ known |-> v.of[k]]
  BY <1>1 DEF Extras
<1>3. Object(e).kind = "object" /\ Object(e).of = e
  BY DEF Object
<1>4. /\ (key \in DOMAIN e) <=> (key \in DOMAIN v.of)
      /\ key \in DOMAIN v.of => e[key] = v.of[key]
  BY <1>2
<1>5. Field(Object(e), key) = Field(v, key)
  BY <1>3, <1>4, Zenon DEF Field
<1> QED
  BY <1>1, <1>5

LEMMA AbsentFacts ==
  /\ Absent.kind = "absent" /\ Plainly(Absent) = {} /\ Str(Absent) = EmptyText
  /\ \A key : Field(Absent, key) = Absent
  /\ First(Absent) = Absent
<1>1. Absent.kind = "absent"
  BY DEF Absent
<1>2. CoercedString(Absent) = {}
  BY <1>1 DEF CoercedString
<1>3. Str(Absent) = EmptyText
  BY <1>2, ValueOrFacts DEF Str
<1> QED
  BY <1>1, <1>3 DEF Plainly, Field, First

LEMMA NoField ==
  ASSUME NEW v, NEW key, ~(v.kind = "object" /\ key \in DOMAIN v.of)
  PROVE  Field(v, key) = Absent
BY DEF Field

\* A text that is not empty is the same plainly and converted.
LEMMA PlainlyStr ==
  ASSUME NEW v, Plainly(v) # {}
  PROVE  Plainly(v) = {Str(v)} /\ Str(v) # EmptyText
<1>1. v.kind = "string" /\ Plainly(v) = {v.text} /\ v.text # EmptyText
  BY DEF Plainly
<1>2. Str(v) = v.text
  BY <1>1, ValueOrFacts DEF Str, CoercedString
<1> QED
  BY <1>1, <1>2

\* The block a model makes of an object.
TypedBlock(m, v) ==
  [url |-> Str(Field(v, "url")), uri |-> Str(Field(v, "uri")),
   link |-> Str(Field(v, "link")), extras |-> Object(Extras(v, Known[m]))]

LEMMA ParsedBlockFacts ==
  ASSUME NEW meta, NEW m \in Models
  PROVE  ParsedMeta(meta)[m] = IF meta[m].kind = "object" THEN {TypedBlock(m, meta[m])} ELSE {}
BY DEF ParsedMeta, ParsedBlock, TypedBlock

\* The link of a provider's own block.
DirectOf(meta, p) ==
  IF p \in Models THEN UNION {Direct(b, p) : b \in ParsedMeta(meta)[p]} ELSE {}

LEMMA DirectFacts ==
  ASSUME NEW meta, NEW p
  PROVE  DirectOf(meta, p) = IF p \in Models /\ meta[p].kind = "object"
                             THEN Direct(TypedBlock(p, meta[p]), p) ELSE {}
<1>1. CASE p \in Models /\ meta[p].kind = "object"
  <2>1. ParsedMeta(meta)[p] = {TypedBlock(p, meta[p])}
    BY <1>1, ParsedBlockFacts
  <2>2. UNION {Direct(b, p) : b \in {TypedBlock(p, meta[p])}} = Direct(TypedBlock(p, meta[p]), p)
    OBVIOUS
  <2> QED
    BY <1>1, <2>1, <2>2, Zenon DEF DirectOf
<1>2. CASE p \in Models /\ meta[p].kind # "object"
  <2>1. ParsedMeta(meta)[p] = {}
    BY <1>2, ParsedBlockFacts
  <2> QED
    BY <1>2, <2>1 DEF DirectOf
<1>3. CASE p \notin Models
  BY <1>3 DEF DirectOf
<1> QED
  BY <1>1, <1>2, <1>3

LEMMA StreamingUrlFacts ==
  ASSUME NEW meta, NEW link, NEW p
  PROVE  StreamingUrl(ParsedMeta(meta), link, p) =
           IF DirectOf(meta, p) # {} THEN DirectOf(meta, p) ELSE Redirect(link, p)
BY DEF StreamingUrl, DirectOf

LEMMA KnownFacts ==
  /\ "external_urls" \notin Known["spotify"] /\ "preview_url" \notin Known["spotify"]
  /\ "href" \notin Known["napster"] /\ "preview" \notin Known["deezer"]
  /\ "previews" \notin Known["apple_music"]
BY DEF Known

\* The direct link of a provider is the link sent, or of Spotify the uri.
LEMMA DirectIsSent ==
  ASSUME NEW meta, meta = Block.meta, NEW p \in Models
  PROVE  \/ DirectOf(meta, p) = SentLink(p)
         \/ p = "spotify" /\ SentLink(p) = {} /\ Str(Field(meta[p], "uri")) # EmptyText
<1>1. PICK b : b = meta[p] /\ b = Block.meta[p]
  OBVIOUS
<1>2. PICK t : t = TypedBlock(p, b)
  OBVIOUS
<1>3. /\ t.url = Str(Field(b, "url")) /\ t.uri = Str(Field(b, "uri"))
      /\ t.link = Str(Field(b, "link")) /\ t.extras = Object(Extras(b, Known[p]))
  BY <1>2 DEF TypedBlock
<1>4. DirectOf(meta, p) = IF b.kind = "object" THEN Direct(t, p) ELSE {}
  BY <1>1, <1>2, DirectFacts
\* A link the model knows.
<1>5. ASSUME NEW key,
             Direct(t, p) = {Str(Field(b, key))} \ {EmptyText},
             SentLink(p) = {Str(Field(b, key))} \ {EmptyText}
      PROVE  DirectOf(meta, p) = SentLink(p)
  <2>1. CASE b.kind = "object"
    BY <1>4, <1>5, <2>1
  <2>2. CASE b.kind # "object"
    <3>1. Str(Field(b, key)) = EmptyText
      BY <2>2, NoField, AbsentFacts
    <3> QED
      BY <1>4, <1>5, <2>2, <3>1
  <2> QED
    BY <2>1, <2>2
<1>6. CASE p = "apple_music"
  <2>1. /\ Direct(t, p) = {Str(Field(b, "url"))} \ {EmptyText}
        /\ SentLink(p) = {Str(Field(b, "url"))} \ {EmptyText}
    BY <1>1, <1>3, <1>6 DEF Direct, SentLink
  <2> QED
    BY <1>1, <1>5, <2>1
<1>7. CASE p = "deezer"
  <2>1. /\ Direct(t, p) = {Str(Field(b, "link"))} \ {EmptyText}
        /\ SentLink(p) = {Str(Field(b, "link"))} \ {EmptyText}
    BY <1>1, <1>3, <1>7 DEF Direct, SentLink
  <2> QED
    BY <1>1, <1>5, <2>1
<1>8. CASE p = "napster"
  <2>1. /\ Direct(t, p) = Plainly(Field(t.extras, "href"))
        /\ SentLink(p) = Plainly(Field(b, "href"))
    BY <1>1, <1>8 DEF Direct, SentLink
  <2>2. CASE b.kind = "object" /\ "href" \in DOMAIN b.of
    <3>1. Direct(t, p) = SentLink(p)
      BY <1>3, <1>8, <2>1, <2>2, ExtrasField, KnownFacts
    <3> QED
      BY <1>1, <1>4, <2>2, <3>1
  <2>3. CASE ~(b.kind = "object" /\ "href" \in DOMAIN b.of)
    <3>1. Field(b, "href") = Absent
      BY <2>3, NoField
    <3>2. SentLink(p) = {}
      BY <2>1, <3>1, AbsentFacts
    <3>3. b.kind = "object" => Direct(t, p) = {}
      BY <1>3, <1>8, <2>1, <3>1, ExtrasField, KnownFacts, AbsentFacts
    <3> QED
      BY <1>4, <3>2, <3>3
  <2> QED
    BY <2>2, <2>3
<1>9. CASE p = "spotify"
  <2> DEFINE nested == Plainly(Field(Field(b, "external_urls"), "spotify"))
  <2>1. SentLink(p) = nested
    BY <1>1, <1>9 DEF SentLink
  <2>2. CASE b.kind = "object"
    <3>1. Field(t.extras, "external_urls") = Field(b, "external_urls")
      BY <1>3, <1>9, <2>2, ExtrasField, KnownFacts
    <3>2. Direct(t, p) = IF nested # {} THEN nested ELSE {t.uri} \ {EmptyText}
      BY <1>9, <3>1 DEF Direct
    <3>3. CASE nested # {}
      BY <1>4, <2>1, <2>2, <3>2, <3>3
    <3>4. CASE nested = {}
      <4>1. DirectOf(meta, p) = {Str(Field(b, "uri"))} \ {EmptyText}
        BY <1>3, <1>4, <2>2, <3>2, <3>4
      <4> QED
        BY <1>1, <1>9, <2>1, <3>4, <4>1
    <3> QED
      BY <3>3, <3>4
  <2>3. CASE b.kind # "object"
    <3>1. nested = {}
      BY <2>3, NoField, AbsentFacts
    <3> QED
      BY <1>4, <2>1, <2>3, <3>1
  <2> QED
    BY <2>2, <2>3
<1> QED
  BY <1>6, <1>7, <1>8, <1>9 DEF Models, Providers

\* A link of a provider with a list of previews or one preview.
LEMMA PreviewIsSent ==
  ASSUME NEW meta, meta = Block.meta
  PROVE  /\ UNION {Plainly(Field(First(Field(b.extras, "previews")), "url")) :
                     b \in ParsedMeta(meta)["apple_music"]} = SentPreviews[1]
         /\ UNION {Plainly(Field(b.extras, "preview_url")) :
                     b \in ParsedMeta(meta)["spotify"]} = SentPreviews[2]
         /\ UNION {Plainly(Field(b.extras, "preview")) :
                     b \in ParsedMeta(meta)["deezer"]} = SentPreviews[3]
<1>1. /\ SentPreviews[1] = Plainly(Field(First(Field(meta["apple_music"], "previews")), "url"))
      /\ SentPreviews[2] = Plainly(Field(meta["spotify"], "preview_url"))
      /\ SentPreviews[3] = Plainly(Field(meta["deezer"], "preview"))
  BY DEF SentPreviews
<1>2. "apple_music" \in Models /\ "spotify" \in Models /\ "deezer" \in Models
  BY DEF Models, Providers
<1>3. ASSUME NEW m \in Models, NEW key, key \notin Known[m]
      PROVE  \/ /\ ParsedMeta(meta)[m] = {TypedBlock(m, meta[m])}
                /\ Field(TypedBlock(m, meta[m]).extras, key) = Field(meta[m], key)
             \/ ParsedMeta(meta)[m] = {} /\ Field(meta[m], key) = Absent
  <2>1. CASE meta[m].kind = "object"
    <3>1. TypedBlock(m, meta[m]).extras = Object(Extras(meta[m], Known[m]))
      BY DEF TypedBlock
    <3>2. ParsedMeta(meta)[m] = {TypedBlock(m, meta[m])}
      BY <2>1, ParsedBlockFacts
    <3>3. Field(Object(Extras(meta[m], Known[m])), key) = Field(meta[m], key)
      BY <1>3, <2>1, ExtrasField, Zenon
    <3> QED
      BY <3>1, <3>2, <3>3
  <2>2. CASE meta[m].kind # "object"
    BY <2>2, ParsedBlockFacts, NoField
  <2> QED
    BY <2>1, <2>2
<1>4. UNION {Plainly(Field(First(Field(b.extras, "previews")), "url")) :
               b \in ParsedMeta(meta)["apple_music"]} = SentPreviews[1]
  <2>1. CASE \E t : /\ ParsedMeta(meta)["apple_music"] = {t}
                    /\ Field(t.extras, "previews") = Field(meta["apple_music"], "previews")
    BY <1>1, <2>1
  <2>2. CASE /\ ParsedMeta(meta)["apple_music"] = {}
             /\ Field(meta["apple_music"], "previews") = Absent
    BY <1>1, <2>2, AbsentFacts
  <2> QED
    BY <1>2, <1>3, <2>1, <2>2, KnownFacts
<1>5. UNION {Plainly(Field(b.extras, "preview_url")) :
               b \in ParsedMeta(meta)["spotify"]} = SentPreviews[2]
  <2>1. CASE \E t : /\ ParsedMeta(meta)["spotify"] = {t}
                    /\ Field(t.extras, "preview_url") = Field(meta["spotify"], "preview_url")
    BY <1>1, <2>1
  <2>2. CASE /\ ParsedMeta(meta)["spotify"] = {}
             /\ Field(meta["spotify"], "preview_url") = Absent
    BY <1>1, <2>2, AbsentFacts
  <2> QED
    BY <1>2, <1>3, <2>1, <2>2, KnownFacts
<1>6. UNION {Plainly(Field(b.extras, "preview")) :
               b \in ParsedMeta(meta)["deezer"]} = SentPreviews[3]
  <2>1. CASE \E t : /\ ParsedMeta(meta)["deezer"] = {t}
                    /\ Field(t.extras, "preview") = Field(meta["deezer"], "preview")
    BY <1>1, <2>1
  <2>2. CASE /\ ParsedMeta(meta)["deezer"] = {}
             /\ Field(meta["deezer"], "preview") = Absent
    BY <1>1, <2>2, AbsentFacts
  <2> QED
    BY <1>2, <1>3, <2>1, <2>2, KnownFacts
<1> QED
  BY <1>4, <1>5, <1>6

LEMMA PreviewUrlFacts ==
  ASSUME NEW meta, meta = Block.meta
  PROVE  PreviewUrl(ParsedMeta(meta)) =
           IF SentPreviews[1] # {} THEN SentPreviews[1]
           ELSE IF SentPreviews[2] # {} THEN SentPreviews[2] ELSE SentPreviews[3]
BY PreviewIsSent, Zenon DEF PreviewUrl

\* A provider's URL is its own link, else the redirect, unless Spotify sent a uri
\* and no link; and the preview is the first one sent.
THEOREM LinksAreFound == Spec => []LinksFound
<1>1. IInv => LinksFound
  <2> SUFFICES ASSUME IInv, event.type = "recognition" PROVE LinksFound
    BY DEF LinksFound
  <2>1. PICK meta : meta = Block.meta
    OBVIOUS
  <2>2. event.blocks = ParsedMeta(meta) /\ event.song_link = Str(Block.link)
    BY <2>1, EventKinds
  <2>3. ASSUME NEW p \in Providers, NEW url, NEW sent,
               url = StreamingUrl(event.blocks, event.song_link, p),
               sent = IF p \in Models THEN SentLink(p) ELSE {}
        PROVE  \/ url = IF sent # {} THEN sent ELSE Redirect(Str(Block.link), p)
               \/ p = "spotify" /\ sent = {} /\ Str(Field(Block.meta[p], "uri")) # EmptyText
    <3>1. url = IF DirectOf(meta, p) # {} THEN DirectOf(meta, p) ELSE Redirect(Str(Block.link), p)
      BY <2>2, <2>3, StreamingUrlFacts
    <3>2. CASE p \in Models
      BY <2>1, <2>3, <3>1, <3>2, DirectIsSent
    <3>3. CASE p \notin Models
      <4>1. DirectOf(meta, p) = {}
        BY <3>3, DirectFacts
      <4> QED
        BY <2>3, <3>1, <3>3, <4>1
    <3> QED
      BY <3>2, <3>3
  <2>7. \A p \in Providers :
          LET url == StreamingUrl(event.blocks, event.song_link, p)
              sent == IF p \in Models THEN SentLink(p) ELSE {} IN
          \/ url = IF sent # {} THEN sent ELSE Redirect(Str(Block.link), p)
          \/ p = "spotify" /\ sent = {} /\ Str(Field(Block.meta[p], "uri")) # EmptyText
    BY <2>3
  <2>4. PICK preview : preview = PreviewUrl(event.blocks)
    OBVIOUS
  <2>5. preview = IF SentPreviews[1] # {} THEN SentPreviews[1]
                  ELSE IF SentPreviews[2] # {} THEN SentPreviews[2] ELSE SentPreviews[3]
    BY <2>1, <2>2, <2>4, PreviewUrlFacts
  <2>6. \/ preview = {} /\ \A k \in 1..3 : SentPreviews[k] = {}
        \/ \E k \in 1..3 : /\ preview = SentPreviews[k] /\ preview # {}
                           /\ \A j \in 1..k - 1 : SentPreviews[j] = {}
    <3>1. CASE SentPreviews[1] # {}
      BY <2>5, <3>1
    <3>2. CASE SentPreviews[1] = {} /\ SentPreviews[2] # {}
      BY <2>5, <3>2
    <3>3. CASE SentPreviews[1] = {} /\ SentPreviews[2] = {} /\ SentPreviews[3] # {}
      BY <2>5, <3>3
    <3>4. CASE SentPreviews[1] = {} /\ SentPreviews[2] = {} /\ SentPreviews[3] = {}
      BY <2>5, <3>4
    <3> QED
      BY <3>1, <3>2, <3>3, <3>4
  <2> QED
    BY <2>4, <2>6, <2>7, Zenon DEF LinksFound
<1> QED
  BY Invariance, <1>1, PTL
================================================================================
