--------------------------- MODULE MessageProofs ---------------------------
(***************************************************************************)
(* What is written is read, and JSON keeps it, for one message of          *)
(* demo.ts, given that it is so for the messages nested in it.             *)
(***************************************************************************)
EXTENDS Message, SequenceTheorems, WellFoundedInduction, TLAPS

-----------------------------------------------------------------------------
(* Induction, with a set in the place of a predicate. *)

\* What holds of 0, and of each number up to n if of the one before, holds of
\* all of them.
LEMMA Induct ==
  ASSUME NEW n \in Nat, NEW S, 0 \in S, \A k \in 1..n : k - 1 \in S => k \in S
  PROVE  \A k \in 0..n : k \in S
<1> DEFINE Out == {k \in 0..n : k \notin S}
           R == OpToRel(<, Nat)
<1> SUFFICES ASSUME Out # {} PROVE FALSE
  OBVIOUS
<1>1. \A j, k \in Nat : j < k => <<j, k>> \in R
  <2> TAKE j, k \in Nat
  <2> HAVE j < k
  <2>1. <<j, k>> \in Nat \X Nat /\ <<j, k>>[1] < <<j, k>>[2]
    OBVIOUS
  <2> QED
    BY <2>1, Zenon DEF OpToRel
<1>2. IsWellFoundedOn(R, Nat)
  BY NatLessThanWellFounded
<1>3. Out \in SUBSET Nat /\ Out # {}
  OBVIOUS
<1> HIDE DEF R, Out
<1>4. PICK k \in Out : \A j \in Out : ~(<<j, k>> \in R)
  BY <1>2, <1>3, WFMin
<1>5. \A j \in Out : ~(j < k)
  BY <1>1, <1>3, <1>4
<1>6. k \in 0..n /\ k \notin S
  BY DEF Out
<1>7. k \in 1..n
  BY <1>6
<1>8. k - 1 \in 0..n /\ k - 1 < k
  BY <1>7
<1>9. k - 1 \in S
  BY <1>5, <1>8 DEF Out
<1> QED
  BY <1>6, <1>7, <1>9

-----------------------------------------------------------------------------
(* The decoding loop. *)

\* read is what the first n rounds of the loop read.
Reads(T, m, wire, n, read) ==
  read = [i \in 0..n |-> IF i = 0 THEN m ELSE Take(T, read[i - 1], wire[i])]

LEMMA ReadExists ==
  ASSUME NEW T, NEW m, NEW wire, NEW n \in Nat
  PROVE  \E read : Reads(T, m, wire, n, read)
<1> DEFINE S == {k \in 0..n : \E read : Reads(T, m, wire, k, read)}
<1>1. 0 \in S
  <2>1. Reads(T, m, wire, 0, [i \in 0..0 |-> m])
    BY DEF Reads
  <2> QED
    BY <2>1
<1>2. ASSUME NEW k \in 1..n, k - 1 \in S
      PROVE  k \in S
  <2>1. PICK read : Reads(T, m, wire, k - 1, read)
    BY <1>2
  <2> DEFINE longer ==
        [i \in 0..k |-> IF i = k THEN Take(T, read[k - 1], wire[k]) ELSE read[i]]
  <2>2. ASSUME NEW i \in 0..k
        PROVE  longer[i] = IF i = 0 THEN m ELSE Take(T, longer[i - 1], wire[i])
    BY <2>1 DEF Reads
  <2>3. Reads(T, m, wire, k, longer)
    BY <2>2 DEF Reads
  <2> HIDE DEF longer
  <2> QED
    BY <2>3
<1> HIDE DEF S
<1>3. \A k \in 0..n : k \in S
  BY <1>1, <1>2, Induct
<1>4. n \in S
  BY <1>3
<1> QED
  BY <1>4 DEF S

LEMMA ReadSteps ==
  ASSUME NEW T, NEW m, NEW wire, Len(wire) \in Nat
  PROVE  /\ Read(T, m, wire)[0] = m
         /\ \A i \in 1..Len(wire) :
              Read(T, m, wire)[i] = Take(T, Read(T, m, wire)[i - 1], wire[i])
<1>1. \E read : Reads(T, m, wire, Len(wire), read)
  BY ReadExists
<1>2. Read(T, m, wire) = CHOOSE read : Reads(T, m, wire, Len(wire), read)
  BY DEF Read, Reads
<1>3. Reads(T, m, wire, Len(wire), Read(T, m, wire))
  BY <1>1, <1>2
<1>4. Read(T, m, wire) =
        [i \in 0..Len(wire) |-> IF i = 0 THEN m
                                ELSE Take(T, Read(T, m, wire)[i - 1], wire[i])]
  BY <1>3 DEF Reads
<1> QED
  BY <1>4

\* A sequence of messages that follows the rounds of the loop ends as it does.
LEMMA MergeEnds ==
  ASSUME NEW T, NEW m, NEW wire, Len(wire) \in Nat, NEW h,
         h[0] = m, \A i \in 1..Len(wire) : h[i] = Take(T, h[i - 1], wire[i])
  PROVE  Merge(T, m, wire) = h[Len(wire)]
<1> DEFINE S == {i \in 0..Len(wire) : Read(T, m, wire)[i] = h[i]}
<1>1. 0 \in S
  BY ReadSteps
<1>2. ASSUME NEW i \in 1..Len(wire), i - 1 \in S
      PROVE  i \in S
  BY <1>2, ReadSteps
<1> HIDE DEF S
<1>3. \A i \in 0..Len(wire) : i \in S
  BY <1>1, <1>2, Induct
<1>4. Len(wire) \in S
  BY <1>3
<1> QED
  BY <1>4 DEF Merge, S

LEMMA MergeNothing ==
  ASSUME NEW T, NEW m
  PROVE  Merge(T, m, <<>>) = m
BY ReadSteps DEF Merge

LEMMA MergeOne ==
  ASSUME NEW T, NEW m, NEW w
  PROVE  Merge(T, m, <<w>>) = Take(T, m, w)
<1>1. Len(<<w>>) = 1 /\ <<w>>[1] = w
  OBVIOUS
<1> QED
  BY <1>1, ReadSteps DEF Merge

LEMMA Concat ==
  ASSUME NEW a, NEW b, IsList(a), IsList(b)
  PROVE  /\ IsList(a \o b) /\ Len(a) \in Nat /\ Len(b) \in Nat
         /\ DOMAIN a = 1..Len(a) /\ DOMAIN b = 1..Len(b)
         /\ Len(a \o b) = Len(a) + Len(b) /\ DOMAIN (a \o b) = 1..(Len(a) + Len(b))
         /\ \A i \in 1..Len(a) : (a \o b)[i] = a[i]
         /\ \A i \in 1..Len(b) : (a \o b)[Len(a) + i] = b[i]
<1> DEFINE A == {a[i] : i \in DOMAIN a}
           B == {b[i] : i \in DOMAIN b}
           c == a \o b
           C == {c[i] : i \in DOMAIN c}
<1>1. a \in Seq(A \cup B) /\ b \in Seq(A \cup B)
  BY DEF IsList
<1> HIDE DEF A, B
<1>2. c \in Seq(A \cup B) /\ Len(c) = Len(a) + Len(b)
  BY <1>1
<1>3. /\ \A i \in 1..Len(a) : c[i] = a[i]
      /\ \A i \in 1..Len(b) : c[Len(a) + i] = b[i]
  BY <1>1
<1>4. c = [i \in 1..Len(c) |-> c[i]] /\ Len(c) \in Nat
  BY <1>2, LenProperties
<1> HIDE DEF c
<1>5. c \in Seq(C)
  BY <1>4
<1> QED
  <2>1. IsList(c)
    BY <1>5 DEF IsList
  <2>2. DOMAIN a = 1..Len(a) /\ DOMAIN b = 1..Len(b) /\ DOMAIN c = 1..Len(c)
    BY <1>1, <1>2
  <2> QED
    BY <1>1, <1>2, <1>3, <2>1, <2>2 DEF c

\* A wire of two parts is read part by part.
LEMMA MergeConcat ==
  ASSUME NEW T, NEW m, NEW a, NEW b, IsList(a), IsList(b)
  PROVE  Merge(T, m, a \o b) = Merge(T, Merge(T, m, a), b)
<1> DEFINE A == Read(T, m, a)
           B == Read(T, Merge(T, m, a), b)
           h == [i \in 0..(Len(a) + Len(b)) |->
                   IF i <= Len(a) THEN A[i] ELSE B[i - Len(a)]]
<1>1. /\ Len(a) \in Nat /\ Len(b) \in Nat /\ Len(a \o b) = Len(a) + Len(b)
      /\ \A i \in 1..Len(a) : (a \o b)[i] = a[i]
      /\ \A i \in 1..Len(b) : (a \o b)[Len(a) + i] = b[i]
  BY Concat
<1>2. /\ A[0] = m /\ B[0] = A[Len(a)]
      /\ \A i \in 1..Len(a) : A[i] = Take(T, A[i - 1], a[i])
      /\ \A i \in 1..Len(b) : B[i] = Take(T, B[i - 1], b[i])
  BY <1>1, ReadSteps DEF Merge
<1>3. h[Len(a) + Len(b)] = B[Len(b)]
  BY <1>1, <1>2
<1> HIDE DEF A, B
<1>4. ASSUME NEW i \in 1..Len(a \o b)
      PROVE  h[i] = Take(T, h[i - 1], (a \o b)[i])
  <2>1. CASE i <= Len(a)
    BY <1>1, <1>2, <2>1
  <2>2. CASE i > Len(a)
    <3>1. i - Len(a) \in 1..Len(b) /\ Len(a) + (i - Len(a)) = i
      BY <1>1, <2>2
    <3>2. (a \o b)[i] = b[i - Len(a)]
      BY <1>1, <3>1
    <3>3. h[i - 1] = B[(i - Len(a)) - 1]
      <4>1. CASE i - 1 = Len(a)
        BY <1>1, <1>2, <4>1
      <4>2. CASE i - 1 > Len(a)
        BY <1>1, <4>2
      <4> QED
        BY <1>1, <2>2, <4>1, <4>2
    <3>4. h[i] = B[i - Len(a)]
      BY <1>1, <2>2
    <3> QED
      BY <1>2, <3>1, <3>2, <3>3, <3>4
  <2> QED
    BY <1>1, <2>1, <2>2
<1>5. h[0] = m
  BY <1>1, <1>2
<1> HIDE DEF h
<1>6. Merge(T, m, a \o b) = h[Len(a \o b)]
  <2>1. Len(a \o b) \in Nat
    BY <1>1
  <2> QED
    BY <2>1, <1>4, <1>5, MergeEnds
<1> QED
  BY <1>1, <1>3, <1>6 DEF Merge, B


-----------------------------------------------------------------------------
(* The fields of a type. *)

LEMMA FieldFacts ==
  ASSUME NEW T, IsType(T)
  PROVE  /\ \A f \in Fields(T) :
              f.name \in FieldNames(T) /\ FieldOf(T, f.name) = f /\ IsField(f)
         /\ \A f, g \in Fields(T) : f.num = g.num \/ f.name = g.name => f = g
         /\ \A n \in FieldNames(T) : FieldOf(T, n) \in Fields(T) /\ FieldOf(T, n).name = n
<1>1. \A f, g \in Fields(T) : f.num = g.num \/ f.name = g.name => f = g
  BY DEF IsType, Fields
<1>2. ASSUME NEW f \in Fields(T)
      PROVE  f.name \in FieldNames(T) /\ FieldOf(T, f.name) = f /\ IsField(f)
  <2>1. f.name \in FieldNames(T)
    BY DEF FieldNames
  <2>2. \E g \in Fields(T) : g.name = f.name
    OBVIOUS
  <2>3. FieldOf(T, f.name) \in Fields(T) /\ FieldOf(T, f.name).name = f.name
    BY <2>2 DEF FieldOf
  <2>4. IsField(f)
    BY DEF IsType, Fields
  <2> QED
    BY <1>1, <2>1, <2>3, <2>4
<1>3. ASSUME NEW n \in FieldNames(T)
      PROVE  FieldOf(T, n) \in Fields(T) /\ FieldOf(T, n).name = n
  <2>1. \E g \in Fields(T) : g.name = n
    BY DEF FieldNames
  <2> QED
    BY <2>1 DEF FieldOf
<1> QED
  BY <1>1, <1>2, <1>3

\* A tagged field has its case, and no other.
LEMMA TaggedCases ==
  ASSUME NEW T, IsType(T), NEW f \in Fields(T), NEW v
  PROVE  CasesFor(T, Tagged(f, v)) = {f}
<1>1. Tagged(f, v).num = f.num /\ Tagged(f, v).wire = WireType(f)
  BY DEF Tagged
<1> QED
  BY <1>1, FieldFacts DEF CasesFor

-----------------------------------------------------------------------------
(* The order of the fields. *)

LEMMA ExceptsCommute ==
  ASSUME NEW m, NEW a, NEW b, a # b, NEW u, NEW v
  PROVE  [[m EXCEPT ![a] = u] EXCEPT ![b] = v] = [[m EXCEPT ![b] = v] EXCEPT ![a] = u]
OBVIOUS

LEMMA PutsCommute ==
  ASSUME NEW m, NEW f, NEW g, f.name # g.name, NEW u, NEW v
  PROVE  Put(Put(m, f, u), g, v) = Put(Put(m, g, v), f, u)
<1> DEFINE p == IF f.repeated THEN Append(m[f.name], u) ELSE u
           q == IF g.repeated THEN Append(m[g.name], v) ELSE v
<1>1. Put(m, f, u) = [m EXCEPT ![f.name] = p] /\ Put(m, g, v) = [m EXCEPT ![g.name] = q]
  BY DEF Put
<1>2. [m EXCEPT ![f.name] = p][g.name] = m[g.name]
  OBVIOUS
<1>3. [m EXCEPT ![g.name] = q][f.name] = m[f.name]
  OBVIOUS
<1>4. Put([m EXCEPT ![f.name] = p], g, v) = [[m EXCEPT ![f.name] = p] EXCEPT ![g.name] = q]
  BY <1>2 DEF Put
<1>5. Put([m EXCEPT ![g.name] = q], f, u) = [[m EXCEPT ![g.name] = q] EXCEPT ![f.name] = p]
  BY <1>3 DEF Put
<1> HIDE DEF p, q
<1>6. [[m EXCEPT ![f.name] = p] EXCEPT ![g.name] = q]
        = [[m EXCEPT ![g.name] = q] EXCEPT ![f.name] = p]
  BY ExceptsCommute
<1>7. Put(Put(m, f, u), g, v) = [[m EXCEPT ![f.name] = p] EXCEPT ![g.name] = q]
  BY <1>1, <1>4
<1>8. Put(Put(m, g, v), f, u) = [[m EXCEPT ![g.name] = q] EXCEPT ![f.name] = p]
  BY <1>1, <1>5
<1> QED
  BY <1>6, <1>7, <1>8

\* Two fields of different numbers may be read in either order.
LEMMA TakesCommute ==
  ASSUME NEW T, IsType(T), NEW m, NEW w, NEW x, w.num # x.num
  PROVE  Take(T, Take(T, m, w), x) = Take(T, Take(T, m, x), w)
<1>1. CASE CasesFor(T, w) = {}
  BY <1>1 DEF Take
<1>2. CASE CasesFor(T, x) = {}
  BY <1>2 DEF Take
<1>3. CASE CasesFor(T, w) # {} /\ CasesFor(T, x) # {}
  <2>1. CaseFor(T, w) \in CasesFor(T, w) /\ CaseFor(T, x) \in CasesFor(T, x)
    BY <1>3 DEF CaseFor
  <2>2. CaseFor(T, w).name # CaseFor(T, x).name
    <3>1. /\ CaseFor(T, w) \in Fields(T) /\ CaseFor(T, x) \in Fields(T)
          /\ CaseFor(T, w).num # CaseFor(T, x).num
      BY <2>1 DEF CasesFor
    <3> QED
      BY <3>1, FieldFacts
  <2> QED
    BY <1>3, <2>2, PutsCommute DEF Take
<1> QED
  BY <1>1, <1>2, <1>3

\* No field of its number precedes field i of a wire, and rest is the wire
\* without it.
TakenFirst(wire, i, rest) ==
  /\ Len(wire) \in Nat /\ i \in 1..Len(wire)
  /\ \A j \in 1..(i - 1) : wire[j].num # wire[i].num
  /\ Len(rest) = Len(wire) - 1
  /\ \A j \in 1..(Len(wire) - 1) : rest[j] = IF j < i THEN wire[j] ELSE wire[j + 1]

\* Such a field may be read first.
LEMMA ReadFirst ==
  ASSUME NEW T, IsType(T), NEW m, NEW wire, NEW i, NEW rest, TakenFirst(wire, i, rest)
  PROVE  Merge(T, m, wire) = Merge(T, Take(T, m, wire[i]), rest)
<1> USE DEF TakenFirst
<1> DEFINE A == Read(T, m, wire)
           h == [k \in 0..(Len(wire) - 1) |->
                   IF k < i THEN Take(T, A[k], wire[i]) ELSE A[k + 1]]
<1>1. /\ A[0] = m
      /\ \A k \in 1..Len(wire) : A[k] = Take(T, A[k - 1], wire[k])
  BY ReadSteps
<1> HIDE DEF A
<1>2. h[0] = Take(T, m, wire[i])
  BY <1>1
<1>3. ASSUME NEW k \in 1..Len(rest)
      PROVE  h[k] = Take(T, h[k - 1], rest[k])
  <2>1. CASE k < i
    <3>1. h[k] = Take(T, Take(T, A[k - 1], wire[k]), wire[i])
      BY <1>1, <2>1
    <3>2. h[k - 1] = Take(T, A[k - 1], wire[i]) /\ rest[k] = wire[k]
      BY <2>1
    <3>3. wire[k].num # wire[i].num
      BY <2>1
    <3> HIDE DEF h
    <3> QED
      BY <3>1, <3>2, <3>3, TakesCommute
  <2>2. CASE k = i
    <3>1. h[k] = A[k + 1] /\ h[k - 1] = Take(T, A[k - 1], wire[k])
      BY <2>2
    <3>2. A[k + 1] = Take(T, A[k], wire[k + 1]) /\ A[k] = Take(T, A[k - 1], wire[k])
      <4>1. k + 1 \in 1..Len(wire) /\ (k + 1) - 1 = k
        BY <2>2
      <4> QED
        BY <1>1, <4>1
    <3>3. rest[k] = wire[k + 1]
      BY <2>2
    <3> HIDE DEF h
    <3> QED
      BY <3>1, <3>2, <3>3
  <2>3. CASE k > i
    <3>1. h[k] = A[k + 1] /\ h[k - 1] = A[k]
      BY <2>3
    <3>2. A[k + 1] = Take(T, A[k], wire[k + 1])
      <4>1. k + 1 \in 1..Len(wire) /\ (k + 1) - 1 = k
        BY <2>3
      <4> QED
        BY <1>1, <4>1
    <3>3. rest[k] = wire[k + 1]
      BY <2>3
    <3> HIDE DEF h
    <3> QED
      BY <3>1, <3>2, <3>3
  <2> QED
    BY <2>1, <2>2, <2>3
<1>4. h[Len(rest)] = A[Len(wire)]
  <2>1. CASE i = Len(wire)
    <3>1. CASE Len(wire) - 1 = 0
      BY <1>1, <1>2, <2>1, <3>1
    <3>2. CASE Len(wire) - 1 > 0
      BY <1>1, <2>1, <3>2
    <3> QED
      BY <3>1, <3>2
  <2>2. CASE i < Len(wire)
    BY <2>2
  <2> QED
    BY <2>1, <2>2
<1> HIDE DEF h
<1>5. Merge(T, Take(T, m, wire[i]), rest) = h[Len(rest)]
  <2>1. Len(rest) \in Nat
    OBVIOUS
  <2>2. \A k \in 1..Len(rest) : h[k] = Take(T, h[k - 1], rest[k])
    BY <1>3
  <2> DEFINE first == Take(T, m, wire[i])
  <2>3. h[0] = first
    BY <1>2
  <2> HIDE DEF first
  <2>4. Merge(T, first, rest) = h[Len(rest)]
    BY ONLY <2>1, <2>2, <2>3, MergeEnds, SMT
  <2> QED
    BY <2>4 DEF first
<1> QED
  BY <1>4, <1>5 DEF Merge, A


-----------------------------------------------------------------------------
(* What encode writes. *)

\* What is written after field i, when before was written before it.
AfterField(T, m, i, before) == before \o PutField(T[i], m[T[i].name])

\* written is what is written after each of the first n fields.
Writes(T, m, n, written) ==
  written = [i \in 0..n |-> IF i = 0 THEN <<>>
                            ELSE AfterField(T, m, i, written[i - 1])]

LEMMA WrittenExists ==
  ASSUME NEW T, NEW m, NEW n \in Nat
  PROVE  \E written : Writes(T, m, n, written)
<1> DEFINE S == {k \in 0..n : \E written : Writes(T, m, k, written)}
<1>1. 0 \in S
  <2>1. Writes(T, m, 0, [i \in 0..0 |-> <<>>])
    BY DEF Writes
  <2> QED
    BY <2>1
<1>2. ASSUME NEW k \in 1..n, k - 1 \in S
      PROVE  k \in S
  <2>1. PICK written : Writes(T, m, k - 1, written)
    BY <1>2
  <2> DEFINE longer ==
        [i \in 0..k |-> IF i = k THEN AfterField(T, m, k, written[k - 1])
                        ELSE written[i]]
  <2>2. ASSUME NEW i \in 0..k
        PROVE  longer[i] = IF i = 0 THEN <<>> ELSE AfterField(T, m, i, longer[i - 1])
    BY <2>1 DEF Writes
  <2>3. Writes(T, m, k, longer)
    BY <2>2 DEF Writes
  <2> HIDE DEF longer
  <2> QED
    BY <2>3
<1> HIDE DEF S
<1>3. \A k \in 0..n : k \in S
  BY <1>1, <1>2, Induct
<1>4. n \in S
  BY <1>3
<1> QED
  BY <1>4 DEF S

LEMMA WrittenSteps ==
  ASSUME NEW T, IsType(T), NEW m
  PROVE  /\ Written(T, m)[0] = <<>>
         /\ \A i \in 1..Len(T) : Written(T, m)[i] =
              Written(T, m)[i - 1] \o PutField(T[i], m[T[i].name])
<1>1. \E written : Writes(T, m, Len(T), written)
  BY WrittenExists DEF IsType
<1>2. Written(T, m) = CHOOSE written : Writes(T, m, Len(T), written)
  BY DEF Written, Writes, AfterField
<1>3. Writes(T, m, Len(T), Written(T, m))
  BY <1>1, <1>2
<1>4. Written(T, m) =
        [i \in 0..Len(T) |-> IF i = 0 THEN <<>>
                             ELSE AfterField(T, m, i, Written(T, m)[i - 1])]
  BY <1>3 DEF Writes
<1>5. Len(T) \in Nat
  BY DEF IsType
<1>6. /\ Written(T, m)[0] = <<>>
      /\ \A i \in 1..Len(T) : Written(T, m)[i] = AfterField(T, m, i, Written(T, m)[i - 1])
  BY <1>4, <1>5
<1> QED
  BY <1>6 DEF AfterField

LEMMA ListFacts ==
  ASSUME NEW v, IsList(v)
  PROVE  Len(v) \in Nat /\ DOMAIN v = 1..Len(v) /\ v = [i \in 1..Len(v) |-> v[i]]
<1> DEFINE S == {v[i] : i \in DOMAIN v}
<1>1. v \in Seq(S)
  BY DEF IsList
<1> HIDE DEF S
<1> QED
  BY <1>1, LenProperties

LEMMA ListIfFunction ==
  ASSUME NEW v, NEW n \in Nat, v = [i \in 1..n |-> v[i]]
  PROVE  IsList(v) /\ Len(v) = n
<1> DEFINE S == {v[i] : i \in DOMAIN v}
<1>1. DOMAIN v = 1..n
  OBVIOUS
<1>2. \A i \in 1..n : v[i] \in S
  BY <1>1
<1> HIDE DEF S
<1>3. v \in Seq(S)
  BY <1>2
<1>4. Len(v) = n
  BY <1>1, <1>3, LenProperties
<1> QED
  BY <1>3, <1>4 DEF IsList, S

LEMMA PutFieldList ==
  ASSUME NEW f, IsField(f), NEW v, IsValue(f, v)
  PROVE  IsList(PutField(f, v))
<1>1. CASE f.repeated
  <2>1. PutField(f, v) = [j \in DOMAIN v |-> Tagged(f, v[j])]
    BY <1>1 DEF PutField
  <2>2. Len(v) \in Nat /\ DOMAIN v = 1..Len(v)
    BY <1>1, ListFacts DEF IsValue
  <2>3. PutField(f, v) = [j \in 1..Len(v) |-> PutField(f, v)[j]]
    BY <2>1, <2>2
  <2> QED
    BY <2>2, <2>3, ListIfFunction
<1>2. CASE ~f.repeated /\ v = Default(f)
  <2>1. PutField(f, v) = <<>>
    BY <1>2 DEF PutField
  <2> QED
    BY <2>1 DEF IsList
<1>3. CASE ~f.repeated /\ v # Default(f)
  <2>1. PutField(f, v) = <<Tagged(f, v)>>
    BY <1>3 DEF PutField
  <2> HIDE DEF Tagged
  <2> QED
    BY <2>1 DEF IsList
<1> QED
  BY <1>1, <1>2, <1>3

LEMMA WrittenLists ==
  ASSUME NEW T, IsType(T), NEW m, Is(T, m)
  PROVE  \A k \in 0..Len(T) : IsList(Written(T, m)[k])
<1> DEFINE S == {k \in 0..Len(T) : IsList(Written(T, m)[k])}
<1>1. Len(T) \in Nat /\ DOMAIN T = 1..Len(T)
  BY DEF IsType
<1>2. 0 \in S
  <2>1. IsList(<<>>)
    BY DEF IsList
  <2>2. Written(T, m)[0] = <<>>
    BY WrittenSteps
  <2> QED
    BY <1>1, <2>1, <2>2
<1>3. ASSUME NEW k \in 1..Len(T), k - 1 \in S
      PROVE  k \in S
  <2>1. T[k] \in Fields(T)
    BY <1>1 DEF Fields
  <2>2. IsField(T[k]) /\ IsValue(T[k], m[T[k].name])
    BY <2>1, FieldFacts DEF Is
  <2>3. IsList(PutField(T[k], m[T[k].name]))
    BY <2>2, PutFieldList
  <2>4. IsList(Written(T, m)[k - 1] \o PutField(T[k], m[T[k].name]))
    BY <1>3, <2>3, Concat
  <2>5. IsList(Written(T, m)[k])
    BY <2>4, WrittenSteps
  <2> QED
    BY <1>1, <2>5
<1> HIDE DEF S
<1>4. \A k \in 0..Len(T) : k \in S
  BY <1>1, <1>2, <1>3, Induct
<1> QED
  BY <1>4 DEF S


-----------------------------------------------------------------------------
(* What is written is read. *)

\* A nested message is read as it was written, refused exactly when an int64 of
\* it is not safe, and kept by JSON.
NestedFaithful ==
  \A T, m : NestedType(T) /\ NestedIs(T, m) =>
    /\ NestedDecode(T, NestedEncode(T, m)) = m
    /\ NestedRefuses(T, NestedEncode(T, m)) <=> ~(NestedInt64s(T, m) \subseteq Safe)
    /\ NestedFromPartial(T, NestedToJSON(T, m)) = m
    /\ NestedFromPartial(T, NestedStringified(T, m)) = m

LEMMA TakeTagged ==
  ASSUME NestedFaithful, NEW T, IsType(T), NEW f \in Fields(T), NEW v, IsElement(f, v), NEW m
  PROVE  Take(T, m, Tagged(f, v)) = Put(m, f, v)
<1>1. CasesFor(T, Tagged(f, v)) = {f}
  BY TaggedCases
<1>2. CaseFor(T, Tagged(f, v)) = f
  BY <1>1 DEF CaseFor
<1>3. Received(f, Tagged(f, v)) = v
  <2>1. CASE f.kind = "message"
    <3>1. Tagged(f, v).value = NestedEncode(f.of, v)
      BY <2>1 DEF Tagged
    <3>2. NestedType(f.of) /\ NestedIs(f.of, v)
      BY <2>1, FieldFacts DEF IsField, IsElement
    <3>3. NestedDecode(f.of, NestedEncode(f.of, v)) = v
      BY <3>2 DEF NestedFaithful
    <3> QED
      BY <2>1, <3>1, <3>3 DEF Received
  <2>2. CASE f.kind # "message"
    BY <2>2 DEF Received, Tagged
  <2> QED
    BY <2>1, <2>2
<1> QED
  BY <1>1, <1>2, <1>3 DEF Take

\* The fields of one kind are read one after the other.
LEMMA MergeField ==
  ASSUME NestedFaithful, NEW T, IsType(T), NEW f \in Fields(T), NEW v, IsValue(f, v),
         NEW m, m[f.name] = Default(f), f.name \in DOMAIN m, m = [n \in DOMAIN m |-> m[n]]
  PROVE  Merge(T, m, PutField(f, v)) = [m EXCEPT ![f.name] = v]
<1>1. CASE f.repeated
  <2> DEFINE w == PutField(f, v)
             h == [j \in 0..Len(v) |-> [m EXCEPT ![f.name] = SubSeq(v, 1, j)]]
             S == {v[i] : i \in DOMAIN v}
  <2>1. /\ v \in Seq(S) /\ Len(v) \in Nat /\ DOMAIN v = 1..Len(v)
        /\ \A i \in 1..Len(v) : IsElement(f, v[i])
    BY <1>1, ListFacts DEF IsValue, IsList
  <2>2. w = [j \in 1..Len(v) |-> Tagged(f, v[j])]
    BY <1>1, <2>1 DEF PutField
  <2>3. Len(w) = Len(v)
    BY <2>1, <2>2, ListIfFunction
  <2>4. h[0] = m
    <3>1. SubSeq(v, 1, 0) = <<>> /\ m[f.name] = <<>>
      BY <1>1 DEF Default
    <3>2. [m EXCEPT ![f.name] = SubSeq(v, 1, 0)] = m
      BY <3>1
    <3> QED
      BY <2>1, <3>2
  <2>5. ASSUME NEW j \in 1..Len(v)
        PROVE  h[j] = Take(T, h[j - 1], w[j])
    <3>1. Take(T, h[j - 1], w[j]) = Put(h[j - 1], f, v[j])
      BY <2>1, <2>2, TakeTagged
    <3>2. h[j - 1] = [m EXCEPT ![f.name] = SubSeq(v, 1, j - 1)]
      BY <2>1
    <3> HIDE DEF h, S
    <3>3. Put(h[j - 1], f, v[j]) = [m EXCEPT ![f.name] = Append(SubSeq(v, 1, j - 1), v[j])]
      BY <1>1, <3>2 DEF Put
    <3>4. Append(SubSeq(v, 1, j - 1), v[j]) = SubSeq(v, 1, j)
      BY <2>1
    <3>5. h[j] = [m EXCEPT ![f.name] = SubSeq(v, 1, j)]
      BY <2>1 DEF h
    <3> QED
      BY <3>1, <3>3, <3>4, <3>5
  <2>6. h[Len(v)] = [m EXCEPT ![f.name] = v]
    <3>1. SubSeq(v, 1, Len(v)) = v
      BY <2>1
    <3>2. h[Len(v)] = [m EXCEPT ![f.name] = SubSeq(v, 1, Len(v))]
      BY <2>1
    <3> QED
      BY <3>1, <3>2
  <2>7. \A j \in 1..Len(w) : h[j] = Take(T, h[j - 1], w[j])
    BY <2>3, <2>5
  <2>8. Len(w) \in Nat
    BY <2>1, <2>3
  <2> HIDE DEF h, w
  <2>9. Merge(T, m, w) = h[Len(w)]
    BY ONLY <2>4, <2>7, <2>8, MergeEnds, SMT
  <2> QED
    BY <2>3, <2>6, <2>9 DEF w
<1>2. CASE ~f.repeated /\ v = Default(f)
  <2>1. PutField(f, v) = <<>>
    BY <1>2 DEF PutField
  <2>2. [m EXCEPT ![f.name] = v] = m
    BY <1>2
  <2> QED
    BY <2>1, <2>2, MergeNothing
<1>3. CASE ~f.repeated /\ v # Default(f)
  <2>1. PutField(f, v) = <<Tagged(f, v)>>
    BY <1>3 DEF PutField
  <2>2. IsElement(f, v)
    BY <1>3 DEF IsValue, Default
  <2>3. Take(T, m, Tagged(f, v)) = Put(m, f, v)
    BY <2>2, TakeTagged
  <2>4. Put(m, f, v) = [m EXCEPT ![f.name] = v]
    BY <1>3 DEF Put
  <2>5. Merge(T, m, <<Tagged(f, v)>>) = Take(T, m, Tagged(f, v))
    BY MergeOne
  <2> QED
    BY <2>1, <2>3, <2>4, <2>5
<1> QED
  BY <1>1, <1>2, <1>3, FieldFacts DEF IsField

LEMMA DecodeEncode ==
  ASSUME NestedFaithful, NEW T, IsType(T), NEW m, Is(T, m)
  PROVE  Decode(T, Encode(T, m)) = m
<1> DEFINE P(k) == [n \in FieldNames(T) |->
                      IF \E i \in 1..k : T[i].name = n THEN m[n] ELSE Default(FieldOf(T, n))]
           S == {k \in 0..Len(T) : Merge(T, Base(T), Written(T, m)[k]) = P(k)}
<1>1. Len(T) \in Nat /\ DOMAIN T = 1..Len(T)
  BY DEF IsType
<1>2. 0 \in S
  <2>1. P(0) = Base(T)
    BY DEF Base
  <2>2. Written(T, m)[0] = <<>>
    BY WrittenSteps
  <2> QED
    BY <1>1, <2>1, <2>2, MergeNothing
<1>3. ASSUME NEW k \in 1..Len(T), k - 1 \in S
      PROVE  k \in S
  <2> DEFINE f == T[k]
             v == m[f.name]
  <2>1. f \in Fields(T)
    BY <1>1 DEF Fields
  <2>2. IsValue(f, v) /\ IsField(f)
    BY <2>1, FieldFacts DEF Is
  <2>3. IsList(Written(T, m)[k - 1]) /\ IsList(PutField(f, v))
    BY <2>2, WrittenLists, PutFieldList
  <2>4. Merge(T, Base(T), Written(T, m)[k])
          = Merge(T, Merge(T, Base(T), Written(T, m)[k - 1]), PutField(f, v))
    <3>1. Written(T, m)[k] = Written(T, m)[k - 1] \o PutField(f, v)
      BY WrittenSteps
    <3> HIDE DEF f, v
    <3>2. Merge(T, Base(T), Written(T, m)[k - 1] \o PutField(f, v))
            = Merge(T, Merge(T, Base(T), Written(T, m)[k - 1]), PutField(f, v))
      BY <2>3, MergeConcat
    <3> QED
      BY <3>1, <3>2
  <2>5. Merge(T, Base(T), Written(T, m)[k - 1]) = P(k - 1)
    BY <1>3
  <2>6. /\ f.name \in FieldNames(T) /\ FieldOf(T, f.name) = f
        /\ \A i \in 1..(k - 1) : T[i].name # f.name
    <3>1. \A i \in 1..(k - 1) : T[i].name # f.name
      BY <1>1 DEF IsType
    <3> QED
      BY <2>1, <3>1, FieldFacts
  <2>7. P(k - 1)[f.name] = Default(f) /\ f.name \in DOMAIN P(k - 1)
    BY <2>6
  <2>8. P(k - 1) = [n \in DOMAIN P(k - 1) |-> P(k - 1)[n]]
    OBVIOUS
  <2>9. P(k) = [P(k - 1) EXCEPT ![f.name] = v]
    <3>1. ASSUME NEW n \in FieldNames(T)
          PROVE  P(k)[n] = [P(k - 1) EXCEPT ![f.name] = v][n]
      <4>1. CASE n = f.name
        BY <2>6, <4>1
      <4>2. CASE n # f.name
        <5>1. (\E i \in 1..k : T[i].name = n) <=> (\E i \in 1..(k - 1) : T[i].name = n)
          BY <4>2
        <5> QED
          BY <4>2, <5>1
      <4> QED
        BY <4>1, <4>2
    <3> QED
      BY <3>1
  <2> HIDE DEF P, f, v
  <2>10. Merge(T, P(k - 1), PutField(f, v)) = [P(k - 1) EXCEPT ![f.name] = v]
    BY <2>1, <2>2, <2>7, <2>8, MergeField
  <2>11. Merge(T, Base(T), Written(T, m)[k]) = P(k)
    BY <2>4, <2>5, <2>9, <2>10
  <2> QED
    BY <1>1, <2>11
<1>4. P(Len(T)) = m
  <2>1. \A n \in FieldNames(T) : \E i \in 1..Len(T) : T[i].name = n
    BY <1>1 DEF FieldNames, Fields
  <2> QED
    BY <2>1 DEF Is
<1> HIDE DEF S, P
<1>5. \A k \in 0..Len(T) : k \in S
  BY <1>1, <1>2, <1>3, Induct
<1>6. Len(T) \in S
  BY <1>1, <1>5
<1> QED
  BY <1>4, <1>6 DEF S, Decode, Encode


-----------------------------------------------------------------------------
(* What is refused. *)

LEMMA ThrowsTagged ==
  ASSUME NestedFaithful, NEW T, IsType(T), NEW f \in Fields(T), NEW v, IsElement(f, v)
  PROVE  Throws(T, Tagged(f, v)) <=>
           \/ f.kind = "int64" /\ v \notin Safe
           \/ f.kind = "message" /\ ~(NestedInt64s(f.of, v) \subseteq Safe)
<1>1. CasesFor(T, Tagged(f, v)) = {f}
  BY TaggedCases
<1>2. CASE f.kind = "message"
  <2>1. Tagged(f, v).value = NestedEncode(f.of, v)
    BY <1>2 DEF Tagged
  <2>2. NestedType(f.of) /\ NestedIs(f.of, v)
    BY <1>2, FieldFacts DEF IsField, IsElement
  <2>3. NestedRefuses(f.of, NestedEncode(f.of, v)) <=> ~(NestedInt64s(f.of, v) \subseteq Safe)
    BY <2>2 DEF NestedFaithful
  <2> QED
    BY <1>1, <1>2, <2>1, <2>3 DEF Throws
<1>3. CASE f.kind # "message"
  <2>1. Tagged(f, v).value = v
    BY <1>3 DEF Tagged
  <2> QED
    BY <1>1, <1>3, <2>1 DEF Throws
<1> QED
  BY <1>2, <1>3

LEMMA RefusesField ==
  ASSUME NestedFaithful, MaxSafe \in Nat, NEW T, IsType(T),
         NEW f \in Fields(T), NEW v, IsValue(f, v)
  PROVE  Refuses(T, PutField(f, v)) <=> ~(Int64sIn(f, v) \subseteq Safe)
<1>1. IsField(f)
  BY FieldFacts
<1>2. CASE f.repeated
  <2>1. Undefined # v /\ DOMAIN v = 1..Len(v) /\ \A i \in DOMAIN v : IsElement(f, v[i])
    BY <1>2, ListFacts DEF IsValue
  <2>2. PutField(f, v) = [j \in DOMAIN v |-> Tagged(f, v[j])]
    BY <1>2 DEF PutField
  <2>3. Refuses(T, PutField(f, v)) <=> \E j \in DOMAIN v : Throws(T, Tagged(f, v[j]))
    BY <2>2 DEF Refuses
  <2>4. f.kind # "int64"
    BY <1>1, <1>2 DEF IsField
  <2>5. Refuses(T, PutField(f, v)) <=>
          f.kind = "message" /\ \E j \in DOMAIN v : ~(NestedInt64s(f.of, v[j]) \subseteq Safe)
    BY <2>1, <2>3, <2>4, ThrowsTagged
  <2>6. CASE f.kind = "message"
    <3>1. Int64sIn(f, v) = UNION {NestedInt64s(f.of, v[i]) : i \in DOMAIN v}
      BY <1>2, <2>6 DEF Int64sIn
    <3> QED
      BY <2>5, <2>6, <3>1
  <2>7. CASE f.kind # "message"
    <3>1. Int64sIn(f, v) = {}
      BY <2>4, <2>7 DEF Int64sIn
    <3> QED
      BY <2>5, <2>7, <3>1
  <2> QED
    BY <2>6, <2>7
<1>3. CASE ~f.repeated /\ v = Default(f)
  <2>1. PutField(f, v) = <<>>
    BY <1>3 DEF PutField
  <2>2. ~Refuses(T, PutField(f, v))
    BY <2>1 DEF Refuses
  <2>3. Int64sIn(f, v) \subseteq {0}
    <3>1. CASE f.kind = "int64"
      <4>1. v = 0
        BY <1>3, <3>1 DEF Default
      <4> QED
        BY <3>1, <4>1 DEF Int64sIn
    <3>2. CASE f.kind = "message"
      <4>1. v = Undefined
        BY <1>3, <3>2 DEF Default
      <4> QED
        BY <1>3, <3>2, <4>1 DEF Int64sIn
    <3>3. CASE f.kind \notin {"int64", "message"}
      BY <3>3 DEF Int64sIn
    <3> QED
      BY <3>1, <3>2, <3>3
  <2> QED
    BY <2>2, <2>3 DEF Safe
<1>4. CASE ~f.repeated /\ v # Default(f)
  <2>1. PutField(f, v) = <<Tagged(f, v)>>
    BY <1>4 DEF PutField
  <2>2. v # Undefined /\ IsElement(f, v)
    BY <1>4 DEF IsValue, Default
  <2>3. Refuses(T, PutField(f, v)) <=> Throws(T, Tagged(f, v))
    <3>1. DOMAIN PutField(f, v) = {1} /\ PutField(f, v)[1] = Tagged(f, v)
      BY <2>1
    <3> QED
      BY <3>1 DEF Refuses
  <2>4. Refuses(T, PutField(f, v)) <=>
           \/ f.kind = "int64" /\ v \notin Safe
           \/ f.kind = "message" /\ ~(NestedInt64s(f.of, v) \subseteq Safe)
    BY <2>2, <2>3, ThrowsTagged
  <2>5. CASE f.kind = "int64"
    <3>1. Int64sIn(f, v) = {v}
      BY <2>5 DEF Int64sIn
    <3> QED
      BY <2>4, <2>5, <3>1
  <2>6. CASE f.kind = "message"
    <3>1. Int64sIn(f, v) = NestedInt64s(f.of, v)
      BY <1>4, <2>2, <2>6 DEF Int64sIn
    <3> QED
      BY <2>4, <2>6, <3>1
  <2>7. CASE f.kind \notin {"int64", "message"}
    <3>1. Int64sIn(f, v) = {}
      BY <2>7 DEF Int64sIn
    <3> QED
      BY <2>4, <2>7, <3>1
  <2> QED
    BY <2>5, <2>6, <2>7
<1> QED
  BY <1>1, <1>2, <1>3, <1>4 DEF IsField

\* A wire is refused when a part of it is.
LEMMA RefusesConcat ==
  ASSUME NEW T, NEW a, NEW b, IsList(a), IsList(b)
  PROVE  Refuses(T, a \o b) <=> Refuses(T, a) \/ Refuses(T, b)
<1>1. /\ Len(a) \in Nat /\ Len(b) \in Nat
      /\ DOMAIN a = 1..Len(a) /\ DOMAIN b = 1..Len(b)
      /\ DOMAIN (a \o b) = 1..(Len(a) + Len(b))
      /\ \A i \in 1..Len(a) : (a \o b)[i] = a[i]
      /\ \A i \in 1..Len(b) : (a \o b)[Len(a) + i] = b[i]
  BY Concat
<1> DEFINE c == a \o b
<1> HIDE DEF c
<1>2. ASSUME NEW i \in DOMAIN c, Throws(T, c[i])
      PROVE  Refuses(T, a) \/ Refuses(T, b)
  <2>1. CASE i <= Len(a)
    BY <1>1, <1>2, <2>1 DEF Refuses, c
  <2>2. CASE i > Len(a)
    <3>1. i - Len(a) \in 1..Len(b) /\ i = Len(a) + (i - Len(a))
      BY <1>1, <2>2 DEF c
    <3>2. c[i] = b[i - Len(a)]
      BY <1>1, <3>1 DEF c
    <3> QED
      BY <1>1, <1>2, <3>1, <3>2 DEF Refuses
  <2> QED
    BY <1>1, <2>1, <2>2 DEF c
<1>3. ASSUME NEW i \in DOMAIN a, Throws(T, a[i])
      PROVE  Refuses(T, c)
  <2>1. i \in DOMAIN c /\ c[i] = a[i]
    BY <1>1 DEF c
  <2> QED
    BY <1>3, <2>1 DEF Refuses
<1>4. ASSUME NEW i \in DOMAIN b, Throws(T, b[i])
      PROVE  Refuses(T, c)
  <2>1. Len(a) + i \in DOMAIN c /\ c[Len(a) + i] = b[i]
    BY <1>1 DEF c
  <2> QED
    BY <1>4, <2>1 DEF Refuses
<1>5. Refuses(T, c) <=> Refuses(T, a) \/ Refuses(T, b)
  BY <1>2, <1>3, <1>4 DEF Refuses
<1> QED
  BY <1>5 DEF c

LEMMA RefusesEncode ==
  ASSUME NestedFaithful, MaxSafe \in Nat, NEW T, IsType(T), NEW m, Is(T, m)
  PROVE  Refuses(T, Encode(T, m)) <=> ~(Int64s(T, m) \subseteq Safe)
<1> DEFINE Bad(i) == ~(Int64sIn(T[i], m[T[i].name]) \subseteq Safe)
           S == {k \in 0..Len(T) :
                   Refuses(T, Written(T, m)[k]) <=> \E i \in 1..k : Bad(i)}
<1> HIDE DEF Bad
<1>1. Len(T) \in Nat /\ DOMAIN T = 1..Len(T)
  BY DEF IsType
<1>2. 0 \in S
  <2>1. Written(T, m)[0] = <<>>
    BY WrittenSteps
  <2>2. ~Refuses(T, Written(T, m)[0])
    BY <2>1 DEF Refuses
  <2> QED
    BY <1>1, <2>2
<1>3. ASSUME NEW k \in 1..Len(T), k - 1 \in S
      PROVE  k \in S
  <2> DEFINE f == T[k]
             v == m[f.name]
  <2>1. f \in Fields(T)
    BY <1>1 DEF Fields
  <2>2. IsValue(f, v) /\ IsField(f)
    BY <2>1, FieldFacts DEF Is
  <2>3. IsList(Written(T, m)[k - 1]) /\ IsList(PutField(f, v))
    BY <2>2, WrittenLists, PutFieldList
  <2>4. Written(T, m)[k] = Written(T, m)[k - 1] \o PutField(f, v)
    BY WrittenSteps
  <2>5. Refuses(T, PutField(f, v)) <=> Bad(k)
    BY <2>1, <2>2, RefusesField DEF Bad
  <2> HIDE DEF f, v
  <2>6. Refuses(T, Written(T, m)[k]) <=> Refuses(T, Written(T, m)[k - 1]) \/ Bad(k)
    BY <2>3, <2>4, <2>5, RefusesConcat
  <2>7. (\E i \in 1..k : Bad(i)) <=> (\E i \in 1..(k - 1) : Bad(i)) \/ Bad(k)
    <3>1. \A i \in 1..k : i \in 1..(k - 1) \/ i = k
      OBVIOUS
    <3> QED
      BY <3>1
  <2> QED
    BY <1>1, <1>3, <2>6, <2>7
<1> HIDE DEF S
<1>4. \A k \in 0..Len(T) : k \in S
  BY <1>1, <1>2, <1>3, Induct
<1>5. Len(T) \in S
  BY <1>1, <1>4
<1>6. Refuses(T, Encode(T, m)) <=> \E i \in 1..Len(T) : Bad(i)
  BY <1>5 DEF S, Encode
<1>7. ~(Int64s(T, m) \subseteq Safe) <=> \E i \in 1..Len(T) : Bad(i)
  <2>1. Int64s(T, m) = UNION {Int64sIn(T[i], m[T[i].name]) : i \in 1..Len(T)}
    BY <1>1 DEF Int64s, Fields
  <2> QED
    BY <2>1 DEF Bad
<1> QED
  BY <1>6, <1>7


-----------------------------------------------------------------------------
(* What JSON keeps. *)

\* The value of a field is made of its JSON again.
LEMMA ValueKept ==
  ASSUME NestedFaithful, NEW f, IsField(f), NEW v, v # Undefined, IsValue(f, v)
  PROVE  /\ ValueFromPartial(f, ValueToJSON(f, v)) = v
         /\ ValueFromPartial(f, ValueStringified(f, v)) = v
<1>1. CASE f.kind = "message" /\ f.repeated
  <2>1. DOMAIN v = 1..Len(v) /\ v = [i \in DOMAIN v |-> v[i]]
    BY <1>1, ListFacts DEF IsValue
  <2>2. ASSUME NEW i \in DOMAIN v
        PROVE  /\ NestedFromPartial(f.of, NestedToJSON(f.of, v[i])) = v[i]
               /\ NestedFromPartial(f.of, NestedStringified(f.of, v[i])) = v[i]
    <3>1. NestedType(f.of) /\ NestedIs(f.of, v[i])
      BY <1>1 DEF IsField, IsValue, IsElement
    <3> QED
      BY <3>1 DEF NestedFaithful
  <2> QED
    BY <1>1, <2>1, <2>2 DEF ValueFromPartial, ValueToJSON, ValueStringified
<1>2. CASE f.kind = "message" /\ ~f.repeated
  <2>1. NestedType(f.of) /\ NestedIs(f.of, v)
    BY <1>2 DEF IsField, IsValue, IsElement
  <2>2. /\ NestedFromPartial(f.of, NestedToJSON(f.of, v)) = v
        /\ NestedFromPartial(f.of, NestedStringified(f.of, v)) = v
    BY <2>1 DEF NestedFaithful
  <2> QED
    BY <1>2, <2>2 DEF ValueFromPartial, ValueToJSON, ValueStringified
<1>3. CASE f.kind # "message"
  BY <1>3 DEF ValueFromPartial, ValueToJSON, ValueStringified
<1> QED
  BY <1>1, <1>2, <1>3 DEF IsField

\* What fromPartial makes of a field of o.
Filled(f, o) ==
  IF f.name \in DOMAIN o /\ o[f.name] # Undefined
  THEN ValueFromPartial(f, o[f.name]) ELSE Default(f)

LEMMA FromPartialFills ==
  ASSUME NEW T, IsType(T), NEW m, Is(T, m), NEW o,
         \A f \in Fields(T) : Filled(f, o) = m[f.name]
  PROVE  FromPartial(T, o) = m
<1>1. FromPartial(T, o) = [n \in FieldNames(T) |-> Filled(FieldOf(T, n), o)]
  BY DEF FromPartial, Filled
<1>2. \A n \in FieldNames(T) : Filled(FieldOf(T, n), o) = m[n]
  BY FieldFacts
<1> QED
  BY <1>1, <1>2 DEF Is

LEMMA ToJSONKept ==
  ASSUME NestedFaithful, NEW T, IsType(T), NEW m, Is(T, m)
  PROVE  FromPartial(T, ToJSON(T, m)) = m
<1> DEFINE o == ToJSON(T, m)
           kept == {f \in Fields(T) : m[f.name] # Default(f)}
<1>1. o = [n \in {f.name : f \in kept} |-> ValueToJSON(FieldOf(T, n), m[n])]
  BY DEF ToJSON
<1>2. ASSUME NEW f \in Fields(T)
      PROVE  /\ f.name \in DOMAIN o <=> m[f.name] # Default(f)
             /\ m[f.name] # Default(f) => o[f.name] = ValueToJSON(f, m[f.name])
  <2>1. \A g \in kept : g.name = f.name => g = f
    BY FieldFacts
  <2>2. FieldOf(T, f.name) = f
    BY FieldFacts
  <2> HIDE DEF o
  <2> QED
    BY <1>1, <2>1, <2>2
<1> HIDE DEF o
<1>3. ASSUME NEW f \in Fields(T)
      PROVE  Filled(f, o) = m[f.name]
  <2>1. IsField(f) /\ IsValue(f, m[f.name])
    BY FieldFacts DEF Is
  <2>2. CASE m[f.name] = Default(f)
    BY <1>2, <2>2 DEF Filled
  <2>3. CASE m[f.name] # Default(f)
    <3>1. f.name \in DOMAIN o /\ o[f.name] = ValueToJSON(f, m[f.name])
      BY <1>2, <2>3
    <3>2. m[f.name] # Undefined
      BY <2>1, <2>3 DEF IsValue, Default
    <3>3. o[f.name] # Undefined
      BY <2>1, <3>1, <3>2 DEF IsValue
    <3> QED
      BY <2>1, <3>1, <3>2, <3>3, ValueKept DEF Filled
  <2> QED
    BY <2>2, <2>3
<1> QED
  BY <1>3, FromPartialFills DEF o

LEMMA StringifiedKept ==
  ASSUME NestedFaithful, NEW T, IsType(T), NEW m, Is(T, m)
  PROVE  FromPartial(T, Stringified(T, m)) = m
<1> DEFINE o == Stringified(T, m)
<1>1. o = [n \in {k \in FieldNames(T) : m[k] # Undefined} |->
             ValueStringified(FieldOf(T, n), m[n])]
  BY DEF Stringified
<1> HIDE DEF o
<1>2. ASSUME NEW f \in Fields(T)
      PROVE  Filled(f, o) = m[f.name]
  <2>1. /\ IsField(f) /\ IsValue(f, m[f.name])
        /\ f.name \in FieldNames(T) /\ FieldOf(T, f.name) = f
    BY FieldFacts DEF Is
  <2>2. CASE m[f.name] = Undefined
    <3>1. Default(f) = Undefined
      BY <2>1, <2>2 DEF IsValue, Default
    <3> QED
      BY <1>1, <2>2, <3>1 DEF Filled
  <2>3. CASE m[f.name] # Undefined
    <3>1. f.name \in DOMAIN o /\ o[f.name] = ValueStringified(f, m[f.name])
      BY <1>1, <2>1, <2>3
    <3>2. o[f.name] # Undefined
      BY <2>1, <2>3, <3>1 DEF IsValue
    <3> QED
      BY <2>1, <2>3, <3>1, <3>2, ValueKept DEF Filled
  <2> QED
    BY <2>2, <2>3
<1> QED
  BY <1>2, FromPartialFills DEF o

-----------------------------------------------------------------------------
(* One level up. *)

Faithful ==
  \A T, m : IsType(T) /\ Is(T, m) =>
    /\ Decode(T, Encode(T, m)) = m
    /\ Refuses(T, Encode(T, m)) <=> ~(Int64s(T, m) \subseteq Safe)
    /\ FromPartial(T, ToJSON(T, m)) = m
    /\ FromPartial(T, Stringified(T, m)) = m

\* A message is read as it was written, refused exactly when an int64 of it is
\* not safe, and kept by JSON, if so are the messages nested in it.
THEOREM FaithfulIfNested == NestedFaithful /\ MaxSafe \in Nat => Faithful
BY DecodeEncode, RefusesEncode, ToJSONKept, StringifiedKept DEF Faithful

\* A message whose fields come after others that its type does not know is
\* read, and refused, as if they were not there.
NewerSkipped ==
  \A T, m, newer :
    /\ IsType(T) /\ Is(T, m)
    /\ IsList(newer) /\ \A i \in DOMAIN newer : CasesFor(T, newer[i]) = {}
    => /\ IsList(newer \o Encode(T, m))
       /\ Merge(T, Base(T), newer \o Encode(T, m)) = m
       /\ Refuses(T, newer \o Encode(T, m)) <=> ~(Int64s(T, m) \subseteq Safe)

THEOREM UnknownFieldsAreSkipped == NestedFaithful /\ MaxSafe \in Nat => NewerSkipped
<1> SUFFICES ASSUME NestedFaithful, MaxSafe \in Nat, NEW T, NEW m, NEW newer,
                    IsType(T), Is(T, m), IsList(newer),
                    \A i \in DOMAIN newer : CasesFor(T, newer[i]) = {}
             PROVE  /\ IsList(newer \o Encode(T, m))
                    /\ Merge(T, Base(T), newer \o Encode(T, m)) = m
                    /\ Refuses(T, newer \o Encode(T, m)) <=> ~(Int64s(T, m) \subseteq Safe)
  BY DEF NewerSkipped
<1> DEFINE base == Base(T)
           e == Encode(T, m)
<1>1. IsList(e)
  <2>1. Len(T) \in 0..Len(T)
    BY DEF IsType
  <2> QED
    BY <2>1, WrittenLists DEF Encode
<1>2. Merge(T, base, newer) = base
  <2> DEFINE h == [i \in 0..Len(newer) |-> base]
  <2>1. Len(newer) \in Nat /\ DOMAIN newer = 1..Len(newer)
    BY ListFacts
  <2>2. \A i \in 1..Len(newer) : h[i] = Take(T, h[i - 1], newer[i])
    BY <2>1 DEF Take
  <2>3. h[0] = base /\ h[Len(newer)] = base
    BY <2>1
  <2>4. Len(newer) \in Nat /\ h[0] = base
    BY <2>1, <2>3
  <2> HIDE DEF h, base
  <2>5. Merge(T, base, newer) = h[Len(newer)]
    BY ONLY <2>2, <2>4, MergeEnds, SMT
  <2> QED
    BY <2>3, <2>5
<1>3. ~Refuses(T, newer)
  BY DEF Refuses, Throws
<1>4. Merge(T, base, e) = m
  BY DecodeEncode DEF Decode
<1>5. Refuses(T, e) <=> ~(Int64s(T, m) \subseteq Safe)
  BY RefusesEncode
<1> HIDE DEF e, base
<1>6. IsList(newer \o e)
  BY <1>1, Concat
<1>7. Merge(T, base, newer \o e) = Merge(T, Merge(T, base, newer), e)
  BY <1>1, MergeConcat
<1>8. Refuses(T, newer \o e) <=> Refuses(T, newer) \/ Refuses(T, e)
  BY <1>1, RefusesConcat
<1> QED
  BY <1>2, <1>3, <1>4, <1>5, <1>6, <1>7, <1>8 DEF e, base

\* Any field that is the first of its number on the wire may be read first, and
\* with nothing left on the wire a message is what was read.
OrderFree ==
  /\ \A T, m, wire, i, rest :
       IsType(T) /\ TakenFirst(wire, i, rest) =>
         Merge(T, m, wire) = Merge(T, Take(T, m, wire[i]), rest)
  /\ \A T, m : Merge(T, m, <<>>) = m

THEOREM AnyOrder == OrderFree
BY ReadFirst, MergeNothing DEF OrderFree
=============================================================================
