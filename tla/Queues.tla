------------------------------- MODULE Queues --------------------------------
(***************************************************************************)
(* Lemmas about queues of messages, which the proofs about file transfers, *)
(* chat rooms and stream rooms keep needing: what is in them, in which     *)
(* order, and how they are numbered.                                       *)
(***************************************************************************)
EXTENDS Naturals, Sequences, FiniteSets, SequencesExt, SequenceTheorems, FiniteSetTheorems, TLAPS

\* Some message of these types is in the queue.
Has(queue, types) == \E m \in ToSet(queue) : m.type \in types

\* In the queue, nothing of the types in "after" follows something of the types in "before".
Apart(queue, before, after) ==
  \A i, j \in 1..Len(queue) : i < j /\ queue[i].type \in before => queue[j].type \notin after

\* The values of a function on a finite set.
LEMMA ImageFinite ==
  ASSUME NEW S, IsFiniteSet(S), NEW f
  PROVE  IsFiniteSet({f[x] : x \in S})
<1> DEFINE T == {f[x] : x \in S}
           g == [x \in S |-> f[x]]
<1>1. g \in Surjection(S, T)
  BY DEF Surjection
<1> QED
  BY <1>1, FS_Surjection

LEMMA ShortSequences ==
  ASSUME NEW S
  PROVE  /\ <<>> \in Seq(S)
         /\ \A m \in S : <<m>> \in Seq(S)
         /\ \A s, t \in Seq(S) : s \o t \in Seq(S)
         /\ \A s \in Seq(S), m \in S : Append(s, m) \in Seq(S)
OBVIOUS

LEMMA HeadTail ==
  ASSUME NEW S, NEW s \in Seq(S), s # <<>>
  PROVE  Head(s) \in S /\ Tail(s) \in Seq(S)
OBVIOUS

LEMMA AppendConcat ==
  ASSUME NEW S, NEW q \in Seq(S), NEW m \in S
  PROVE  Append(q, m) = q \o <<m>> /\ Append(q, m) \in Seq(S)
OBVIOUS

LEMMA SetTail ==
  ASSUME NEW S, NEW q \in Seq(S), q # <<>>
  PROVE  /\ ToSet(q) = {Head(q)} \cup ToSet(Tail(q))
         /\ ToSet(q) \subseteq S
<1>1. /\ Len(q) \in Nat /\ Len(q) > 0 /\ Len(Tail(q)) = Len(q) - 1
      /\ Head(q) = q[1] /\ DOMAIN q = 1..Len(q) /\ DOMAIN Tail(q) = 1..Len(Tail(q))
      /\ \A i \in 1..Len(Tail(q)) : Tail(q)[i] = q[i + 1] /\ i + 1 \in 1..Len(q)
      /\ \A i \in 1..Len(q) : q[i] \in S
  OBVIOUS
<1>2. ASSUME NEW m \in ToSet(q) PROVE m \in {Head(q)} \cup ToSet(Tail(q))
  <2>1. PICK i \in 1..Len(q) : q[i] = m
    BY <1>1, <1>2 DEF ToSet
  <2>2. CASE i = 1
    BY <1>1, <2>1, <2>2
  <2>3. CASE i # 1
    <3>1. i - 1 \in 1..Len(Tail(q)) /\ (i - 1) + 1 = i
      BY <1>1, <2>3
    <3>2. Tail(q)[i - 1] = m
      BY <1>1, <2>1, <3>1
    <3> QED BY <1>1, <3>1, <3>2 DEF ToSet
  <2> QED BY <2>2, <2>3
<1>3. ASSUME NEW m \in ToSet(Tail(q)) PROVE m \in ToSet(q)
  <2>1. PICK i \in 1..Len(Tail(q)) : Tail(q)[i] = m
    BY <1>1, <1>3 DEF ToSet
  <2> QED BY <1>1, <2>1 DEF ToSet
<1>4. Head(q) \in ToSet(q) /\ ToSet(q) \subseteq S
  BY <1>1 DEF ToSet
<1> QED BY <1>2, <1>3, <1>4

LEMMA SetNothing == ToSet(<<>>) = {}
BY DEF ToSet

LEMMA SetOne == ASSUME NEW m PROVE ToSet(<<m>>) = {m}
BY DEF ToSet

LEMMA ConcatElements ==
  ASSUME NEW S, NEW q \in Seq(S), NEW ms \in Seq(S)
  PROVE  /\ q \o ms \in Seq(S)
         /\ Len(q \o ms) = Len(q) + Len(ms) /\ Len(q) \in Nat /\ Len(ms) \in Nat
         /\ \A i \in 1..Len(q) : (q \o ms)[i] = q[i]
         /\ \A i \in 1..Len(ms) : (q \o ms)[Len(q) + i] = ms[i]
OBVIOUS

LEMMA SetConcat ==
  ASSUME NEW S, NEW q \in Seq(S), NEW ms \in Seq(S)
  PROVE  ToSet(q \o ms) = ToSet(q) \cup ToSet(ms)
<1>1. /\ DOMAIN (q \o ms) = 1..(Len(q) + Len(ms))
      /\ DOMAIN q = 1..Len(q) /\ DOMAIN ms = 1..Len(ms)
  BY ConcatElements
<1>2. ASSUME NEW m \in ToSet(q \o ms) PROVE m \in ToSet(q) \cup ToSet(ms)
  <2>1. PICK i \in 1..(Len(q) + Len(ms)) : (q \o ms)[i] = m
    BY <1>1, <1>2 DEF ToSet
  <2>2. CASE i \in 1..Len(q)
    BY <1>1, <2>1, <2>2, ConcatElements DEF ToSet
  <2>3. CASE i \notin 1..Len(q)
    <3>1. i - Len(q) \in 1..Len(ms) /\ Len(q) + (i - Len(q)) = i
      BY <2>3, ConcatElements
    <3>2. ms[i - Len(q)] = m
      BY <2>1, <3>1, ConcatElements
    <3> QED BY <1>1, <3>1, <3>2 DEF ToSet
  <2> QED BY <2>2, <2>3
<1>3. ASSUME NEW m \in ToSet(q) PROVE m \in ToSet(q \o ms)
  <2>1. PICK i \in 1..Len(q) : q[i] = m
    BY <1>1, <1>3 DEF ToSet
  <2>2. i \in 1..(Len(q) + Len(ms))
    BY ConcatElements
  <2> QED BY <1>1, <2>1, <2>2, ConcatElements DEF ToSet
<1>4. ASSUME NEW m \in ToSet(ms) PROVE m \in ToSet(q \o ms)
  <2>1. PICK i \in 1..Len(ms) : ms[i] = m
    BY <1>1, <1>4 DEF ToSet
  <2>2. Len(q) + i \in 1..(Len(q) + Len(ms))
    BY ConcatElements
  <2>3. (q \o ms)[Len(q) + i] = m
    BY <2>1, ConcatElements
  <2> QED BY <1>1, <2>2, <2>3 DEF ToSet
<1> QED BY <1>2, <1>3, <1>4

LEMMA SetMore ==
  ASSUME NEW S, NEW q \in Seq(S), NEW m
  PROVE  ToSet(q \o <<m>>) = ToSet(q) \cup {m}
<1>1. PICK ms : ms = <<m>>
  OBVIOUS
<1>2. q \in Seq(S \cup {m}) /\ ms \in Seq(S \cup {m})
  BY <1>1, SeqMonotonic, ShortSequences
<1>3. ToSet(q \o ms) = ToSet(q) \cup ToSet(ms)
  BY <1>2, SetConcat
<1> QED BY <1>1, <1>3, SetOne

LEMMA ApartTail ==
  ASSUME NEW S, NEW q \in Seq(S), q # <<>>, NEW A, NEW B, Apart(q, A, B)
  PROVE  /\ Apart(Tail(q), A, B)
         /\ Head(q).type \in A => ~Has(Tail(q), B)
<1>1. /\ Len(q) \in Nat /\ Len(q) > 0 /\ Len(Tail(q)) = Len(q) - 1
      /\ Head(q) = q[1] /\ DOMAIN Tail(q) = 1..Len(Tail(q))
      /\ \A i \in 1..Len(Tail(q)) : Tail(q)[i] = q[i + 1] /\ i + 1 \in 1..Len(q)
  OBVIOUS
<1>2. ASSUME NEW i \in 1..Len(Tail(q)), NEW j \in 1..Len(Tail(q)), i < j, Tail(q)[i].type \in A
      PROVE  Tail(q)[j].type \notin B
  <2>1. i + 1 < j + 1
    BY <1>2
  <2> QED BY <1>1, <1>2, <2>1 DEF Apart
<1>3. ASSUME Head(q).type \in A, NEW m \in ToSet(Tail(q)) PROVE m.type \notin B
  <2>1. PICK j \in 1..Len(Tail(q)) : Tail(q)[j] = m
    BY <1>1, <1>3 DEF ToSet
  <2>2. 1 \in 1..Len(q) /\ 1 < j + 1
    BY <1>1
  <2> QED BY <1>1, <1>3, <2>1, <2>2 DEF Apart
<1> QED BY <1>2, <1>3 DEF Apart, Has

LEMMA ApartConcat ==
  ASSUME NEW S, NEW q \in Seq(S), NEW ms \in Seq(S), NEW A, NEW B,
         Apart(q, A, B), Apart(ms, A, B), Has(q, A) => ~Has(ms, B)
  PROVE  Apart(q \o ms, A, B)
<1> SUFFICES ASSUME NEW i \in 1..(Len(q) + Len(ms)), NEW j \in 1..(Len(q) + Len(ms)), i < j,
                    (q \o ms)[i].type \in A
             PROVE  (q \o ms)[j].type \notin B
  BY ConcatElements DEF Apart
<1>1. CASE j \in 1..Len(q)
  <2>1. i \in 1..Len(q)
    BY <1>1
  <2> QED BY <1>1, <2>1, ConcatElements DEF Apart
<1>2. CASE j \notin 1..Len(q)
  <2>1. j - Len(q) \in 1..Len(ms) /\ Len(q) + (j - Len(q)) = j
    BY <1>2, ConcatElements
  <2>2. (q \o ms)[j] = ms[j - Len(q)]
    BY <2>1, ConcatElements
  <2>3. CASE i \in 1..Len(q)
    <3>1. Has(q, A)
      BY <2>3, ConcatElements DEF Has, ToSet
    <3> QED BY <2>1, <2>2, <3>1 DEF Has, ToSet
  <2>4. CASE i \notin 1..Len(q)
    <3>1. i - Len(q) \in 1..Len(ms) /\ Len(q) + (i - Len(q)) = i /\ i - Len(q) < j - Len(q)
      BY <2>1, <2>4, ConcatElements
    <3>2. (q \o ms)[i] = ms[i - Len(q)]
      BY <3>1, ConcatElements
    <3> QED BY <2>1, <2>2, <3>1, <3>2 DEF Apart
  <2> QED BY <2>3, <2>4
<1> QED BY <1>1, <1>2

LEMMA ApartShort ==
  ASSUME NEW A, NEW B
  PROVE  Apart(<<>>, A, B) /\ \A m : Apart(<<m>>, A, B)
BY DEF Apart

LEMMA ApartMore ==
  ASSUME NEW S, NEW q \in Seq(S), NEW m \in S, NEW A, NEW B, Apart(q, A, B),
         Has(q, A) => m.type \notin B
  PROVE  Apart(q \o <<m>>, A, B)
<1>1. PICK ms : ms = <<m>>
  OBVIOUS
<1>2. ms \in Seq(S) /\ Apart(ms, A, B)
  BY <1>1, ShortSequences, ApartShort
<1>3. Has(q, A) => ~Has(ms, B)
  BY <1>1, SetOne DEF Has
<1> QED BY <1>1, <1>2, <1>3, ApartConcat

LEMMA ApartWithout ==
  ASSUME NEW q, NEW A, NEW B, ~Has(q, B), DOMAIN q = 1..Len(q)
  PROVE  Apart(q, A, B)
BY DEF Apart, Has, ToSet

LEMMA ApartAbsent ==
  ASSUME NEW q, NEW A, NEW B, ~Has(q, A), DOMAIN q = 1..Len(q)
  PROVE  Apart(q, A, B)
BY DEF Apart, Has, ToSet

LEMMA Prefix ==
  ASSUME NEW S, NEW q \in Seq(S), NEW n \in 0..Len(q)
  PROVE  /\ SubSeq(q, 1, n) \in Seq(S)
         /\ Len(SubSeq(q, 1, n)) = n
         /\ DOMAIN SubSeq(q, 1, n) = 1..n /\ DOMAIN q = 1..Len(q) /\ Len(q) \in Nat
         /\ \A i \in 1..n : SubSeq(q, 1, n)[i] = q[i]
OBVIOUS

LEMMA PrefixApart ==
  ASSUME NEW S, NEW q \in Seq(S), NEW n \in 0..Len(q), NEW A, NEW B, Apart(q, A, B)
  PROVE  /\ Apart(SubSeq(q, 1, n), A, B)
         /\ ToSet(SubSeq(q, 1, n)) \subseteq ToSet(q)
         /\ \A m \in ToSet(q) :
              m.type \in B \ A /\ Has(SubSeq(q, 1, n), A) => m \in ToSet(SubSeq(q, 1, n))
<1>1. Len(q) \in Nat /\ \A i \in 1..n : i \in 1..Len(q)
  OBVIOUS
<1>2. ASSUME NEW m \in ToSet(q), m.type \in B \ A, Has(SubSeq(q, 1, n), A)
      PROVE  m \in ToSet(SubSeq(q, 1, n))
  <2>1. PICK j \in 1..Len(q) : q[j] = m
    BY <1>2, Prefix DEF ToSet
  <2>2. PICK i \in 1..n : q[i].type \in A
    BY <1>2, Prefix DEF Has, ToSet
  <2>3. ~(i < j) /\ i # j
    BY <1>1, <1>2, <2>1, <2>2 DEF Apart
  <2>4. j \in 1..n
    BY <2>3
  <2>5. SubSeq(q, 1, n)[j] = m /\ DOMAIN SubSeq(q, 1, n) = 1..n
    BY <2>1, <2>4, Prefix
  <2> QED BY <2>4, <2>5 DEF ToSet
<1> QED BY <1>1, <1>2, Prefix DEF Apart, ToSet


LEMMA ApartOnce ==
  ASSUME NEW q, NEW A, Apart(q, A, A), DOMAIN q = 1..Len(q), Len(q) \in Nat,
         NEW m \in ToSet(q), NEW n \in ToSet(q), m.type \in A, n.type \in A
  PROVE  m = n
<1>1. PICK i, j \in 1..Len(q) : q[i] = m /\ q[j] = n
  BY DEF ToSet
<1>2. ~(i < j) /\ ~(j < i)
  BY <1>1 DEF Apart
<1> QED BY <1>1, <1>2


-----------------------------------------------------------------------------
(* Numbering.  The places among the first k of a queue that hold a member of  *)
(* K; and the members of K carrying the numbers n, n + 1, ... up to, and      *)
(* without, m in the order they stand in.                                     *)
Places(queue, K, k) == {i \in 1..k : queue[i] \in K}

Numbered(queue, K, number, n, m) ==
  /\ \A i \in Places(queue, K, Len(queue)) :
       number[queue[i]] = n + Cardinality(Places(queue, K, i - 1))
  /\ m = n + Cardinality(Places(queue, K, Len(queue)))

LEMMA PlacesFinite ==
  ASSUME NEW q, NEW K, NEW k \in Nat
  PROVE  IsFiniteSet(Places(q, K, k)) /\ Cardinality(Places(q, K, k)) \in Nat
<1>1. IsFiniteSet(1..k) /\ Places(q, K, k) \subseteq 1..k
  BY FS_Interval DEF Places
<1> QED BY <1>1, FS_Subset, FS_CardinalityType

\* A queue without members of K.
LEMMA NumberedNone ==
  ASSUME NEW S, NEW q \in Seq(S), NEW K, NEW number, NEW n \in Nat,
         \A m \in ToSet(q) : m \notin K
  PROVE  Numbered(q, K, number, n, n)
<1>1. Places(q, K, Len(q)) = {}
  BY DEF Places, ToSet
<1> QED BY <1>1, FS_EmptySet DEF Numbered

\* A message is added at the end.
LEMMA NumberedMore ==
  ASSUME NEW S, NEW q \in Seq(S), NEW x \in S, NEW K, NEW number, NEW n \in Nat, NEW m,
         Numbered(q, K, number, n, m)
  PROVE  /\ x \notin K => Numbered(Append(q, x), K, number, n, m)
         /\ x \in K /\ number[x] = m => Numbered(Append(q, x), K, number, n, m + 1)
<1>1. PICK s : s = Append(q, x)
  OBVIOUS
<1>2. /\ Len(q) \in Nat /\ Len(s) = Len(q) + 1 /\ s[Len(q) + 1] = x
      /\ \A i \in 1..Len(q) : s[i] = q[i]
  BY <1>1
<1>3. \A k \in 0..Len(q) : Places(s, K, k) = Places(q, K, k)
  BY <1>2 DEF Places
<1>4. /\ \A i \in Places(q, K, Len(q)) : i \in 1..Len(q) /\ i - 1 \in 0..Len(q)
      /\ Len(q) \in 0..Len(q)
  BY <1>2 DEF Places
<1>5. CASE x \notin K
  <2>1. Places(s, K, Len(s)) = Places(q, K, Len(q))
    BY <1>2, <1>5 DEF Places
  <2>2. ASSUME NEW i \in Places(s, K, Len(s))
        PROVE  number[s[i]] = n + Cardinality(Places(s, K, i - 1))
    BY <1>2, <1>3, <1>4, <2>1 DEF Numbered
  <2> QED BY <1>1, <1>5, <2>1, <2>2 DEF Numbered
<1>6. ASSUME x \in K, number[x] = m PROVE Numbered(s, K, number, n, m + 1)
  <2>1. Places(s, K, Len(s)) = Places(q, K, Len(q)) \cup {Len(q) + 1}
    BY <1>2, <1>6 DEF Places
  <2>2. Len(q) + 1 \notin Places(q, K, Len(q))
    BY <1>2 DEF Places
  <2>3. /\ IsFiniteSet(Places(q, K, Len(q))) /\ Cardinality(Places(q, K, Len(q))) \in Nat
        /\ Cardinality(Places(s, K, Len(s))) = Cardinality(Places(q, K, Len(q))) + 1
    BY <1>2, <2>1, <2>2, PlacesFinite, FS_AddElement
  <2>4. ASSUME NEW i \in Places(q, K, Len(q))
        PROVE  number[s[i]] = n + Cardinality(Places(s, K, i - 1))
    BY <1>2, <1>3, <1>4 DEF Numbered
  <2>5. number[s[Len(q) + 1]] = n + Cardinality(Places(s, K, (Len(q) + 1) - 1))
    <3>1. Places(s, K, (Len(q) + 1) - 1) = Places(q, K, Len(q))
      BY <1>2, <1>3, <1>4
    <3> QED BY <1>2, <1>6, <3>1 DEF Numbered
  <2>6. m + 1 = n + Cardinality(Places(s, K, Len(s)))
    BY <2>3 DEF Numbered
  <2> QED BY <2>1, <2>4, <2>5, <2>6 DEF Numbered
<1> QED BY <1>1, <1>5, <1>6

\* The first message is taken.
LEMMA NumberedTail ==
  ASSUME NEW S, NEW q \in Seq(S), q # <<>>, NEW K, NEW number, NEW n \in Nat, NEW m,
         Numbered(q, K, number, n, m)
  PROVE  /\ Head(q) \notin K => Numbered(Tail(q), K, number, n, m)
         /\ Head(q) \in K => number[Head(q)] = n /\ Numbered(Tail(q), K, number, n + 1, m)
<1>1. PICK s : s = Tail(q)
  OBVIOUS
<1>2. /\ Len(q) \in Nat /\ Len(q) > 0 /\ Len(s) = Len(q) - 1 /\ Head(q) = q[1]
      /\ \A i \in 1..Len(s) : s[i] = q[i + 1]
  BY <1>1
<1> DEFINE one == IF q[1] \in K THEN 1 ELSE 0
<1>0. one \in Nat /\ (q[1] \in K => one = 1) /\ (q[1] \notin K => one = 0)
  OBVIOUS
<1> HIDE DEF one
<1>3. ASSUME NEW k \in 0..Len(s)
      PROVE  Cardinality(Places(q, K, k + 1)) = one + Cardinality(Places(s, K, k))
             /\ Cardinality(Places(s, K, k)) \in Nat
  <2> DEFINE Moved == Places(q, K, k + 1) \ {1}
  <2>1. \A i \in Moved : i - 1 \in Places(s, K, k) /\ i \in Nat
    BY <1>2 DEF Places
  <2>2. \A i \in Places(s, K, k) : i + 1 \in Moved /\ i \in Nat
    BY <1>2 DEF Places
  <2>3. [i \in Places(s, K, k) |-> i + 1] \in Bijection(Places(s, K, k), Moved)
    <3>1. PICK g : g = [i \in Places(s, K, k) |-> i + 1]
      OBVIOUS
    <3>2. g \in Injection(Places(s, K, k), Moved)
      BY <2>2, <3>1 DEF Injection, IsInjective
    <3>3. ASSUME NEW j \in Moved PROVE \E i \in Places(s, K, k) : g[i] = j
      <4>1. j - 1 \in Places(s, K, k) /\ (j - 1) + 1 = j
        BY <2>1
      <4> QED BY <3>1, <4>1
    <3> QED BY <3>1, <3>2, <3>3, <2>2 DEF Bijection, Surjection
  <2>4. /\ IsFiniteSet(Places(s, K, k)) /\ Cardinality(Places(s, K, k)) \in Nat
        /\ Cardinality(Moved) = Cardinality(Places(s, K, k)) /\ IsFiniteSet(Moved)
    <3>1. ExistsBijection(Places(s, K, k), Moved)
      BY <2>3 DEF ExistsBijection
    <3>2. IsFiniteSet(Places(s, K, k)) /\ Cardinality(Places(s, K, k)) \in Nat
      BY <1>2, PlacesFinite
    <3> HIDE DEF Moved
    <3> QED BY <3>1, <3>2, FS_Bijection
  <2>5. CASE q[1] \in K
    <3>1. 1 \in Places(q, K, k + 1)
      BY <2>5 DEF Places
    <3>2. Places(q, K, k + 1) = Moved \cup {1} /\ 1 \notin Moved
      BY <3>1
    <3>3. Cardinality(Places(q, K, k + 1)) = Cardinality(Moved) + 1
      BY <2>4, <3>2, FS_AddElement
    <3> QED BY <1>0, <2>4, <2>5, <3>3
  <2>6. CASE q[1] \notin K
    <3>1. Places(q, K, k + 1) = Moved
      BY <2>6 DEF Places
    <3>2. Cardinality(Places(q, K, k + 1)) = Cardinality(Places(s, K, k))
      BY <2>4, <3>1
    <3> QED BY <1>0, <2>4, <2>6, <3>2
  <2> QED BY <2>5, <2>6
<1>4. ASSUME NEW i \in Places(s, K, Len(s))
      PROVE  number[s[i]] = (n + one) + Cardinality(Places(s, K, i - 1))
  <2>1. i \in 1..Len(s) /\ i - 1 \in 0..Len(s) /\ (i - 1) + 1 = i /\ (i + 1) - 1 = i
    BY <1>2 DEF Places
  <2>2. i + 1 \in Places(q, K, Len(q))
    BY <1>2, <2>1 DEF Places
  <2>3. number[q[i + 1]] = n + Cardinality(Places(q, K, i))
    BY <2>1, <2>2 DEF Numbered
  <2>4. Cardinality(Places(q, K, i)) = one + Cardinality(Places(s, K, i - 1))
        /\ Cardinality(Places(s, K, i - 1)) \in Nat
    BY <1>3, <2>1
  <2> QED BY <1>0, <1>2, <2>1, <2>3, <2>4
<1>5. m = (n + one) + Cardinality(Places(s, K, Len(s)))
  <2>1. Len(s) \in 0..Len(s) /\ Len(s) + 1 = Len(q)
    BY <1>2
  <2>2. Cardinality(Places(q, K, Len(q))) = one + Cardinality(Places(s, K, Len(s)))
        /\ Cardinality(Places(s, K, Len(s))) \in Nat
    BY <1>3, <2>1
  <2>3. m = n + Cardinality(Places(q, K, Len(q)))
    BY DEF Numbered
  <2> QED BY <1>0, <2>2, <2>3
<1>6. Numbered(s, K, number, n + one, m)
  BY <1>4, <1>5 DEF Numbered
<1>7. q[1] \in K => number[q[1]] = n
  <2>1. Cardinality(Places(q, K, 1 - 1)) = 0
    <3>1. Places(q, K, 1 - 1) = {}
      BY DEF Places
    <3> QED BY <3>1, FS_EmptySet
  <2>2. q[1] \in K => 1 \in Places(q, K, Len(q))
    BY <1>2 DEF Places
  <2>3. q[1] \in K => number[q[1]] = n + Cardinality(Places(q, K, 1 - 1))
    BY <2>2 DEF Numbered
  <2> QED BY <2>1, <2>3
<1> QED BY <1>0, <1>1, <1>2, <1>6, <1>7

\* The numbers that occur are those from n up to m.
LEMMA NumberedBounds ==
  ASSUME NEW S, NEW q \in Seq(S), NEW K, NEW number, NEW n \in Nat, NEW m,
         Numbered(q, K, number, n, m)
  PROVE  /\ m \in Nat /\ n <= m
         /\ (\A x \in ToSet(q) : x \notin K) => m = n
<1>1. Len(q) \in Nat
  OBVIOUS
<1>2. Cardinality(Places(q, K, Len(q))) \in Nat
  BY <1>1, PlacesFinite
<1>3. (\A x \in ToSet(q) : x \notin K) => Places(q, K, Len(q)) = {}
  BY DEF Places, ToSet
<1>4. m = n + Cardinality(Places(q, K, Len(q)))
  BY DEF Numbered
<1>5. Cardinality({}) = 0
  BY FS_EmptySet
<1>6. m \in Nat /\ n <= m
  BY <1>2, <1>4
<1>7. (\A x \in ToSet(q) : x \notin K) => m = n
  BY <1>3, <1>4, <1>5
<1> QED BY <1>6, <1>7
=============================================================================
