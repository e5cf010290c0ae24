----------------------------- MODULE CountingFacts -----------------------------
(***************************************************************************)
(* Facts about counting that the proofs about the components share: what a *)
(* count becomes when one place changes, a message is appended or taken.   *)
(***************************************************************************)
EXTENDS Integers, Sequences, FiniteSets, FiniteSetsExt, FiniteSetTheorems,
        FunctionTheorems, WellFoundedInduction, SequencesExt, SequenceTheorems, TLAPS

One(p) == IF p THEN 1 ELSE 0

(* The smallest one of some numbers is one of them. *)
LEMMA MinIn ==
    ASSUME NEW S, S \subseteq Nat, S # {}
    PROVE  Min(S) \in S
  <1> DEFINE below(x) == 0..x
             T == { below(x) : x \in S }
  <1>1. T \subseteq FiniteSubsetsOf(Nat) /\ T # {}
    <2>1. ASSUME NEW x \in S PROVE IsFiniteSet(below(x)) /\ below(x) \subseteq Nat
      BY FS_Interval
    <2> QED BY <2>1 DEF FiniteSubsetsOf
  <1> HIDE DEF T
  <1>2. PICK b \in T : \A c \in T : ~ (<<c, b>> \in StrictSubsetOrdering(Nat))
    BY <1>1, FS_StrictSubsetOrderingWellFounded, WFMin
  <1>3. PICK x \in S : b = below(x)
    BY <1>2 DEF T
  <1>4. ASSUME NEW y \in S PROVE x =< y
    <2>1. below(y) \in T
      BY DEF T
    <2>2. ~ (<<below(y), below(x)>> \in StrictSubsetOrdering(Nat))
      BY <1>2, <1>3, <2>1
    <2>3. y < x => below(y) \subseteq below(x) /\ below(y) # below(x)
      <3>1. x \in below(x) /\ (y < x => x \notin below(y))
        OBVIOUS
      <3> QED BY <3>1
    <2> QED BY <2>2, <2>3 DEF StrictSubsetOrdering
  <1> QED BY <1>4 DEF Min

(* A finite set that is counted once or never. *)
LEMMA CountZero ==
    ASSUME NEW A, IsFiniteSet(A)
    PROVE  /\ Cardinality(A) \in Nat
           /\ Cardinality(A) = 0 <=> A = {}
  BY FS_CardinalityType, FS_EmptySet

(* What is counted once is the same thing. *)
LEMMA CountOnce ==
    ASSUME NEW A, IsFiniteSet(A), Cardinality(A) <= 1, NEW x \in A, NEW y \in A
    PROVE  x = y
  <1>1. Cardinality(A) \in Nat /\ Cardinality(A) # 0
    BY CountZero
  <1>2. Cardinality(A) = 1
    BY <1>1
  <1> QED BY <1>2, FS_Singleton

(* Two sets that differ in one element at most. *)
LEMMA CountDiffer ==
    ASSUME NEW A, NEW B, IsFiniteSet(A), NEW x,
           \A y : y # x => (y \in A <=> y \in B)
    PROVE  /\ IsFiniteSet(B)
           /\ Cardinality(A) \in Nat /\ Cardinality(B) \in Nat
           /\ Cardinality(B) + One(x \in A) = Cardinality(A) + One(x \in B)
  <1> DEFINE C == A \ {x}
  <1>1. IsFiniteSet(C) /\ Cardinality(C) \in Nat
    BY FS_RemoveElement, FS_CardinalityType
  <1>2. x \notin C
    OBVIOUS
  <1>3. A = C \/ A = C \cup {x}
    OBVIOUS
  <1>4. B = C \/ B = C \cup {x}
    OBVIOUS
  <1>5. IsFiniteSet(C \cup {x}) /\ Cardinality(C \cup {x}) = Cardinality(C) + 1
    BY <1>1, <1>2, FS_AddElement
  <1>6. /\ IsFiniteSet(B)
        /\ Cardinality(A) = Cardinality(C) + One(x \in A)
        /\ Cardinality(B) = Cardinality(C) + One(x \in B)
    <2> HIDE DEF C
    <2>1. A = C => x \notin A /\ Cardinality(A) = Cardinality(C) + 0
      BY <1>1, <1>2
    <2>2. B = C => x \notin B /\ Cardinality(B) = Cardinality(C) + 0
      BY <1>1, <1>2
    <2>3. A = C \cup {x} => x \in A /\ Cardinality(A) = Cardinality(C) + 1
      BY <1>5
    <2>4. B = C \cup {x} => x \in B /\ Cardinality(B) = Cardinality(C) + 1
      BY <1>5
    <2> QED BY <1>1, <1>3, <1>4, <1>5, <2>1, <2>2, <2>3, <2>4 DEF One
  <1> HIDE DEF C
  <1> QED BY <1>1, <1>6 DEF One

(* Positions that all move down by one, as those in a queue whose head is  *)
(* taken.                                                                  *)
LEMMA CountShift ==
    ASSUME NEW n \in Nat \ {0}, NEW A, A \subseteq 1..n, NEW B, B \subseteq 1..(n - 1),
           \A i \in 1..(n - 1) : i \in B <=> i + 1 \in A
    PROVE  /\ Cardinality(A) \in Nat /\ Cardinality(B) \in Nat
           /\ Cardinality(A) = Cardinality(B) + One(1 \in A)
  <1>1. IsFiniteSet(A) /\ IsFiniteSet(B)
    <2>1. IsFiniteSet(1..n)
      BY FS_Interval
    <2>2. A \in SUBSET (1..n) /\ B \in SUBSET (1..n)
      OBVIOUS
    <2> QED BY <2>1, <2>2, FS_Subset
  <1> DEFINE C == A \ {1}
             f == [i \in B |-> i + 1]
  <1>2. IsFiniteSet(C) /\ Cardinality(C) \in Nat
    BY <1>1, FS_RemoveElement, FS_CardinalityType
  <1>3. f \in Bijection(B, C)
    <2>1. f \in [B -> C]
      <3>1. ASSUME NEW i \in B PROVE i + 1 \in C
        OBVIOUS
      <3> QED BY <3>1
    <2>2. \A i, j \in B : f[i] = f[j] => i = j
      OBVIOUS
    <2>3. \A k \in C : \E i \in B : f[i] = k
      <3> SUFFICES ASSUME NEW k \in C PROVE \E i \in B : f[i] = k
        OBVIOUS
      <3>1. k \in 2..n /\ k - 1 \in 1..(n - 1) /\ (k - 1) + 1 = k
        OBVIOUS
      <3>2. k - 1 \in B
        BY <3>1
      <3> QED BY <3>1, <3>2
    <2> QED BY <2>1, <2>2, <2>3, Fun_IsBij
  <1>4. Cardinality(C) = Cardinality(B)
    BY <1>1, <1>3, FS_Bijection DEF ExistsBijection
  <1>5. /\ Cardinality(A) \in Nat /\ Cardinality(B) \in Nat
        /\ Cardinality(C) + One(1 \in A) = Cardinality(A) + One(1 \in C)
    <2>1. \A y : y # 1 => (y \in A <=> y \in C)
      OBVIOUS
    <2> QED BY <1>1, <2>1, CountDiffer, CountZero
  <1>6. 1 \notin C
    OBVIOUS
  <1> QED BY <1>2, <1>4, <1>5, <1>6 DEF One

(* Positions in a queue to which a message is appended. *)
LEMMA CountAppend ==
    ASSUME NEW S, NEW s \in Seq(S), NEW x \in S, NEW A, A \subseteq DOMAIN s,
           NEW B, B \subseteq DOMAIN Append(s, x), \A i \in DOMAIN s : i \in A <=> i \in B
    PROVE  /\ Cardinality(A) \in Nat /\ Cardinality(B) \in Nat
           /\ Cardinality(B) = Cardinality(A) + One(Len(s) + 1 \in B)
  <1>1. /\ DOMAIN s = 1..Len(s) /\ Len(s) \in Nat
        /\ DOMAIN Append(s, x) = 1..(Len(s) + 1)
    BY LenProperties, AppendProperties
  <1> DEFINE n == Len(s)
  <1> HIDE DEF n
  <1>2. n \in Nat /\ A \subseteq 1..n /\ B \subseteq 1..(n + 1)
    BY <1>1 DEF n
  <1>3. IsFiniteSet(A)
    <2>1. IsFiniteSet(1..n) /\ A \in SUBSET (1..n)
      BY <1>2, FS_Interval
    <2> QED BY <2>1, FS_Subset
  <1>4. \A y : y # n + 1 => (y \in A <=> y \in B)
    BY <1>1, <1>2 DEF n
  <1>5. n + 1 \notin A
    BY <1>2
  <1>6. /\ Cardinality(A) \in Nat /\ Cardinality(B) \in Nat
        /\ Cardinality(B) + One(n + 1 \in A) = Cardinality(A) + One(n + 1 \in B)
    BY <1>3, <1>4, CountDiffer
  <1> QED BY <1>5, <1>6 DEF n, One

(* Positions in a queue whose head is taken. *)
LEMMA CountTail ==
    ASSUME NEW S, NEW s \in Seq(S), s # <<>>, NEW A, A \subseteq DOMAIN s,
           NEW B, B \subseteq DOMAIN Tail(s), \A i \in DOMAIN Tail(s) : i \in B <=> i + 1 \in A
    PROVE  /\ Cardinality(A) \in Nat /\ Cardinality(B) \in Nat
           /\ Cardinality(A) = Cardinality(B) + One(1 \in A)
  <1>1. /\ DOMAIN s = 1..Len(s) /\ Len(s) \in Nat \ {0}
        /\ DOMAIN Tail(s) = 1..(Len(s) - 1)
    <2>1. Len(s) \in Nat /\ Len(s) # 0 /\ DOMAIN s = 1..Len(s)
      BY LenProperties, EmptySeq
    <2>2. Tail(s) \in Seq(S) /\ Len(Tail(s)) = Len(s) - 1
      BY HeadTailProperties
    <2> QED BY <2>1, <2>2, LenProperties
  <1> QED BY <1>1, CountShift

(* The messages of a queue and the ones appended or taken. *)
LEMMA AppendAt ==
    ASSUME NEW S, NEW s \in Seq(S), NEW x \in S
    PROVE  /\ Append(s, x) \in Seq(S) /\ Append(s, x) # <<>>
           /\ DOMAIN Append(s, x) = DOMAIN s \cup {Len(s) + 1}
           /\ Len(s) + 1 \notin DOMAIN s
           /\ Append(s, x)[Len(s) + 1] = x
           /\ \A i \in DOMAIN s : Append(s, x)[i] = s[i]
  <1>1. /\ DOMAIN s = 1..Len(s) /\ Len(s) \in Nat
        /\ Append(s, x) \in Seq(S) /\ Len(Append(s, x)) = Len(s) + 1
        /\ DOMAIN Append(s, x) = 1..(Len(s) + 1)
        /\ \A i \in 1..Len(s) : Append(s, x)[i] = s[i]
        /\ Append(s, x)[Len(s) + 1] = x
    BY LenProperties, AppendProperties
  <1> DEFINE n == Len(s)
             t == Append(s, x)
  <1> HIDE DEF n, t
  <1>2. n \in Nat => 1..(n + 1) = (1..n) \cup {n + 1} /\ n + 1 \notin 1..n
    OBVIOUS
  <1>3. Len(t) # 0 => t # <<>>
    BY EmptySeq
  <1> QED BY <1>1, <1>2, <1>3 DEF n, t

(* The rest of a sequence: its indices and what it holds. *)
LEMMA TailAt ==
    ASSUME NEW S, NEW s \in Seq(S), s # <<>>
    PROVE  /\ Tail(s) \in Seq(S) /\ Head(s) \in S
           /\ 1 \in DOMAIN s /\ s[1] = Head(s)
           /\ \A i \in DOMAIN Tail(s) : i + 1 \in DOMAIN s /\ Tail(s)[i] = s[i + 1]
           /\ Len(Tail(s)) = Len(s) - 1
  <1>1. /\ DOMAIN s = 1..Len(s) /\ Len(s) \in Nat \ {0}
    BY LenProperties, EmptySeq
  <1>2. /\ Tail(s) \in Seq(S) /\ Len(Tail(s)) = Len(s) - 1 /\ Head(s) \in S
        /\ \A i \in 1..Len(Tail(s)) : Tail(s)[i] = s[i + 1]
    BY HeadTailProperties
  <1>3. DOMAIN Tail(s) = 1..(Len(s) - 1)
    BY <1>2, LenProperties
  <1>4. Head(s) = s[1]
    BY <1>1
  <1> QED BY <1>1, <1>2, <1>3, <1>4

(* Positions of a sequence are finitely many. *)
LEMMA PlacesFinite ==
    ASSUME NEW S, NEW s \in Seq(S), NEW A, A \subseteq DOMAIN s
    PROVE  IsFiniteSet(A)
  <1>1. DOMAIN s = 1..Len(s) /\ Len(s) \in Nat
    BY LenProperties
  <1>2. IsFiniteSet(DOMAIN s) /\ A \in SUBSET (DOMAIN s)
    BY <1>1, FS_Interval
  <1> QED BY <1>2, FS_Subset

-----------------------------------------------------------------------------
(* The number of messages of a queue that are of a kind, a set.            *)
Number(q, M) == Cardinality({ i \in DOMAIN q : q[i] \in M })

(* A sequence has as many messages of a kind as its length at most, none when none is in it. *)
LEMMA NumberIn ==
    ASSUME NEW S, NEW q \in Seq(S), NEW M
    PROVE  /\ Number(q, M) \in Nat
           /\ Number(q, M) = 0 <=> \A i \in DOMAIN q : q[i] \notin M
           /\ Number(q, M) <= Len(q)
  <1> DEFINE A == { i \in DOMAIN q : q[i] \in M }
  <1>1. IsFiniteSet(A)
    BY PlacesFinite
  <1>2. A = {} <=> \A i \in DOMAIN q : q[i] \notin M
    OBVIOUS
  <1>3. Cardinality(A) <= Len(q)
    <2>1. DOMAIN q = 1..Len(q) /\ Len(q) \in Nat
      BY LenProperties
    <2>2. IsFiniteSet(1..Len(q)) /\ Cardinality(1..Len(q)) = Len(q)
      BY <2>1, FS_Interval
    <2>3. A \subseteq 1..Len(q)
      BY <2>1
    <2> HIDE DEF A
    <2> QED BY <2>2, <2>3, FS_Subset
  <1>4. Number(q, M) = Cardinality(A)
    BY DEF Number
  <1> HIDE DEF A
  <1> QED BY <1>1, <1>2, <1>3, <1>4, CountZero

(* An empty sequence has no message of any kind. *)
LEMMA NumberEmpty == \A M : Number(<<>>, M) = 0
  <1> TAKE M
  <1>1. { i \in DOMAIN <<>> : <<>>[i] \in M } = {}
    OBVIOUS
  <1> QED BY <1>1, FS_EmptySet DEF Number

(* One more message counts when it is of the kind. *)
LEMMA NumberAppend ==
    ASSUME NEW S, NEW q \in Seq(S), NEW x \in S, NEW M
    PROVE  /\ Number(q, M) \in Nat
           /\ Number(Append(q, x), M) = Number(q, M) + IF x \in M THEN 1 ELSE 0
  <1> DEFINE t == Append(q, x)
             A == { i \in DOMAIN q : q[i] \in M }
             B == { i \in DOMAIN t : t[i] \in M }
  <1>1. /\ DOMAIN t = DOMAIN q \cup {Len(q) + 1}
        /\ t[Len(q) + 1] = x
        /\ \A i \in DOMAIN q : t[i] = q[i]
    BY AppendAt
  <1>2. \A i \in DOMAIN q : i \in A <=> i \in B
    <2> HIDE DEF t
    <2> QED BY <1>1
  <1>3. Len(q) + 1 \in B <=> x \in M
    <2> HIDE DEF t
    <2> QED BY <1>1
  <1>4. A \subseteq DOMAIN q /\ B \subseteq DOMAIN Append(q, x)
    OBVIOUS
  <1> HIDE DEF A, B, t
  <1>5. /\ Cardinality(A) \in Nat
        /\ Cardinality(B) = Cardinality(A) + One(Len(q) + 1 \in B)
    BY <1>2, <1>4, CountAppend
  <1>6. Cardinality(B) = Cardinality(A) + IF x \in M THEN 1 ELSE 0
    BY <1>3, <1>5 DEF One
  <1> QED BY <1>5, <1>6 DEF A, B, t, Number

(* The head counts when it is of the kind. *)
LEMMA NumberTail ==
    ASSUME NEW S, NEW q \in Seq(S), q # <<>>, NEW M
    PROVE  /\ Number(Tail(q), M) \in Nat
           /\ Number(q, M) = Number(Tail(q), M) + IF Head(q) \in M THEN 1 ELSE 0
  <1> DEFINE t == Tail(q)
             A == { i \in DOMAIN q : q[i] \in M }
             B == { i \in DOMAIN t : t[i] \in M }
  <1>1. /\ 1 \in DOMAIN q /\ q[1] = Head(q)
        /\ \A i \in DOMAIN t : i + 1 \in DOMAIN q /\ t[i] = q[i + 1]
    BY TailAt
  <1>2. \A i \in DOMAIN t : i \in B <=> i + 1 \in A
    <2> HIDE DEF t
    <2> QED BY <1>1
  <1>3. 1 \in A <=> Head(q) \in M
    BY <1>1
  <1>4. A \subseteq DOMAIN q /\ B \subseteq DOMAIN Tail(q)
    OBVIOUS
  <1> HIDE DEF A, B
  <1>5. /\ Cardinality(B) \in Nat
        /\ Cardinality(A) = Cardinality(B) + One(1 \in A)
    BY <1>2, <1>4, CountTail
  <1>6. Cardinality(A) = Cardinality(B) + IF Head(q) \in M THEN 1 ELSE 0
    BY <1>3, <1>5 DEF One
  <1> QED BY <1>5, <1>6 DEF A, B, Number

(* What a bounded queue or set is after something is put in or taken out.  *)
LEMMA Pushed ==
    ASSUME NEW S, NEW q \in Seq(S), NEW c \in Nat, Len(q) < c, NEW x \in S
    PROVE  Append(q, x) \in Seq(S) /\ Len(Append(q, x)) <= c
  <1>1. Len(q) \in Nat /\ Append(q, x) \in Seq(S) /\ Len(Append(q, x)) = Len(q) + 1
    BY LenProperties, AppendProperties
  <1> QED BY ONLY <1>1, c \in Nat, Len(q) < c

(* Taking the head of a bounded queue leaves a bounded queue. *)
LEMMA Popped ==
    ASSUME NEW S, NEW q \in Seq(S), NEW c \in Nat, Len(q) <= c, q # <<>>
    PROVE  Tail(q) \in Seq(S) /\ Len(Tail(q)) <= c /\ Head(q) \in S
  <1>1. Len(q) \in Nat /\ Tail(q) \in Seq(S) /\ Len(Tail(q)) = Len(q) - 1 /\ Head(q) \in S
    BY LenProperties, TailAt
  <1> QED BY ONLY <1>1, c \in Nat, Len(q) <= c

(* One element more in a set. *)
LEMMA Included ==
    ASSUME NEW A, IsFiniteSet(A), NEW c \in Nat, Cardinality(A) < c, NEW x
    PROVE  IsFiniteSet(A \cup {x}) /\ Cardinality(A \cup {x}) <= c
  <1>1. /\ Cardinality(A) \in Nat /\ IsFiniteSet(A \cup {x})
        /\ Cardinality(A \cup {x}) = Cardinality(A) \/ Cardinality(A \cup {x}) = Cardinality(A) + 1
    BY FS_AddElement, FS_CardinalityType
  <1> QED BY ONLY <1>1, c \in Nat, Cardinality(A) < c

(* One element less in a set. *)
LEMMA Excluded ==
    ASSUME NEW A, IsFiniteSet(A), NEW c \in Nat, Cardinality(A) <= c, NEW x
    PROVE  IsFiniteSet(A \ {x}) /\ Cardinality(A \ {x}) <= c
  <1>1. /\ Cardinality(A) \in Nat /\ IsFiniteSet(A \ {x})
        /\ Cardinality(A \ {x}) = Cardinality(A) \/ Cardinality(A \ {x}) = Cardinality(A) - 1
    BY FS_RemoveElement, FS_CardinalityType
  <1> QED BY ONLY <1>1, c \in Nat, Cardinality(A) <= c

(* The messages of two queues, one behind the other. *)
LEMMA ConcatAt ==
    ASSUME NEW S, NEW q \in Seq(S), NEW r \in Seq(S)
    PROVE  /\ q \o r \in Seq(S) /\ Len(q) \in Nat /\ Len(r) \in Nat
           /\ DOMAIN q = 1..Len(q) /\ DOMAIN r = 1..Len(r) /\ DOMAIN (q \o r) = 1..(Len(q) + Len(r))
           /\ Len(q \o r) = Len(q) + Len(r)
           /\ \A i \in DOMAIN q : (q \o r)[i] = q[i]
           /\ \A i \in DOMAIN r : (q \o r)[Len(q) + i] = r[i]
  <1>1. /\ q \o r \in Seq(S) /\ Len(q \o r) = Len(q) + Len(r)
        /\ \A i \in 1..(Len(q) + Len(r)) : (q \o r)[i] = IF i <= Len(q) THEN q[i] ELSE r[i - Len(q)]
    BY ConcatProperties
  <1>2. /\ Len(q) \in Nat /\ DOMAIN q = 1..Len(q)
        /\ Len(r) \in Nat /\ DOMAIN r = 1..Len(r)
        /\ DOMAIN (q \o r) = 1..Len(q \o r)
    BY <1>1, LenProperties
  <1> DEFINE t == q \o r
  <1> HIDE DEF t
  <1>3. \A i \in 1..Len(q) : t[i] = q[i]
    BY <1>1, <1>2 DEF t
  <1>4. ASSUME NEW i \in 1..Len(r) PROVE t[Len(q) + i] = r[i]
    <2>1. Len(q) + i \in 1..(Len(q) + Len(r)) /\ ~(Len(q) + i <= Len(q)) /\ (Len(q) + i) - Len(q) = i
      BY <1>2
    <2> QED BY <1>1, <2>1 DEF t
  <1> QED BY <1>1, <1>2, <1>3, <1>4 DEF t

(* Two sequences together have the messages of both. *)
LEMMA NumberConcat ==
    ASSUME NEW S, NEW q \in Seq(S), NEW r \in Seq(S), NEW M
    PROVE  /\ Number(q, M) \in Nat /\ Number(r, M) \in Nat
           /\ Number(q \o r, M) = Number(q, M) + Number(r, M)
  <1> DEFINE t == q \o r
             n == Len(q)
             A == { i \in DOMAIN q : q[i] \in M }
             B == { i \in DOMAIN r : r[i] \in M }
             C == { i \in DOMAIN t : t[i] \in M }
             D == { i \in C : i > n }
  <1>1. /\ t \in Seq(S) /\ n \in Nat /\ Len(r) \in Nat
        /\ DOMAIN q = 1..n /\ DOMAIN r = 1..Len(r) /\ DOMAIN t = 1..(n + Len(r))
        /\ \A i \in DOMAIN q : t[i] = q[i]
        /\ \A i \in DOMAIN r : t[n + i] = r[i]
    BY ConcatAt
  <1> HIDE DEF t, n
  <1>2. IsFiniteSet(A) /\ IsFiniteSet(B) /\ IsFiniteSet(C)
    <2>1. A \subseteq DOMAIN q /\ B \subseteq DOMAIN r /\ C \subseteq DOMAIN t
      OBVIOUS
    <2> HIDE DEF A, B, C
    <2> QED BY <1>1, <2>1, PlacesFinite
  <1>3. IsFiniteSet(D)
    <2>1. D \in SUBSET C
      OBVIOUS
    <2> HIDE DEF C, D
    <2> QED BY <1>2, <2>1, FS_Subset
  <1>4. C = A \cup D /\ A \cap D = {}
    BY <1>1
  <1>5. Cardinality(D) = Cardinality(B)
    <2> DEFINE f == [i \in B |-> n + i]
    <2>1. f \in [B -> D]
      BY <1>1
    <2>2. \A i, j \in B : f[i] = f[j] => i = j
      BY <1>1
    <2>3. \A d \in D : \E i \in B : f[i] = d
      <3>1. ASSUME NEW d \in D PROVE d - n \in B /\ n + (d - n) = d
        <4>1. d \in 1..(n + Len(r)) /\ d > n /\ t[d] \in M
          BY <1>1
        <4>2. d - n \in 1..Len(r) /\ n + (d - n) = d
          BY <1>1, <4>1
        <4> QED BY <1>1, <4>1, <4>2
      <3> QED BY <3>1
    <2> HIDE DEF f, B, D
    <2>4. f \in Bijection(B, D)
      BY <2>1, <2>2, <2>3 DEF Bijection, Injection, Surjection, IsInjective
    <2> QED BY <1>2, <2>4, FS_Bijection DEF ExistsBijection
  <1>6. Cardinality(A) \in Nat /\ Cardinality(B) \in Nat /\ Cardinality(A \cap D) = 0
    BY <1>2, <1>4, FS_CardinalityType, FS_EmptySet
  <1>7. Cardinality(C) = Cardinality(A) + Cardinality(B)
    <2> HIDE DEF A, B, C, D
    <2>1. Cardinality(A \cup D) = Cardinality(A) + Cardinality(D) - Cardinality(A \cap D)
      BY <1>2, <1>3, FS_Union
    <2> QED BY <1>4, <1>5, <1>6, <2>1
  <1> QED BY <1>6, <1>7 DEF Number, t

(* A queue with one message of a kind. *)
LEMMA NumberOne ==
    ASSUME NEW q, NEW M, NEW i \in DOMAIN q, q[i] \in M, \A j \in DOMAIN q : q[j] \in M => j = i
    PROVE  Number(q, M) = 1
  <1>1. { j \in DOMAIN q : q[j] \in M } = {i}
    OBVIOUS
  <1> QED BY <1>1, FS_Singleton DEF Number

(* A sequence without a message of a kind counts none. *)
LEMMA NumberNone ==
    ASSUME NEW q, NEW M, \A j \in DOMAIN q : q[j] \notin M
    PROVE  Number(q, M) = 0
  <1>1. { j \in DOMAIN q : q[j] \in M } = {}
    OBVIOUS
  <1> QED BY <1>1, FS_EmptySet DEF Number

(* The elements of a set, one behind the other. *)
LEMMA SetToSeqAt ==
    ASSUME NEW S, IsFiniteSet(S)
    PROVE  /\ Cardinality(S) \in Nat /\ SetToSeq(S) \in [1..Cardinality(S) -> S]
           /\ \A i, j \in 1..Cardinality(S) : SetToSeq(S)[i] = SetToSeq(S)[j] => i = j
           /\ \A x \in S : \E i \in 1..Cardinality(S) : SetToSeq(S)[i] = x
  <1> DEFINE n == Cardinality(S)
             G == { f \in [1..n -> S] : IsInjective(f) }
             f == SetToSeq(S)
  <1>1. n \in Nat /\ ExistsBijection(1..n, S)
    BY FS_CardinalityType
  <1>2. \E h \in [1..n -> S] : IsInjective(h)
    BY <1>1 DEF ExistsBijection, Bijection, Injection
  <1>3. f \in [1..n -> S] /\ IsInjective(f)
    BY <1>2 DEF SetToSeq
  <1> HIDE DEF f, n
  <1>4. f \in Surjection(1..n, S)
    <2>1. f \in Injection(1..n, S)
      BY <1>3 DEF Injection
    <2>2. Cardinality(1..n) = n
      BY <1>1, FS_Interval
    <2> QED BY <2>1, <2>2, FS_Injection DEF n
  <1>5. \A x \in S : \E i \in 1..n : f[i] = x
    BY <1>4 DEF Surjection
  <1>6. \A i, j \in 1..n : f[i] = f[j] => i = j
    BY <1>3 DEF IsInjective
  <1> QED BY <1>1, <1>3, <1>5, <1>6 DEF f, n

-----------------------------------------------------------------------------
(* The messages in a queue.                                                *)

(* No message is in a queue twice. *)
NoDuplicates(s) == \A i, j \in 1..Len(s) : s[i] = s[j] => i = j

(* A queue of one message. *)
LEMMA OneMessage ==
    ASSUME NEW x
    PROVE  /\ Append(<<>>, x) = <<x>>
           /\ <<x>> # <<>> /\ Len(<<x>>) = 1
           /\ Head(<<x>>) = x
           /\ Tail(<<x>>) = <<>>
  OBVIOUS

(* What is in an empty queue. *)
LEMMA ContainsEmpty ==
    /\ \A x : ~Contains(<<>>, x)
    /\ NoDuplicates(<<>>)
  BY DEF Contains, NoDuplicates

(* A queue that is not empty contains its head. *)
LEMMA ContainsHead ==
    ASSUME NEW S, NEW s \in Seq(S), s # <<>>
    PROVE  Contains(s, Head(s)) /\ Head(s) \in S
  <1>1. Len(s) \in Nat /\ Len(s) # 0
    BY EmptySeq, LenProperties
  <1>2. Head(s) = s[1] /\ Head(s) \in S
    BY HeadTailProperties
  <1> QED BY <1>1, <1>2 DEF Contains

(* A queue with no message in it is empty. *)
LEMMA NothingContained ==
    ASSUME NEW S, NEW s \in Seq(S), \A x \in S : ~Contains(s, x)
    PROVE  s = <<>>
  BY ContainsHead

(* Append adds one message. *)
LEMMA ContainsAppend ==
    ASSUME NEW S, NEW s \in Seq(S), NEW x \in S, NEW y
    PROVE  Contains(Append(s, x), y) <=> Contains(s, y) \/ y = x
  <1> DEFINE n == Len(s)
             t == Append(s, x)
  <1>1. /\ n \in Nat /\ Len(t) = n + 1 /\ t[n + 1] = x
        /\ \A i \in 1..n : t[i] = s[i]
    BY LenProperties, AppendProperties
  <1> HIDE DEF t
  <1>2. 1..(n + 1) = 1..n \cup {n + 1}
    BY <1>1
  <1>3. Contains(t, y) <=> \E i \in 1..(n + 1) : t[i] = y
    BY <1>1 DEF Contains
  <1> QED BY <1>1, <1>2, <1>3 DEF Contains, t

(* A queue gets no duplicate when a new message is appended. *)
LEMMA NoDuplicatesAppend ==
    ASSUME NEW S, NEW s \in Seq(S), NEW x \in S, NoDuplicates(s), ~Contains(s, x)
    PROVE  NoDuplicates(Append(s, x))
  <1> DEFINE n == Len(s)
             t == Append(s, x)
  <1>1. /\ n \in Nat /\ Len(t) = n + 1 /\ t[n + 1] = x
        /\ \A i \in 1..n : t[i] = s[i]
    BY LenProperties, AppendProperties
  <1> HIDE DEF t
  <1>2. \A i \in 1..n : t[i] # x
    BY <1>1 DEF Contains
  <1>3. \A i, j \in 1..n : t[i] = t[j] => i = j
    BY <1>1 DEF NoDuplicates
  <1>4. 1..(n + 1) = 1..n \cup {n + 1}
    BY <1>1
  <1> QED BY <1>1, <1>2, <1>3, <1>4 DEF NoDuplicates, t

(* Tail takes away the head, and nothing else. *)
LEMMA ContainsTail ==
    ASSUME NEW S, NEW s \in Seq(S), s # <<>>, NoDuplicates(s)
    PROVE  /\ NoDuplicates(Tail(s))
           /\ \A y : Contains(Tail(s), y) <=> Contains(s, y) /\ y # Head(s)
  <1> DEFINE n == Len(s)
             t == Tail(s)
  <1>1. /\ n \in Nat \ {0} /\ Len(t) = n - 1 /\ Head(s) = s[1]
        /\ \A i \in 1..(n - 1) : t[i] = s[i + 1]
    BY EmptySeq, LenProperties, HeadTailProperties
  <1> HIDE DEF t
  <1>2. NoDuplicates(t)
    BY <1>1 DEF NoDuplicates
  <1>3. ASSUME NEW y PROVE Contains(t, y) <=> Contains(s, y) /\ y # Head(s)
    <2>1. ASSUME Contains(t, y) PROVE Contains(s, y) /\ y # Head(s)
      <3>1. PICK i \in 1..(n - 1) : t[i] = y
        BY <1>1, <2>1 DEF Contains
      <3>2. i + 1 \in 1..n /\ s[i + 1] = y /\ 1 \in 1..n /\ i + 1 # 1
        BY <1>1, <3>1
      <3> QED BY <1>1, <3>2 DEF Contains, NoDuplicates
    <2>2. ASSUME Contains(s, y), y # Head(s) PROVE Contains(t, y)
      <3>1. PICK i \in 1..n : s[i] = y
        BY <2>2 DEF Contains
      <3>2. i # 1
        BY <1>1, <2>2, <3>1
      <3>3. i - 1 \in 1..(n - 1) /\ t[i - 1] = y
        BY <1>1, <3>1, <3>2
      <3> QED BY <1>1, <3>3 DEF Contains
    <2> QED BY <2>1, <2>2
  <1> QED BY <1>2, <1>3 DEF t

(* NumberAppend and NumberTail, case by case. *)
LEMMA NumberAppends ==
    ASSUME NEW S, NEW q \in Seq(S), NEW x \in S, NEW M
    PROVE  /\ x \notin M => Number(Append(q, x), M) = Number(q, M)
           /\ x \in M => Number(Append(q, x), M) = Number(q, M) + 1
  <1>1. Number(q, M) \in Nat /\ Number(Append(q, x), M) = Number(q, M) + IF x \in M THEN 1 ELSE 0
    BY NumberAppend
  <1>2. CASE x \in M
    BY <1>1, <1>2
  <1>3. CASE x \notin M
    BY <1>1, <1>3
  <1> QED BY <1>2, <1>3

(* Taking the head of a sequence, by whether it is of the kind. *)
LEMMA NumberTails ==
    ASSUME NEW S, NEW q \in Seq(S), q # <<>>, NEW M
    PROVE  /\ Head(q) \notin M => Number(Tail(q), M) = Number(q, M)
           /\ Head(q) \in M => Number(Tail(q), M) = Number(q, M) - 1 /\ Number(q, M) # 0
  <1>1. Number(Tail(q), M) \in Nat /\ Number(q, M) = Number(Tail(q), M) + IF Head(q) \in M THEN 1 ELSE 0
    BY NumberTail
  <1>2. CASE Head(q) \in M
    BY <1>1, <1>2
  <1>3. CASE Head(q) \notin M
    BY <1>1, <1>3
  <1> QED BY <1>2, <1>3

(* Removing the i-th element of a sequence: one element less, and every    *)
(* other element is still there.                                           *)
LEMMA RemoveAtProperties ==
    ASSUME NEW S, NEW s \in Seq(S), NEW i \in 1..Len(s)
    PROVE  /\ RemoveAt(s, i) \in Seq(S)
           /\ Len(RemoveAt(s, i)) = Len(s) - 1
           /\ \A j \in 1..(Len(s) - 1) : RemoveAt(s, i)[j] = IF j < i THEN s[j] ELSE s[j + 1]
  <1> DEFINE a == SubSeq(s, 1, i - 1)
             b == SubSeq(s, i + 1, Len(s))
  <1>0. Len(s) \in Nat /\ \A j \in 1..Len(s) : s[j] \in S
    BY LenProperties
  <1>1. /\ a \in Seq(S) /\ Len(a) = i - 1
        /\ \A j \in 1..(i - 1) : a[j] = s[j]
    BY <1>0, SubSeqProperties
  <1>2. /\ b \in Seq(S) /\ Len(b) = Len(s) - i
        /\ \A j \in 1..(Len(s) - i) : b[j] = s[i + j]
    BY <1>0, SubSeqProperties
  <1>3. RemoveAt(s, i) = a \o b
    BY DEF RemoveAt
  <1> HIDE DEF a, b
  <1>4. /\ a \o b \in Seq(S)
        /\ Len(a \o b) = Len(a) + Len(b)
        /\ \A j \in 1..(Len(a) + Len(b)) :
              (a \o b)[j] = IF j <= Len(a) THEN a[j] ELSE b[j - Len(a)]
    BY <1>1, <1>2, ConcatProperties
  <1>5. Len(a) + Len(b) = Len(s) - 1
    BY <1>0, <1>1, <1>2
  <1>6. ASSUME NEW j \in 1..(Len(s) - 1)
        PROVE  (a \o b)[j] = IF j < i THEN s[j] ELSE s[j + 1]
    <2>1. (a \o b)[j] = IF j <= i - 1 THEN a[j] ELSE b[j - (i - 1)]
      BY <1>1, <1>4, <1>5
    <2>2. CASE j < i
      <3>1. j \in 1..(i - 1)
        BY <2>2
      <3> QED BY <1>1, <2>1, <2>2, <3>1
    <2>3. CASE j >= i
      <3>1. j - (i - 1) \in 1..(Len(s) - i) /\ i + (j - (i - 1)) = j + 1
        BY <1>0, <2>3
      <3>2. b[j - (i - 1)] = s[j + 1]
        BY <1>2, <3>1
      <3> QED BY <1>0, <2>1, <2>3, <3>2
    <2>4. j < i \/ j >= i
      BY <1>0
    <2> QED BY <2>2, <2>3, <2>4
  <1> QED BY <1>3, <1>4, <1>5, <1>6

(* A sequence without one of its elements counts that one less. *)
LEMMA NumberRemoved ==
    ASSUME NEW S, NEW s \in Seq(S), NEW i \in 1..Len(s), NEW M
    PROVE  /\ Number(s, M) \in Nat /\ Number(RemoveAt(s, i), M) \in Nat
           /\ Number(s, M) = Number(RemoveAt(s, i), M) + One(s[i] \in M)
  <1>0. Len(s) \in Nat /\ \A j \in 1..Len(s) : s[j] \in S
    BY LenProperties
  <1>1. PICK a : a = SubSeq(s, 1, i - 1)
    OBVIOUS
  <1>2. PICK b : b = SubSeq(s, i + 1, Len(s))
    OBVIOUS
  <1>3. a \in Seq(S) /\ Len(a) = i - 1 /\ \A j \in 1..(i - 1) : a[j] = s[j]
    BY <1>0, <1>1, SubSeqProperties
  <1>4. b \in Seq(S) /\ Len(b) = Len(s) - i /\ \A j \in 1..(Len(s) - i) : b[j] = s[i + j]
    BY <1>0, <1>2, SubSeqProperties
  <1>5. RemoveAt(s, i) = a \o b
    BY <1>1, <1>2 DEF RemoveAt
  <1>6. s[i] \in S
    BY <1>0
  <1>7. PICK c : c = Append(a, s[i])
    OBVIOUS
  <1>8. c \in Seq(S) /\ Len(c) = i /\ (\A j \in 1..(i - 1) : c[j] = s[j]) /\ c[i] = s[i]
    <2>1. (i - 1) + 1 = i
      OBVIOUS
    <2> QED BY <1>3, <1>6, <1>7, <2>1, AppendProperties
  <1>9. s = c \o b
    <2>0. Len(c) + Len(b) = Len(s)
      BY <1>0, <1>4, <1>8
    <2>1. c \o b \in Seq(S) /\ Len(c \o b) = Len(s)
          /\ \A j \in 1..Len(s) : (c \o b)[j] = IF j <= i THEN c[j] ELSE b[j - i]
      <3>1. /\ c \o b \in Seq(S)
            /\ Len(c \o b) = Len(c) + Len(b)
            /\ \A j \in 1..(Len(c) + Len(b)) : (c \o b)[j] = IF j <= Len(c) THEN c[j] ELSE b[j - Len(c)]
        BY <1>4, <1>8, ConcatProperties
      <3> QED BY <1>8, <2>0, <3>1
    <2>2. ASSUME NEW j \in 1..Len(s) PROVE (c \o b)[j] = s[j]
      <3>1. CASE j < i
        <4>1. j \in 1..(i - 1) /\ j <= i
          BY <3>1
        <4> QED BY <1>8, <2>1, <4>1
      <3>2. CASE j = i
        <4>1. (c \o b)[i] = c[i]
          BY <2>1, <3>2
        <4> QED BY <1>8, <3>2, <4>1
      <3>3. CASE j > i
        <4>1. ~(j <= i) /\ j - i \in 1..(Len(s) - i) /\ i + (j - i) = j
          BY <1>0, <3>3
        <4>2. b[j - i] = s[i + (j - i)]
          BY <1>4, <4>1
        <4> QED BY <2>1, <4>1, <4>2
      <3>4. j < i \/ j = i \/ j > i
        BY <1>0
      <3> QED BY <3>1, <3>2, <3>3, <3>4
    <2>3. \A j \in 1..Len(s) : s[j] = (c \o b)[j]
      BY <2>2
    <2> QED BY <2>1, <2>3, SeqEqual
  <1>10. Number(s, M) = Number(c, M) + Number(b, M) /\ Number(c, M) \in Nat /\ Number(b, M) \in Nat
    BY <1>4, <1>8, <1>9, NumberConcat
  <1>11. Number(a \o b, M) = Number(a, M) + Number(b, M) /\ Number(a, M) \in Nat
    BY <1>3, <1>4, NumberConcat
  <1>12. Number(c, M) = Number(a, M) + One(s[i] \in M)
    <2>1. PICK x \in S : x = s[i]
      BY <1>6
    <2>2. Number(Append(a, x), M) = Number(a, M) + IF x \in M THEN 1 ELSE 0
      BY <1>3, NumberAppend
    <2> QED BY <1>7, <2>1, <2>2 DEF One
  <1>13. Number(RemoveAt(s, i), M) = Number(a, M) + Number(b, M)
    BY <1>5, <1>11
  <1> QED BY <1>10, <1>11, <1>12, <1>13 DEF One

(* A message moves from the head of a queue to the end of another. *)
LEMMA NumberMoved ==
    ASSUME NEW S, NEW q \in Seq(S), NEW r \in Seq(S), q # <<>>, NEW M
    PROVE  /\ Number(Tail(q), M) + Number(Append(r, Head(q)), M) = Number(q, M) + Number(r, M)
           /\ Head(q) \notin M => Number(Tail(q), M) = Number(q, M) /\ Number(Append(r, Head(q)), M) = Number(r, M)
  <1>1. PICK x \in S : x = Head(q)
    OBVIOUS
  <1>2. /\ Number(Tail(q), M) \in Nat
        /\ Number(q, M) = Number(Tail(q), M) + IF x \in M THEN 1 ELSE 0
    BY <1>1, NumberTail
  <1>3. /\ Number(r, M) \in Nat
        /\ Number(Append(r, x), M) = Number(r, M) + IF x \in M THEN 1 ELSE 0
    BY NumberAppend
  <1> QED BY <1>1, <1>2, <1>3

(* A sequence that counts nothing contains nothing. *)
LEMMA NoneOccurs ==
    ASSUME NEW S, NEW s \in Seq(S), NEW M, Number(s, M) = 0
    PROVE  (\A i \in 1..Len(s) : s[i] \notin M) /\ \A x \in Range(s) : x \notin M
  <1>1. ASSUME NEW i \in 1..Len(s) PROVE s[i] \notin M
    <2>1. PICK n \in Nat : n = Number(RemoveAt(s, i), M)
      BY NumberRemoved
    <2>2. Number(s, M) = n + One(s[i] \in M)
      BY <2>1, NumberRemoved
    <2> QED BY <2>1, <2>2 DEF One
  <1>2. DOMAIN s = 1..Len(s)
    BY LenProperties
  <1> QED BY <1>1, <1>2 DEF Range

(* What occurs in a sequence after one message is added. *)
LEMMA RangeAppend ==
    ASSUME NEW S, NEW s \in Seq(S), NEW x \in S
    PROVE  Range(Append(s, x)) = Range(s) \cup {x}
  BY AppendAt DEF Range

(* What occurs in a sequence after its head is taken. *)
LEMMA RangeTail ==
    ASSUME NEW S, NEW s \in Seq(S), s # <<>>
    PROVE  Range(Tail(s)) \subseteq Range(s) /\ Head(s) \in Range(s) /\ Head(s) \in S /\ Range(s) \subseteq S
  <1>1. \A i \in DOMAIN s : s[i] \in S
    OBVIOUS
  <1> QED BY <1>1, TailAt DEF Range

(* What occurs in a sequence after one of its elements is removed. *)
LEMMA RangeRemoved ==
    ASSUME NEW S, NEW s \in Seq(S), NEW i \in 1..Len(s)
    PROVE  \A j \in DOMAIN RemoveAt(s, i) : \E k \in DOMAIN s : RemoveAt(s, i)[j] = s[k]
  <1>1. Len(s) \in Nat /\ DOMAIN s = 1..Len(s)
    BY LenProperties
  <1>2. PICK t \in Seq(S) : t = RemoveAt(s, i) /\ Len(t) = Len(s) - 1
                            /\ \A j \in 1..Len(t) : t[j] = IF j < i THEN s[j] ELSE s[j + 1]
    BY RemoveAtProperties
  <1>3. DOMAIN t = 1..Len(t)
    BY <1>2
  <1>4. ASSUME NEW j \in DOMAIN t PROVE \E k \in DOMAIN s : t[j] = s[k]
    <2>1. j \in DOMAIN s /\ j + 1 \in DOMAIN s
      BY <1>1, <1>2, <1>3
    <2> QED BY <1>2, <1>3, <2>1
  <1> QED BY <1>2, <1>4
=============================================================================
