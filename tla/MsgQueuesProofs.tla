--------------------------- MODULE MsgQueuesProofs ---------------------------
(***************************************************************************)
(* Lemmas about sequences and counting that the proofs about the message   *)
(* queues share.                                                           *)
(***************************************************************************)
EXTENDS MsgQueues, FiniteSetTheorems, FunctionTheorems, WellFoundedInduction, TLAPS

(***************************************************************************)
(* Every set of naturals that is not empty has a least element.  With a    *)
(* set of counterexamples for T this is induction.                         *)
(***************************************************************************)
LEMMA LeastNatural ==
  ASSUME NEW T, T \subseteq Nat, T # {}
  PROVE  \E x \in T : \A y \in T : x <= y
<1> DEFINE R == OpToRel(<, Nat)
<1>1. IsWellFoundedOn(R, Nat)
  BY NatLessThanWellFounded
<1>2. \A x, y \in Nat : y < x => <<y, x>> \in R
  BY DEF OpToRel
<1> HIDE DEF R
<1>3. \E x \in T : \A y \in T : ~ (<<y, x>> \in R)
  BY <1>1, WFMin
<1>4. PICK x \in T : \A y \in T : ~ (<<y, x>> \in R)
  BY <1>3
<1>5. ASSUME NEW y \in T PROVE x <= y
  <2>1. x \in Nat /\ y \in Nat
    OBVIOUS
  <2>2. ~(y < x)
    BY <1>2, <1>4, <2>1
  <2>3. QED
    BY <2>1, <2>2
<1>6. QED
  BY <1>4, <1>5

(* A nonempty set of indices of a sequence has a last one. *)
LEMMA LastIndex ==
  ASSUME NEW n \in Nat, NEW T, T \subseteq 1 .. n, T # {}
  PROVE  \E x \in T : \A y \in T : y <= x
<1> DEFINE B == {b \in Nat : \A y \in T : y <= b}
<1>1. B \subseteq Nat /\ n \in B
  OBVIOUS
<1>2. PICK b \in B : \A c \in B : b <= c
  BY <1>1, LeastNatural
<1>3. b \in T
  <2>1. SUFFICES ASSUME b \notin T PROVE FALSE
    OBVIOUS
  <2>2. b \in Nat /\ \A y \in T : y \in Nat /\ 1 <= y /\ y <= b /\ y # b
    BY <1>2, <2>1
  <2>3. PICK z \in T : TRUE
    OBVIOUS
  <2>4. b - 1 \in Nat
    BY <2>2, <2>3
  <2>5. b - 1 \in B
    BY <2>2, <2>4
  <2>6. QED
    BY <1>2, <2>2, <2>5
<1>4. QED
  BY <1>2, <1>3

(* What is taken from a queue, and what is left in it. *)
LEMMA TailIs ==
  ASSUME NEW M, NEW s \in Seq(M), s # <<>>
  PROVE  /\ Head(s) \in M /\ Head(s) = s[1]
         /\ Tail(s) \in Seq(M) /\ Len(s) \in Nat /\ Len(s) >= 1
         /\ Len(Tail(s)) = Len(s) - 1
         /\ \A i \in 1 .. Len(s) - 1 : Tail(s)[i] = s[i + 1]
OBVIOUS

-----------------------------------------------------------------------------
(* How many elements of a sequence are in a set.                           *)
CountIn(s, K) == Cardinality({i \in DOMAIN s : s[i] \in K})

(* An empty sequence has none. *)
LEMMA CountInNone == ASSUME NEW K PROVE CountIn(<<>>, K) = 0
<1>1. {i \in DOMAIN <<>> : <<>>[i] \in K} = {}
  OBVIOUS
<1>2. QED
  BY <1>1, FS_EmptySet DEF CountIn

(* The count is a number, and zero if there is no such element. *)
LEMMA CountInIsNat ==
  ASSUME NEW M, NEW s \in Seq(M), NEW K
  PROVE  /\ IsFiniteSet({i \in DOMAIN s : s[i] \in K})
         /\ CountIn(s, K) \in Nat
         /\ CountIn(s, K) = 0 <=> \A i \in DOMAIN s : s[i] \notin K
<1> DEFINE S == {i \in DOMAIN s : s[i] \in K}
<1>1. DOMAIN s = 1 .. Len(s) /\ Len(s) \in Nat
  OBVIOUS
<1>2. IsFiniteSet(1 .. Len(s))
  BY <1>1, FS_Interval
<1>3. IsFiniteSet(S)
  <2>1. S \in SUBSET (1 .. Len(s))
    BY <1>1
  <2>2. QED
    BY <1>2, <2>1, FS_Subset
<1>4. S = {} <=> \A i \in DOMAIN s : s[i] \notin K
  OBVIOUS
<1>5. QED
  BY <1>3, <1>4, FS_CardinalityType, FS_EmptySet DEF CountIn

(* An element put at the end is one more, if it is in the set. *)
LEMMA CountInAppend ==
  ASSUME NEW M, NEW s \in Seq(M), NEW m \in M, NEW K
  PROVE  CountIn(Append(s, m), K) = CountIn(s, K) + IF m \in K THEN 1 ELSE 0
<1> DEFINE S == {i \in DOMAIN s : s[i] \in K}
           T == {i \in DOMAIN Append(s, m) : Append(s, m)[i] \in K}
<1>1. /\ DOMAIN s = 1 .. Len(s) /\ Len(s) \in Nat
      /\ DOMAIN Append(s, m) = 1 .. Len(s) + 1
      /\ \A i \in 1 .. Len(s) : Append(s, m)[i] = s[i]
      /\ Append(s, m)[Len(s) + 1] = m
  OBVIOUS
<1>2. IsFiniteSet(S) /\ Cardinality(S) \in Nat
  BY CountInIsNat DEF CountIn
<1>3. Len(s) + 1 \notin S
  BY <1>1
<1>4. CountIn(s, K) = Cardinality(S) /\ CountIn(Append(s, m), K) = Cardinality(T)
  BY DEF CountIn
<1>5. CASE m \in K
  <2>1. T = S \cup {Len(s) + 1}
    BY <1>1, <1>5
  <2>2. Cardinality(T) = Cardinality(S) + 1
    BY <1>2, <1>3, <2>1, FS_AddElement
  <2> HIDE DEF S, T
  <2>3. QED
    BY <1>4, <1>5, <2>2
<1>6. CASE m \notin K
  <2>1. T = S
    BY <1>1, <1>6
  <2> HIDE DEF S, T
  <2>2. QED
    BY <1>2, <1>4, <1>6, <2>1
<1>7. QED
  BY <1>5, <1>6

(* An element taken from the front is one less, if it is in the set. *)
LEMMA CountInTail ==
  ASSUME NEW M, NEW s \in Seq(M), s # <<>>, NEW K
  PROVE  CountIn(s, K) = CountIn(Tail(s), K) + IF Head(s) \in K THEN 1 ELSE 0
<1> DEFINE S == {i \in DOMAIN s : s[i] \in K}
           T == {i \in DOMAIN Tail(s) : Tail(s)[i] \in K}
           f == [i \in T |-> i + 1]
<1>1. /\ DOMAIN s = 1 .. Len(s) /\ Len(s) \in Nat /\ Len(s) >= 1
      /\ Tail(s) \in Seq(M) /\ Len(Tail(s)) = Len(s) - 1
      /\ Head(s) = s[1]
  OBVIOUS
<1>2. /\ DOMAIN Tail(s) = 1 .. Len(s) - 1
      /\ \A i \in 1 .. Len(s) - 1 : Tail(s)[i] = s[i + 1]
  BY <1>1
<1>3. IsFiniteSet(T) /\ Cardinality(T) \in Nat
  BY <1>1, CountInIsNat DEF CountIn
<1>4. IsFiniteSet(S \ {1}) /\ Cardinality(S \ {1}) = Cardinality(T)
  <2>1. f \in Bijection(T, S \ {1})
    <3>1. f \in [T -> S \ {1}]
      BY <1>1, <1>2
    <3>2. \A i, j \in T : f[i] = f[j] => i = j
      BY <1>2
    <3>3. \A j \in S \ {1} : \E i \in T : f[i] = j
      <4>1. ASSUME NEW j \in S \ {1} PROVE j - 1 \in T /\ f[j - 1] = j
        BY <1>1, <1>2
      <4>2. QED
        BY <4>1
    <3>4. QED
      BY <3>1, <3>2, <3>3, Fun_IsBij
  <2>2. ExistsBijection(T, S \ {1})
    BY <2>1 DEF ExistsBijection
  <2>3. QED
    BY <1>3, <2>2, FS_Bijection
<1>5. CountIn(s, K) = Cardinality(S) /\ CountIn(Tail(s), K) = Cardinality(T)
  BY DEF CountIn
<1>6. CASE Head(s) \in K
  <2>1. S = (S \ {1}) \cup {1}
    BY <1>1, <1>6
  <2>2. Cardinality(S) = Cardinality(S \ {1}) + 1
    BY <1>4, <2>1, FS_AddElement
  <2> HIDE DEF S, T
  <2>3. QED
    BY <1>3, <1>4, <1>5, <1>6, <2>2
<1>7. CASE Head(s) \notin K
  <2>1. S = S \ {1}
    BY <1>1, <1>7
  <2>2. Cardinality(S) = Cardinality(T)
    BY <1>4, <2>1, Zenon
  <2> HIDE DEF S, T
  <2>3. QED
    BY <1>3, <1>5, <1>7, <2>2
<1>8. QED
  BY <1>6, <1>7

-----------------------------------------------------------------------------
(* How many messages of some types there are in a queue. *)

(* They are counted as elements of a set. *)
LEMMA CountTypesIn ==
  ASSUME NEW M, NEW s \in Seq(M), NEW types
  PROVE  /\ {i \in DOMAIN s : s[i].msgtype \in types}
              = {i \in DOMAIN s : s[i] \in {m \in M : m.msgtype \in types}}
         /\ CountTypes(s, types) = CountIn(s, {m \in M : m.msgtype \in types})
<1>1. \A i \in DOMAIN s : s[i] \in M
  OBVIOUS
<1>2. {i \in DOMAIN s : s[i].msgtype \in types}
        = {i \in DOMAIN s : s[i] \in {m \in M : m.msgtype \in types}}
  BY <1>1
<1>3. QED
  BY <1>2, Zenon DEF CountTypes, CountIn

(* An empty queue has none. *)
LEMMA CountNone == \A types : CountTypes(<<>>, types) = 0
<1>1. ASSUME NEW types PROVE {i \in DOMAIN <<>> : <<>>[i].msgtype \in types} = {}
  OBVIOUS
<1>2. QED
  BY <1>1, FS_EmptySet DEF CountTypes

(* The count is a number. *)
LEMMA CountIsNat ==
  ASSUME NEW M, NEW s \in Seq(M), NEW types
  PROVE  /\ IsFiniteSet({i \in DOMAIN s : s[i].msgtype \in types})
         /\ CountTypes(s, types) \in Nat
<1> DEFINE K == {m \in M : m.msgtype \in types}
<1>1. {i \in DOMAIN s : s[i].msgtype \in types} = {i \in DOMAIN s : s[i] \in K}
  BY CountTypesIn
<1>2. CountTypes(s, types) = CountIn(s, K)
  BY CountTypesIn
<1>3. IsFiniteSet({i \in DOMAIN s : s[i] \in K}) /\ CountIn(s, K) \in Nat
  BY CountInIsNat
<1>4. QED
  BY <1>1, <1>2, <1>3, Zenon

(* A message put into a queue is one more, if it is of the types. *)
LEMMA CountAppend ==
  ASSUME NEW M, NEW s \in Seq(M), NEW m \in M, NEW types
  PROVE  CountTypes(Append(s, m), types)
           = CountTypes(s, types) + IF m.msgtype \in types THEN 1 ELSE 0
<1> DEFINE K == {x \in M : x.msgtype \in types}
<1>1. Append(s, m) \in Seq(M) /\ (m \in K <=> m.msgtype \in types)
  OBVIOUS
<1>2. \A t \in Seq(M) : CountTypes(t, types) = CountIn(t, K)
  BY CountTypesIn
<1> HIDE DEF K
<1>3. /\ CountTypes(s, types) = CountIn(s, K)
      /\ CountTypes(Append(s, m), types) = CountIn(Append(s, m), K)
  BY <1>1, <1>2
<1>4. CountIn(Append(s, m), K) = CountIn(s, K) + IF m \in K THEN 1 ELSE 0
  BY CountInAppend
<1>5. QED
  BY <1>1, <1>3, <1>4

(* A message taken from a queue is one less, if it is of the types. *)
LEMMA CountTail ==
  ASSUME NEW M, NEW s \in Seq(M), s # <<>>, NEW types
  PROVE  CountTypes(s, types)
           = CountTypes(Tail(s), types) + IF Head(s).msgtype \in types THEN 1 ELSE 0
<1> DEFINE K == {x \in M : x.msgtype \in types}
<1>1. Tail(s) \in Seq(M) /\ (Head(s) \in K <=> Head(s).msgtype \in types)
  BY TailIs
<1>2. \A t \in Seq(M) : CountTypes(t, types) = CountIn(t, K)
  BY CountTypesIn
<1> HIDE DEF K
<1>3. /\ CountTypes(s, types) = CountIn(s, K)
      /\ CountTypes(Tail(s), types) = CountIn(Tail(s), K)
  BY <1>1, <1>2
<1>4. CountIn(s, K) = CountIn(Tail(s), K) + IF Head(s) \in K THEN 1 ELSE 0
  BY CountInTail
<1>5. QED
  BY <1>1, <1>3, <1>4
=============================================================================
