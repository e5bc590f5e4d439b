------------------------------ MODULE Counting ------------------------------
(* How often a value occurs in a sequence or a function, and what the      *)
(* queue operations of the models do to that number.  Used by the proofs   *)
(* that count: of the floor, of frames, and of heart beats.                *)
EXTENDS Naturals, Sequences, FiniteSets, FiniteSetTheorems, SequenceTheorems, TLAPS

(* The places where x occurs in q.                                         *)
Places(q, x) == {i \in DOMAIN q : q[i] = x}

(* One place more, one less.                                               *)
LEMMA CardAdd ==
  ASSUME NEW S, IsFiniteSet(S), NEW x, x \notin S
  PROVE  /\ IsFiniteSet(S \cup {x}) /\ Cardinality(S \cup {x}) = Cardinality(S) + 1
         /\ Cardinality(S) \in Nat
  BY FS_AddElement, FS_CardinalityType

LEMMA CardRemove ==
  ASSUME NEW S, IsFiniteSet(S), NEW x \in S
  PROVE  /\ IsFiniteSet(S \ {x}) /\ Cardinality(S \ {x}) = Cardinality(S) - 1
         /\ Cardinality(S) \in Nat /\ Cardinality(S) > 0
  <1>1. IsFiniteSet(S \ {x}) /\ Cardinality(S \ {x}) = Cardinality(S) - 1
    BY FS_RemoveElement
  <1>2. Cardinality(S) \in Nat /\ Cardinality(S \ {x}) \in Nat
    BY <1>1, FS_CardinalityType
  <1> QED
    BY <1>1, <1>2

(* A set moved up by one is as large as before.                            *)
LEMMA CardShift ==
  ASSUME NEW S \in SUBSET Nat, NEW T \in SUBSET Nat, IsFiniteSet(S),
         \A i \in Nat : i \in S <=> i + 1 \in T, 0 \notin T
  PROVE  IsFiniteSet(T) /\ Cardinality(T) = Cardinality(S)
  <1> DEFINE f == [i \in S |-> i + 1]
  <1>1. f \in [S -> T]
    OBVIOUS
  <1>2. \A i, j \in S : f[i] = f[j] => i = j
    OBVIOUS
  <1>3. \A t \in T : \E i \in S : f[i] = t
    <2> SUFFICES ASSUME NEW t \in T PROVE \E i \in S : f[i] = t
      OBVIOUS
    <2>1. t - 1 \in Nat /\ (t - 1) + 1 = t
      OBVIOUS
    <2>2. t - 1 \in S
      BY <2>1
    <2> QED
      BY <2>1, <2>2
  <1>4. f \in Bijection(S, T)
    BY <1>1, <1>2, <1>3 DEF Bijection, Injection, Surjection, IsInjective
  <1>5. ExistsBijection(S, T)
    BY <1>4 DEF ExistsBijection
  <1> QED
    BY <1>5, FS_Bijection

LEMMA PlacesFinite ==
  ASSUME NEW S, NEW q \in Seq(S), NEW x
  PROVE  IsFiniteSet(Places(q, x)) /\ Cardinality(Places(q, x)) \in Nat
  <1>1. DOMAIN q = 1..Len(q) /\ Len(q) \in Nat
    BY LenProperties
  <1>2. IsFiniteSet(1..Len(q))
    BY <1>1, FS_Interval
  <1>3. Places(q, x) \in SUBSET (1..Len(q))
    BY <1>1 DEF Places
  <1>4. IsFiniteSet(Places(q, x))
    BY <1>2, <1>3, FS_Subset
  <1> QED
    BY <1>4, FS_CardinalityType

LEMMA PlacesAppend ==
  ASSUME NEW S, NEW q \in Seq(S), NEW y \in S, NEW x
  PROVE  Cardinality(Places(Append(q, y), x)) =
           IF y = x THEN Cardinality(Places(q, x)) + 1 ELSE Cardinality(Places(q, x))
  <1> DEFINE r == Append(q, y)
  <1>1. /\ DOMAIN q = 1..Len(q) /\ Len(q) \in Nat
        /\ DOMAIN r = 1..(Len(q) + 1)
        /\ \A i \in 1..Len(q) : r[i] = q[i]
        /\ r[Len(q) + 1] = y
    BY AppendProperties, LenProperties
  <1> HIDE DEF r
  <1>2. CASE y = x
    <2>1. Places(r, x) = Places(q, x) \cup {Len(q) + 1}
      BY <1>1, <1>2 DEF Places
    <2>2. Len(q) + 1 \notin Places(q, x)
      BY <1>1 DEF Places
    <2>3. IsFiniteSet(Places(q, x))
      BY PlacesFinite
    <2>4. Cardinality(Places(r, x)) = Cardinality(Places(q, x)) + 1
      BY <2>1, <2>2, <2>3, CardAdd
    <2> QED
      BY <1>2, <2>4 DEF r
  <1>3. CASE y # x
    <2>1. Places(r, x) = Places(q, x)
      BY <1>1, <1>3 DEF Places
    <2> QED
      BY <1>3, <2>1 DEF r
  <1> QED
    BY <1>2, <1>3

LEMMA PlacesTail ==
  ASSUME NEW S, NEW q \in Seq(S), q # <<>>, NEW x
  PROVE  /\ Cardinality(Places(Tail(q), x)) =
              IF Head(q) = x THEN Cardinality(Places(q, x)) - 1 ELSE Cardinality(Places(q, x))
         /\ Head(q) = x => Cardinality(Places(q, x)) > 0
  <1> DEFINE r == Tail(q)
  <1>1. /\ DOMAIN q = 1..Len(q) /\ Len(q) \in Nat \ {0}
        /\ DOMAIN r = 1..(Len(q) - 1)
        /\ \A i \in 1..(Len(q) - 1) : r[i] = q[i + 1]
        /\ Head(q) = q[1]
    BY HeadTailProperties, LenProperties, EmptySeq
  <1> HIDE DEF r
  <1>2. IsFiniteSet(Places(q, x)) /\ IsFiniteSet(Places(r, x))
    BY PlacesFinite, HeadTailProperties DEF r
  <1> DEFINE T == Places(q, x) \ {1}
  <1>3. Cardinality(T) = Cardinality(Places(r, x))
    <2>1. Places(r, x) \in SUBSET Nat /\ T \in SUBSET Nat /\ 0 \notin T
      BY <1>1 DEF Places
    <2>2. \A i \in Nat : i \in Places(r, x) <=> i + 1 \in T
      BY <1>1 DEF Places
    <2> HIDE DEF T
    <2> QED
      BY <1>2, <2>1, <2>2, CardShift
  <1>4. CASE Head(q) = x
    <2>1. 1 \in Places(q, x)
      BY <1>1, <1>4 DEF Places
    <2>2. Cardinality(T) = Cardinality(Places(q, x)) - 1 /\ Cardinality(Places(q, x)) > 0
      BY <1>2, <2>1, CardRemove
    <2> QED
      BY <1>3, <1>4, <2>2 DEF r
  <1>5. CASE Head(q) # x
    <2>1. T = Places(q, x)
      BY <1>1, <1>5 DEF Places
    <2> QED
      BY <1>3, <1>5, <2>1 DEF r
  <1> QED
    BY <1>4, <1>5

(* The same of a function with a finite domain, changed at k.              *)
LEMMA PlacesExcept ==
  ASSUME NEW D, IsFiniteSet(D), NEW S, NEW f \in [D -> S], NEW k \in D, NEW y \in S, NEW x,
         NEW g \in [D -> S], g[k] = y, \A i \in D : i # k => g[i] = f[i]
  PROVE  /\ Cardinality(Places(f, x)) \in Nat
         /\ f[k] = x => Cardinality(Places(f, x)) > 0
         /\ Cardinality(Places(g, x)) =
              IF f[k] = x
              THEN IF y = x THEN Cardinality(Places(f, x)) ELSE Cardinality(Places(f, x)) - 1
              ELSE IF y = x THEN Cardinality(Places(f, x)) + 1 ELSE Cardinality(Places(f, x))
  <1>1. DOMAIN f = D /\ DOMAIN g = D /\ g[k] = y /\ \A i \in D : i # k => g[i] = f[i]
    OBVIOUS
  <1>2. Places(f, x) \in SUBSET D
    BY <1>1 DEF Places
  <1>3. IsFiniteSet(Places(f, x))
    BY <1>2, FS_Subset
  <1>4. Cardinality(Places(f, x)) \in Nat
    BY <1>3, FS_CardinalityType
  <1>5. CASE f[k] = x
    <2>1. k \in Places(f, x)
      BY <1>1, <1>5 DEF Places
    <2>2. Cardinality(Places(f, x) \ {k}) = Cardinality(Places(f, x)) - 1 /\ Cardinality(Places(f, x)) > 0
      BY <1>3, <2>1, CardRemove
    <2>3. Places(g, x) = IF y = x THEN Places(f, x) ELSE Places(f, x) \ {k}
      BY <1>1, <1>5 DEF Places
    <2> QED
      BY <1>4, <1>5, <2>2, <2>3
  <1>6. CASE f[k] # x
    <2>1. k \notin Places(f, x)
      BY <1>6 DEF Places
    <2>2. Cardinality(Places(f, x) \cup {k}) = Cardinality(Places(f, x)) + 1
      BY <1>3, <2>1, CardAdd
    <2>3. Places(g, x) = IF y = x THEN Places(f, x) \cup {k} ELSE Places(f, x)
      BY <1>1, <1>6 DEF Places
    <2> QED
      BY <1>4, <1>6, <2>2, <2>3
  <1> QED
    BY <1>5, <1>6
(* Two sets that differ in k at most.                                      *)
LEMMA CardPoint ==
  ASSUME NEW S, IsFiniteSet(S), NEW T, NEW k, \A i : i # k => (i \in T <=> i \in S)
  PROVE  /\ IsFiniteSet(T) /\ Cardinality(S) \in Nat /\ Cardinality(T) \in Nat
         /\ (k \in S <=> k \in T) => Cardinality(T) = Cardinality(S)
         /\ k \in S /\ k \notin T => Cardinality(T) = Cardinality(S) - 1
         /\ k \notin S /\ k \in T => Cardinality(T) = Cardinality(S) + 1
  <1>1. CASE k \in S <=> k \in T
    <2>1. T = S
      BY <1>1
    <2> QED
      BY <1>1, <2>1, FS_CardinalityType
  <1>2. CASE k \in S /\ k \notin T
    <2>1. T = S \ {k}
      BY <1>2
    <2>2. IsFiniteSet(T) /\ Cardinality(T) = Cardinality(S) - 1
      BY <1>2, <2>1, CardRemove
    <2> QED
      BY <1>2, <2>2, FS_CardinalityType
  <1>3. CASE k \notin S /\ k \in T
    <2>1. T = S \cup {k}
      BY <1>3
    <2>2. IsFiniteSet(T) /\ Cardinality(T) = Cardinality(S) + 1
      BY <1>3, <2>1, CardAdd
    <2> QED
      BY <1>3, <2>2, FS_CardinalityType
  <1> QED
    BY <1>1, <1>2, <1>3
=============================================================================
