------------------------ MODULE HqfbpReceiverProofs ------------------------
(***************************************************************************)
(* Proofs about the receive sessions of hqfbp-cla, for any messages on the *)
(* air, any limits and any number of packets.                              *)
(***************************************************************************)
EXTENDS HqfbpReceiver, TLAPS, FiniteSetTheorems, WellFoundedInduction

-----------------------------------------------------------------------------
(* Lemmas about sums.                                                      *)

(* A set of naturals that holds 0 and every successor is all of them. *)
LEMMA Counting ==
  ASSUME NEW S \in SUBSET Nat, 0 \in S, \A n \in S : n + 1 \in S
  PROVE  S = Nat
<1>1. SUFFICES ASSUME Nat \ S # {} PROVE FALSE
  OBVIOUS
<1> DEFINE T == Nat \ S
<1>2. IsWellFoundedOn(OpToRel(<, Nat), Nat)
  BY NatLessThanWellFounded
<1>3. T \in SUBSET Nat /\ T # {}
  BY <1>1
<1> HIDE DEF T
<1>4. PICK x \in T : \A y \in T : <<y, x>> \notin OpToRel(<, Nat)
  BY <1>2, <1>3, WFMin, Zenon
<1>5. \A y \in T : y < x => <<y, x>> \in OpToRel(<, Nat)
  BY <1>3 DEF OpToRel
<1>6. \A y \in T : ~(y < x)
  BY <1>4, <1>5, Zenon
<1>7. x \in Nat /\ x # 0 /\ x \notin S
  BY <1>4 DEF T
<1>8. x - 1 \in Nat /\ x - 1 < x
  BY <1>7
<1>9. x - 1 \in S
  BY <1>6, <1>8 DEF T
<1> QED  BY <1>7, <1>9

(* The element a fold takes next. *)
Taken(s) == CHOOSE x \in s : TRUE
(* F sums the weights w over every subset of X. *)
Sums(F, w, X) == F = [s \in SUBSET X |-> IF s = {} THEN 0 ELSE w[Taken(s)] + F[s \ {Taken(s)}]]

(* The element taken is one of the set, and leaves a smaller one. *)
LEMMA TakenIn ==
  ASSUME NEW X, IsFiniteSet(X), NEW s \in SUBSET X, s # {}
  PROVE  /\ Taken(s) \in s /\ s \ {Taken(s)} \in SUBSET X
         /\ Cardinality(s) \in Nat /\ Cardinality(s) > 0 /\ Cardinality(s \ {Taken(s)}) = Cardinality(s) - 1
<1>1. Taken(s) \in s
  BY DEF Taken
<1>2. IsFiniteSet(s)
  BY FS_Subset
<1>3. Cardinality(s) \in Nat /\ Cardinality(s) # 0
  BY <1>2, FS_CardinalityType, FS_EmptySet
<1>4. Cardinality(s \ {Taken(s)}) = Cardinality(s) - 1
  BY <1>1, <1>2, FS_RemoveElement
<1> QED  BY <1>1, <1>3, <1>4

(* There is such a function: it is built set size by set size. *)
LEMMA SumsExist ==
  ASSUME NEW X, IsFiniteSet(X), NEW w
  PROVE  \E F : Sums(F, w, X)
<1> DEFINE small(n) == {u \in SUBSET X : Cardinality(u) <= n}
           upTo(F, n) == F = [s \in small(n) |-> IF s = {} THEN 0 ELSE w[Taken(s)] + F[s \ {Taken(s)}]]
           S == {n \in Nat : \E F : upTo(F, n)}
<1>0. \A u \in SUBSET X : Cardinality(u) \in Nat /\ (Cardinality(u) = 0 <=> u = {})
  BY FS_Subset, FS_CardinalityType, FS_EmptySet
<1>1. 0 \in S
  <2>1. \A u \in small(0) : u = {}
    BY <1>0
  <2>2. upTo([s \in small(0) |-> 0], 0)
    BY <2>1
  <2> QED  BY <2>2
<1>2. ASSUME NEW n \in S PROVE n + 1 \in S
  <2>1. n \in Nat
    OBVIOUS
  <2>2. PICK F : upTo(F, n)
    OBVIOUS
  <2> DEFINE G == [s \in small(n + 1) |-> IF s \in small(n) THEN F[s] ELSE w[Taken(s)] + F[s \ {Taken(s)}]]
  <2>3. ASSUME NEW s \in small(n + 1)
        PROVE  G[s] = IF s = {} THEN 0 ELSE w[Taken(s)] + G[s \ {Taken(s)}]
    <3>1. CASE s = {}
      <4>1. s \in small(n)
        BY <1>0, <2>1, <3>1
      <4> QED  BY <2>2, <3>1, <4>1
    <3>2. CASE s # {}
      <4> DEFINE v == s \ {Taken(s)}
      <4>1. v \in SUBSET X /\ Cardinality(v) = Cardinality(s) - 1 /\ Cardinality(s) \in Nat /\ Cardinality(s) <= n + 1
        BY <3>2, TakenIn
      <4>2. v \in small(n) /\ v \in small(n + 1)
        BY <4>1, <2>1
      <4>3. G[v] = F[v]
        BY <4>2
      <4>4. G[s] = w[Taken(s)] + F[v]
        BY <2>2, <3>2
      <4> QED  BY <4>3, <4>4, <3>2
    <3> QED  BY <3>1, <3>2
  <2>4. upTo(G, n + 1)
    BY <2>3
  <2> HIDE DEF G, upTo
  <2>5. \E H : upTo(H, n + 1)
    BY <2>4
  <2> QED  BY <2>1, <2>5
<1>3. S = Nat
  <2> HIDE DEF S
  <2>1. S \in SUBSET Nat
    BY DEF S
  <2> QED  BY <1>1, <1>2, <2>1, Counting
<1>4. Cardinality(X) \in S
  BY <1>3, FS_CardinalityType
<1>5. PICK F : upTo(F, Cardinality(X))
  BY <1>4
<1>6. small(Cardinality(X)) = SUBSET X
  BY FS_Subset
<1> QED  BY <1>5, <1>6 DEF Sums

(* What F gives for a set is the sum of one weight and F for the rest. *)
LEMMA SumsOne ==
  ASSUME NEW X, IsFiniteSet(X), NEW w, NEW F, Sums(F, w, X), NEW s \in SUBSET X, s # {}
  PROVE  F[s] = w[Taken(s)] + F[s \ {Taken(s)}]
  BY DEF Sums

(* Nothing weighs nothing. *)
LEMMA SumsNone ==
  ASSUME NEW X, NEW w, NEW F, Sums(F, w, X)
  PROVE  F[{}] = 0
  BY DEF Sums

(* It does not matter which element is taken first. *)
LEMMA SumsAny ==
  ASSUME NEW X, IsFiniteSet(X), NEW w, \A x \in X : w[x] \in Nat, NEW F, Sums(F, w, X)
  PROVE  \A s \in SUBSET X : F[s] \in Nat /\ \A x \in s : F[s] = w[x] + F[s \ {x}]
<1> DEFINE good(s) == F[s] \in Nat /\ \A x \in s : F[s] = w[x] + F[s \ {x}]
           S == {n \in Nat : \A s \in SUBSET X : Cardinality(s) <= n => good(s)}
<1>0. \A u \in SUBSET X : Cardinality(u) \in Nat /\ (Cardinality(u) = 0 <=> u = {})
  BY FS_Subset, FS_CardinalityType, FS_EmptySet
<1>1. 0 \in S
  <2>1. good({})
    BY SumsNone
  <2> QED  BY <1>0, <2>1
<1>2. ASSUME NEW n \in S PROVE n + 1 \in S
  <2>1. n \in Nat /\ \A s \in SUBSET X : Cardinality(s) <= n => good(s)
    OBVIOUS
  <2>2. ASSUME NEW s \in SUBSET X, Cardinality(s) <= n + 1, s # {} PROVE good(s)
    <3> DEFINE y == Taken(s)
               v == s \ {y}
    <3>1. y \in s /\ y \in X /\ v \in SUBSET X /\ Cardinality(v) = Cardinality(s) - 1 /\ Cardinality(s) \in Nat
      BY <2>2, TakenIn
    <3>2. F[s] = w[y] + F[v]
      BY <2>2, SumsOne
    <3> HIDE DEF y
    <3>3. Cardinality(v) <= n
      BY <3>1, <2>1, <2>2
    <3>4. F[v] \in Nat /\ w[y] \in Nat /\ \A x \in v : F[v] = w[x] + F[v \ {x}]
      BY <3>1, <3>3, <2>1
    <3>5. ASSUME NEW x \in s, x # y PROVE F[s] = w[x] + F[s \ {x}]
      <4> DEFINE u == s \ {x}
                 z == v \ {x}
      <4>1. z = u \ {y} /\ y \in u /\ u \in SUBSET X /\ z \in SUBSET X /\ x \in v
        BY <3>1, <3>5
      <4>2. IsFiniteSet(s)
        BY FS_Subset
      <4>3. Cardinality(u) = Cardinality(s) - 1
        BY <4>2, FS_RemoveElement
      <4>4. Cardinality(u) <= n
        BY <4>3, <3>1, <2>1, <2>2
      <4>5. F[u] = w[y] + F[z]
        BY <4>1, <4>4, <2>1
      <4>6. F[v] = w[x] + F[z]
        BY <4>1, <3>4
      <4>7. F[z] \in Nat /\ w[x] \in Nat
        <5>1. IsFiniteSet(v) /\ Cardinality(v) \in Nat
          BY <1>0, <3>1, FS_Subset
        <5>2. Cardinality(z) = Cardinality(v) - 1
          BY <4>1, <5>1, FS_RemoveElement
        <5>3. Cardinality(z) <= n
          BY <5>1, <5>2, <3>3, <2>1
        <5> QED  BY <5>3, <4>1, <2>1
      <4> QED  BY <4>5, <4>6, <4>7, <3>2, <3>4
    <3>6. F[s] \in Nat
      BY <3>2, <3>4
    <3>7. \A x \in s : F[s] = w[x] + F[s \ {x}]
      BY <3>2, <3>5
    <3> QED  BY <3>6, <3>7
  <2>3. good({})
    BY SumsNone
  <2> HIDE DEF good
  <2>4. \A s \in SUBSET X : Cardinality(s) <= n + 1 => good(s)
    BY <2>2, <2>3
  <2> QED  BY <2>1, <2>4
<1>3. S = Nat
  <2> HIDE DEF S
  <2>1. S \in SUBSET Nat
    BY DEF S
  <2> QED  BY <1>1, <1>2, <2>1, Counting
<1>4. ASSUME NEW s \in SUBSET X PROVE good(s)
  <2>1. Cardinality(s) \in S
    BY <1>0, <1>3
  <2> HIDE DEF good
  <2> QED  BY <2>1, <1>0
<1> QED  BY <1>4

(* Two sums with the same weights are the same. *)
LEMMA SumsSame ==
  ASSUME NEW X, IsFiniteSet(X), NEW Y, IsFiniteSet(Y), NEW w, NEW v, NEW F, NEW G, Sums(F, w, X), Sums(G, v, Y)
  PROVE  \A s \in SUBSET (X \cap Y) : (\A x \in s : w[x] = v[x]) => F[s] = G[s]
<1> DEFINE good(s) == (\A x \in s : w[x] = v[x]) => F[s] = G[s]
           S == {n \in Nat : \A s \in SUBSET (X \cap Y) : Cardinality(s) <= n => good(s)}
<1>0. \A u \in SUBSET (X \cap Y) : u \in SUBSET X /\ u \in SUBSET Y /\ Cardinality(u) \in Nat /\ (Cardinality(u) = 0 <=> u = {})
  BY FS_Subset, FS_CardinalityType, FS_EmptySet
<1>5. good({})
  BY SumsNone
<1>1. 0 \in S
  BY <1>0, <1>5
<1>2. ASSUME NEW n \in S PROVE n + 1 \in S
  <2>1. n \in Nat /\ \A s \in SUBSET (X \cap Y) : Cardinality(s) <= n => good(s)
    OBVIOUS
  <2>2. ASSUME NEW s \in SUBSET (X \cap Y), Cardinality(s) <= n + 1, s # {} PROVE good(s)
    <3> DEFINE y == Taken(s)
               r == s \ {y}
    <3>1. y \in s /\ r \in SUBSET X /\ Cardinality(r) = Cardinality(s) - 1 /\ Cardinality(s) \in Nat
      BY <1>0, <2>2, TakenIn
    <3>6. s \in SUBSET X /\ s \in SUBSET Y
      BY <1>0
    <3>2. F[s] = w[y] + F[r]
      BY <3>6, <2>2, SumsOne
    <3>3. G[s] = v[y] + G[r]
      BY <3>6, <2>2, SumsOne
    <3> HIDE DEF y
    <3>4. Cardinality(r) <= n /\ r \in SUBSET (X \cap Y)
      BY <3>1, <2>1, <2>2
    <3>5. good(r)
      BY <3>4, <2>1
    <3> QED  BY <3>1, <3>2, <3>3, <3>5
  <2> QED  BY <2>1, <2>2, <1>5
<1>3. S = Nat
  <2> HIDE DEF S
  <2>1. S \in SUBSET Nat
    BY DEF S
  <2> QED  BY <1>1, <1>2, <2>1, Counting
<1>4. ASSUME NEW s \in SUBSET (X \cap Y) PROVE good(s)
  <2>1. Cardinality(s) \in S
    BY <1>0, <1>3
  <2> HIDE DEF good
  <2> QED  BY <2>1, <1>0
<1> QED  BY <1>4

-----------------------------------------------------------------------------
(* The octets of senders, and the octets by message of one sender.         *)
Weights(t, X) == [s \in X |-> t[s].bytes]
Charged(f) == MapThenSumSet(LAMBDA i : f[i], Ids)

(* Octets is such a sum. *)
LEMMA OctetsIsSum ==
  ASSUME NEW t, NEW X, IsFiniteSet(X)
  PROVE  \E F : Sums(F, Weights(t, X), X) /\ Octets(t, X) = F[X]
<1> DEFINE body(g) == g = [s \in SUBSET X |-> IF s = {} THEN 0
                                              ELSE t[CHOOSE x \in s : TRUE].bytes + g[s \ {CHOOSE x \in s : TRUE}]]
           F == CHOOSE g : body(g)
<1>1. Octets(t, X) = F[X]
  BY DEF Octets, MapThenSumSet, MapThenFoldSet
<1>2. ASSUME NEW g PROVE body(g) <=> Sums(g, Weights(t, X), X)
  <2>1. \A s \in SUBSET X : s # {} => Taken(s) \in X
    BY DEF Taken
  <2>2. \A s \in SUBSET X : s # {} => Weights(t, X)[Taken(s)] = t[Taken(s)].bytes
    BY <2>1 DEF Weights
  <2>3. body(g) <=> g = [s \in SUBSET X |-> IF s = {} THEN 0 ELSE t[Taken(s)].bytes + g[s \ {Taken(s)}]]
    BY DEF Taken
  <2> HIDE DEF body
  <2> QED  BY <2>2, <2>3 DEF Sums
<1>3. \E g : body(g)
  <2>1. PICK g : Sums(g, Weights(t, X), X)
    BY SumsExist
  <2> HIDE DEF body
  <2> QED  BY <2>1, <1>2
<1> HIDE DEF body
<1>4. body(F)
  BY <1>3
<1> HIDE DEF F
<1> QED  BY <1>1, <1>2, <1>4

(* And so is Charged. *)
LEMMA ChargedIsSum ==
  ASSUME NEW f
  PROVE  \E F : Sums(F, f, Ids) /\ Charged(f) = F[Ids]
<1> DEFINE body(g) == g = [s \in SUBSET Ids |-> IF s = {} THEN 0
                                                ELSE f[CHOOSE x \in s : TRUE] + g[s \ {CHOOSE x \in s : TRUE}]]
           F == CHOOSE g : body(g)
<1>1. Charged(f) = F[Ids]
  BY DEF Charged, MapThenSumSet, MapThenFoldSet
<1>2. ASSUME NEW g PROVE body(g) <=> Sums(g, f, Ids)
  BY DEF Taken, Sums
<1>5. IsFiniteSet(Ids)
  BY MessageAssumption DEF Ids
<1>3. \E g : body(g)
  <2>1. PICK g : Sums(g, f, Ids)
    BY SumsExist, <1>5
  <2> HIDE DEF body
  <2> QED  BY <2>1, <1>2
<1> HIDE DEF body
<1>4. body(F)
  BY <1>3
<1> HIDE DEF F
<1> QED  BY <1>1, <1>2, <1>4

(* One function gives the octets of every subset. *)
LEMMA OctetsWithin ==
  ASSUME NEW t, NEW D, IsFiniteSet(D)
  PROVE  \E F : Sums(F, Weights(t, D), D) /\ \A X \in SUBSET D : Octets(t, X) = F[X]
<1>1. PICK F : Sums(F, Weights(t, D), D)
  BY OctetsIsSum
<1>2. ASSUME NEW X \in SUBSET D PROVE Octets(t, X) = F[X]
  <2>1. IsFiniteSet(X)
    BY FS_Subset
  <2>2. PICK G : Sums(G, Weights(t, X), X) /\ Octets(t, X) = G[X]
    BY <2>1, OctetsIsSum
  <2>3. \A x \in X : Weights(t, X)[x] = Weights(t, D)[x]
    BY DEF Weights
  <2>4. X \in SUBSET (X \cap D)
    OBVIOUS
  <2>5. G[X] = F[X]
    BY <1>1, <2>1, <2>2, <2>3, <2>4, SumsSame
  <2> QED  BY <2>2, <2>5
<1> QED  BY <1>1, <1>2

(* The octets of a set are those of one sender and of the others. *)
LEMMA OctetsOfOne ==
  ASSUME NEW t, NEW D, IsFiniteSet(D), \A s \in D : t[s].bytes \in Nat, NEW X \in SUBSET D
  PROVE  Octets(t, {}) = 0 /\ Octets(t, X) \in Nat /\ \A x \in X : Octets(t, X) = t[x].bytes + Octets(t, X \ {x})
<1>1. PICK F : Sums(F, Weights(t, D), D) /\ \A Z \in SUBSET D : Octets(t, Z) = F[Z]
  BY OctetsWithin
<1>2. \A x \in D : Weights(t, D)[x] \in Nat
  BY DEF Weights
<1>6. \A x \in D : Weights(t, D)[x] = t[x].bytes
  BY DEF Weights
<1>3. \A s \in SUBSET D : F[s] \in Nat /\ \A x \in s : F[s] = Weights(t, D)[x] + F[s \ {x}]
  BY <1>1, <1>2, SumsAny
<1>4. Octets(t, {}) = 0
  BY <1>1, SumsNone
<1>5. \A x \in X : X \ {x} \in SUBSET D /\ x \in D
  OBVIOUS
<1> QED  BY <1>1, <1>3, <1>4, <1>5, <1>6

(* Only the octets of the senders summed over matter. *)
LEMMA OctetsSame ==
  ASSUME NEW t, NEW u, NEW X, IsFiniteSet(X), \A s \in X : t[s].bytes = u[s].bytes
  PROVE  Octets(t, X) = Octets(u, X)
<1>1. PICK F : Sums(F, Weights(t, X), X) /\ Octets(t, X) = F[X]
  BY OctetsIsSum
<1>2. PICK G : Sums(G, Weights(u, X), X) /\ Octets(u, X) = G[X]
  BY OctetsIsSum
<1>3. \A x \in X : Weights(t, X)[x] = Weights(u, X)[x]
  BY DEF Weights
<1>4. X \in SUBSET (X \cap X)
  OBVIOUS
<1>5. F[X] = G[X]
  BY <1>1, <1>2, <1>3, <1>4, SumsSame
<1> QED  BY <1>1, <1>2, <1>5

(* The octets of a set are those of a part and of the rest. *)
LEMMA OctetsSplit ==
  ASSUME NEW t, NEW D, IsFiniteSet(D), \A s \in D : t[s].bytes \in Nat, NEW X \in SUBSET D
  PROVE  Octets(t, D) = Octets(t, X) + Octets(t, D \ X)
<1>1. PICK F : Sums(F, Weights(t, D), D) /\ \A Z \in SUBSET D : Octets(t, Z) = F[Z]
  BY OctetsWithin
<1>2. \A x \in D : Weights(t, D)[x] \in Nat
  BY DEF Weights
<1>3. \A s \in SUBSET D : F[s] \in Nat /\ \A x \in s : F[s] = Weights(t, D)[x] + F[s \ {x}]
  BY <1>1, <1>2, SumsAny
<1> DEFINE good(Z) == F[D] = F[Z] + F[D \ Z]
           S == {n \in Nat : \A Z \in SUBSET D : Cardinality(Z) <= n => good(Z)}
<1>0. \A u \in SUBSET D : Cardinality(u) \in Nat /\ (Cardinality(u) = 0 <=> u = {})
  BY FS_Subset, FS_CardinalityType, FS_EmptySet
<1>5. good({})
  <2>1. F[{}] = 0 /\ D \ {} = D /\ F[D] \in Nat
    BY <1>1, <1>3, SumsNone
  <2> QED  BY <2>1
<1>6. 0 \in S
  <2> HIDE DEF good
  <2> QED  BY <1>0, <1>5
<1>7. ASSUME NEW n \in S PROVE n + 1 \in S
  <2>1. n \in Nat /\ \A Z \in SUBSET D : Cardinality(Z) <= n => good(Z)
    OBVIOUS
  <2>2. ASSUME NEW Z \in SUBSET D, Cardinality(Z) <= n + 1, Z # {} PROVE good(Z)
    <3>1. PICK x \in Z : TRUE
      BY <2>2
    <3> DEFINE V == Z \ {x}
    <3>2. IsFiniteSet(Z) /\ Cardinality(Z) \in Nat
      BY <1>0, FS_Subset
    <3>3. Cardinality(V) = Cardinality(Z) - 1
      BY <3>2, FS_RemoveElement
    <3>4. V \in SUBSET D /\ Cardinality(V) <= n
      BY <3>2, <3>3, <2>1, <2>2
    <3>5. F[D] = F[V] + F[D \ V]
      BY <3>4, <2>1
    <3>6. F[Z] = Weights(t, D)[x] + F[V] /\ F[V] \in Nat /\ F[Z] \in Nat
      BY <1>3, <3>4
    <3>7. D \ V \in SUBSET D /\ x \in D \ V /\ (D \ V) \ {x} = D \ Z /\ D \ Z \in SUBSET D
      OBVIOUS
    <3>8. F[D \ V] = Weights(t, D)[x] + F[D \ Z] /\ F[D \ Z] \in Nat
      BY <1>3, <3>7
    <3>9. Weights(t, D)[x] \in Nat
      BY <1>2
    <3> QED  BY <3>5, <3>6, <3>8, <3>9
  <2> HIDE DEF good
  <2>3. \A Z \in SUBSET D : Cardinality(Z) <= n + 1 => good(Z)
    BY <2>2, <1>5
  <2> QED  BY <2>1, <2>3
<1>8. S = Nat
  <2> HIDE DEF S
  <2>1. S \in SUBSET Nat
    BY DEF S
  <2> QED  BY <1>6, <1>7, <2>1, Counting
<1>9. good(X)
  <2>1. Cardinality(X) \in S /\ Cardinality(X) \in Nat
    BY <1>0, <1>8
  <2> HIDE DEF good
  <2> QED  BY <2>1
<1> QED  BY <1>1, <1>9

(* The octets of every message are within those of all. *)
LEMMA ChargedHolds ==
  ASSUME NEW f \in [Ids -> Nat]
  PROVE  Charged(f) \in Nat /\ \A i \in Ids : f[i] <= Charged(f)
<1>1. PICK F : Sums(F, f, Ids) /\ Charged(f) = F[Ids]
  BY ChargedIsSum
<1>2. IsFiniteSet(Ids)
  BY MessageAssumption DEF Ids
<1>3. \A s \in SUBSET Ids : F[s] \in Nat /\ \A x \in s : F[s] = f[x] + F[s \ {x}]
  BY <1>1, <1>2, SumsAny
<1>4. ASSUME NEW i \in Ids PROVE f[i] <= F[Ids]
  <2>1. F[Ids] = f[i] + F[Ids \ {i}] /\ F[Ids \ {i}] \in Nat /\ f[i] \in Nat
    BY <1>3
  <2> QED  BY <2>1
<1> QED  BY <1>1, <1>3, <1>4

(* A change of one message's octets is a change of the sum. *)
LEMMA ChargedChange ==
  ASSUME NEW f \in [Ids -> Nat], NEW g \in [Ids -> Nat], NEW i \in Ids, \A j \in Ids : j # i => f[j] = g[j]
  PROVE  Charged(g) + f[i] = Charged(f) + g[i]
<1>1. PICK F : Sums(F, f, Ids) /\ Charged(f) = F[Ids]
  BY ChargedIsSum
<1>2. PICK G : Sums(G, g, Ids) /\ Charged(g) = G[Ids]
  BY ChargedIsSum
<1>3. IsFiniteSet(Ids)
  BY MessageAssumption DEF Ids
<1>4. \A s \in SUBSET Ids : F[s] \in Nat /\ \A x \in s : F[s] = f[x] + F[s \ {x}]
  BY <1>1, <1>3, SumsAny
<1>9. \A x \in Ids : g[x] \in Nat
  OBVIOUS
<1>5. \A s \in SUBSET Ids : G[s] \in Nat /\ \A x \in s : G[s] = g[x] + G[s \ {x}]
  BY <1>2, <1>3, <1>9, SumsAny
<1> DEFINE R == Ids \ {i}
<1>6. R \in SUBSET (Ids \cap Ids) /\ \A x \in R : f[x] = g[x]
  OBVIOUS
<1>7. F[R] = G[R]
  BY <1>1, <1>2, <1>3, <1>6, SumsSame
<1>8. F[Ids] = f[i] + F[R] /\ G[Ids] = g[i] + G[R] /\ F[R] \in Nat /\ f[i] \in Nat /\ g[i] \in Nat
  BY <1>4, <1>5
<1> QED  BY <1>1, <1>2, <1>7, <1>8

(* A sender that has just been heard of has no octets. *)
LEMMA ChargedNothing == Charged([i \in Ids |-> 0]) = 0
<1> DEFINE z == [i \in Ids |-> 0]
           G == [s \in SUBSET Ids |-> 0]
<1>1. PICK F : Sums(F, z, Ids) /\ Charged(z) = F[Ids]
  BY ChargedIsSum
<1>2. IsFiniteSet(Ids)
  BY MessageAssumption DEF Ids
<1>3. ASSUME NEW s \in SUBSET Ids, s # {} PROVE Taken(s) \in Ids /\ s \ {Taken(s)} \in SUBSET Ids
  BY <1>2, <1>3, TakenIn
<1>4. ASSUME NEW s \in SUBSET Ids, s # {} PROVE z[Taken(s)] + G[s \ {Taken(s)}] = 0
  <2>1. z[Taken(s)] = 0 /\ G[s \ {Taken(s)}] = 0
    BY <1>3, <1>4
  <2> HIDE DEF z, G
  <2> QED  BY <2>1
<1>5. Sums(G, z, Ids)
  <2>1. G = [s \in SUBSET Ids |-> IF s = {} THEN 0 ELSE z[Taken(s)] + G[s \ {Taken(s)}]]
    BY <1>4
  <2> HIDE DEF G, z
  <2> QED  BY <2>1 DEF Sums
<1>6. Ids \in SUBSET (Ids \cap Ids) /\ G[Ids] = 0
  OBVIOUS
<1> HIDE DEF G, z
<1>7. F[Ids] = G[Ids]
  BY <1>1, <1>2, <1>5, <1>6, SumsSame
<1> QED  BY <1>1, <1>6, <1>7 DEF z

-----------------------------------------------------------------------------
(* The queue without some of its senders.                                  *)

(* F is the queue's prefixes up to n, each without the senders of X. *)
Keeps(F, q, X, n) ==
  F = [i \in 0 .. n |-> IF i = 0 THEN <<>> ELSE IF q[i] \in X THEN F[i - 1] ELSE Append(F[i - 1], q[i])]

(* e places r in the first n of q: in order, and all that is not in X. *)
Placed(e, r, q, X, n) ==
  /\ e \in [1 .. Len(r) -> 1 .. n]
  /\ \A j \in 1 .. Len(r) : r[j] = q[e[j]] /\ q[e[j]] \notin X
  /\ \A j, k \in 1 .. Len(r) : j < k => e[j] < e[k]
  /\ \A h \in 1 .. n : q[h] \notin X => \E j \in 1 .. Len(r) : e[j] = h

(* There is such a function. *)
LEMMA KeepsExist ==
  ASSUME NEW q, NEW X
  PROVE  \A n \in Nat : \E F : Keeps(F, q, X, n)
<1> DEFINE S == {n \in Nat : \E F : Keeps(F, q, X, n)}
<1>1. 0 \in S
  <2>1. Keeps([i \in 0 .. 0 |-> <<>>], q, X, 0)
    BY DEF Keeps
  <2> QED  BY <2>1
<1>2. ASSUME NEW n \in S PROVE n + 1 \in S
  <2>1. n \in Nat
    OBVIOUS
  <2>2. PICK F : Keeps(F, q, X, n)
    OBVIOUS
  <2> DEFINE G == [i \in 0 .. n + 1 |-> IF i = n + 1 THEN IF q[i] \in X THEN F[n] ELSE Append(F[n], q[i])
                                        ELSE F[i]]
  <2>3. ASSUME NEW i \in 0 .. n + 1
        PROVE  G[i] = IF i = 0 THEN <<>> ELSE IF q[i] \in X THEN G[i - 1] ELSE Append(G[i - 1], q[i])
    <3>1. CASE i = n + 1
      <4>1. G[i - 1] = F[n] /\ i - 1 = n /\ i # 0
        BY <2>1, <3>1
      <4>2. G[i] = IF q[i] \in X THEN F[n] ELSE Append(F[n], q[i])
        BY <3>1
      <4> QED  BY <4>1, <4>2
    <3>2. CASE i # n + 1
      <4>1. i \in 0 .. n /\ G[i] = F[i] /\ (i # 0 => i - 1 \in 0 .. n /\ i - 1 # n + 1 /\ i - 1 \in 0 .. n + 1)
        BY <2>1, <3>2
      <4>2. i # 0 => G[i - 1] = F[i - 1]
        BY <4>1
      <4>3. F[i] = IF i = 0 THEN <<>> ELSE IF q[i] \in X THEN F[i - 1] ELSE Append(F[i - 1], q[i])
        BY <2>2, <4>1 DEF Keeps
      <4> QED  BY <4>1, <4>2, <4>3
    <3> QED  BY <3>1, <3>2
  <2>4. Keeps(G, q, X, n + 1)
    BY <2>3 DEF Keeps
  <2> HIDE DEF G
  <2> QED  BY <2>1, <2>4
<1>3. S = Nat
  <2> HIDE DEF S
  <2>1. S \in SUBSET Nat
    BY DEF S
  <2> QED  BY <1>1, <1>2, <2>1, Counting
<1> QED  BY <1>3

(* Every prefix is placed in the queue. *)
LEMMA KeepsPlaced ==
  ASSUME NEW T, NEW q \in Seq(T), NEW X, NEW F, Keeps(F, q, X, Len(q))
  PROVE  \A n \in 0 .. Len(q) : F[n] \in Seq(T) /\ \E e : Placed(e, F[n], q, X, n)
<1> DEFINE good(n) == F[n] \in Seq(T) /\ \E e : Placed(e, F[n], q, X, n)
           S == {n \in Nat : n <= Len(q) => good(n)}
<1>0. Len(q) \in Nat /\ \A i \in 1 .. Len(q) : q[i] \in T
  OBVIOUS
<1>1. 0 \in S
  <2>1. F[0] = <<>>
    BY <1>0 DEF Keeps
  <2>2. Placed(<<>>, <<>>, q, X, 0)
    BY DEF Placed
  <2>3. <<>> \in Seq(T)
    OBVIOUS
  <2>4. good(0)
    BY <2>1, <2>2, <2>3
  <2> HIDE DEF good
  <2> QED  BY <2>4
<1>2. ASSUME NEW n \in S PROVE n + 1 \in S
  <2>1. n \in Nat /\ (n <= Len(q) => good(n))
    OBVIOUS
  <2> SUFFICES ASSUME n + 1 <= Len(q) PROVE good(n + 1)
    BY <2>1
  <2> DEFINE p == F[n]
             y == q[n + 1]
  <2>2. F[n + 1] = IF y \in X THEN p ELSE Append(p, y)
    <3>1. n + 1 \in 0 .. Len(q) /\ n + 1 # 0 /\ (n + 1) - 1 = n
      BY <2>1, <1>0
    <3>2. \A i \in 0 .. Len(q) : F[i] = IF i = 0 THEN <<>> ELSE IF q[i] \in X THEN F[i - 1] ELSE Append(F[i - 1], q[i])
      BY DEF Keeps
    <3> QED  BY <3>1, <3>2
  <2>3. p \in Seq(T) /\ y \in T /\ Len(p) \in Nat
    BY <2>1, <1>0
  <2>4. PICK e : Placed(e, p, q, X, n)
    BY <2>1, <1>0
  <2> HIDE DEF p
  <2>5. CASE y \in X
    <3>1. Placed(e, p, q, X, n + 1)
      BY <2>1, <2>3, <2>4, <2>5 DEF Placed
    <3> QED  BY <2>2, <2>3, <2>5, <3>1 DEF p
  <2>6. CASE y \notin X
    <3> DEFINE r == Append(p, y)
               d == [j \in 1 .. Len(r) |-> IF j = Len(r) THEN n + 1 ELSE e[j]]
    <3>1. r \in Seq(T) /\ Len(r) = Len(p) + 1 /\ r[Len(r)] = y /\ \A j \in 1 .. Len(p) : r[j] = p[j]
      BY <2>3
    <3> HIDE DEF r
    <3>2. \A j \in 1 .. Len(r) : j # Len(r) => j \in 1 .. Len(p) /\ d[j] = e[j] /\ r[j] = p[j]
      BY <2>3, <3>1
    <3>3. Len(r) \in 1 .. Len(r) /\ d[Len(r)] = n + 1
      BY <2>3, <3>1
    <3>4. \A j \in 1 .. Len(p) : e[j] \in 1 .. n
      BY <2>4 DEF Placed
    <3>5. d \in [1 .. Len(r) -> 1 .. n + 1]
      BY <3>1, <3>2, <3>4, <2>1
    <3>6. \A j \in 1 .. Len(r) : r[j] = q[d[j]] /\ q[d[j]] \notin X
      <4> HIDE DEF d
      <4> QED  BY <2>4, <2>6, <3>1, <3>2, <3>3 DEF Placed
    <3>7. ASSUME NEW j \in 1 .. Len(r), NEW k \in 1 .. Len(r), j < k PROVE d[j] < d[k]
      <4>1. j # Len(r) /\ j \in 1 .. Len(p)
        BY <3>7, <3>1, <2>3
      <4>2. CASE k = Len(r)
        BY <4>1, <4>2, <3>2, <3>3, <3>4, <2>1
      <4>3. CASE k # Len(r)
        <5>1. d[j] = e[j] /\ d[k] = e[k] /\ k \in 1 .. Len(p)
          BY <4>1, <4>3, <3>2
        <5> HIDE DEF d
        <5> QED  BY <5>1, <4>1, <2>4, <3>7 DEF Placed
      <4> QED  BY <4>2, <4>3
    <3>8. ASSUME NEW h \in 1 .. n + 1, q[h] \notin X PROVE \E j \in 1 .. Len(r) : d[j] = h
      <4>1. CASE h = n + 1
        BY <4>1, <3>3
      <4>2. CASE h # n + 1
        <5>1. h \in 1 .. n
          BY <4>2, <2>1
        <5>2. PICK j \in 1 .. Len(p) : e[j] = h
          BY <5>1, <3>8, <2>4 DEF Placed
        <5>3. j \in 1 .. Len(r) /\ j # Len(r)
          BY <3>1, <2>3
        <5> QED  BY <5>2, <5>3, <3>2
      <4> QED  BY <4>1, <4>2
    <3> HIDE DEF d
    <3>9. Placed(d, r, q, X, n + 1)
      BY <3>5, <3>6, <3>7, <3>8 DEF Placed
    <3> QED  BY <2>2, <2>6, <3>1, <3>9 DEF r
  <2> QED  BY <2>5, <2>6
<1>3. S = Nat
  <2> HIDE DEF S
  <2>1. S \in SUBSET Nat
    BY DEF S
  <2> QED  BY <1>1, <1>2, <2>1, Counting
<1>4. ASSUME NEW n \in 0 .. Len(q) PROVE good(n)
  <2>1. n \in S /\ n <= Len(q)
    BY <1>0, <1>3
  <2> HIDE DEF good
  <2> QED  BY <2>1
<1> QED  BY <1>4

(* What is kept of a queue is in its order, and is all of it but X. *)
LEMMA KeptPlaced ==
  ASSUME NEW T, NEW q \in Seq(T), NEW X
  PROVE  Kept(q, X) \in Seq(T) /\ \E e : Placed(e, Kept(q, X), q, X, Len(q))
<1> DEFINE F == CHOOSE g : Keeps(g, q, X, Len(q))
<1>1. Len(q) \in Nat
  OBVIOUS
<1>2. Keeps(F, q, X, Len(q))
  <2>1. \E g : Keeps(g, q, X, Len(q))
    BY <1>1, KeepsExist
  <2> QED  BY <2>1
<1>3. Kept(q, X) = F[Len(q)]
  BY DEF Kept, Keeps
<1> HIDE DEF F
<1>4. Len(q) \in 0 .. Len(q)
  BY <1>1
<1> QED  BY <1>2, <1>3, <1>4, KeepsPlaced

-----------------------------------------------------------------------------
(* The inductive invariant, of the manager as a record: the steps of       *)
(* process_pdu are applied to it one after the other.                      *)
IsManager(r) ==
  r = [senders |-> r.senders, lru |-> r.lru, total |-> r.total, sessions |-> r.sessions,
       payloads |-> r.payloads, frames |-> r.frames, delivered |-> r.delivered]

SenderState == [bytes : Nat, sess : [Ids -> Nat], age : Ages]

(* The table is finite, and the queue holds senders of the table. *)
Typed(r) ==
  /\ IsManager(r)
  /\ IsFiniteSet(DOMAIN r.senders)
  /\ \A s \in DOMAIN r.senders : r.senders[s] \in SenderState
  /\ r.lru \in Seq(DOMAIN r.senders)

(* Every sender is in the queue, once, behind the ones idle for longer. *)
Queued(r) ==
  /\ \A s \in DOMAIN r.senders : \E i \in 1 .. Len(r.lru) : r.lru[i] = s
  /\ \A i, j \in 1 .. Len(r.lru) :
       i < j => r.lru[i] # r.lru[j] /\ r.senders[r.lru[i]].age >= r.senders[r.lru[j]].age

Limited(r) == Cardinality(DOMAIN r.senders) <= MaxSenders

(* A payload delivered within the time to live is remembered at least as   *)
(* long as its delivery is recent.                                         *)
Remembered(r) ==
  /\ \A c \in DOMAIN r.payloads : r.payloads[c] \in Ages
  /\ \A c \in DOMAIN r.delivered :
       /\ r.delivered[c] \in [age : Ages, echo : BOOLEAN] /\ ~r.delivered[c].echo
       /\ r.delivered[c].age < Ttl => c \in DOMAIN r.payloads /\ r.payloads[c] <= r.delivered[c].age

(* The octets add up, for the stations and for the messages of each.  A    *)
(* station whose headers cannot be read has none charged to a message.     *)
Balanced(r) ==
  /\ r.total = Octets(r.senders, DOMAIN r.senders) /\ r.total <= MaxBytes
  /\ \A s \in DOMAIN r.senders : Charged(r.senders[s].sess) <= r.senders[s].bytes
  /\ \A m \in Messages : ~Readable[m] /\ Source[m] \in DOMAIN r.senders
       => \A i \in Ids : r.senders[Source[m]].sess[i] = 0

(* What the deframer holds is charged to the message, and the sender was   *)
(* heard no earlier than the PDUs.                                         *)
Backs(t, k, f) ==
  /\ \E m \in Messages : k = Key(m)
  /\ IsFiniteSet(f.pdus) /\ f.pdus # {} /\ f.age \in Ages
  /\ k[1] \in DOMAIN t
  /\ Size * Cardinality(f.pdus) <= t[k[1]].sess[k[2]] /\ t[k[1]].age <= f.age
Backed(r) == \A k \in DOMAIN r.frames : r.frames[k] = [pdus |-> r.frames[k].pdus, age |-> r.frames[k].age] /\ Backs(r.senders, k, r.frames[k])

(* The headers of a station can all be read, or none of them. *)
Uniform == \A m, n \in Messages : Source[m] = Source[n] => Readable[m] = Readable[n]

-----------------------------------------------------------------------------
(* What the steps do to the table and the queue.                           *)

(* A table without X. *)
LEMMA DropIs ==
  ASSUME NEW f, NEW X
  PROVE  DOMAIN Drop(f, X) = DOMAIN f \ X /\ \A y \in DOMAIN f \ X : Drop(f, X)[y] = f[y]
  BY DEF Drop

(* A table with an entry for x. *)
LEMMA PutIs ==
  ASSUME NEW f, NEW x, NEW v
  PROVE  /\ DOMAIN Put(f, x, v) = DOMAIN f \cup {x} /\ Put(f, x, v)[x] = v
         /\ \A y \in DOMAIN f : y # x => Put(f, x, v)[y] = f[y]
  BY DEF Put

(* A queue in order stays one without X. *)
LEMMA KeptQueue ==
  ASSUME NEW T, NEW q \in Seq(T), NEW X
  PROVE  /\ Kept(q, X) \in Seq(T \ X)
         /\ \A i \in 1 .. Len(q) : q[i] \notin X => \E j \in 1 .. Len(Kept(q, X)) : Kept(q, X)[j] = q[i]
         /\ \A j, k \in 1 .. Len(Kept(q, X)) : j < k =>
              \E h, i \in 1 .. Len(q) : h < i /\ Kept(q, X)[j] = q[h] /\ Kept(q, X)[k] = q[i]
<1> DEFINE p == Kept(q, X)
<1>1. p \in Seq(T) /\ Len(p) \in Nat
  BY KeptPlaced
<1>2. PICK e : Placed(e, p, q, X, Len(q))
  BY KeptPlaced
<1> HIDE DEF p
<1>3. \A j \in 1 .. Len(p) : e[j] \in 1 .. Len(q) /\ p[j] = q[e[j]] /\ p[j] \notin X
  BY <1>2 DEF Placed
<1>4. \A j \in 1 .. Len(p) : p[j] \in T
  BY <1>1
<1>5. p \in Seq(T \ X)
  BY <1>1, <1>3, <1>4
<1>6. ASSUME NEW i \in 1 .. Len(q), q[i] \notin X PROVE \E j \in 1 .. Len(p) : p[j] = q[i]
  BY <1>2, <1>6 DEF Placed
<1>7. ASSUME NEW j \in 1 .. Len(p), NEW k \in 1 .. Len(p), j < k
      PROVE  \E h, i \in 1 .. Len(q) : h < i /\ p[j] = q[h] /\ p[k] = q[i]
  <2>1. e[j] < e[k]
    BY <1>2, <1>7 DEF Placed
  <2> QED  BY <1>3, <2>1
<1> QED  BY <1>5, <1>6, <1>7 DEF p

(* Taking the senders of X from the table and the queue. *)
Cut(r, q, X) ==
  /\ q.senders = Drop(r.senders, X) /\ q.lru = Kept(r.lru, X)
  /\ q.total = Monus(r.total, Octets(r.senders, X))

(* The table after a cut. *)
LEMMA CutIs ==
  ASSUME NEW r, NEW q, NEW X, Cut(r, q, X)
  PROVE  DOMAIN q.senders = DOMAIN r.senders \ X /\ \A s \in DOMAIN r.senders \ X : q.senders[s] = r.senders[s]
<1> DEFINE f == r.senders
           g == q.senders
<1>1. g = Drop(f, X)
  BY DEF Cut
<1> HIDE DEF f, g
<1>2. DOMAIN g = DOMAIN f \ X /\ \A s \in DOMAIN f \ X : g[s] = f[s]
  BY <1>1 DEF Drop
<1> QED  BY <1>2 DEF f, g

(* A cut leaves a table and a queue. *)
LEMMA CutTyped ==
  ASSUME NEW r, NEW q, NEW X, Typed(r), IsManager(q), Cut(r, q, X)
  PROVE  Typed(q)
<1>1. DOMAIN q.senders = DOMAIN r.senders \ X /\ \A s \in DOMAIN r.senders \ X : q.senders[s] = r.senders[s]
  BY CutIs
<1>2. IsFiniteSet(DOMAIN q.senders)
  BY <1>1, FS_Difference DEF Typed
<1>3. q.lru \in Seq(DOMAIN r.senders \ X)
  BY KeptQueue DEF Cut, Typed
<1>4. \A s \in DOMAIN q.senders : q.senders[s] \in SenderState
  BY <1>1 DEF Typed
<1> QED  BY <1>1, <1>2, <1>3, <1>4 DEF Typed

(* And leaves the queue in order. *)
LEMMA CutQueued ==
  ASSUME NEW r, NEW q, NEW X, Typed(r), Queued(r), Cut(r, q, X)
  PROVE  Queued(q)
<1>1. DOMAIN q.senders = DOMAIN r.senders \ X /\ \A s \in DOMAIN r.senders \ X : q.senders[s] = r.senders[s]
  BY CutIs
<1> DEFINE T == DOMAIN r.senders
           u == r.lru
           p == Kept(u, X)
<1>2. u \in Seq(T) /\ q.lru = p
  BY DEF Typed, Cut
<1> HIDE DEF u, T, p
<1>5. /\ p \in Seq(T \ X)
      /\ \A i \in 1 .. Len(u) : u[i] \notin X => \E j \in 1 .. Len(p) : p[j] = u[i]
      /\ \A j, k \in 1 .. Len(p) : j < k => \E h, i \in 1 .. Len(u) : h < i /\ p[j] = u[h] /\ p[k] = u[i]
  <2>1. u \in Seq(T)
    BY <1>2
  <2>2. /\ Kept(u, X) \in Seq(T \ X)
        /\ \A i \in 1 .. Len(u) : u[i] \notin X => \E j \in 1 .. Len(Kept(u, X)) : Kept(u, X)[j] = u[i]
        /\ \A j, k \in 1 .. Len(Kept(u, X)) :
             j < k => \E h, i \in 1 .. Len(u) : h < i /\ Kept(u, X)[j] = u[h] /\ Kept(u, X)[k] = u[i]
    BY ONLY <2>1, KeptQueue
  <2> QED  BY <2>2 DEF p
<1>3. ASSUME NEW s \in DOMAIN q.senders PROVE \E j \in 1 .. Len(p) : p[j] = s
  <2>1. s \in T /\ s \notin X
    BY <1>1 DEF T
  <2>2. PICK i \in 1 .. Len(u) : u[i] = s
    BY <2>1 DEF Queued, u, T
  <2> QED  BY <1>5, <2>1, <2>2
<1>4. ASSUME NEW j \in 1 .. Len(p), NEW k \in 1 .. Len(p), j < k
      PROVE  p[j] # p[k] /\ q.senders[p[j]].age >= q.senders[p[k]].age
  <2>1. PICK h \in 1 .. Len(u), i \in 1 .. Len(u) : h < i /\ p[j] = u[h] /\ p[k] = u[i]
    BY <1>4, <1>5
  <2>2. u[h] # u[i] /\ r.senders[u[h]].age >= r.senders[u[i]].age
    BY <2>1 DEF Queued, u
  <2>3. p[j] \in T \ X /\ p[k] \in T \ X
    BY <1>5
  <2>4. q.senders[p[j]] = r.senders[u[h]] /\ q.senders[p[k]] = r.senders[u[i]]
    BY <1>1, <2>1, <2>3 DEF T
  <2> QED  BY <2>1, <2>2, <2>4
<1> QED  BY <1>2, <1>3, <1>4 DEF Queued

(* The table does not grow. *)
LEMMA CutLimited ==
  ASSUME NEW r, NEW q, NEW X, Typed(r), Cut(r, q, X)
  PROVE  /\ Cardinality(DOMAIN r.senders) \in Nat
         /\ Cardinality(DOMAIN q.senders) \in Nat
         /\ Cardinality(DOMAIN q.senders) <= Cardinality(DOMAIN r.senders)
         /\ \A s \in X : s \in DOMAIN r.senders => Cardinality(DOMAIN q.senders) < Cardinality(DOMAIN r.senders)
<1> DEFINE D == DOMAIN r.senders
           E == DOMAIN q.senders
<1>1. E = D \ X
  BY CutIs
<1>2. IsFiniteSet(D)
  BY DEF Typed
<1> HIDE DEF D, E
<1>3. E \subseteq D
  BY <1>1
<1>4. IsFiniteSet(E) /\ Cardinality(E) <= Cardinality(D) /\ (Cardinality(E) = Cardinality(D) => E = D)
  BY <1>2, <1>3, FS_Subset
<1>5. Cardinality(D) \in Nat /\ Cardinality(E) \in Nat
  BY <1>2, <1>4, FS_CardinalityType
<1>6. ASSUME NEW s \in X, s \in D PROVE Cardinality(E) < Cardinality(D)
  <2>1. E # D
    BY <1>1, <1>6
  <2> QED  BY <2>1, <1>4, <1>5
<1> QED  BY <1>4, <1>5, <1>6 DEF D, E

(* The octets of the rest are what is left of the total. *)
LEMMA CutBalanced ==
  ASSUME NEW r, NEW q, NEW X, X \subseteq DOMAIN r.senders, Typed(r), Balanced(r), Cut(r, q, X)
  PROVE  Balanced(q)
<1> DEFINE D == DOMAIN r.senders
<1>1. DOMAIN q.senders = D \ X /\ \A s \in D \ X : q.senders[s] = r.senders[s]
  BY CutIs
<1>2. IsFiniteSet(D) /\ X \in SUBSET D /\ D \ X \in SUBSET D /\ \A s \in D : r.senders[s].bytes \in Nat
  BY DEF Typed, SenderState
<1>3. Octets(r.senders, D) = Octets(r.senders, X) + Octets(r.senders, D \ X)
  BY <1>2, OctetsSplit
<1>4. Octets(r.senders, X) \in Nat
  BY <1>2, OctetsOfOne
<1>5. Octets(r.senders, D \ X) \in Nat
  BY <1>2, OctetsOfOne
<1>6. Octets(r.senders, D \ X) = Octets(q.senders, D \ X)
  <2>1. IsFiniteSet(D \ X)
    BY <1>2, FS_Difference
  <2>2. \A s \in D \ X : r.senders[s].bytes = q.senders[s].bytes
    BY <1>1
  <2> QED  BY <2>1, <2>2, OctetsSame
<1>7. r.total = Octets(r.senders, D) /\ r.total <= MaxBytes /\ MaxBytes \in Nat
  BY LimitAssumption DEF Balanced
<1>8. q.total = Octets(r.senders, D \ X)
  BY <1>3, <1>4, <1>5, <1>7 DEF Cut, Monus
<1>9. q.total = Octets(q.senders, DOMAIN q.senders) /\ q.total <= MaxBytes
  BY <1>1, <1>3, <1>4, <1>5, <1>6, <1>7, <1>8
<1>10. \A s \in DOMAIN q.senders : Charged(q.senders[s].sess) <= q.senders[s].bytes
  BY <1>1 DEF Balanced
<1>11. \A m \in Messages : ~Readable[m] /\ Source[m] \in DOMAIN q.senders
         => \A i \in Ids : q.senders[Source[m]].sess[i] = 0
  BY <1>1 DEF Balanced
<1> QED  BY <1>9, <1>10, <1>11 DEF Balanced

-----------------------------------------------------------------------------
(* The invariant of the manager, and the evictions.                        *)
AllReadable == \A m \in Messages : Readable[m]

Good(r) ==
  /\ Typed(r) /\ Queued(r) /\ Limited(r) /\ Remembered(r)
  /\ Uniform => Balanced(r)
  /\ AllReadable => Backed(r)

(* What an eviction does to each part of the manager. *)
LEMMA EvictIs ==
  ASSUME NEW r, NEW X, IsManager(r)
  PROVE  LET q == Evict(r, X) IN
         /\ IsManager(q) /\ Cut(r, q, X)
         /\ q.payloads = r.payloads /\ q.delivered = r.delivered
         /\ q.frames = IF \E s \in X, i \in Ids : r.senders[s].sess[i] > 0 THEN <<>> ELSE r.frames
<1> DEFINE a == Drop(r.senders, X)
           b == Kept(r.lru, X)
           c == Monus(r.total, Octets(r.senders, X))
           d == IF \E s \in X, i \in Ids : r.senders[s].sess[i] > 0 THEN <<>> ELSE r.frames
           q == [senders |-> a, lru |-> b, total |-> c, sessions |-> r.sessions,
                 payloads |-> r.payloads, frames |-> d, delivered |-> r.delivered]
<1>1. Evict(r, X) = [r EXCEPT !.senders = a, !.lru = b, !.total = c, !.frames = d]
  BY DEF Evict, IsManager
<1> HIDE DEF a, b, c, d
<1>2. Evict(r, X) = q
  BY <1>1 DEF IsManager
<1>3. /\ IsManager(q) /\ q.senders = a /\ q.lru = b /\ q.total = c
      /\ q.payloads = r.payloads /\ q.delivered = r.delivered /\ q.frames = d
  BY DEF IsManager
<1> QED  BY <1>2, <1>3 DEF Cut, a, b, c, d

(* The deframer's sessions after an eviction are still charged: one that   *)
(* belonged to an evicted sender makes the eviction drop them all.         *)
LEMMA EvictBacked ==
  ASSUME NEW r, NEW X, X \subseteq DOMAIN r.senders, Typed(r), Backed(r)
  PROVE  Backed(Evict(r, X))
<1> DEFINE q == Evict(r, X)
<1>1. /\ Cut(r, q, X)
      /\ q.frames = IF \E s \in X, i \in Ids : r.senders[s].sess[i] > 0 THEN <<>> ELSE r.frames
  BY EvictIs DEF Typed
<1> HIDE DEF q
<1>2. CASE \E s \in X, i \in Ids : r.senders[s].sess[i] > 0
  <2>1. q.frames = <<>>
    BY <1>1, <1>2
  <2> QED  BY <2>1 DEF Backed, q
<1>3. CASE \A s \in X, i \in Ids : ~(r.senders[s].sess[i] > 0)
  <2>1. q.frames = r.frames
    BY <1>1, <1>3
  <2>2. DOMAIN q.senders = DOMAIN r.senders \ X /\ \A s \in DOMAIN r.senders \ X : q.senders[s] = r.senders[s]
    BY <1>1, CutIs
  <2>3. ASSUME NEW k \in DOMAIN r.frames PROVE Backs(q.senders, k, r.frames[k])
    <3>1. Backs(r.senders, k, r.frames[k])
      BY DEF Backed
    <3>2. PICK m \in Messages : k = Key(m)
      BY <3>1 DEF Backs
    <3>3. k[1] \in DOMAIN r.senders /\ k[2] \in Ids
      BY <3>1, <3>2 DEF Backs, Key, Ids
    <3>4. Cardinality(r.frames[k].pdus) \in Nat /\ Cardinality(r.frames[k].pdus) # 0
      BY <3>1, FS_CardinalityType, FS_EmptySet DEF Backs
    <3>5. Size * Cardinality(r.frames[k].pdus) > 0
      BY <3>4, LimitAssumption
    <3>6. r.senders[k[1]].sess[k[2]] \in Nat
      BY <3>3 DEF Typed, SenderState
    <3>7. Size * Cardinality(r.frames[k].pdus) <= r.senders[k[1]].sess[k[2]]
      BY <3>1 DEF Backs
    <3>8. r.senders[k[1]].sess[k[2]] > 0
      BY <3>4, <3>5, <3>6, <3>7, LimitAssumption
    <3>9. k[1] \notin X
      BY <3>3, <3>8, <1>3
    <3>10. k[1] \in DOMAIN q.senders /\ q.senders[k[1]] = r.senders[k[1]]
      BY <2>2, <3>3, <3>9
    <3> QED  BY <3>1, <3>10 DEF Backs
  <2> QED  BY <2>1, <2>3 DEF Backed, q
<1> QED  BY <1>2, <1>3

(* An eviction of known senders preserves the invariant. *)
LEMMA EvictGood ==
  ASSUME NEW r, NEW X, X \subseteq DOMAIN r.senders, Good(r)
  PROVE  /\ Good(Evict(r, X))
         /\ DOMAIN Evict(r, X).senders = DOMAIN r.senders \ X
<1> DEFINE q == Evict(r, X)
<1>1. Typed(r) /\ Queued(r) /\ Limited(r) /\ Remembered(r) /\ (Uniform => Balanced(r)) /\ (AllReadable => Backed(r))
  BY DEF Good
<1>2. IsManager(q) /\ Cut(r, q, X) /\ q.payloads = r.payloads /\ q.delivered = r.delivered
  BY <1>1, EvictIs DEF Typed
<1>3. AllReadable => Backed(q)
  BY <1>1, EvictBacked
<1> HIDE DEF q
<1>4. Typed(q) /\ Queued(q)
  BY <1>1, <1>2, CutTyped, CutQueued
<1>5. Limited(q)
  BY <1>1, <1>2, CutLimited, LimitAssumption DEF Limited
<1>6. Remembered(q)
  BY <1>1, <1>2 DEF Remembered
<1>7. Uniform => Balanced(q)
  BY <1>1, <1>2, CutBalanced
<1>8. DOMAIN q.senders = DOMAIN r.senders \ X
  BY <1>2, CutIs
<1> QED  BY <1>3, <1>4, <1>5, <1>6, <1>7, <1>8 DEF Good, q

(* There is room for the sender: it has a place, or there is a free one. *)
Roomy(r, s) == s \in DOMAIN r.senders \/ Cardinality(DOMAIN r.senders) < MaxSenders

(* enforce_sender_limit preserves the invariant and makes room. *)
LEMMA EnforceSendersGood ==
  ASSUME NEW r, NEW s, Good(r)
  PROVE  Good(EnforceSenders(r, s)) /\ Roomy(EnforceSenders(r, s), s)
<1>1. Typed(r) /\ Queued(r) /\ Limited(r)
  BY DEF Good
<1>2. IsFiniteSet(DOMAIN r.senders)
  BY <1>1 DEF Typed
<1>3. Cardinality(DOMAIN r.senders) \in Nat /\ MaxSenders \in Nat \ {0}
  BY <1>2, FS_CardinalityType, LimitAssumption
<1>4. CASE s \in DOMAIN r.senders \/ ~(Cardinality(DOMAIN r.senders) >= MaxSenders)
  BY <1>3, <1>4 DEF EnforceSenders, Roomy
<1>5. CASE s \notin DOMAIN r.senders /\ Cardinality(DOMAIN r.senders) >= MaxSenders
  <2> DEFINE h == Head(r.lru)
             q == Evict(r, {h})
  <2>1. EnforceSenders(r, s) = q
    BY <1>5 DEF EnforceSenders
  <2>2. Cardinality(DOMAIN r.senders) # 0
    BY <1>3, <1>5
  <2>3. DOMAIN r.senders # {}
    BY <2>2, FS_EmptySet
  <2>4. PICK i \in 1 .. Len(r.lru) : TRUE
    BY <2>3, <1>1 DEF Queued
  <2>5. r.lru \in Seq(DOMAIN r.senders)
    BY <1>1 DEF Typed
  <2>6. h \in DOMAIN r.senders
    BY <2>4, <2>5
  <2> HIDE DEF h
  <2>7. Good(q)
    BY <2>6, EvictGood
  <2>8. Cut(r, q, {h})
    BY <1>1, EvictIs DEF Typed
  <2> HIDE DEF q
  <2>9. Cardinality(DOMAIN q.senders) < Cardinality(DOMAIN r.senders) /\ Cardinality(DOMAIN q.senders) \in Nat
    BY <2>6, <2>8, <1>1, CutLimited
  <2>10. Cardinality(DOMAIN q.senders) < MaxSenders
    BY <2>9, <1>1, <1>3 DEF Limited
  <2> QED  BY <2>1, <2>7, <2>10 DEF Roomy
<1> QED  BY <1>4, <1>5

(* A set of naturals has a least element. *)
LEMMA Least ==
  ASSUME NEW S \in SUBSET Nat, S # {}
  PROVE  Min(S) \in S
<1>2. IsWellFoundedOn(OpToRel(<, Nat), Nat)
  BY NatLessThanWellFounded
<1>4. PICK x \in S : \A y \in S : <<y, x>> \notin OpToRel(<, Nat)
  BY <1>2, WFMin, Zenon
<1>5. \A y \in S : y < x => <<y, x>> \in OpToRel(<, Nat)
  BY DEF OpToRel
<1>6. \A y \in S : ~(y < x)
  BY <1>4, <1>5, Zenon
<1>7. \E z \in S : \A y \in S : z <= y
  BY <1>6
<1> QED  BY <1>7 DEF Min

(* enforce_byte_limit preserves the invariant and leaves the sender room. *)
LEMMA EnforceBytesGood ==
  ASSUME NEW r, NEW s, NEW len, Good(r), Roomy(r, s)
  PROVE  Good(EnforceBytes(r, s, len)) /\ Roomy(EnforceBytes(r, s, len), s)
<1> DEFINE others == Kept(r.lru, {s})
           oldest(k) == {others[i] : i \in 1 .. k}
           room(k) == Monus(r.total, Octets(r.senders, oldest(k))) + len <= MaxBytes
           enough == {k \in 0 .. Len(others) : room(k)}
           k == IF enough = {} THEN Len(others) ELSE Min(enough)
           X == oldest(k)
           q == Evict(r, X)
           D == DOMAIN r.senders
<1>1. EnforceBytes(r, s, len) = q
  BY DEF EnforceBytes
<1>2. Typed(r)
  BY DEF Good
<1>3. r.lru \in Seq(D)
  BY <1>2 DEF Typed
<1>4. others \in Seq(D \ {s})
  <2> DEFINE u == r.lru
  <2> HIDE DEF u, D
  <2>1. u \in Seq(D)
    BY <1>3 DEF u
  <2>2. Kept(u, {s}) \in Seq(D \ {s})
    BY <2>1, KeptQueue
  <2> QED  BY <2>2 DEF u
<1> HIDE DEF others, room
<1>5. k \in 0 .. Len(others)
  <2>1. Len(others) \in Nat
    BY <1>4
  <2>2. enough \in SUBSET (0 .. Len(others)) /\ enough \in SUBSET Nat
    OBVIOUS
  <2> HIDE DEF enough
  <2>3. enough # {} => Min(enough) \in enough
    BY <2>2, Least
  <2>4. CASE enough = {}
    <3>1. k = Len(others)
      BY <2>4
    <3> QED  BY <2>1, <3>1
  <2>5. CASE enough # {}
    <3>1. k = Min(enough)
      BY <2>5
    <3> HIDE DEF k
    <3> QED  BY <2>2, <2>3, <2>5, <3>1
  <2> QED  BY <2>4, <2>5
<1> HIDE DEF k
<1>6. X \subseteq D \ {s}
  BY <1>4, <1>5
<1> HIDE DEF X
<1>7. Good(q) /\ DOMAIN q.senders = D \ X
  BY <1>6, EvictGood
<1>8. Cut(r, q, X)
  BY <1>2, EvictIs DEF Typed
<1> HIDE DEF q
<1>9. /\ Cardinality(DOMAIN q.senders) <= Cardinality(D)
      /\ Cardinality(DOMAIN q.senders) \in Nat /\ Cardinality(D) \in Nat
  BY <1>2, <1>8, CutLimited
<1>10. Roomy(q, s)
  BY <1>6, <1>7, <1>9, LimitAssumption DEF Roomy
<1> QED  BY <1>1, <1>7, <1>10

(* What the manager has room for once a packet of a sender is let in. *)
LEMMA AdmitGood ==
  ASSUME NEW s, NEW len, Good(Manager)
  PROVE  Good(Admit(s, len)) /\ Roomy(Admit(s, len), s)
  BY EnforceSendersGood, EnforceBytesGood DEF Admit

-----------------------------------------------------------------------------
(* A packet is charged.                                                    *)

(* The octets of all senders are those of any one and of the others. *)
LEMMA OctetsOfEach ==
  ASSUME NEW t, NEW D, IsFiniteSet(D), \A s \in D : t[s].bytes \in Nat
  PROVE  \A x \in D : Octets(t, D) = t[x].bytes + Octets(t, D \ {x})
<1>1. ASSUME NEW X \in SUBSET D PROVE \A x \in X : Octets(t, X) = t[x].bytes + Octets(t, X \ {x})
  BY OctetsOfOne
<1>2. D \in SUBSET D
  OBVIOUS
<1> QED  BY <1>1, <1>2

(* The octets of a table with a new entry. *)
LEMMA PutOctets ==
  ASSUME NEW t, IsFiniteSet(DOMAIN t), \A x \in DOMAIN t : t[x].bytes \in Nat, NEW s, NEW v, v.bytes \in Nat
  PROVE  /\ Octets(Put(t, s, v), DOMAIN Put(t, s, v)) = v.bytes + Octets(t, DOMAIN t \ {s})
         /\ s \in DOMAIN t => Octets(t, DOMAIN t) = t[s].bytes + Octets(t, DOMAIN t \ {s})
         /\ Octets(t, DOMAIN t \ {s}) \in Nat
<1> DEFINE D == DOMAIN t
           p == Put(t, s, v)
           E == D \cup {s}
<1>1. DOMAIN p = E /\ p[s] = v /\ \A y \in D : y # s => p[y] = t[y]
  BY DEF Put
<1> HIDE DEF p
<1>2. IsFiniteSet(E) /\ \A x \in E : p[x].bytes \in Nat
  BY <1>1, FS_AddElement
<1>3. Octets(p, E) = p[s].bytes + Octets(p, E \ {s})
  <2>1. E \in SUBSET E /\ s \in E
    OBVIOUS
  <2> HIDE DEF E
  <2>2. \A x \in E : Octets(p, E) = p[x].bytes + Octets(p, E \ {x})
    BY <1>2, OctetsOfEach
  <2> QED  BY <2>1, <2>2
<1>4. E \ {s} = D \ {s} /\ IsFiniteSet(D \ {s})
  BY FS_Difference
<1>5. Octets(p, D \ {s}) = Octets(t, D \ {s})
  BY <1>1, <1>4, OctetsSame
<1>6. D \in SUBSET D /\ D \ {s} \in SUBSET D
  OBVIOUS
<1>7. s \in D => Octets(t, D) = t[s].bytes + Octets(t, D \ {s})
  BY <1>6, OctetsOfOne
<1>8. Octets(t, D \ {s}) \in Nat
  BY <1>6, OctetsOfOne
<1> QED  BY <1>1, <1>3, <1>4, <1>5, <1>7, <1>8 DEF p

(* The sender's entry before and after a packet. *)
Old(r, s) == IF s \in DOMAIN r.senders THEN r.senders[s]
             ELSE [bytes |-> 0, sess |-> [i \in Ids |-> 0], age |-> 0]
Heard(r, s, id, len) ==
  [bytes |-> Old(r, s).bytes + len, age |-> 0,
   sess |-> [i \in Ids |-> IF i = id THEN Old(r, s).sess[i] + len ELSE Old(r, s).sess[i]]]

(* The manager q is r with a packet charged to s. *)
Charges(r, q, s, id, len) ==
  /\ q.senders = Put(r.senders, s, Heard(r, s, id, len))
  /\ q.lru = Append(Kept(r.lru, {s}), s) /\ q.total = r.total + len

(* What charging a packet does to each part of the manager. *)
LEMMA AccountIs ==
  ASSUME NEW r, NEW s, NEW id, NEW len, IsManager(r)
  PROVE  LET q == Account(r, s, id, len) IN
         /\ IsManager(q) /\ Charges(r, q, s, id, len)
         /\ q.payloads = r.payloads /\ q.delivered = r.delivered /\ q.frames = r.frames
<1> DEFINE a == Put(r.senders, s, Heard(r, s, id, len))
           b == Append(Kept(r.lru, {s}), s)
           c == r.total + len
           q == [senders |-> a, lru |-> b, total |-> c, sessions |-> r.sessions,
                 payloads |-> r.payloads, frames |-> r.frames, delivered |-> r.delivered]
<1>1. Account(r, s, id, len) = [r EXCEPT !.total = c, !.lru = b, !.senders = a]
  BY DEF Account, IsManager, Heard, Old
<1> HIDE DEF a, b, c
<1>2. Account(r, s, id, len) = q
  BY <1>1 DEF IsManager
<1>3. /\ IsManager(q) /\ q.senders = a /\ q.lru = b /\ q.total = c
      /\ q.payloads = r.payloads /\ q.delivered = r.delivered /\ q.frames = r.frames
  BY DEF IsManager
<1> QED  BY <1>2, <1>3 DEF Charges, a, b, c

(* Both entries have the shape of one. *)
LEMMA HeardTyped ==
  ASSUME NEW r, NEW s, NEW id, NEW len \in Nat, Typed(r)
  PROVE  Old(r, s) \in SenderState /\ Heard(r, s, id, len) \in SenderState
<1>1. 0 \in Ages
  BY LimitAssumption DEF Ages
<1>2. Old(r, s) \in SenderState
  BY <1>1 DEF Old, SenderState, Typed
<1>3. Old(r, s).bytes \in Nat /\ Old(r, s).sess \in [Ids -> Nat]
  BY <1>2 DEF SenderState
<1>4. Heard(r, s, id, len) \in SenderState
  BY <1>1, <1>3 DEF Heard, SenderState
<1> QED  BY <1>2, <1>4

(* The table after a charge. *)
LEMMA ChargesIs ==
  ASSUME NEW r, NEW q, NEW s, NEW id, NEW len, Charges(r, q, s, id, len)
  PROVE  /\ DOMAIN q.senders = DOMAIN r.senders \cup {s} /\ q.senders[s] = Heard(r, s, id, len)
         /\ \A y \in DOMAIN r.senders : y # s => q.senders[y] = r.senders[y]
<1> DEFINE f == r.senders
           g == q.senders
           v == Heard(r, s, id, len)
<1>1. g = Put(f, s, v)
  BY DEF Charges
<1> HIDE DEF f, g, v
<1>2. DOMAIN g = DOMAIN f \cup {s} /\ g[s] = v /\ \A y \in DOMAIN f : y # s => g[y] = f[y]
  BY <1>1 DEF Put
<1> QED  BY <1>2 DEF f, g, v

(* A charge leaves a table and a queue. *)
LEMMA ChargesTyped ==
  ASSUME NEW r, NEW q, NEW s, NEW id, NEW len \in Nat, Typed(r), IsManager(q), Charges(r, q, s, id, len)
  PROVE  Typed(q)
<1>1. /\ DOMAIN q.senders = DOMAIN r.senders \cup {s} /\ q.senders[s] = Heard(r, s, id, len)
      /\ \A y \in DOMAIN r.senders : y # s => q.senders[y] = r.senders[y]
  BY ChargesIs
<1>2. IsFiniteSet(DOMAIN q.senders)
  BY <1>1, FS_AddElement DEF Typed
<1>3. \A y \in DOMAIN q.senders : q.senders[y] \in SenderState
  BY <1>1, HeardTyped DEF Typed
<1> DEFINE u == r.lru
           D == DOMAIN r.senders
<1>4. u \in Seq(D) /\ q.lru = Append(Kept(u, {s}), s)
  BY DEF Typed, Charges
<1> HIDE DEF u, D
<1>5. Kept(u, {s}) \in Seq(D \ {s})
  BY <1>4, KeptQueue
<1>6. q.lru \in Seq(D \cup {s})
  BY <1>4, <1>5
<1> QED  BY <1>1, <1>2, <1>3, <1>6 DEF Typed, D

(* The sender heard goes to the end, where the age is least. *)
LEMMA ChargesQueued ==
  ASSUME NEW r, NEW q, NEW s, NEW id, NEW len \in Nat, Typed(r), Queued(r), Charges(r, q, s, id, len)
  PROVE  Queued(q)
<1>1. /\ DOMAIN q.senders = DOMAIN r.senders \cup {s} /\ q.senders[s] = Heard(r, s, id, len)
      /\ \A y \in DOMAIN r.senders : y # s => q.senders[y] = r.senders[y]
  BY ChargesIs
<1> DEFINE u == r.lru
           D == DOMAIN r.senders
           p == Kept(u, {s})
           n == Len(p) + 1
           v == q.lru
<1>2. u \in Seq(D) /\ v = Append(p, s)
  BY DEF Typed, Charges
<1>3. \A y \in D : r.senders[y].age \in Ages
  BY DEF Typed, SenderState
<1>4. q.senders[s].age = 0
  BY <1>1 DEF Heard
<1> HIDE DEF u, D, p, v
<1>5. /\ p \in Seq(D \ {s})
      /\ \A i \in 1 .. Len(u) : u[i] \notin {s} => \E j \in 1 .. Len(p) : p[j] = u[i]
      /\ \A j, k \in 1 .. Len(p) : j < k => \E h, i \in 1 .. Len(u) : h < i /\ p[j] = u[h] /\ p[k] = u[i]
  <2> DEFINE X == {s}
  <2> HIDE DEF X
  <2>1. /\ Kept(u, X) \in Seq(D \ X)
        /\ \A i \in 1 .. Len(u) : u[i] \notin X => \E j \in 1 .. Len(Kept(u, X)) : Kept(u, X)[j] = u[i]
        /\ \A j, k \in 1 .. Len(Kept(u, X)) : j < k =>
             \E h, i \in 1 .. Len(u) : h < i /\ Kept(u, X)[j] = u[h] /\ Kept(u, X)[k] = u[i]
    BY <1>2, KeptQueue
  <2> QED  BY <2>1 DEF p, X
<1>6. /\ Len(p) \in Nat /\ Len(v) = n /\ v[n] = s /\ n \in 1 .. Len(v)
      /\ \A j \in 1 .. Len(v) : j # n => j \in 1 .. Len(p)
      /\ \A j \in 1 .. Len(p) : j \in 1 .. Len(v) /\ v[j] = p[j] /\ p[j] \in D /\ p[j] # s /\ j < n
  BY <1>2, <1>5
<1> HIDE DEF n
<1>7. ASSUME NEW y \in DOMAIN q.senders PROVE \E j \in 1 .. Len(v) : v[j] = y
  <2>1. CASE y = s
    BY <2>1, <1>6
  <2>2. CASE y # s
    <3>1. y \in D
      BY <2>2, <1>1 DEF D
    <3>2. PICK i \in 1 .. Len(u) : u[i] = y
      BY <3>1 DEF Queued, u, D
    <3>3. PICK j \in 1 .. Len(p) : p[j] = y
      BY <2>2, <3>2, <1>5
    <3> QED  BY <3>3, <1>6
  <2> QED  BY <2>1, <2>2
<1>8. ASSUME NEW j \in 1 .. Len(v), NEW k \in 1 .. Len(v), j < k
      PROVE  v[j] # v[k] /\ q.senders[v[j]].age >= q.senders[v[k]].age
  <2>1. j \in 1 .. Len(p)
    BY <1>6, <1>8
  <2>2. v[j] = p[j] /\ p[j] \in D /\ p[j] # s /\ q.senders[p[j]] = r.senders[p[j]]
    BY <2>1, <1>1, <1>6 DEF D
  <2>3. CASE k = n
    <3>1. r.senders[p[j]].age >= 0
      BY <2>2, <1>3, LimitAssumption DEF Ages
    <3> QED  BY <2>2, <2>3, <3>1, <1>4, <1>6
  <2>4. CASE k # n
    <3>1. k \in 1 .. Len(p)
      BY <2>4, <1>6
    <3>2. v[k] = p[k] /\ q.senders[p[k]] = r.senders[p[k]]
      BY <3>1, <1>1, <1>6 DEF D
    <3>3. PICK h \in 1 .. Len(u), i \in 1 .. Len(u) : h < i /\ p[j] = u[h] /\ p[k] = u[i]
      BY <2>1, <3>1, <1>5, <1>8
    <3>4. u[h] # u[i] /\ r.senders[u[h]].age >= r.senders[u[i]].age
      BY <3>3 DEF Queued, u
    <3> QED  BY <2>2, <3>2, <3>3, <3>4
  <2> QED  BY <2>3, <2>4
<1> QED  BY <1>7, <1>8 DEF Queued, v

(* A sender there is room for keeps the table within its limit. *)
LEMMA ChargesLimited ==
  ASSUME NEW r, NEW q, NEW s, NEW id, NEW len, Typed(r), Limited(r), Roomy(r, s), Charges(r, q, s, id, len)
  PROVE  Limited(q)
<1> DEFINE D == DOMAIN r.senders
<1>1. DOMAIN q.senders = D \cup {s}
  BY ChargesIs
<1>2. IsFiniteSet(D)
  BY DEF Typed
<1>3. Cardinality(D) \in Nat /\ MaxSenders \in Nat
  BY <1>2, FS_CardinalityType, LimitAssumption
<1>4. CASE s \in D
  <2>1. D \cup {s} = D
    BY <1>4
  <2> QED  BY <1>1, <2>1 DEF Limited
<1>5. CASE s \notin D
  <2>1. Cardinality(D \cup {s}) = Cardinality(D) + 1
    BY <1>2, <1>5, FS_AddElement
  <2>2. Cardinality(D) < MaxSenders
    BY <1>5 DEF Roomy
  <2> QED  BY <1>1, <1>3, <2>1, <2>2 DEF Limited
<1> QED  BY <1>4, <1>5

(* No message has the id None. *)
LEMMA NoIdIsNone == NoId \notin Ids
  BY MessageAssumption DEF NoId, Ids

(* A packet that fits is added to the total, to the octets of its sender   *)
(* and, if its header was read, to those of its message.                   *)
LEMMA ChargesBalanced ==
  ASSUME NEW r, NEW q, NEW s, NEW id, NEW len \in Nat, Typed(r), Balanced(r), Fits(r, len), Uniform,
         id \in Ids => \E m \in Messages : Source[m] = s /\ Readable[m], Charges(r, q, s, id, len)
  PROVE  Balanced(q)
<1> DEFINE D == DOMAIN r.senders
           o == Old(r, s)
           v == Heard(r, s, id, len)
<1>1. /\ DOMAIN q.senders = D \cup {s} /\ q.senders[s] = v
      /\ \A y \in D : y # s => q.senders[y] = r.senders[y]
  BY ChargesIs
<1>2. IsFiniteSet(D) /\ \A y \in D : r.senders[y].bytes \in Nat
  BY DEF Typed, SenderState
<1>3. o \in SenderState /\ v \in SenderState
  BY HeardTyped
<1>4. o.bytes \in Nat /\ o.sess \in [Ids -> Nat] /\ v.bytes \in Nat /\ v.sess \in [Ids -> Nat]
  BY <1>3 DEF SenderState
<1>5. v.bytes = o.bytes + len /\ \A i \in Ids : v.sess[i] = IF i = id THEN o.sess[i] + len ELSE o.sess[i]
  BY DEF Heard
<1>6. /\ s \in D => o = r.senders[s]
      /\ s \notin D => o.bytes = 0 /\ o.sess = [i \in Ids |-> 0]
  BY DEF Old
<1> HIDE DEF o, v
<1>7. q.total = Octets(q.senders, DOMAIN q.senders) /\ q.total <= MaxBytes
  <2> DEFINE t == r.senders
             rest == Octets(t, D \ {s})
  <2>1. /\ Octets(Put(t, s, v), DOMAIN Put(t, s, v)) = v.bytes + rest
        /\ s \in D => Octets(t, D) = t[s].bytes + rest
        /\ rest \in Nat
    BY <1>2, <1>4, PutOctets
  <2>2. q.senders = Put(t, s, v) /\ q.total = r.total + len
    BY DEF Charges, v
  <2>3. r.total = Octets(t, D)
    BY DEF Balanced
  <2>4. s \notin D => D \ {s} = D
    OBVIOUS
  <2>5. Octets(q.senders, DOMAIN q.senders) = v.bytes + rest
    BY <2>1, <2>2
  <2>6. s \notin D => rest = Octets(t, D)
    BY <2>4
  <2> HIDE DEF rest, t
  <2>8. r.total = o.bytes + rest
    <3>1. CASE s \in D
      BY <3>1, <1>6, <2>1, <2>3 DEF t
    <3>2. CASE s \notin D
      BY <3>2, <1>6, <2>1, <2>3, <2>6
    <3> QED  BY <3>1, <3>2
  <2>9. q.total = v.bytes + rest
    BY <2>1, <2>2, <2>8, <1>4, <1>5
  <2>10. q.total <= MaxBytes
    BY <2>2 DEF Fits
  <2> QED  BY <2>5, <2>9, <2>10
<1>8. Charged(v.sess) <= v.bytes
  <2>1. Charged(o.sess) <= o.bytes
    <3>1. CASE s \in D
      BY <3>1, <1>6 DEF Balanced
    <3>2. CASE s \notin D
      BY <3>2, <1>6, ChargedNothing
    <3> QED  BY <3>1, <3>2
  <2>2. Charged(o.sess) \in Nat /\ Charged(v.sess) \in Nat
    BY <1>4, ChargedHolds
  <2>3. CASE id \in Ids
    <3>1. \A j \in Ids : j # id => o.sess[j] = v.sess[j]
      BY <1>5
    <3>2. Charged(v.sess) + o.sess[id] = Charged(o.sess) + v.sess[id]
      BY <1>4, <2>3, <3>1, ChargedChange
    <3>3. v.sess[id] = o.sess[id] + len /\ o.sess[id] \in Nat
      BY <1>4, <1>5, <2>3
    <3>4. Charged(v.sess) = Charged(o.sess) + len
      BY <3>2, <3>3, <2>2
    <3> QED  BY <3>4, <2>1, <2>2, <1>4, <1>5
  <2>4. CASE id \notin Ids
    <3>1. \A i \in Ids : v.sess[i] = o.sess[i]
      BY <2>4, <1>5
    <3>2. v.sess = o.sess
      BY <3>1, <1>4
    <3> QED  BY <3>2, <2>1, <2>2, <1>4, <1>5
  <2> QED  BY <2>3, <2>4
<1>9. \A y \in DOMAIN q.senders : Charged(q.senders[y].sess) <= q.senders[y].bytes
  <2>1. \A y \in D : Charged(r.senders[y].sess) <= r.senders[y].bytes
    BY DEF Balanced
  <2> QED  BY <1>1, <1>8, <2>1
<1>10. ASSUME NEW m \in Messages, ~Readable[m], Source[m] \in DOMAIN q.senders
       PROVE  \A i \in Ids : q.senders[Source[m]].sess[i] = 0
  <2>1. CASE Source[m] = s
    <3>1. id \notin Ids
      BY <2>1, <1>10 DEF Uniform
    <3>2. \A i \in Ids : v.sess[i] = o.sess[i]
      BY <3>1, <1>5
    <3>3. \A i \in Ids : o.sess[i] = 0
      BY <2>1, <1>6, <1>10 DEF Balanced
    <3> QED  BY <2>1, <3>2, <3>3, <1>1
  <2>2. CASE Source[m] # s
    BY <2>2, <1>1, <1>10 DEF Balanced
  <2> QED  BY <2>1, <2>2
<1> QED  BY <1>7, <1>9, <1>10 DEF Balanced

(* A message was charged at least one PDU just now. *)
Paid(r, m) ==
  /\ Source[m] \in DOMAIN r.senders /\ r.senders[Source[m]].age = 0
  /\ Size <= r.senders[Source[m]].sess[Id[m]]

(* A message was charged one PDU more than the deframer holds of it. *)
Ahead(r, m) ==
  Key(m) \in DOMAIN r.frames =>
    Size * Cardinality(r.frames[Key(m)].pdus) + Size <= r.senders[Source[m]].sess[Id[m]]

(* A charge takes nothing from what is held. *)
LEMMA ChargesBacked ==
  ASSUME NEW r, NEW q, NEW s, NEW id, NEW len \in Nat, Typed(r), Backed(r), Charges(r, q, s, id, len),
         q.frames = r.frames
  PROVE  Backed(q)
<1> DEFINE D == DOMAIN r.senders
           o == Old(r, s)
           v == Heard(r, s, id, len)
<1>1. /\ DOMAIN q.senders = D \cup {s} /\ q.senders[s] = v
      /\ \A y \in D : y # s => q.senders[y] = r.senders[y]
  BY ChargesIs
<1>3. o \in SenderState
  BY HeardTyped
<1>4. o.sess \in [Ids -> Nat]
  BY <1>3 DEF SenderState
<1>5. v.age = 0 /\ \A i \in Ids : v.sess[i] = IF i = id THEN o.sess[i] + len ELSE o.sess[i]
  BY DEF Heard
<1>6. s \in D => o = r.senders[s]
  BY DEF Old
<1> HIDE DEF o, v
<1>7. ASSUME NEW k \in DOMAIN r.frames PROVE Backs(q.senders, k, r.frames[k])
  <2> DEFINE f == r.frames[k]
  <2>1. Backs(r.senders, k, f)
    BY DEF Backed
  <2>2. k[1] \in D /\ k[2] \in Ids
    BY <2>1 DEF Backs, Key, Ids
  <2> HIDE DEF f
  <2>3. CASE k[1] # s
    <3>1. k[1] \in DOMAIN q.senders /\ q.senders[k[1]] = r.senders[k[1]]
      BY <2>2, <2>3, <1>1
    <3> QED  BY <2>1, <3>1 DEF Backs, f
  <2>4. CASE k[1] = s
    <3>1. k[1] \in DOMAIN q.senders /\ q.senders[k[1]] = v /\ r.senders[k[1]] = o
      BY <2>2, <2>4, <1>1, <1>6
    <3>2. o.sess[k[2]] \in Nat /\ v.sess[k[2]] \in Nat /\ o.sess[k[2]] <= v.sess[k[2]]
      BY <2>2, <1>4, <1>5
    <3>3. IsFiniteSet(f.pdus) /\ Size * Cardinality(f.pdus) <= o.sess[k[2]] /\ f.age \in Ages
      BY <2>1, <3>1 DEF Backs
    <3>4. Cardinality(f.pdus) \in Nat
      BY <3>3, FS_CardinalityType
    <3>5. Size * Cardinality(f.pdus) \in Nat
      BY <3>4, LimitAssumption
    <3>6. Size * Cardinality(f.pdus) <= v.sess[k[2]]
      BY <3>2, <3>3, <3>5
    <3>7. v.age <= f.age
      BY <3>3, <1>5, LimitAssumption DEF Ages
    <3> QED  BY <2>1, <3>1, <3>6, <3>7 DEF Backs, f
  <2> QED  BY <2>3, <2>4
<1> QED  BY <1>7 DEF Backed

(* A packet that fits is charged, and the invariant preserved. *)
LEMMA AccountGood ==
  ASSUME NEW r, NEW s, NEW id, NEW len \in Nat, Good(r), Roomy(r, s), Fits(r, len),
         id \in Ids => \E m \in Messages : Source[m] = s /\ Readable[m]
  PROVE  Good(Account(r, s, id, len))
<1> DEFINE q == Account(r, s, id, len)
<1>1. Typed(r) /\ Queued(r) /\ Limited(r) /\ Remembered(r) /\ (Uniform => Balanced(r)) /\ (AllReadable => Backed(r))
  BY DEF Good
<1>2. /\ IsManager(q) /\ Charges(r, q, s, id, len)
      /\ q.payloads = r.payloads /\ q.delivered = r.delivered /\ q.frames = r.frames
  BY <1>1, AccountIs DEF Typed
<1> HIDE DEF q
<1>3. Typed(q)
  BY <1>1, <1>2, ChargesTyped
<1>4. Queued(q)
  BY <1>1, <1>2, ChargesQueued
<1>5. Limited(q)
  BY <1>1, <1>2, ChargesLimited
<1>6. Remembered(q)
  BY <1>1, <1>2 DEF Remembered
<1>7. Uniform => Balanced(q)
  BY <1>1, <1>2, ChargesBalanced
<1>8. AllReadable => Backed(q)
  BY <1>1, <1>2, ChargesBacked
<1> QED  BY <1>3, <1>4, <1>5, <1>6, <1>7, <1>8 DEF Good, q

(* A PDU whose header was read is charged to its message. *)
LEMMA AccountPaid ==
  ASSUME NEW r, NEW m \in Messages, Typed(r)
  PROVE  LET q == Account(r, Source[m], Id[m], Size) IN Paid(q, m) /\ (Backed(r) => Ahead(q, m))
<1> DEFINE s == Source[m]
           q == Account(r, s, Id[m], Size)
           o == Old(r, s)
           v == Heard(r, s, Id[m], Size)
<1>0. Id[m] \in Ids /\ Size \in Nat
  BY LimitAssumption DEF Ids
<1>1. Charges(r, q, s, Id[m], Size) /\ q.frames = r.frames
  BY AccountIs DEF Typed
<1> HIDE DEF q
<1>2. s \in DOMAIN q.senders /\ q.senders[s] = v
  BY <1>1, ChargesIs
<1>3. o \in SenderState
  BY <1>0, HeardTyped
<1>4. o.sess \in [Ids -> Nat]
  BY <1>3 DEF SenderState
<1>5. v.age = 0 /\ v.sess[Id[m]] = o.sess[Id[m]] + Size
  BY <1>0 DEF Heard
<1>6. s \in DOMAIN r.senders => o = r.senders[s]
  BY DEF Old
<1> HIDE DEF o, v
<1>7. Paid(q, m)
  BY <1>0, <1>2, <1>4, <1>5 DEF Paid
<1>8. ASSUME Backed(r), Key(m) \in DOMAIN r.frames
      PROVE  Size * Cardinality(r.frames[Key(m)].pdus) + Size <= q.senders[s].sess[Id[m]]
  <2> DEFINE f == r.frames[Key(m)]
  <2>1. Backs(r.senders, Key(m), f)
    BY <1>8 DEF Backed
  <2>2. Key(m)[1] = s /\ Key(m)[2] = Id[m]
    BY DEF Key
  <2> HIDE DEF f
  <2>3. s \in DOMAIN r.senders /\ IsFiniteSet(f.pdus) /\ Size * Cardinality(f.pdus) <= o.sess[Id[m]]
    BY <2>1, <2>2, <1>6 DEF Backs
  <2>4. Cardinality(f.pdus) \in Nat
    BY <2>3, FS_CardinalityType
  <2>5. Size * Cardinality(f.pdus) \in Nat /\ o.sess[Id[m]] \in Nat
    BY <2>4, <1>0, <1>4
  <2> QED  BY <2>3, <2>5, <1>0, <1>2, <1>5 DEF f
<1> QED  BY <1>1, <1>7, <1>8 DEF Ahead, q

-----------------------------------------------------------------------------
(* The deframer takes a PDU.                                               *)

(* What the deframer holds of a message once it has PDU i. *)
HeldOf(r, m, i) == (IF Key(m) \in DOMAIN r.frames THEN r.frames[Key(m)].pdus ELSE {}) \cup {<<m, i>>}

(* d is what the deframer makes of r with PDU i of m. *)
Takes(r, d, m, i) ==
  /\ IsManager(d.r) /\ d.r.senders = r.senders /\ d.r.lru = r.lru /\ d.r.total = r.total
  /\ d.r.payloads = r.payloads /\ d.r.delivered = r.delivered
  /\ d.done => d.r.frames = Drop(r.frames, {Key(m)})
  /\ ~d.done => d.r.frames = Put(r.frames, Key(m), [pdus |-> HeldOf(r, m, i), age |-> 0])

(* What taking a PDU does to each part of the manager. *)
LEMMA DeframeIs ==
  ASSUME NEW r, NEW m, NEW i, IsManager(r)
  PROVE  Takes(r, Deframe(r, m, i), m, i)
<1> DEFINE d == Deframe(r, m, i)
           a == IF d.done THEN Drop(r.frames, {Key(m)}) ELSE Put(r.frames, Key(m), [pdus |-> HeldOf(r, m, i), age |-> 0])
           q == [senders |-> r.senders, lru |-> r.lru, total |-> r.total, sessions |-> r.sessions,
                 payloads |-> r.payloads, frames |-> a, delivered |-> r.delivered]
           done == \A j \in 1 .. Pdus[m] : <<m, j>> \in HeldOf(r, m, i)
<1>1. d = [done |-> done,
           r |-> [r EXCEPT !.frames = IF done THEN Drop(r.frames, {Key(m)})
                                      ELSE Put(r.frames, Key(m), [pdus |-> HeldOf(r, m, i), age |-> 0])]]
  BY DEF Deframe, HeldOf, IsManager
<1> HIDE DEF d, done
<1>2. d.done = done
  BY <1>1
<1>3. d.r = [r EXCEPT !.frames = a]
  BY <1>1, <1>2
<1> HIDE DEF a
<1>4. d.r = q
  BY <1>3 DEF IsManager
<1>5. /\ IsManager(q) /\ q.senders = r.senders /\ q.lru = r.lru /\ q.total = r.total
      /\ q.payloads = r.payloads /\ q.delivered = r.delivered /\ q.frames = a
  BY DEF IsManager
<1> QED  BY <1>4, <1>5 DEF Takes, a, d

(* One more PDU is at most one more size. *)
LEMMA OneMore ==
  ASSUME NEW a \in Nat, NEW c \in Nat, NEW z \in Nat, a <= c + 1
  PROVE  z * a <= z * c + z
<1>1. PICK e \in Nat : c + 1 = a + e
  <2>1. c + 1 - a \in Nat /\ c + 1 = a + (c + 1 - a)
    OBVIOUS
  <2> QED  BY <2>1
<1>2. z * (c + 1) = z * c + z /\ z * c \in Nat /\ z * a \in Nat /\ z * e \in Nat
  OBVIOUS
<1>3. z * (a + e) = z * a + z * e
  OBVIOUS
<1>4. z * c + z = z * a + z * e
  BY <1>1, <1>2, <1>3
<1> QED  BY <1>2, <1>4

(* What the deframer holds then is charged. *)
LEMMA DeframeBacked ==
  ASSUME NEW r, NEW m \in Messages, NEW i, Typed(r), Backed(r), Paid(r, m), Ahead(r, m)
  PROVE  Backed(Deframe(r, m, i).r)
<1> DEFINE d == Deframe(r, m, i)
           q == d.r
           k == Key(m)
           h == HeldOf(r, m, i)
           v == [pdus |-> h, age |-> 0]
<1>1. /\ q.senders = r.senders
      /\ d.done => q.frames = Drop(r.frames, {k})
      /\ ~d.done => q.frames = Put(r.frames, k, v)
  <2>1. Takes(r, d, m, i)
    BY DeframeIs DEF Typed
  <2> HIDE DEF d
  <2> QED  BY <2>1 DEF Takes
<1> HIDE DEF d
<1>2. Backs(r.senders, k, v)
  <2>1. k[1] = Source[m] /\ k[2] = Id[m]
    BY DEF Key
  <2> DEFINE old == IF k \in DOMAIN r.frames THEN r.frames[k].pdus ELSE {}
             c == Cardinality(old)
             w == r.senders[Source[m]].sess[Id[m]]
  <2>2. IsFiniteSet(old)
    BY FS_EmptySet DEF Backed, Backs
  <2>3. h = old \cup {<<m, i>>}
    BY DEF HeldOf
  <2>4. c \in Nat /\ Cardinality({}) = 0
    BY <2>2, FS_CardinalityType, FS_EmptySet
  <2>5. Size \in Nat /\ w \in Nat /\ Size <= w
    <3>1. Id[m] \in Ids
      BY DEF Ids
    <3> QED  BY <3>1, LimitAssumption DEF Paid, Typed, SenderState
  <2>6. Size * c + Size <= w
    <3>1. CASE k \in DOMAIN r.frames
      BY <3>1 DEF Ahead
    <3>2. CASE k \notin DOMAIN r.frames
      <4>1. c = 0
        BY <2>4, <3>2
      <4> HIDE DEF c, w
      <4> QED  BY <4>1, <2>5
    <3> QED  BY <3>1, <3>2
  <2> HIDE DEF old, h
  <2>7. IsFiniteSet(h) /\ Cardinality(h) \in Nat /\ Cardinality(h) <= c + 1
    <3> DEFINE x == <<m, i>>
    <3> HIDE DEF x
    <3>1. IsFiniteSet(h) /\ (Cardinality(h) = c \/ Cardinality(h) = c + 1)
      BY <2>2, <2>3, FS_AddElement DEF x
    <3>2. Cardinality(h) \in Nat
      BY <3>1, FS_CardinalityType
    <3> HIDE DEF c
    <3> QED  BY <3>1, <3>2, <2>4
  <2>8. Size * Cardinality(h) <= Size * c + Size
    BY <2>4, <2>5, <2>7, OneMore
  <2>9. Size * Cardinality(h) \in Nat /\ Size * c \in Nat
    BY <2>4, <2>5, <2>7
  <2>10. Size * Cardinality(h) <= w
    BY <2>5, <2>6, <2>8, <2>9
  <2>11. h # {} /\ 0 \in Ages
    <3>1. <<m, i>> \in h
      BY <2>3
    <3>2. 0 \in Ages
      BY LimitAssumption DEF Ages
    <3> QED  BY <3>1, <3>2
  <2>12. v.pdus = h /\ v.age = 0
    OBVIOUS
  <2> HIDE DEF v
  <2> QED  BY <2>1, <2>7, <2>10, <2>11, <2>12 DEF Backs, Paid
<1> HIDE DEF v
<1>3. \A x \in DOMAIN r.frames : r.frames[x] = [pdus |-> r.frames[x].pdus, age |-> r.frames[x].age] /\ Backs(r.senders, x, r.frames[x])
  BY DEF Backed
<1>6. v = [pdus |-> v.pdus, age |-> v.age]
  BY DEF v
<1> DEFINE f == r.frames
           g == q.frames
<1>4. \A x \in DOMAIN g : (g[x] = v /\ x = k) \/ (x \in DOMAIN f /\ g[x] = f[x])
  <2>1. g = Drop(f, {k}) \/ g = Put(f, k, v)
    BY <1>1
  <2> HIDE DEF f, g, k
  <2> QED  BY <2>1 DEF Drop, Put
<1>5. ASSUME NEW x \in DOMAIN g PROVE g[x] = [pdus |-> g[x].pdus, age |-> g[x].age] /\ Backs(r.senders, x, g[x])
  <2>1. CASE g[x] = v /\ x = k
    <3> HIDE DEF g, k
    <3> QED  BY <2>1, <1>2, <1>6
  <2>2. CASE x \in DOMAIN f /\ g[x] = f[x]
    <3> HIDE DEF g
    <3> QED  BY <2>2, <1>3
  <2> QED  BY <1>4, <2>1, <2>2
<1> QED  BY <1>1, <1>5 DEF Backed, d

(* Taking a PDU that was charged preserves the invariant. *)
LEMMA DeframeGood ==
  ASSUME NEW r, NEW m \in Messages, NEW i, Good(r), AllReadable => Paid(r, m) /\ Ahead(r, m)
  PROVE  LET d == Deframe(r, m, i) IN
         /\ Good(d.r) /\ d.r.senders = r.senders
         /\ d.done => Key(m) \notin DOMAIN d.r.frames
<1> DEFINE d == Deframe(r, m, i)
           q == d.r
<1>1. Typed(r) /\ Queued(r) /\ Limited(r) /\ Remembered(r) /\ (Uniform => Balanced(r)) /\ (AllReadable => Backed(r))
  BY DEF Good
<1>2. /\ IsManager(q) /\ q.senders = r.senders /\ q.lru = r.lru /\ q.total = r.total
      /\ q.payloads = r.payloads /\ q.delivered = r.delivered
      /\ d.done => q.frames = Drop(r.frames, {Key(m)})
  <2>1. Takes(r, d, m, i)
    BY <1>1, DeframeIs DEF Typed
  <2> HIDE DEF d
  <2> QED  BY <2>1 DEF Takes
<1>3. AllReadable => Backed(q)
  BY <1>1, DeframeBacked
<1> HIDE DEF d
<1>4. Typed(q) /\ Queued(q) /\ Limited(q) /\ Remembered(q)
  BY <1>1, <1>2 DEF Typed, Queued, Limited, Remembered
<1>5. Uniform => Balanced(q)
  BY <1>1, <1>2 DEF Balanced
<1>6. d.done => Key(m) \notin DOMAIN q.frames
  <2> DEFINE f == r.frames
             g == q.frames
  <2>1. d.done => g = Drop(f, {Key(m)})
    BY <1>2
  <2> HIDE DEF f, g
  <2>2. d.done => Key(m) \notin DOMAIN g
    BY <2>1 DEF Drop
  <2> QED  BY <2>2 DEF g
<1> QED  BY <1>2, <1>3, <1>4, <1>5, <1>6 DEF Good, d

-----------------------------------------------------------------------------
(* A message is complete.                                                  *)

(* The octets given back, and what the sender is left with. *)
Freed(r, m) == LET own == r.senders[Source[m]]
               IN IF own.sess[Id[m]] > 0 THEN own.sess[Id[m]] ELSE own.bytes
Left(r, m) == LET own == r.senders[Source[m]]
              IN [bytes |-> Monus(own.bytes, Freed(r, m)), sess |-> [own.sess EXCEPT ![Id[m]] = 0], age |-> own.age]

(* The manager q is r with message m released. *)
Releases(r, q, m) ==
  /\ q.lru = r.lru /\ q.frames = r.frames
  /\ Source[m] \in DOMAIN r.senders =>
       q.senders = Put(r.senders, Source[m], Left(r, m)) /\ q.total = Monus(r.total, Freed(r, m))
  /\ Source[m] \notin DOMAIN r.senders => q.senders = r.senders /\ q.total = r.total

(* The manager q is r with message m released, remembered and dispatched. *)
Completes(r, q, m) ==
  /\ IsManager(q) /\ Releases(r, q, m)
  /\ q.payloads = Put(r.payloads, Content(m), 0) /\ q.delivered = Dispatch(r.delivered, Content(m))

(* What a complete message does to each part of the manager. *)
LEMMA CompleteIs ==
  ASSUME NEW r, NEW m \in Messages, Typed(r), Content(m) \notin DOMAIN r.payloads
  PROVE  Completes(r, Complete(r, m), m)
<1> DEFINE s == Source[m]
           p == Release(r, m)
           q == Complete(r, m)
           a == IF s \in DOMAIN r.senders THEN Put(r.senders, s, Left(r, m)) ELSE r.senders
           b == IF s \in DOMAIN r.senders THEN Monus(r.total, Freed(r, m)) ELSE r.total
           c == IF s \in DOMAIN r.senders THEN Put(r.sessions, Key(m), 0) ELSE r.sessions
           P == Put(r.payloads, Content(m), 0)
           E == Dispatch(r.delivered, Content(m))
<1>0. IsManager(r)
  BY DEF Typed
<1>1. q = [p EXCEPT !.payloads = Put(p.payloads, Content(m), 0), !.delivered = Dispatch(p.delivered, Content(m))]
  BY DEF Complete
<1>2. p = [senders |-> a, lru |-> r.lru, total |-> b, sessions |-> c,
           payloads |-> r.payloads, frames |-> r.frames, delivered |-> r.delivered]
  <2>1. CASE s \notin DOMAIN r.senders
    <3>1. p = r /\ a = r.senders /\ b = r.total /\ c = r.sessions
      BY <2>1 DEF Release
    <3> HIDE DEF p, a, b, c
    <3> QED  BY <3>1, <1>0 DEF IsManager
  <2>2. CASE s \in DOMAIN r.senders
    <3> DEFINE own == r.senders[s]
               freed == IF own.sess[Id[m]] > 0 THEN own.sess[Id[m]] ELSE own.bytes
               left == [own EXCEPT !.bytes = Monus(own.bytes, freed), !.sess = [own.sess EXCEPT ![Id[m]] = 0]]
               A == Put(r.senders, s, left)
               B == Monus(r.total, freed)
               C == Put(r.sessions, Key(m), 0)
    <3>1. p = [r EXCEPT !.senders = A, !.total = B, !.sessions = C]
      BY <2>2, <1>0 DEF Release, IsManager
    <3>2. own \in SenderState
      BY <2>2 DEF Typed
    <3>3. freed = Freed(r, m)
      BY DEF Freed
    <3>4. left = Left(r, m)
      <4> HIDE DEF freed, own
      <4>1. own = [bytes |-> own.bytes, sess |-> own.sess, age |-> own.age]
        BY <3>2 DEF SenderState
      <4> DEFINE x == Monus(own.bytes, freed)
                 y == [own.sess EXCEPT ![Id[m]] = 0]
      <4>2. left = [own EXCEPT !.bytes = x, !.sess = y]
        OBVIOUS
      <4> HIDE DEF x, y, left
      <4>3. left = [bytes |-> x, sess |-> y, age |-> own.age]
        BY <4>1, <4>2
      <4> QED  BY <4>3, <3>3 DEF Left, own, x, y
    <3>5. A = a /\ B = b /\ C = c
      BY <2>2, <3>3, <3>4
    <3> HIDE DEF p, a, b, c, A, B, C
    <3>6. p = [r EXCEPT !.senders = a, !.total = b, !.sessions = c]
      BY <3>1, <3>5
    <3> QED  BY <3>6, <1>0 DEF IsManager
  <2> QED  BY <2>1, <2>2
<1> HIDE DEF p, a, b, c
<1>3. p.payloads = r.payloads /\ p.delivered = r.delivered
  BY <1>2
<1>4. q = [p EXCEPT !.payloads = P, !.delivered = E]
  BY <1>1, <1>3
<1> HIDE DEF q, P, E
<1>5. q = [senders |-> a, lru |-> r.lru, total |-> b, sessions |-> c,
           payloads |-> P, frames |-> r.frames, delivered |-> E]
  BY <1>2, <1>4
<1>6. /\ IsManager(q) /\ q.senders = a /\ q.lru = r.lru /\ q.total = b
      /\ q.payloads = P /\ q.delivered = E /\ q.frames = r.frames
  BY <1>5 DEF IsManager
<1>7. Releases(r, q, m)
  BY <1>6 DEF Releases, a, b
<1> QED  BY <1>6, <1>7 DEF Completes, q, P, E

(* The sender's entry after the release. *)
LEMMA LeftIs ==
  ASSUME NEW r, NEW m \in Messages, Typed(r), Source[m] \in DOMAIN r.senders
  PROVE  LET own == r.senders[Source[m]] IN
         /\ own \in SenderState /\ Left(r, m) \in SenderState /\ Freed(r, m) \in Nat /\ Id[m] \in Ids
         /\ Left(r, m).age = own.age /\ Left(r, m).bytes = Monus(own.bytes, Freed(r, m))
         /\ Left(r, m).sess[Id[m]] = 0 /\ \A i \in Ids : i # Id[m] => Left(r, m).sess[i] = own.sess[i]
<1> DEFINE own == r.senders[Source[m]]
           v == Left(r, m)
           n == Freed(r, m)
<1>1. own \in SenderState
  BY DEF Typed
<1>2. Id[m] \in Ids
  BY DEF Ids
<1>3. own.bytes \in Nat /\ own.sess \in [Ids -> Nat] /\ own.age \in Ages
  BY <1>1 DEF SenderState
<1>4. n \in Nat
  BY <1>2, <1>3 DEF Freed
<1>5. v = [bytes |-> Monus(own.bytes, n), sess |-> [own.sess EXCEPT ![Id[m]] = 0], age |-> own.age]
  BY DEF Left
<1> HIDE DEF own, v, n
<1>6. Monus(own.bytes, n) \in Nat
  BY <1>3, <1>4 DEF Monus
<1>7. [own.sess EXCEPT ![Id[m]] = 0] \in [Ids -> Nat]
  BY <1>2, <1>3
<1>8. v \in SenderState
  BY <1>3, <1>5, <1>6, <1>7 DEF SenderState
<1>9. /\ v.age = own.age /\ v.bytes = Monus(own.bytes, n)
      /\ v.sess[Id[m]] = 0 /\ \A i \in Ids : i # Id[m] => v.sess[i] = own.sess[i]
  BY <1>2, <1>3, <1>5
<1> QED  BY <1>1, <1>2, <1>4, <1>8, <1>9 DEF own, v, n

(* The table after a release. *)
LEMMA ReleasesIs ==
  ASSUME NEW r, NEW q, NEW m \in Messages, Typed(r), Releases(r, q, m)
  PROVE  /\ DOMAIN q.senders = DOMAIN r.senders
         /\ \A y \in DOMAIN r.senders : y # Source[m] => q.senders[y] = r.senders[y]
         /\ Source[m] \in DOMAIN r.senders => q.senders[Source[m]] = Left(r, m)
<1> DEFINE f == r.senders
           g == q.senders
           v == Left(r, m)
           s == Source[m]
<1>1. (s \in DOMAIN f => g = Put(f, s, v)) /\ (s \notin DOMAIN f => g = f)
  BY DEF Releases
<1> HIDE DEF f, g, v, s
<1>2. /\ DOMAIN g = DOMAIN f /\ \A y \in DOMAIN f : y # s => g[y] = f[y]
      /\ s \in DOMAIN f => g[s] = v
  BY <1>1 DEF Put
<1> QED  BY <1>2 DEF f, g, v, s

(* A release leaves the queue, its order and the size of the table. *)
LEMMA ReleasesShape ==
  ASSUME NEW r, NEW q, NEW m \in Messages, Typed(r), Queued(r), Limited(r), IsManager(q), Releases(r, q, m)
  PROVE  Typed(q) /\ Queued(q) /\ Limited(q)
<1>1. /\ DOMAIN q.senders = DOMAIN r.senders
      /\ \A y \in DOMAIN r.senders : y # Source[m] => q.senders[y] = r.senders[y]
      /\ Source[m] \in DOMAIN r.senders => q.senders[Source[m]] = Left(r, m)
  BY ReleasesIs
<1>2. q.lru = r.lru
  BY DEF Releases
<1>3. \A y \in DOMAIN r.senders : q.senders[y] \in SenderState /\ q.senders[y].age = r.senders[y].age
  <2>1. Source[m] \in DOMAIN r.senders =>
          Left(r, m) \in SenderState /\ Left(r, m).age = r.senders[Source[m]].age
    BY LeftIs
  <2> QED  BY <1>1, <2>1 DEF Typed
<1>4. Typed(q)
  BY <1>1, <1>2, <1>3 DEF Typed
<1>5. Limited(q)
  BY <1>1 DEF Limited
<1>6. \A i \in 1 .. Len(r.lru) : q.senders[r.lru[i]].age = r.senders[r.lru[i]].age
  BY <1>3 DEF Typed
<1>7. Queued(q)
  BY <1>1, <1>2, <1>6 DEF Queued
<1> QED  BY <1>4, <1>5, <1>7

(* A release takes from the total and the sender what was charged: the     *)
(* octets of the message or, from a station whose headers cannot be read,  *)
(* all of them.                                                            *)
LEMMA ReleasesBalanced ==
  ASSUME NEW r, NEW q, NEW m \in Messages, Typed(r), Balanced(r), Readable[m] => Paid(r, m), Releases(r, q, m)
  PROVE  Balanced(q)
<1> DEFINE s == Source[m]
           D == DOMAIN r.senders
           o == r.senders[s]
           v == Left(r, m)
           n == Freed(r, m)
           t == r.senders
           rest == Octets(t, D \ {s})
<1>1. /\ DOMAIN q.senders = D /\ \A y \in D : y # s => q.senders[y] = r.senders[y]
      /\ s \in D => q.senders[s] = v
  BY ReleasesIs
<1>2. CASE s \notin D
  <2>1. q.senders = r.senders /\ q.total = r.total
    BY <1>2 DEF Releases
  <2> QED  BY <2>1 DEF Balanced
<1>3. CASE s \in D
  <2>1. /\ o \in SenderState /\ v \in SenderState /\ n \in Nat /\ Id[m] \in Ids
        /\ v.bytes = Monus(o.bytes, n) /\ v.sess[Id[m]] = 0 /\ \A i \in Ids : i # Id[m] => v.sess[i] = o.sess[i]
    BY <1>3, LeftIs
  <2>2. o.bytes \in Nat /\ o.sess \in [Ids -> Nat] /\ v.bytes \in Nat /\ v.sess \in [Ids -> Nat]
    BY <2>1 DEF SenderState
  <2>3. Charged(o.sess) <= o.bytes /\ Charged(o.sess) \in Nat /\ o.sess[Id[m]] <= Charged(o.sess) /\ o.sess[Id[m]] \in Nat
    BY <1>3, <2>1, <2>2, ChargedHolds DEF Balanced
  <2>4. n = IF o.sess[Id[m]] > 0 THEN o.sess[Id[m]] ELSE o.bytes
    BY DEF Freed
  <2>5. q.senders = Put(t, s, v) /\ q.total = Monus(r.total, n)
    BY <1>3 DEF Releases
  <2>6. /\ Octets(Put(t, s, v), DOMAIN Put(t, s, v)) = v.bytes + rest
        /\ Octets(t, D) = o.bytes + rest /\ rest \in Nat
    <3>1. IsFiniteSet(D) /\ \A x \in D : t[x].bytes \in Nat
      BY DEF Typed, SenderState
    <3> QED  BY <1>3, <2>2, <3>1, PutOctets
  <2>7. r.total = o.bytes + rest /\ r.total <= MaxBytes
    BY <2>6 DEF Balanced
  <2>8. Octets(q.senders, DOMAIN q.senders) = v.bytes + rest
    BY <2>5, <2>6
  <2>9. ~Readable[m] => \A i \in Ids : o.sess[i] = 0
    BY <1>3 DEF Balanced
  <2>10. Readable[m] => o.sess[Id[m]] > 0
    BY <2>3, LimitAssumption DEF Paid
  <2> HIDE DEF o, v, n, rest, t
  <2>11. n <= o.bytes
    BY <2>2, <2>3, <2>4
  <2>12. v.bytes = o.bytes - n /\ q.total = v.bytes + rest /\ q.total <= MaxBytes
    <3>1. v.bytes = o.bytes - n
      BY <2>1, <2>2, <2>11 DEF Monus
    <3>2. Monus(r.total, n) = o.bytes + rest - n
      BY <2>1, <2>2, <2>6, <2>7, <2>11 DEF Monus
    <3> QED  BY <3>1, <3>2, <2>1, <2>2, <2>5, <2>6, <2>7, LimitAssumption
  <2>13. Charged(v.sess) <= v.bytes
    <3>1. CASE Readable[m]
      <4>1. n = o.sess[Id[m]]
        BY <3>1, <2>4, <2>10
      <4>2. \A j \in Ids : j # Id[m] => o.sess[j] = v.sess[j]
        BY <2>1
      <4>3. Charged(v.sess) + o.sess[Id[m]] = Charged(o.sess) + v.sess[Id[m]]
        BY <2>1, <2>2, <4>2, ChargedChange
      <4>4. Charged(v.sess) \in Nat
        BY <2>2, ChargedHolds
      <4> QED  BY <4>1, <4>3, <4>4, <2>1, <2>2, <2>3, <2>12
    <3>2. CASE ~Readable[m]
      <4>1. \A i \in Ids : v.sess[i] = 0
        BY <3>2, <2>1, <2>9
      <4>2. v.sess = [i \in Ids |-> 0]
        BY <4>1, <2>2
      <4> QED  BY <4>2, <2>2, ChargedNothing
    <3> QED  BY <3>1, <3>2
  <2>14. \A y \in DOMAIN q.senders : Charged(q.senders[y].sess) <= q.senders[y].bytes
    BY <1>1, <1>3, <2>13 DEF Balanced
  <2>15. ASSUME NEW l \in Messages, ~Readable[l], Source[l] \in DOMAIN q.senders
         PROVE  \A i \in Ids : q.senders[Source[l]].sess[i] = 0
    <3>1. \A i \in Ids : r.senders[Source[l]].sess[i] = 0
      BY <1>1, <2>15 DEF Balanced
    <3>2. CASE Source[l] = s
      BY <3>1, <3>2, <1>1, <1>3, <2>1 DEF o
    <3>3. CASE Source[l] # s
      BY <3>1, <3>3, <1>1, <2>15
    <3> QED  BY <3>2, <3>3
  <2> QED  BY <2>8, <2>12, <2>14, <2>15 DEF Balanced
<1> QED  BY <1>2, <1>3

(* A release takes nothing from what is held of the other messages. *)
LEMMA ReleasesBacked ==
  ASSUME NEW r, NEW q, NEW m \in Messages, Typed(r), Backed(r), Key(m) \notin DOMAIN r.frames, Releases(r, q, m)
  PROVE  Backed(q)
<1>1. /\ DOMAIN q.senders = DOMAIN r.senders /\ \A y \in DOMAIN r.senders : y # Source[m] => q.senders[y] = r.senders[y]
      /\ Source[m] \in DOMAIN r.senders => q.senders[Source[m]] = Left(r, m)
  BY ReleasesIs
<1>2. q.frames = r.frames
  BY DEF Releases
<1>3. ASSUME NEW k \in DOMAIN r.frames PROVE Backs(q.senders, k, r.frames[k])
  <2>1. Backs(r.senders, k, r.frames[k])
    BY DEF Backed
  <2>2. PICK l \in Messages : k = Key(l)
    BY <2>1 DEF Backs
  <2>3. k[1] \in DOMAIN r.senders /\ k[1] = Source[l] /\ k[2] = Id[l] /\ k[2] \in Ids
    BY <2>1, <2>2 DEF Backs, Key, Ids
  <2>4. q.senders[k[1]].sess[k[2]] = r.senders[k[1]].sess[k[2]] /\ q.senders[k[1]].age = r.senders[k[1]].age
    <3>1. CASE k[1] # Source[m]
      BY <3>1, <2>3, <1>1
    <3>2. CASE k[1] = Source[m]
      <4>1. Id[l] # Id[m]
        BY <3>2, <2>2, <2>3 DEF Key
      <4>2. /\ Left(r, m).age = r.senders[Source[m]].age
            /\ \A i \in Ids : i # Id[m] => Left(r, m).sess[i] = r.senders[Source[m]].sess[i]
        BY <3>2, <2>3, LeftIs
      <4> QED  BY <3>2, <4>1, <4>2, <2>3, <1>1
    <3> QED  BY <3>1, <3>2
  <2> QED  BY <1>1, <2>1, <2>4 DEF Backs
<1> QED  BY <1>2, <1>3 DEF Backed

(* A payload that is not remembered was not delivered a short while ago. *)
LEMMA CompletesRemembered ==
  ASSUME NEW r, NEW q, NEW m \in Messages, Remembered(r), Content(m) \notin DOMAIN r.payloads, Completes(r, q, m)
  PROVE  Remembered(q)
<1> DEFINE c == Content(m)
           P == r.payloads
           E == r.delivered
           e == [age |-> 0, echo |-> c \in DOMAIN E /\ (E[c].echo \/ E[c].age < Ttl)]
<1>1. q.payloads = Put(P, c, 0) /\ q.delivered = Put(E, c, e)
  BY DEF Completes, Dispatch
<1>2. 0 \in Ages
  BY LimitAssumption DEF Ages
<1>3. c \in DOMAIN E => ~E[c].echo /\ ~(E[c].age < Ttl)
  BY DEF Remembered
<1>4. e = [age |-> 0, echo |-> FALSE]
  BY <1>3
<1>5. e.age = 0 /\ ~e.echo /\ e \in [age : Ages, echo : BOOLEAN]
  BY <1>2, <1>4
<1>6. /\ \A x \in DOMAIN P : P[x] \in Ages
      /\ \A x \in DOMAIN E :
           /\ E[x] \in [age : Ages, echo : BOOLEAN] /\ ~E[x].echo
           /\ E[x].age < Ttl => x \in DOMAIN P /\ P[x] <= E[x].age
  BY DEF Remembered
<1> HIDE DEF c, e, P, E
<1> DEFINE R == Put(P, c, 0)
           F == Put(E, c, e)
<1>7. /\ DOMAIN R = DOMAIN P \cup {c} /\ R[c] = 0 /\ \A x \in DOMAIN P : x # c => R[x] = P[x]
      /\ DOMAIN F = DOMAIN E \cup {c} /\ F[c] = e /\ \A x \in DOMAIN E : x # c => F[x] = E[x]
  BY DEF Put
<1> HIDE DEF R, F
<1>8. \A x \in DOMAIN R : R[x] \in Ages
  BY <1>2, <1>6, <1>7
<1>9. ASSUME NEW x \in DOMAIN F
      PROVE  /\ F[x] \in [age : Ages, echo : BOOLEAN] /\ ~F[x].echo
             /\ F[x].age < Ttl => x \in DOMAIN R /\ R[x] <= F[x].age
  <2>1. CASE x = c
    BY <2>1, <1>5, <1>7
  <2>2. CASE x # c
    BY <2>2, <1>6, <1>7
  <2> QED  BY <2>1, <2>2
<1> QED  BY <1>1, <1>8, <1>9 DEF Remembered, R, F

(* A complete message preserves the invariant. *)
LEMMA CompleteGood ==
  ASSUME NEW r, NEW m \in Messages, Good(r), Readable[m] => Paid(r, m), Key(m) \notin DOMAIN r.frames
  PROVE  Good(Complete(r, m))
<1> DEFINE q == Complete(r, m)
<1>1. Typed(r) /\ Queued(r) /\ Limited(r) /\ Remembered(r) /\ (Uniform => Balanced(r)) /\ (AllReadable => Backed(r))
  BY DEF Good
<1>2. CASE Content(m) \in DOMAIN r.payloads
  BY <1>2 DEF Complete
<1>3. CASE Content(m) \notin DOMAIN r.payloads
  <2>1. Completes(r, q, m)
    BY <1>1, <1>3, CompleteIs
  <2> HIDE DEF q
  <2>2. IsManager(q) /\ Releases(r, q, m)
    BY <2>1 DEF Completes
  <2>3. Typed(q) /\ Queued(q) /\ Limited(q)
    BY <1>1, <2>2, ReleasesShape
  <2>4. Remembered(q)
    BY <1>1, <1>3, <2>1, CompletesRemembered
  <2>5. Uniform => Balanced(q)
    BY <1>1, <2>2, ReleasesBalanced
  <2>6. AllReadable => Backed(q)
    BY <1>1, <2>2, ReleasesBacked
  <2> QED  BY <2>3, <2>4, <2>5, <2>6 DEF Good, q
<1> QED  BY <1>2, <1>3

-----------------------------------------------------------------------------
(* The steps of the specification.                                         *)
IInv == Good(Manager)

After == [senders |-> senders', lru |-> lru', total |-> total', sessions |-> sessions',
          payloads |-> payloads', frames |-> frames', delivered |-> delivered']

(* What the invariant says of the next state. *)
LEMMA NextState ==
  ASSUME Good(After)
  PROVE  IInv'
<1>1. Manager' = After
  BY DEF Manager, After
<1> QED  BY <1>1 DEF IInv, Good, Typed, IsManager, Queued, Limited, Remembered, Balanced, Backed, Backs

(* A step that makes the manager a record r. *)
LEMMA BecomesIs ==
  ASSUME NEW r, Good(r), Becomes(r)
  PROVE  Good(After)
<1>1. IsManager(r)
  BY DEF Good, Typed
<1>2. After = r
  BY <1>1 DEF IsManager, After, Becomes
<1> QED  BY <1>2

(* A packet of any length that unpack cannot read. *)
LEMMA NoiseGood ==
  ASSUME NEW len \in Noise, IInv, IncomingNoise(len)
  PROVE  Good(After)
<1> DEFINE r == Admit(Unknown, len)
           q == Account(r, Unknown, NoId, len)
<1>1. Good(r) /\ Roomy(r, Unknown)
  BY AdmitGood DEF IInv
<1>2. len \in Nat /\ NoId \notin Ids
  BY LimitAssumption, NoIdIsNone
<1>3. Becomes(IF Fits(r, len) THEN q ELSE r)
  BY DEF IncomingNoise
<1> HIDE DEF r
<1>4. CASE Fits(r, len)
  <2>1. Good(q)
    BY <1>1, <1>2, <1>4, AccountGood
  <2> HIDE DEF q
  <2>2. Becomes(q)
    BY <1>3, <1>4
  <2> QED  BY <2>1, <2>2, BecomesIs
<1>5. CASE ~Fits(r, len)
  <2> HIDE DEF q
  <2>1. Becomes(r)
    BY <1>3, <1>5
  <2> QED  BY <1>1, <2>1, BecomesIs
<1> QED  BY <1>4, <1>5

(* A PDU, whether its header can be read or not. *)
LEMMA PduGood ==
  ASSUME NEW m \in Messages, NEW i, IInv, IncomingPdu(m, i)
  PROVE  Good(After)
<1> DEFINE s == IF Readable[m] THEN Source[m] ELSE Unknown
           id == IF Readable[m] THEN Id[m] ELSE NoId
           r == Admit(s, Size)
           a == Account(r, s, id, Size)
           d == Deframe(a, m, i)
           q == Complete(d.r, m)
<1>1. Good(r) /\ Roomy(r, s)
  BY AdmitGood DEF IInv
<1>2. Size \in Nat /\ (id \in Ids => Source[m] = s /\ Readable[m])
  BY LimitAssumption, NoIdIsNone
<1>3. Becomes(IF ~Fits(r, Size) THEN r ELSE IF d.done THEN q ELSE d.r)
  BY DEF IncomingPdu
<1>9. Readable[m] => s = Source[m] /\ id = Id[m]
  OBVIOUS
<1> HIDE DEF r, s, id
<1>4. CASE ~Fits(r, Size)
  <2> HIDE DEF a, d, q
  <2>1. Becomes(r)
    BY <1>3, <1>4
  <2> QED  BY <1>1, <2>1, BecomesIs
<1>5. CASE Fits(r, Size)
  <2>1. Good(a)
    BY <1>1, <1>2, <1>5, AccountGood
  <2>2. Readable[m] => Paid(a, m) /\ (Backed(r) => Ahead(a, m))
    <3>1. Typed(r)
      BY <1>1 DEF Good
    <3> QED  BY <3>1, <1>9, AccountPaid
  <2>3. AllReadable => Paid(a, m) /\ Ahead(a, m)
    BY <2>2, <1>1 DEF AllReadable, Good
  <2> HIDE DEF a
  <2>4. Good(d.r) /\ d.r.senders = a.senders /\ (d.done => Key(m) \notin DOMAIN d.r.frames)
    BY <2>1, <2>3, DeframeGood
  <2> HIDE DEF d
  <2>5. Readable[m] => Paid(d.r, m)
    BY <2>2, <2>4 DEF Paid
  <2>6. CASE d.done
    <3>1. Good(q)
      BY <2>4, <2>5, <2>6, CompleteGood
    <3> HIDE DEF q
    <3>2. Becomes(q)
      BY <1>3, <1>5, <2>6
    <3> QED  BY <3>1, <3>2, BecomesIs
  <2>7. CASE ~d.done
    <3> HIDE DEF q
    <3>1. Becomes(d.r)
      BY <1>3, <1>5, <2>7
    <3> QED  BY <2>4, <3>1, BecomesIs
  <2> QED  BY <2>6, <2>7
<1> QED  BY <1>4, <1>5

(* A sweep cuts the senders that were idle for the time to live. *)
LEMMA SweepGood ==
  ASSUME IInv, Sweep
  PROVE  Good(After)
<1> DEFINE r == Manager
           q == After
           X == {s \in DOMAIN senders : senders[s].age >= Ttl}
           Y == {k \in DOMAIN frames : frames[k].age >= Ttl}
<1>1. Typed(r) /\ Queued(r) /\ Limited(r) /\ Remembered(r) /\ (Uniform => Balanced(r)) /\ (AllReadable => Backed(r))
  BY DEF IInv, Good
<1>2. r.senders = senders /\ r.lru = lru /\ r.total = total /\ r.payloads = payloads /\ r.frames = frames /\ r.delivered = delivered
  BY DEF Manager
<1>3. /\ IsManager(q) /\ q.senders = senders' /\ q.lru = lru' /\ q.total = total'
      /\ q.payloads = payloads' /\ q.frames = frames' /\ q.delivered = delivered'
  BY DEF After, IsManager
<1>4. senders' = Drop(senders, X) /\ lru' = Kept(lru, X) /\ total' = Monus(total, Octets(senders, X))
  BY DEF Sweep
<1>5. frames' = Drop(frames, Y) /\ delivered' = delivered
  BY DEF Sweep
<1>6. payloads' = [x \in {y \in DOMAIN payloads : payloads[y] < Ttl} |-> payloads[x]]
  BY DEF Sweep
<1>7. X \subseteq DOMAIN r.senders /\ \A s \in DOMAIN senders : s \in X <=> senders[s].age >= Ttl
  BY <1>2
<1>8. Cut(r, q, X)
  BY <1>2, <1>3, <1>4 DEF Cut
<1> HIDE DEF r, q, X
<1>9. Typed(q) /\ Queued(q)
  BY <1>1, <1>3, <1>8, CutTyped, CutQueued
<1>10. Limited(q)
  BY <1>1, <1>8, CutLimited, LimitAssumption DEF Limited
<1>11. Uniform => Balanced(q)
  BY <1>1, <1>7, <1>8, CutBalanced
<1>12. Remembered(q)
  <2>1. /\ \A c \in DOMAIN payloads : payloads[c] \in Ages
        /\ \A c \in DOMAIN delivered :
             /\ delivered[c] \in [age : Ages, echo : BOOLEAN] /\ ~delivered[c].echo
             /\ delivered[c].age < Ttl => c \in DOMAIN payloads /\ payloads[c] <= delivered[c].age
    BY <1>1, <1>2 DEF Remembered
  <2>2. /\ \A c \in DOMAIN payloads' : c \in DOMAIN payloads /\ payloads'[c] = payloads[c]
        /\ \A c \in DOMAIN payloads : payloads[c] < Ttl => c \in DOMAIN payloads'
    BY <1>6
  <2>3. ASSUME NEW c \in DOMAIN delivered, delivered[c].age < Ttl
        PROVE  c \in DOMAIN payloads' /\ payloads'[c] <= delivered[c].age
    <3>1. c \in DOMAIN payloads /\ payloads[c] <= delivered[c].age /\ payloads[c] \in Ages /\ delivered[c].age \in Ages
      BY <2>1, <2>3
    <3>2. payloads[c] < Ttl
      BY <2>3, <3>1, LimitAssumption DEF Ages
    <3> QED  BY <2>2, <3>1, <3>2
  <2> QED  BY <1>3, <1>5, <2>1, <2>2, <2>3 DEF Remembered
<1>13. ASSUME AllReadable PROVE Backed(q)
  <2>1. DOMAIN q.senders = DOMAIN senders \ X /\ \A s \in DOMAIN senders \ X : q.senders[s] = senders[s]
    BY <1>2, <1>8, CutIs
  <2>2. \A k \in DOMAIN frames' : k \in DOMAIN frames /\ frames'[k] = frames[k] /\ ~(frames[k].age >= Ttl)
    BY <1>5 DEF Drop
  <2>3. ASSUME NEW k \in DOMAIN frames'
        PROVE  frames'[k] = [pdus |-> frames'[k].pdus, age |-> frames'[k].age] /\ Backs(q.senders, k, frames'[k])
    <3> DEFINE f == frames[k]
    <3>1. k \in DOMAIN frames /\ frames'[k] = f /\ ~(f.age >= Ttl)
      BY <2>2
    <3>2. f = [pdus |-> f.pdus, age |-> f.age] /\ Backs(senders, k, f)
      BY <1>1, <1>2, <1>13, <3>1 DEF Backed
    <3> HIDE DEF f
    <3>3. k[1] \in DOMAIN senders /\ senders[k[1]].age <= f.age /\ f.age \in Ages
      BY <3>2 DEF Backs
    <3>4. senders[k[1]].age \in Ages
      BY <1>1, <1>2, <3>3 DEF Typed, SenderState
    <3>5. ~(senders[k[1]].age >= Ttl)
      BY <3>1, <3>3, <3>4, LimitAssumption DEF Ages
    <3>6. k[1] \in DOMAIN q.senders /\ q.senders[k[1]] = senders[k[1]]
      BY <1>7, <2>1, <3>3, <3>5
    <3>7. Backs(q.senders, k, f)
      BY <3>2, <3>6 DEF Backs
    <3> QED  BY <3>1, <3>2, <3>7
  <2> QED  BY <1>3, <2>3 DEF Backed
<1> QED  BY <1>9, <1>10, <1>11, <1>12, <1>13 DEF Good, q

(* What a tick makes of an age. *)
Older(a) == IF a < Ttl THEN a + 1 ELSE a

(* Ages grow together, and stay within the time to live. *)
LEMMA OlderIs ==
  /\ \A a \in Ages : Older(a) \in Ages /\ (Older(a) < Ttl => a < Ttl)
  /\ \A a, b \in Ages : a <= b => Older(a) <= Older(b)
  BY LimitAssumption DEF Ages, Older

(* Time takes nothing from anybody. *)
LEMMA TickGood ==
  ASSUME IInv, Tick
  PROVE  Good(After)
<1> DEFINE r == Manager
           q == After
<1>1. Typed(r) /\ Queued(r) /\ Limited(r) /\ Remembered(r) /\ (Uniform => Balanced(r)) /\ (AllReadable => Backed(r))
  BY DEF IInv, Good
<1>2. r.senders = senders /\ r.lru = lru /\ r.total = total /\ r.payloads = payloads /\ r.frames = frames /\ r.delivered = delivered
  BY DEF Manager
<1>3. /\ IsManager(q) /\ q.senders = senders' /\ q.lru = lru' /\ q.total = total'
      /\ q.payloads = payloads' /\ q.frames = frames' /\ q.delivered = delivered'
  BY DEF After, IsManager
<1> HIDE DEF r, q
<1>4. lru' = lru /\ total' = total
  BY DEF Tick
<1>5. /\ senders' = [x \in DOMAIN senders |-> [senders[x] EXCEPT !.age = Older(senders[x].age)]]
      /\ frames' = [x \in DOMAIN frames |-> [frames[x] EXCEPT !.age = Older(frames[x].age)]]
      /\ delivered' = [x \in DOMAIN delivered |-> [delivered[x] EXCEPT !.age = Older(delivered[x].age)]]
  BY DEF Tick, Older
<1>6. payloads' = [x \in DOMAIN payloads |-> Older(payloads[x])]
  BY DEF Tick, Older
<1>7. /\ DOMAIN senders' = DOMAIN senders
      /\ \A s \in DOMAIN senders :
           /\ senders[s] \in SenderState /\ senders'[s] \in SenderState
           /\ senders'[s].bytes = senders[s].bytes /\ senders'[s].sess = senders[s].sess
           /\ senders'[s].age = Older(senders[s].age)
  <2>1. DOMAIN senders' = DOMAIN senders
    BY <1>5
  <2>2. ASSUME NEW s \in DOMAIN senders
        PROVE  /\ senders[s] \in SenderState /\ senders'[s] \in SenderState
               /\ senders'[s].bytes = senders[s].bytes /\ senders'[s].sess = senders[s].sess
               /\ senders'[s].age = Older(senders[s].age)
    <3> DEFINE o == senders[s]
               a == Older(o.age)
    <3>1. o \in SenderState
      BY <1>1, <1>2 DEF Typed
    <3>2. senders'[s] = [o EXCEPT !.age = a]
      BY <1>5
    <3>3. o.age \in Ages
      BY <3>1 DEF SenderState
    <3>4. a \in Ages
      BY <3>3, OlderIs
    <3> HIDE DEF o, a
    <3>5. /\ senders'[s] \in SenderState
          /\ senders'[s].bytes = o.bytes /\ senders'[s].sess = o.sess /\ senders'[s].age = a
      BY <3>1, <3>2, <3>4 DEF SenderState
    <3> QED  BY <3>1, <3>5 DEF o, a
  <2> QED  BY <2>1, <2>2
<1>8. Typed(q)
  BY <1>1, <1>2, <1>3, <1>4, <1>7 DEF Typed
<1>9. Limited(q)
  BY <1>1, <1>2, <1>3, <1>7 DEF Limited
<1>10. Queued(q)
  <2>1. lru \in Seq(DOMAIN senders)
    BY <1>1, <1>2 DEF Typed
  <2>2. ASSUME NEW i \in 1 .. Len(lru), NEW j \in 1 .. Len(lru), i < j
        PROVE  lru[i] # lru[j] /\ senders'[lru[i]].age >= senders'[lru[j]].age
    <3> DEFINE x == lru[i]
               y == lru[j]
    <3>1. x # y /\ senders[x].age >= senders[y].age
      BY <1>1, <1>2, <2>2 DEF Queued
    <3>2. x \in DOMAIN senders /\ y \in DOMAIN senders
      BY <2>1
    <3> HIDE DEF x, y
    <3>3. senders[x].age \in Ages /\ senders[y].age \in Ages
      BY <1>7, <3>2 DEF SenderState
    <3>4. senders[y].age <= senders[x].age
      BY <3>1, <3>3, LimitAssumption DEF Ages
    <3>5. Older(senders[y].age) <= Older(senders[x].age) /\ Older(senders[x].age) \in Ages /\ Older(senders[y].age) \in Ages
      BY <3>3, <3>4, OlderIs
    <3>6. Older(senders[x].age) >= Older(senders[y].age)
      BY <3>5, LimitAssumption DEF Ages
    <3> QED  BY <1>7, <3>1, <3>2, <3>6 DEF x, y
  <2>3. \A s \in DOMAIN senders : \E i \in 1 .. Len(lru) : lru[i] = s
    BY <1>1, <1>2 DEF Queued
  <2> QED  BY <1>3, <1>4, <1>7, <2>2, <2>3 DEF Queued
<1>11. ASSUME Uniform PROVE Balanced(q)
  <2>1. Balanced(r)
    BY <1>1, <1>11
  <2>2. IsFiniteSet(DOMAIN senders)
    BY <1>1, <1>2 DEF Typed
  <2>3. Octets(senders, DOMAIN senders) = Octets(senders', DOMAIN senders)
    BY <1>7, <2>2, OctetsSame
  <2>4. total = Octets(senders, DOMAIN senders) /\ total <= MaxBytes
    BY <1>2, <2>1 DEF Balanced
  <2>5. \A s \in DOMAIN senders : Charged(senders'[s].sess) <= senders'[s].bytes
    BY <1>2, <1>7, <2>1 DEF Balanced
  <2>6. \A m \in Messages : ~Readable[m] /\ Source[m] \in DOMAIN senders => \A i \in Ids : senders'[Source[m]].sess[i] = 0
    BY <1>2, <1>7, <2>1 DEF Balanced
  <2> QED  BY <1>3, <1>4, <1>7, <2>3, <2>4, <2>5, <2>6 DEF Balanced
<1>12. Remembered(q)
  <2>1. /\ \A c \in DOMAIN payloads : payloads[c] \in Ages
        /\ \A c \in DOMAIN delivered :
             /\ delivered[c] \in [age : Ages, echo : BOOLEAN] /\ ~delivered[c].echo
             /\ delivered[c].age < Ttl => c \in DOMAIN payloads /\ payloads[c] <= delivered[c].age
    BY <1>1, <1>2 DEF Remembered
  <2>2. /\ DOMAIN payloads' = DOMAIN payloads /\ DOMAIN delivered' = DOMAIN delivered
        /\ \A c \in DOMAIN payloads : payloads'[c] = Older(payloads[c])
    BY <1>5, <1>6
  <2>3. \A c \in DOMAIN payloads' : payloads'[c] \in Ages
    BY <2>1, <2>2, OlderIs
  <2>4. ASSUME NEW c \in DOMAIN delivered
        PROVE  /\ delivered'[c] \in [age : Ages, echo : BOOLEAN] /\ ~delivered'[c].echo
               /\ delivered'[c].age < Ttl => c \in DOMAIN payloads' /\ payloads'[c] <= delivered'[c].age
    <3> DEFINE o == delivered[c]
               a == Older(o.age)
    <3>1. o \in [age : Ages, echo : BOOLEAN] /\ ~o.echo /\ o.age \in Ages
      BY <2>1
    <3>2. delivered'[c] = [o EXCEPT !.age = a]
      BY <1>5
    <3>3. a \in Ages /\ (a < Ttl => o.age < Ttl)
      BY <3>1, OlderIs
    <3>4. o.age < Ttl => c \in DOMAIN payloads /\ payloads[c] <= o.age /\ payloads[c] \in Ages
      BY <2>1
    <3>5. o.age < Ttl => c \in DOMAIN payloads /\ Older(payloads[c]) <= a
      BY <3>1, <3>4, OlderIs
    <3> HIDE DEF o, a
    <3>6. delivered'[c] \in [age : Ages, echo : BOOLEAN] /\ delivered'[c].age = a
      BY <3>1, <3>2, <3>3
    <3>7. delivered'[c].echo = o.echo
      BY <3>1, <3>2
    <3> QED  BY <2>2, <3>1, <3>3, <3>5, <3>6, <3>7
  <2> QED  BY <1>3, <2>2, <2>3, <2>4 DEF Remembered
<1>13. ASSUME AllReadable PROVE Backed(q)
  <2>1. ASSUME NEW k \in DOMAIN frames
        PROVE  frames'[k] = [pdus |-> frames'[k].pdus, age |-> frames'[k].age] /\ Backs(senders', k, frames'[k])
    <3> DEFINE f == frames[k]
               a == Older(f.age)
               g == frames'[k]
    <3>1. f = [pdus |-> f.pdus, age |-> f.age] /\ Backs(senders, k, f)
      BY <1>1, <1>2, <1>13 DEF Backed
    <3>2. g = [f EXCEPT !.age = a]
      BY <1>5
    <3> HIDE DEF f, a, g
    <3>3. g = [pdus |-> f.pdus, age |-> a]
      BY <3>1, <3>2
    <3>4. g.pdus = f.pdus /\ g.age = a /\ g = [pdus |-> g.pdus, age |-> g.age]
      BY <3>3
    <3>5. k[1] \in DOMAIN senders /\ senders[k[1]].age <= f.age /\ f.age \in Ages
      BY <3>1 DEF Backs
    <3>6. senders[k[1]].age \in Ages
      BY <1>7, <3>5 DEF SenderState
    <3>7. Older(senders[k[1]].age) <= a /\ a \in Ages
      BY <3>5, <3>6, OlderIs DEF a
    <3>8. senders'[k[1]].sess = senders[k[1]].sess /\ senders'[k[1]].age = Older(senders[k[1]].age) /\ k[1] \in DOMAIN senders'
      BY <1>7, <3>5
    <3>9. Backs(senders', k, g)
      BY <3>1, <3>4, <3>7, <3>8 DEF Backs
    <3> QED  BY <3>4, <3>9 DEF g
  <2>2. DOMAIN frames' = DOMAIN frames
    BY <1>5
  <2> QED  BY <1>3, <2>1, <2>2 DEF Backed
<1> QED  BY <1>8, <1>9, <1>10, <1>11, <1>12, <1>13 DEF Good, q

-----------------------------------------------------------------------------
(* The theorems.                                                           *)

(* Nothing has been heard yet. *)
LEMMA InvInit == Init => IInv
<1> SUFFICES ASSUME Init PROVE IInv
  OBVIOUS
<1> DEFINE r == Manager
<1>1. /\ IsManager(r) /\ r.senders = <<>> /\ r.lru = <<>> /\ r.total = 0
      /\ r.payloads = <<>> /\ r.frames = <<>> /\ r.delivered = <<>>
  BY DEF Init, Manager, IsManager
<1> HIDE DEF r
<1>2. DOMAIN r.senders = {} /\ DOMAIN r.payloads = {} /\ DOMAIN r.frames = {} /\ DOMAIN r.delivered = {} /\ Len(r.lru) = 0
  BY <1>1
<1>3. Typed(r)
  BY <1>1, <1>2, FS_EmptySet DEF Typed
<1>4. Queued(r) /\ Remembered(r) /\ Backed(r)
  BY <1>2 DEF Queued, Remembered, Backed
<1>5. Limited(r)
  BY <1>2, FS_EmptySet, LimitAssumption DEF Limited
<1>6. Balanced(r)
  <2>1. Octets(r.senders, {}) = 0
    <3>1. IsFiniteSet({}) /\ {} \in SUBSET {} /\ \A s \in {} : r.senders[s].bytes \in Nat
      BY FS_EmptySet
    <3> QED  BY <3>1, OctetsOfOne
  <2> QED  BY <1>1, <1>2, <2>1, LimitAssumption DEF Balanced
<1> QED  BY <1>3, <1>4, <1>5, <1>6 DEF IInv, Good, r

(* Every step preserves the invariant. *)
LEMMA InvNext == IInv /\ [Next]_vars => IInv'
<1> SUFFICES ASSUME IInv, [Next]_vars PROVE Good(After)
  BY NextState
<1>1. ASSUME NEW m \in Messages, NEW i \in 1 .. Pdus[m], IncomingPdu(m, i) PROVE Good(After)
  BY <1>1, PduGood
<1>2. ASSUME NEW len \in Noise, IncomingNoise(len) PROVE Good(After)
  BY <1>2, NoiseGood
<1>3. CASE Sweep
  BY <1>3, SweepGood
<1>4. CASE Tick
  BY <1>4, TickGood
<1>5. CASE UNCHANGED vars
  <2>1. After = Manager
    BY <1>5 DEF vars, After, Manager
  <2> QED  BY <2>1 DEF IInv
<1> QED  BY <1>1, <1>2, <1>3, <1>4, <1>5 DEF Next

(* The invariant holds in every state. *)
THEOREM Invariance == Spec => []IInv
  BY InvInit, InvNext, PTL DEF Spec

(* A payload is dispatched to the BPA at most once within the time to      *)
(* live, whatever the channel repeats.                                     *)
THEOREM NoPayloadTwice == Spec => []NoEcho
<1>1. IInv => NoEcho
  BY DEF IInv, Good, Remembered, NoEcho, Manager
<1> QED  BY <1>1, Invariance, PTL

(* The queue names every sender once: the two are of the same size. *)
LEMMA QueueIsTable ==
  ASSUME IInv
  PROVE  Len(lru) = Cardinality(DOMAIN senders)
<1> DEFINE D == DOMAIN senders
           n == Len(lru)
<1>1. lru \in Seq(D) /\ n \in Nat
  BY DEF IInv, Good, Typed, Manager
<1>2. /\ \A s \in D : \E i \in 1 .. n : lru[i] = s
      /\ \A i, j \in 1 .. n : i < j => lru[i] # lru[j]
  BY DEF IInv, Good, Queued, Manager
<1>3. lru \in [1 .. n -> D]
  BY <1>1
<1> HIDE DEF D, n
<1>4. \A i, j \in 1 .. n : lru[i] = lru[j] => i = j
  BY <1>1, <1>2
<1>5. lru \in Bijection(1 .. n, D)
  BY <1>2, <1>3, <1>4 DEF Bijection, Injection, IsInjective, Surjection
<1>6. ExistsBijection(1 .. n, D)
  BY <1>5 DEF ExistsBijection
<1> QED  BY <1>1, <1>6, FS_CountingElements DEF D, n

(* The senders in the table and in the queue are the same, no more than    *)
(* configured, and the sender that would be evicted is the one idle for    *)
(* longest.                                                                *)
THEOREM OldestSenderFirst == Spec => []OldestFirst
<1>1. IInv => OldestFirst
  <2> SUFFICES ASSUME IInv PROVE OldestFirst
    OBVIOUS
  <2>1. Len(lru) = Cardinality(DOMAIN senders)
    BY QueueIsTable
  <2>2. /\ lru \in Seq(DOMAIN senders) /\ Cardinality(DOMAIN senders) <= MaxSenders
        /\ \A s \in DOMAIN senders : \E i \in 1 .. Len(lru) : lru[i] = s
        /\ \A i, j \in 1 .. Len(lru) : i < j => senders[lru[i]].age >= senders[lru[j]].age
    BY DEF IInv, Good, Typed, Limited, Queued, Manager
  <2>4. DOMAIN lru = 1 .. Len(lru)
    BY <2>2
  <2>5. \A i \in 1 .. Len(lru) : lru[i] \in DOMAIN senders
    BY <2>2
  <2>3. ToSet(lru) = DOMAIN senders
    BY <2>2, <2>4, <2>5, Zenon DEF ToSet
  <2> QED  BY <2>1, <2>2, <2>3, <2>4 DEF OldestFirst
<1> QED  BY <1>1, Invariance, PTL

(* The total is the sum of what the senders are charged and never exceeds  *)
(* the limit, provided a station does not mix headers that can be read     *)
(* with headers that cannot.                                               *)
THEOREM TotalIsAccounted ==
  ASSUME Uniform
  PROVE  Spec => []Accounted
<1>1. IInv => Accounted
  BY DEF IInv, Good, Balanced, Accounted, Manager
<1> QED  BY <1>1, Invariance, PTL

(* What the deframer holds is charged to its message, provided the headers *)
(* can be read.                                                            *)
THEOREM HeldIsCharged ==
  ASSUME AllReadable
  PROVE  Spec => []HeldIsAccounted
<1>1. IInv => HeldIsAccounted
  BY DEF IInv, Good, Backed, Backs, HeldIsAccounted, Held, Manager
<1> QED  BY <1>1, Invariance, PTL
=============================================================================
