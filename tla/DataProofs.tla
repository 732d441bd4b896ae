----------------------------- MODULE DataProofs ------------------------------
(* Proofs about the containers and buffers of comn, for any keys, values, bytes *)
(* and sizes: what is looked for in a container is found, the array counts what *)
(* it holds and keeps what was put into it, and a generator of numbers comes    *)
(* round; a byte buffer holds its bytes, a text ends within its block, and an   *)
(* IOBuffer is a queue of bytes, or what was assigned to it.                    *)
EXTENDS Containers, Buffers, TLAPS, FiniteSetTheorems, SequenceTheorems, WellFoundedInduction

-----------------------------------------------------------------------------
(* The array of places (Containers)                                          *)

CnTaken == {i \in CnIndices : cnElements[i] # CnIdle}

(* The inductive invariant. *)
CnArrayInv ==
  /\ cnElements \in [CnIndices -> CnValues \cup {CnIdle}]
  /\ cnHint \in CnIndices
  /\ ArrayCounts

LEMMA CnPlaces == CnIndices \subseteq Nat /\ IsFiniteSet(CnIndices) /\ Cardinality(CnIndices) = CnSize /\ 0 \in CnIndices
  <1>1. CnSize \in Nat /\ CnSize > 0
    BY ContainersAssumption
  <1>2. IsFiniteSet(0..(CnSize - 1)) /\ Cardinality(0..(CnSize - 1)) = CnSize
    BY <1>1, FS_Interval
  <1> QED
    BY <1>1, <1>2 DEF CnIndices

LEMMA CnSmallest ==
  ASSUME NEW S \in SUBSET Nat, S # {}
  PROVE  \E m \in S : \A j \in S : m <= j
<1>1. PICK m \in S : \A j \in S : ~(<<j, m>> \in OpToRel(<, Nat))
  BY NatLessThanWellFounded, WFMin
<1>2. \A j \in S : m <= j
  <2> SUFFICES ASSUME NEW j \in S PROVE m <= j
    OBVIOUS
  <2>1. <<j, m>> \in Nat \X Nat /\ j \in Nat /\ m \in Nat
    OBVIOUS
  <2>2. ~(j < m)
    BY <1>1, <2>1 DEF OpToRel
  <2> QED
    BY <2>1, <2>2
<1> QED
  BY <1>2

LEMMA CnLeast ==
  ASSUME NEW S \in SUBSET Nat, S # {}
  PROVE  Min(S) \in S
  BY CnSmallest DEF Min

(* The rest of a division, within two rounds.                                *)
LEMMA CnRound ==
  ASSUME NEW s \in Nat \ {0}, NEW a \in 0..(2 * s - 1)
  PROVE  a % s = IF a < s THEN a ELSE a - s
  OBVIOUS

(* findIdle comes by every place: it finds one, unless there is none.        *)
LEMMA CnSearchFinds ==
  ASSUME CnArrayInv, NEW i \in CnIndices, NEW idle \in BOOLEAN
  PROVE  LET at == {j \in CnIndices : (cnElements[j] = CnIdle) = idle} IN
         IF at = {} THEN CnSearch(i, idle) = CnNothing ELSE CnSearch(i, idle) \in at
<1> DEFINE d == {n \in 0..(CnSize - 1) : (cnElements[(i + n) % CnSize] = CnIdle) = idle}
           at == {j \in CnIndices : (cnElements[j] = CnIdle) = idle}
<1>1. CnSize \in Nat \ {0} /\ i \in 0..(CnSize - 1)
  BY ContainersAssumption DEF CnIndices
<1>2. \A n \in 0..(CnSize - 1) : (i + n) % CnSize \in CnIndices
  BY <1>1, CnRound DEF CnIndices
<1>3. \A j \in CnIndices : \E n \in 0..(CnSize - 1) : (i + n) % CnSize = j
  <2> SUFFICES ASSUME NEW j \in CnIndices PROVE \E n \in 0..(CnSize - 1) : (i + n) % CnSize = j
    OBVIOUS
  <2>1. CASE j >= i
    <3>1. j - i \in 0..(CnSize - 1) /\ i + (j - i) = j /\ j \in 0..(2 * CnSize - 1) /\ j < CnSize
      BY <1>1, <2>1 DEF CnIndices
    <3> QED
      BY <1>1, <3>1, CnRound
  <2>2. CASE j < i
    <3>1. /\ j - i + CnSize \in 0..(CnSize - 1) /\ i + (j - i + CnSize) = j + CnSize
          /\ j + CnSize \in 0..(2 * CnSize - 1) /\ ~(j + CnSize < CnSize) /\ j + CnSize - CnSize = j
      BY <1>1, <2>2 DEF CnIndices
    <3>2. (j + CnSize) % CnSize = j
      BY <1>1, <3>1, CnRound
    <3>3. PICK n : n = j - i + CnSize
      OBVIOUS
    <3>4. n \in 0..(CnSize - 1) /\ i + n = j + CnSize
      BY <3>1, <3>3
    <3> QED
      BY <3>2, <3>4
  <2> QED
    BY <1>1, <2>1, <2>2 DEF CnIndices
<1>4. CnSearch(i, idle) = IF d = {} THEN CnNothing ELSE (i + Min(d)) % CnSize
  BY DEF CnSearch
<1>5. CASE at = {}
  <2>1. d = {}
    BY <1>2, <1>5
  <2> QED
    BY <1>4, <1>5, <2>1
<1>6. CASE at # {}
  <2>1. PICK j : j \in at
    BY <1>6
  <2>2. PICK n \in 0..(CnSize - 1) : (i + n) % CnSize = j
    BY <1>3, <2>1
  <2>3. d # {} /\ d \subseteq Nat
    <3>1. n \in d
      BY <2>1, <2>2
    <3>2. d \subseteq 0..(CnSize - 1)
      OBVIOUS
    <3> HIDE DEF d
    <3>3. 0..(CnSize - 1) \subseteq Nat
      BY <1>1
    <3> QED
      BY <3>1, <3>2, <3>3
  <2>4. Min(d) \in d
    BY <2>3, CnLeast
  <2>5. (i + Min(d)) % CnSize \in at
    BY <1>2, <2>4
  <2> QED
    BY <1>4, <1>6, <2>3, <2>5
<1> QED
  BY <1>5, <1>6

(* One place more is taken, or one less.                                     *)
LEMMA CnTakenFinite == IsFiniteSet(CnTaken) /\ Cardinality(CnTaken) \in Nat /\ Cardinality(CnTaken) <= CnSize
<1>1. CnTaken \subseteq CnIndices
  BY DEF CnTaken
<1>2. IsFiniteSet(CnIndices) /\ Cardinality(CnIndices) = CnSize
  BY CnPlaces
<1>3. IsFiniteSet(CnTaken) /\ Cardinality(CnTaken) <= Cardinality(CnIndices)
  BY <1>1, <1>2, FS_Subset
<1> QED
  BY <1>2, <1>3, FS_CardinalityType

LEMMA CnPutCounts ==
  ASSUME CnArrayInv, NEW i \in CnIndices, NEW v \in CnValues, NEW hint \in CnIndices,
         cnElements' = [cnElements EXCEPT ![i] = v], cnHint' = hint,
         cnCount' = cnCount + (IF cnElements[i] = CnIdle THEN 1 ELSE 0)
  PROVE  CnArrayInv'
<1>1. v # CnIdle
  BY ContainersAssumption
<1>2. cnElements' \in [CnIndices -> CnValues \cup {CnIdle}]
  BY DEF CnArrayInv
<1>3. CnTaken' = CnTaken \cup {i}
  BY <1>1 DEF CnTaken, CnArrayInv
<1>4. cnElements[i] = CnIdle <=> i \notin CnTaken
  BY DEF CnTaken
<1>5. Cardinality(CnTaken \cup {i}) = IF i \in CnTaken THEN Cardinality(CnTaken) ELSE Cardinality(CnTaken) + 1
  BY CnTakenFinite, FS_AddElement
<1>6. cnCount = Cardinality(CnTaken) /\ Cardinality(CnTaken) \in Nat
  BY CnTakenFinite DEF CnArrayInv, ArrayCounts, CnTaken
<1>7. cnCount' = Cardinality(CnTaken')
  BY <1>3, <1>4, <1>5, <1>6
<1> QED
  BY <1>2, <1>7 DEF CnArrayInv, ArrayCounts, CnTaken

LEMMA CnPutStep ==
  ASSUME CnArrayInv, NEW v \in CnValues, ArrayPut(v)
  PROVE  /\ CnArrayInv'
         /\ cnGot' = CnNothing <=> cnCount = CnSize
         /\ cnGot' # CnNothing => cnElements'[cnGot'] = v
         /\ \A i \in CnIndices : cnElements[i] # CnIdle => cnElements'[i] = cnElements[i]
<1> DEFINE at == {j \in CnIndices : (cnElements[j] = CnIdle) = TRUE}
           i == CnSearch(cnHint, TRUE)
<1>1. cnHint \in CnIndices /\ cnElements \in [CnIndices -> CnValues \cup {CnIdle}]
  BY DEF CnArrayInv
<1>2. IF at = {} THEN i = CnNothing ELSE i \in at
  BY <1>1, CnSearchFinds
<1>3. cnCount = Cardinality(CnTaken) /\ cnCount \in Nat /\ cnCount <= CnSize /\ CnSize \in Nat
  BY CnTakenFinite, ContainersAssumption DEF CnArrayInv, ArrayCounts, CnTaken
<1>4. CnNothing \notin CnIndices
  BY CnPlaces DEF CnNothing
<1>5. at = {} <=> cnCount = CnSize
  <2>1. at = {} <=> CnTaken = CnIndices
    BY DEF CnTaken
  <2>2. CnTaken \subseteq CnIndices
    BY DEF CnTaken
  <2>3. Cardinality(CnTaken) = Cardinality(CnIndices) => CnTaken = CnIndices
    BY <2>2, CnPlaces, FS_Subset
  <2> QED
    BY <1>3, <2>1, <2>3, CnPlaces
<1>6. CASE at = {}
  <2>1. CnArray(cnElements, cnCount, cnHint, CnNothing)
    BY <1>2, <1>3, <1>5, <1>6 DEF ArrayPut
  <2> QED
    BY <1>5, <1>6, <2>1 DEF CnArray, CnArrayInv, ArrayCounts
<1>7. CASE at # {}
  <2>1. i \in CnIndices /\ cnElements[i] = CnIdle /\ i # CnNothing /\ ~(cnCount >= CnSize)
    <3>1. i \in at
      BY <1>2, <1>7
    <3>2. ~(cnCount >= CnSize)
      BY <1>3, <1>5, <1>7
    <3> HIDE DEF i
    <3> QED
      BY <1>4, <3>1, <3>2
  <2>2. CnArray([cnElements EXCEPT ![i] = v], cnCount + 1, i, i)
    BY <2>1 DEF ArrayPut
  <2> HIDE DEF i
  <2>3. cnElements' = [cnElements EXCEPT ![i] = v] /\ cnCount' = cnCount + 1 /\ cnHint' = i /\ cnGot' = i
    BY <2>2 DEF CnArray
  <2>4. CnArrayInv'
    BY <2>1, <2>3, CnPutCounts
  <2> QED
    BY <1>1, <1>5, <1>7, <2>1, <2>3, <2>4
<1> QED
  BY <1>6, <1>7

LEMMA CnClearedCounts ==
  ASSUME cnElements' = [i \in CnIndices |-> CnIdle], cnCount' = 0, cnHint' = 0
  PROVE  CnArrayInv'
<1>1. CnTaken' = {}
  BY DEF CnTaken
<1> QED
  BY <1>1, CnPlaces, FS_EmptySet DEF CnArrayInv, ArrayCounts, CnTaken

LEMMA CnArrayStepInv == CnArrayInv /\ [CnArrayNext]_cnVars => CnArrayInv'
<1> SUFFICES ASSUME CnArrayInv, [CnArrayNext]_cnVars PROVE CnArrayInv'
  OBVIOUS
<1>1. ASSUME NEW v \in CnValues, ArrayPut(v) PROVE CnArrayInv'
  BY <1>1, CnPutStep
<1>2. ASSUME NEW hint, NEW got, CnArray(cnElements, cnCount, cnHint, got) PROVE CnArrayInv'
  BY <1>2 DEF CnArray, CnArrayInv, ArrayCounts
<1>3. ASSUME NEW v \in CnValues, NEW i \in CnIndices, ArrayPutAt(i, v) PROVE CnArrayInv'
  <2>1. CASE cnCount >= CnSize
    BY <1>2, <1>3, <2>1 DEF ArrayPutAt
  <2>2. CASE ~(cnCount >= CnSize)
    <3>1. /\ cnElements' = [cnElements EXCEPT ![i] = v] /\ cnHint' = cnHint
          /\ cnCount' = cnCount + (IF cnElements[i] = CnIdle THEN 1 ELSE 0)
      BY <1>3, <2>2 DEF ArrayPutAt, CnArray
    <3>2. cnHint \in CnIndices
      BY DEF CnArrayInv
    <3> QED
      BY <3>1, <3>2, CnPutCounts
  <2> QED
    BY <2>1, <2>2
<1>4. ASSUME NEW i \in CnIndices, ArrayRemove(i) PROVE CnArrayInv'
  <2>1. CASE cnElements[i] = CnIdle
    BY <1>2, <1>4, <2>1 DEF ArrayRemove
  <2>2. CASE cnElements[i] # CnIdle
    <3>1. cnElements' = [cnElements EXCEPT ![i] = CnIdle] /\ cnCount' = cnCount - 1 /\ cnHint' = cnHint
      BY <1>4, <2>2 DEF ArrayRemove, CnArray
    <3>2. CnTaken' = CnTaken \ {i} /\ i \in CnTaken
      BY <2>2, <3>1 DEF CnTaken, CnArrayInv
    <3>3. Cardinality(CnTaken \ {i}) = Cardinality(CnTaken) - 1
      BY <3>2, CnTakenFinite, FS_RemoveElement
    <3>4. cnCount = Cardinality(CnTaken)
      BY DEF CnArrayInv, ArrayCounts, CnTaken
    <3> QED
      BY <3>1, <3>2, <3>3, <3>4 DEF CnArrayInv, ArrayCounts, CnTaken
  <2> QED
    BY <2>1, <2>2
<1>5. ASSUME NEW i, ArrayNext(i) PROVE CnArrayInv'
  BY <1>2, <1>5 DEF ArrayNext
<1>6. ASSUME ArrayClear PROVE CnArrayInv'
  BY <1>6, CnClearedCounts DEF ArrayClear, CnArray
<1>7. ASSUME UNCHANGED cnVars PROVE CnArrayInv'
  BY <1>7 DEF cnVars, CnArrayInv, ArrayCounts
<1> QED
  BY <1>1, <1>3, <1>4, <1>5, <1>6, <1>7 DEF CnArrayNext

-----------------------------------------------------------------------------
(* The map (Containers)                                                      *)

LEMMA CnGreatest ==
  ASSUME NEW S \in SUBSET Nat, IsFiniteSet(S), S # {}
  PROVE  Max(S) \in S
<1> DEFINE Topped(T) == \E x \in T : \A y \in T : x >= y
           bad == {n \in Nat : \E T \in SUBSET Nat : IsFiniteSet(T) /\ T # {} /\ ~Topped(T) /\ Cardinality(T) = n}
<1>1. SUFFICES Topped(S)
  BY DEF Max
<1>2. SUFFICES ASSUME ~Topped(S) PROVE FALSE
  OBVIOUS
<1>3. Cardinality(S) \in bad
  BY <1>2, FS_CardinalityType
<1>4. PICK n \in bad : \A k \in bad : n <= k
  <2> bad \in SUBSET Nat /\ bad # {}
    BY <1>3
  <2> HIDE DEF bad
  <2> QED
    BY CnSmallest
<1>5. PICK T \in SUBSET Nat : IsFiniteSet(T) /\ T # {} /\ ~Topped(T) /\ Cardinality(T) = n
  BY <1>4
<1>6. PICK x : x \in T
  BY <1>5
<1>7. IsFiniteSet(T \ {x}) /\ Cardinality(T \ {x}) = n - 1
  BY <1>5, <1>6, FS_RemoveElement
<1>8. x \in Nat
  BY <1>6
<1>9. CASE T \ {x} = {}
  BY <1>5, <1>6, <1>8, <1>9
<1>10. CASE T \ {x} # {}
  <2>1. ~(Cardinality(T \ {x}) \in bad)
    BY <1>4, <1>7
  <2>2. Topped(T \ {x})
    <3> HIDE DEF Topped
    <3> QED
      BY <1>7, <1>10, <2>1, FS_CardinalityType
  <2>3. PICK y \in T \ {x} : \A z \in T \ {x} : y >= z
    BY <2>2
  <2>4. y \in Nat /\ T \subseteq Nat
    BY <2>3
  <2>5. CASE y >= x
    <3>1. \A z \in T : y >= z
      BY <2>3, <2>5
    <3> QED
      BY <1>5, <2>3, <3>1
  <2>6. CASE x >= y
    <3>1. \A z \in T : x >= z
      BY <1>8, <2>3, <2>4, <2>6
    <3> QED
      BY <1>5, <1>6, <3>1
  <2> QED
    BY <1>8, <2>4, <2>5, <2>6
<1> QED
  BY <1>9, <1>10

(* removeAll, entry by entry: those that it passed and that have the value are gone, *)
(* and counted.                                                                      *)
CnLeft(m, keys, v) == [k \in DOMAIN m \ {l \in keys : m[l] = v} |-> m[k]]
CnHaving(m, keys, v) == {l \in keys : m[l] = v}

LEMMA CnPasses ==
  ASSUME NEW m, NEW keys \in SUBSET DOMAIN m, NEW v, NEW k \in keys, IsFiniteSet(keys)
  PROVE  /\ m[k] = v => /\ CnWithout(CnLeft(m, keys \ {k}, v), {k}) = CnLeft(m, keys, v)
                        /\ Cardinality(CnHaving(m, keys \ {k}, v)) + 1 = Cardinality(CnHaving(m, keys, v))
         /\ m[k] # v => /\ CnLeft(m, keys \ {k}, v) = CnLeft(m, keys, v)
                        /\ CnHaving(m, keys \ {k}, v) = CnHaving(m, keys, v)
<1>1. CASE m[k] = v
  <2>1. CnHaving(m, keys \ {k}, v) = CnHaving(m, keys, v) \ {k} /\ k \in CnHaving(m, keys, v)
    BY <1>1 DEF CnHaving
  <2>2. IsFiniteSet(CnHaving(m, keys, v))
    BY FS_Subset DEF CnHaving
  <2>3. /\ Cardinality(CnHaving(m, keys, v)) \in Nat
        /\ Cardinality(CnHaving(m, keys, v) \ {k}) = Cardinality(CnHaving(m, keys, v)) - 1
    BY <2>1, <2>2, FS_RemoveElement, FS_CardinalityType
  <2>4. Cardinality(CnHaving(m, keys \ {k}, v)) + 1 = Cardinality(CnHaving(m, keys, v))
    <3>1. PICK n \in Nat : n = Cardinality(CnHaving(m, keys, v))
      BY <2>3
    <3>2. Cardinality(CnHaving(m, keys, v) \ {k}) = n - 1
      BY <2>3, <3>1
    <3>3. Cardinality(CnHaving(m, keys \ {k}, v)) = n - 1
      BY <2>1, <3>2, Zenon
    <3> QED
      BY <3>1, <3>3
  <2>5. CnWithout(CnLeft(m, keys \ {k}, v), {k}) = CnLeft(m, keys, v)
    <3> DEFINE f == CnLeft(m, keys \ {k}, v)
               D == {l \in DOMAIN f : l \notin {k}}
               E == DOMAIN m \ {l \in keys : m[l] = v}
    <3>1. DOMAIN f = DOMAIN m \ {l \in keys \ {k} : m[l] = v} /\ \A l \in DOMAIN f : f[l] = m[l]
      BY DEF CnLeft
    <3>2. D = E
      BY <1>1, <3>1
    <3>3. \A l \in D : f[l] = m[l]
      BY <3>1
    <3>4. CnWithout(f, {k}) = [l \in D |-> f[l]]
      BY DEF CnWithout, RestrictDomain, Restrict
    <3>5. CnLeft(m, keys, v) = [l \in E |-> m[l]]
      BY DEF CnLeft
    <3> HIDE DEF f, D, E
    <3>6. [l \in D |-> f[l]] = [l \in E |-> m[l]]
      BY <3>2, <3>3
    <3> QED
      BY <3>4, <3>5, <3>6 DEF f
  <2> QED
    BY <1>1, <2>4, <2>5
<1>2. CASE m[k] # v
  BY <1>2 DEF CnLeft, CnHaving
<1> QED
  BY <1>1, <1>2

LEMMA CnErasedIs ==
  ASSUME NEW m, m = [k \in DOMAIN m |-> m[k]], IsFiniteSet(DOMAIN m), DOMAIN m \in SUBSET Nat, NEW v
  PROVE  CnErased(m, v) = [map |-> CnLeft(m, DOMAIN m, v), count |-> Cardinality(CnHaving(m, DOMAIN m, v))]
<1> DEFINE step(f, keys) ==
             IF keys = {} THEN [map |-> m, count |-> 0]
             ELSE IF m[Max(keys)] = v
                  THEN [map |-> CnWithout(f[keys \ {Max(keys)}].map, {Max(keys)}),
                        count |-> f[keys \ {Max(keys)}].count + 1]
                  ELSE f[keys \ {Max(keys)}]
           P(f) == f = [keys \in SUBSET DOMAIN m |-> step(f, keys)]
           at(keys) == [map |-> CnLeft(m, keys, v), count |-> Cardinality(CnHaving(m, keys, v))]
           w == [keys \in SUBSET DOMAIN m |-> at(keys)]
<1>1. \A keys \in SUBSET DOMAIN m : IsFiniteSet(keys) /\ (keys # {} => Max(keys) \in keys)
  <2> SUFFICES ASSUME NEW keys \in SUBSET DOMAIN m PROVE IsFiniteSet(keys) /\ (keys # {} => Max(keys) \in keys)
    OBVIOUS
  <2>1. IsFiniteSet(keys) /\ keys \in SUBSET Nat
    BY FS_Subset
  <2> QED
    BY <2>1, CnGreatest
<1>2. \A f, keys : keys \in SUBSET DOMAIN m /\ keys # {} /\ f[keys \ {Max(keys)}] = at(keys \ {Max(keys)})
                     => step(f, keys) = at(keys)
  <2> SUFFICES ASSUME NEW f, NEW keys \in SUBSET DOMAIN m, keys # {},
                      f[keys \ {Max(keys)}] = at(keys \ {Max(keys)})
               PROVE  step(f, keys) = at(keys)
    OBVIOUS
  <2>1. PICK k \in keys : k = Max(keys)
    BY <1>1
  <2>2. f[keys \ {k}] = [map |-> CnLeft(m, keys \ {k}, v), count |-> Cardinality(CnHaving(m, keys \ {k}, v))]
    BY <2>1
  <2>3. f[keys \ {k}].map = CnLeft(m, keys \ {k}, v) /\ f[keys \ {k}].count = Cardinality(CnHaving(m, keys \ {k}, v))
    BY <2>2
  <2>4. IsFiniteSet(keys)
    BY <1>1
  <2>5. step(f, keys) = IF m[k] = v THEN [map |-> CnWithout(f[keys \ {k}].map, {k}), count |-> f[keys \ {k}].count + 1]
                        ELSE f[keys \ {k}]
    BY <2>1
  <2> HIDE DEF step
  <2>8. keys \in SUBSET DOMAIN m /\ k \in keys
    OBVIOUS
  <2>6. CASE m[k] = v
    <3>1. /\ CnWithout(CnLeft(m, keys \ {k}, v), {k}) = CnLeft(m, keys, v)
          /\ Cardinality(CnHaving(m, keys \ {k}, v)) + 1 = Cardinality(CnHaving(m, keys, v))
      BY ONLY <2>4, <2>8, <2>6, CnPasses
    <3>2. step(f, keys) = [map |-> CnWithout(f[keys \ {k}].map, {k}), count |-> f[keys \ {k}].count + 1]
      BY <2>5, <2>6
    <3> QED
      BY <2>3, <3>1, <3>2
  <2>7. CASE m[k] # v
    <3>1. CnLeft(m, keys \ {k}, v) = CnLeft(m, keys, v) /\ CnHaving(m, keys \ {k}, v) = CnHaving(m, keys, v)
      BY ONLY <2>4, <2>8, <2>7, CnPasses
    <3>2. step(f, keys) = f[keys \ {k}]
      BY <2>5, <2>7
    <3> QED
      BY <2>2, <3>1, <3>2, Zenon
  <2> QED
    BY <2>6, <2>7
<1>3. at({}) = [map |-> m, count |-> 0]
  <2>1. CnLeft(m, {}, v) = m
    BY DEF CnLeft
  <2>2. CnHaving(m, {}, v) = {}
    BY DEF CnHaving
  <2> QED
    BY <2>1, <2>2, FS_EmptySet
<1> HIDE DEF at
<1>4. P(w)
  <2>1. \A keys \in SUBSET DOMAIN m : w[keys] = step(w, keys)
    <3> SUFFICES ASSUME NEW keys \in SUBSET DOMAIN m PROVE w[keys] = step(w, keys)
      OBVIOUS
    <3>1. CASE keys = {}
      BY <1>3, <3>1
    <3>2. CASE keys # {}
      <4>1. keys \ {Max(keys)} \in SUBSET DOMAIN m
        OBVIOUS
      <4>2. w[keys \ {Max(keys)}] = at(keys \ {Max(keys)}) /\ w[keys] = at(keys)
        BY <4>1
      <4> HIDE DEF w, step
      <4> QED
        BY <1>2, <3>2, <4>2
    <3> QED
      BY <3>1, <3>2
  <2>2. w = [keys \in SUBSET DOMAIN m |-> w[keys]]
    OBVIOUS
  <2> HIDE DEF w, step
  <2> QED
    BY <2>1, <2>2
<1> DEFINE g == CHOOSE f : P(f)
<1>5. P(g)
  <2> HIDE DEF P, w
  <2> QED
    BY <1>4
<1>6. CnErased(m, v) = g[DOMAIN m]
  BY DEF CnErased
<1> HIDE DEF g
<1> DEFINE Right(keys) == g[keys] = at(keys)
           bad == {n \in Nat : \E keys \in SUBSET DOMAIN m : ~Right(keys) /\ Cardinality(keys) = n}
<1>7. \A keys \in SUBSET DOMAIN m : Right(keys)
  <2> SUFFICES ASSUME NEW L \in SUBSET DOMAIN m, ~Right(L) PROVE FALSE
    OBVIOUS
  <2> HIDE DEF Right
  <2>1. Cardinality(L) \in bad
    BY <1>1, FS_CardinalityType
  <2>2. PICK n \in bad : \A k \in bad : n <= k
    <3> bad \in SUBSET Nat /\ bad # {}
      BY <2>1
    <3> HIDE DEF bad
    <3> QED
      BY CnSmallest
  <2>3. PICK keys \in SUBSET DOMAIN m : ~Right(keys) /\ Cardinality(keys) = n
    BY <2>2
  <2>4. g[keys] = step(g, keys)
    <3> HIDE DEF step
    <3> QED
      BY <1>5
  <2>5. CASE keys = {}
    BY <1>3, <2>3, <2>4, <2>5 DEF Right
  <2>6. CASE keys # {}
    <3>1. PICK x : x = Max(keys) /\ x \in keys
      BY <1>1, <2>6
    <3>2. n \in Nat /\ IsFiniteSet(keys \ {x}) /\ Cardinality(keys \ {x}) = n - 1 /\ keys \ {x} \in SUBSET DOMAIN m
      BY <1>1, <2>2, <2>3, <3>1, FS_RemoveElement
    <3>3. Right(keys \ {x})
      <4> SUFFICES ASSUME ~Right(keys \ {x}) PROVE FALSE
        OBVIOUS
      <4>1. n - 1 \in Nat
        BY <3>2, FS_CardinalityType
      <4>2. n - 1 \in bad
        BY <3>2, <4>1
      <4> QED
        BY <2>2, <3>2, <4>2
    <3>4. g[keys \ {x}] = at(keys \ {x})
      BY <3>3 DEF Right
    <3> HIDE DEF step
    <3>5. step(g, keys) = at(keys)
      BY <1>2, <2>6, <3>1, <3>4
    <3> QED
      BY <2>3, <2>4, <3>5 DEF Right
  <2> QED
    BY <2>5, <2>6
<1>8. g[DOMAIN m] = at(DOMAIN m)
  BY <1>7
<1> QED
  BY <1>6, <1>8 DEF at

(* A map has finitely many entries, in the order of their keys. *)
CnFits(m) == m = [k \in DOMAIN m |-> m[k]] /\ DOMAIN m \in SUBSET Nat /\ IsFiniteSet(DOMAIN m)

LEMMA CnEmptyFits == CnFits(<< >>)
<1>1. DOMAIN << >> = {} /\ << >> = [k \in {} |-> << >>[k]]
  OBVIOUS
<1> QED
  BY <1>1, FS_EmptySet DEF CnFits

LEMMA CnWithFits ==
  ASSUME NEW m, CnFits(m), NEW k \in Nat, NEW v
  PROVE  CnFits(CnWith(m, k, v))
<1> DEFINE f == CnWith(m, k, v)
<1>1. DOMAIN f = DOMAIN m \cup {k} /\ f = [l \in DOMAIN f |-> f[l]]
  BY DEF CnWith
<1>2. IsFiniteSet(DOMAIN m \cup {k})
  BY FS_AddElement DEF CnFits
<1> HIDE DEF f
<1>3. CnFits(f)
  BY <1>1, <1>2 DEF CnFits
<1> QED
  BY <1>3 DEF f

LEMMA CnWithoutFits ==
  ASSUME NEW m, CnFits(m), NEW keys
  PROVE  CnFits(CnWithout(m, keys))
<1> DEFINE f == CnWithout(m, keys)
<1>1. DOMAIN f \subseteq DOMAIN m /\ f = [l \in DOMAIN f |-> f[l]]
  BY DEF CnWithout, RestrictDomain, Restrict
<1> HIDE DEF f
<1>2. IsFiniteSet(DOMAIN f)
  BY <1>1, FS_Subset DEF CnFits
<1>3. CnFits(f)
  BY <1>1, <1>2 DEF CnFits
<1> QED
  BY <1>3 DEF f

CnErasedRight(m, v) ==
  /\ DOMAIN CnErased(m, v).map = DOMAIN m \ {k \in DOMAIN m : m[k] = v}
  /\ CnErased(m, v).count = Cardinality({k \in DOMAIN m : m[k] = v})
  /\ \A k \in DOMAIN CnErased(m, v).map : CnErased(m, v).map[k] = m[k]

LEMMA CnErasedFits ==
  ASSUME NEW m, CnFits(m), NEW v
  PROVE  CnErasedRight(m, v) /\ CnFits(CnErased(m, v).map)
<1> DEFINE f == CnLeft(m, DOMAIN m, v)
<1>1. CnErased(m, v) = [map |-> f, count |-> Cardinality(CnHaving(m, DOMAIN m, v))]
  BY CnErasedIs DEF CnFits
<1>2. CnErased(m, v).map = f /\ CnErased(m, v).count = Cardinality({k \in DOMAIN m : m[k] = v})
  BY <1>1 DEF CnHaving
<1>3. /\ DOMAIN f = DOMAIN m \ {k \in DOMAIN m : m[k] = v} /\ \A k \in DOMAIN f : f[k] = m[k]
      /\ f = [k \in DOMAIN f |-> f[k]]
  BY DEF CnLeft
<1> HIDE DEF f
<1>4. IsFiniteSet(DOMAIN f) /\ DOMAIN f \in SUBSET Nat
  BY <1>3, FS_Subset DEF CnFits
<1>5. CnFits(f)
  BY <1>3, <1>4 DEF CnFits
<1> QED
  BY <1>2, <1>3, <1>5 DEF CnErasedRight

(* An entry behind another one is at a later place. *)
CnBelow(D, k) == {l \in D : l < k}

LEMMA CnRanked ==
  ASSUME NEW D \in SUBSET Nat, IsFiniteSet(D), NEW k \in D
  PROVE  /\ Cardinality(CnBelow(D, k)) \in 0..Cardinality(D)
         /\ \A l \in D : l < k => Cardinality(CnBelow(D, l)) < Cardinality(CnBelow(D, k))
<1>1. \A j \in D : IsFiniteSet(CnBelow(D, j)) /\ Cardinality(CnBelow(D, j)) \in Nat
  <2> SUFFICES ASSUME NEW j \in D PROVE IsFiniteSet(CnBelow(D, j)) /\ Cardinality(CnBelow(D, j)) \in Nat
    OBVIOUS
  <2>1. CnBelow(D, j) \subseteq D
    BY DEF CnBelow
  <2>2. IsFiniteSet(CnBelow(D, j))
    BY <2>1, FS_Subset
  <2> QED
    BY <2>2, FS_CardinalityType
<1>2. Cardinality(CnBelow(D, k)) <= Cardinality(D) /\ Cardinality(D) \in Nat
  <2>1. CnBelow(D, k) \subseteq D
    BY DEF CnBelow
  <2> QED
    BY <2>1, FS_Subset, FS_CardinalityType
<1>3. ASSUME NEW l \in D, l < k PROVE Cardinality(CnBelow(D, l)) < Cardinality(CnBelow(D, k))
  <2>1. l \in Nat /\ k \in Nat /\ D \subseteq Nat
    OBVIOUS
  <2>2. CnBelow(D, l) \subseteq CnBelow(D, k) /\ l \in CnBelow(D, k) /\ l \notin CnBelow(D, l)
    <3>1. \A h \in D : h \in Nat /\ (h < l => h < k)
      BY <1>3, <2>1
    <3>2. ~(l < l)
      BY <2>1
    <3> QED
      BY <1>3, <3>1, <3>2, Zenon DEF CnBelow
  <2>3. /\ Cardinality(CnBelow(D, l)) <= Cardinality(CnBelow(D, k))
        /\ Cardinality(CnBelow(D, l)) = Cardinality(CnBelow(D, k)) => CnBelow(D, l) = CnBelow(D, k)
    BY <1>1, <2>2, FS_Subset
  <2>4. Cardinality(CnBelow(D, l)) # Cardinality(CnBelow(D, k))
    BY <2>2, <2>3
  <2>5. Cardinality(CnBelow(D, l)) \in Nat /\ Cardinality(CnBelow(D, k)) \in Nat
    BY <1>1
  <2> QED
    BY <2>3, <2>4, <2>5
<1> QED
  BY <1>1, <1>2, <1>3

LEMMA CnMapFinds == CnFits(cnMap) => MapFinds
<1> SUFFICES ASSUME CnFits(cnMap), NEW v \in CnValues
             PROVE  LET having == {k \in DOMAIN cnMap : cnMap[k] = v}
                        all == CnErased(cnMap, v)
                    IN /\ DOMAIN all.map = DOMAIN cnMap \ having /\ all.count = Cardinality(having)
                       /\ \A k \in DOMAIN all.map : all.map[k] = cnMap[k]
                       /\ \A k \in MapFindFirst(cnMap, v) :
                            \E i \in 0..Cardinality(DOMAIN cnMap) :
                              /\ MapGetAt(cnMap, i) = {k}
                              /\ \A j \in 0..(i - 1) : MapGetAt(cnMap, j) \cap having = {}
  BY DEF MapFinds
<1> DEFINE D == DOMAIN cnMap
           having == {k \in D : cnMap[k] = v}
<1>1. D \in SUBSET Nat /\ IsFiniteSet(D)
  BY DEF CnFits
<1>2. \A i : MapGetAt(cnMap, i) = {k \in D : Cardinality(CnBelow(D, k)) = i}
  BY DEF MapGetAt, CnBelow
<1>3. ASSUME NEW k \in MapFindFirst(cnMap, v)
      PROVE  \E i \in 0..Cardinality(D) : /\ MapGetAt(cnMap, i) = {k}
                                          /\ \A j \in 0..(i - 1) : MapGetAt(cnMap, j) \cap having = {}
  <2>1. having # {} /\ k = Min(having)
    BY <1>3 DEF MapFindFirst, CnFront
  <2>2. having \in SUBSET Nat
    BY <1>1
  <2>3. k \in having /\ \A l \in having : k <= l
    <3> HIDE DEF having
    <3> QED
      BY <2>1, <2>2, CnSmallest DEF Min
  <2>4. k \in D /\ k \in Nat
    BY <2>2, <2>3
  <2> DEFINE rank(l) == Cardinality(CnBelow(D, l))
  <2>5. \A l \in D : rank(l) \in 0..Cardinality(D) /\ \A h \in D : h < l => rank(h) < rank(l)
    <3> SUFFICES ASSUME NEW l \in D PROVE rank(l) \in 0..Cardinality(D) /\ \A h \in D : h < l => rank(h) < rank(l)
      OBVIOUS
    <3> HIDE DEF D
    <3> QED
      BY <1>1, CnRanked
  <2>6. \A l \in D : l \in Nat /\ rank(l) \in Nat
    <3>1. Cardinality(D) \in Nat
      BY <1>1, FS_CardinalityType
    <3> HIDE DEF rank, D
    <3> QED
      BY <1>1, <2>5, <3>1
  <2> HIDE DEF rank
  <2>7. \A l \in D : rank(l) = rank(k) => l = k
    <3> HIDE DEF D
    <3> SUFFICES ASSUME NEW l \in D, rank(l) = rank(k) PROVE l = k
      OBVIOUS
    <3>1. ~(l < k) /\ ~(k < l)
      BY <2>4, <2>5, <2>6
    <3> QED
      BY <2>4, <2>6, <3>1
  <2>8. MapGetAt(cnMap, rank(k)) = {k}
    <3> HIDE DEF D
    <3> QED
      BY <1>2, <2>4, <2>7 DEF rank
  <2>9. ASSUME NEW j \in 0..(rank(k) - 1), NEW l \in MapGetAt(cnMap, j), l \in having PROVE FALSE
    <3>1. l \in D /\ rank(l) = j
      BY <1>2, <2>9 DEF rank
    <3>2. j < rank(k) /\ rank(k) \in Nat
      BY <2>4, <2>6
    <3>3. k <= l /\ l \in Nat
      BY <2>3, <2>6, <2>9, <3>1
    <3>4. k = l \/ k < l
      BY <2>4, <3>3
    <3>5. k < l => rank(k) < rank(l)
      BY <2>4, <2>5, <3>1
    <3>6. rank(l) < rank(k) /\ rank(l) \in Nat
      BY <2>6, <3>1, <3>2
    <3> QED
      BY <3>2, <3>4, <3>5, <3>6
  <2>10. rank(k) \in 0..Cardinality(D)
    BY <2>4, <2>5
  <2> HIDE DEF having, D
  <2> QED
    BY <2>8, <2>9, <2>10
<1>4. /\ DOMAIN CnErased(cnMap, v).map = D \ having /\ CnErased(cnMap, v).count = Cardinality(having)
      /\ \A k \in DOMAIN CnErased(cnMap, v).map : CnErased(cnMap, v).map[k] = cnMap[k]
  <2>1. /\ DOMAIN CnErased(cnMap, v).map = DOMAIN cnMap \ {k \in DOMAIN cnMap : cnMap[k] = v}
        /\ CnErased(cnMap, v).count = Cardinality({k \in DOMAIN cnMap : cnMap[k] = v})
        /\ \A k \in DOMAIN CnErased(cnMap, v).map : CnErased(cnMap, v).map[k] = cnMap[k]
    <3>1. CnErasedRight(cnMap, v)
      BY CnErasedFits
    <3> QED
      BY <3>1 DEF CnErasedRight
  <2> QED
    BY <2>1, Zenon
<1> QED
  BY <1>3, <1>4

LEMMA CnMapStep == CnFits(cnMap) /\ MapNext => CnFits(cnMap)'
<1> SUFFICES ASSUME CnFits(cnMap), MapNext PROVE CnFits(cnMap')
  BY DEF CnFits
<1>1. ASSUME NEW k \in CnKeys, NEW v, MapSet(k, v) \/ MapInsert(k, v) PROVE CnFits(cnMap')
  <2>1. k \in Nat
    BY ContainersAssumption
  <2>2. cnMap' = cnMap \/ cnMap' = CnWith(cnMap, k, v)
    BY <1>1 DEF MapSet, MapInsert
  <2> QED
    BY <2>1, <2>2, CnWithFits
<1>2. ASSUME NEW k \in CnKeys, MapRemove(k) PROVE CnFits(cnMap')
  BY <1>2, CnWithoutFits DEF MapRemove
<1>3. ASSUME NEW k \in CnKeys, MapGet(k) PROVE CnFits(cnMap')
  BY <1>1, <1>3 DEF MapGet
<1>4. ASSUME NEW values, MapRemoveFirst(values) PROVE CnFits(cnMap')
  BY <1>4, CnWithoutFits DEF MapRemoveFirst
<1>5. ASSUME NEW v, MapRemoveAll(v) PROVE CnFits(cnMap')
  BY <1>5, CnErasedFits DEF MapRemoveAll
<1>6. ASSUME MapClear PROVE CnFits(cnMap')
  <2>1. cnMap' = << >>
    BY <1>6 DEF MapClear
  <2> QED
    BY <2>1, CnEmptyFits
<1> QED
  BY <1>1, <1>2, <1>3, <1>4, <1>5, <1>6 DEF MapNext

-----------------------------------------------------------------------------
(* The generator of numbers (Containers)                                     *)

CnNumRange == [lower : Nat, upper : Nat, step : Nat]
CnNumTyped == ngRange \in CnNumRange /\ ngCur \in Nat

LEMMA CnNumStep == CnNumTyped /\ CnNumNext => CnNumTyped'
<1> SUFFICES ASSUME CnNumTyped, CnNumNext PROVE CnNumTyped'
  OBVIOUS
<1>1. CnModulus \in Nat /\ CnNumbers \subseteq Nat
  BY ContainersAssumption DEF CnNumbers
<1>2. ASSUME NEW a \in CnNumbers, NEW b \in CnNumbers, NumSetRange(a, b) PROVE CnNumTyped'
  <2>1. Min({a, b}) \in Nat
    <3>1. {a, b} \in SUBSET Nat /\ {a, b} # {}
      BY <1>1
    <3>2. Min({a, b}) \in {a, b}
      BY <3>1, CnLeast
    <3> QED
      BY <1>1, <3>2
  <2>2. Max({a, b}) \in Nat
    <3>1. {a, b} \in SUBSET Nat /\ {a, b} # {}
      BY <1>1
    <3>2. IsFiniteSet({a} \cup {b})
      BY FS_Singleton, FS_AddElement
    <3>3. {a} \cup {b} = {a, b}
      OBVIOUS
    <3>4. Max({a, b}) \in {a, b}
      BY <3>1, <3>2, <3>3, CnGreatest
    <3> QED
      BY <1>1, <3>4
  <2> QED
    BY <1>2, <2>1, <2>2 DEF CnNumTyped, CnNumRange, NumSetRange
<1>3. ASSUME NEW s \in CnNumbers, NumSetStep(s) PROVE CnNumTyped'
  BY <1>1, <1>3 DEF CnNumTyped, CnNumRange, NumSetStep
<1>4. ASSUME NumNext PROVE CnNumTyped'
  <2>1. ngRange.lower \in Nat /\ ngRange.step \in Nat /\ ngCur \in Nat
    BY DEF CnNumTyped, CnNumRange
  <2>2. PICK s \in Nat : s = ngCur + ngRange.step
    BY <2>1
  <2>3. s % CnModulus \in Nat
    BY ContainersAssumption
  <2>4. NumFollowing(ngRange, ngCur) \in {ngRange.lower, s % CnModulus}
    BY <2>2 DEF NumFollowing
  <2>5. ngCur' \in Nat /\ ngRange' = ngRange
    BY <1>4, <2>1, <2>3, <2>4 DEF NumNext
  <2> QED
    BY <2>5 DEF CnNumTyped
<1> QED
  BY <1>2, <1>3, <1>4 DEF CnNumNext

(* While the type can hold what lies one step beyond the range, no sum overflows. *)
LEMMA NumFollows ==
  ASSUME NEW r \in CnNumRange, NumFits(r), NEW cur \in r.lower..r.upper
  PROVE  NumFollowing(r, cur) = IF r.upper < cur + r.step THEN r.lower ELSE cur + r.step
<1>1. PICK lo \in Nat, up \in Nat, s \in Nat : lo = r.lower /\ up = r.upper /\ s = r.step
  BY DEF CnNumRange
<1>2. up + s \in 0..(CnModulus - 1) /\ CnModulus \in Nat \ {0} /\ cur \in lo..up
  BY <1>1, ContainersAssumption DEF NumFits, CnNumbers
<1>3. cur + s \in Nat /\ cur + s < CnModulus /\ cur + s \in 0..(2 * CnModulus - 1)
  BY <1>2
<1>4. (cur + s) % CnModulus = cur + s
  BY <1>2, <1>3, CnRound
<1> QED
  BY <1>1, <1>4 DEF NumFollowing

(* The numbers that follow one another exist, however many. *)
CnRoundIs(f, r, cur, n) == f = [i \in 0..n |-> IF i = 0 THEN cur ELSE NumFollowing(r, f[i - 1])]

LEMMA CnRoundExists ==
  ASSUME NEW r, NEW cur, NEW n \in Nat
  PROVE  \E f : CnRoundIs(f, r, cur, n)
<1> DEFINE Has(k) == \E f : CnRoundIs(f, r, cur, k)
           bad == {k \in Nat : ~Has(k)}
<1>1. SUFFICES ASSUME n \in bad PROVE FALSE
  OBVIOUS
<1>2. PICK k \in bad : \A j \in bad : k <= j
  <2> bad \in SUBSET Nat /\ bad # {}
    BY <1>1
  <2> HIDE DEF bad
  <2> QED
    BY CnSmallest
<1>3. CASE k = 0
  <2> DEFINE f == [i \in 0..0 |-> cur]
  <2>1. \A i \in 0..0 : i = 0
    OBVIOUS
  <2>2. f = [i \in 0..0 |-> IF i = 0 THEN cur ELSE NumFollowing(r, f[i - 1])]
    BY <2>1
  <2>3. Has(0)
    BY <2>2 DEF CnRoundIs
  <2> QED
    BY <1>2, <1>3, <2>3
<1>4. CASE k # 0
  <2>1. k - 1 \in Nat /\ k \in Nat /\ k - 1 < k
    BY <1>2, <1>4
  <2>2. Has(k - 1)
    <3>1. k - 1 \notin bad
      BY <1>2, <2>1
    <3> HIDE DEF Has
    <3> QED
      BY <2>1, <3>1
  <2>3. PICK f : CnRoundIs(f, r, cur, k - 1)
    BY <2>2
  <2> DEFINE g == [i \in 0..k |-> IF i = k THEN NumFollowing(r, f[k - 1]) ELSE f[i]]
  <2>4. \A i \in 0..(k - 1) : f[i] = IF i = 0 THEN cur ELSE NumFollowing(r, f[i - 1])
    BY <2>3 DEF CnRoundIs
  <2>5. \A i \in 0..k : g[i] = IF i = 0 THEN cur ELSE NumFollowing(r, g[i - 1])
    <3> SUFFICES ASSUME NEW i \in 0..k PROVE g[i] = IF i = 0 THEN cur ELSE NumFollowing(r, g[i - 1])
      OBVIOUS
    <3>1. CASE i = k
      <4>1. i # 0 /\ k - 1 \in 0..k /\ k - 1 # k
        BY <1>4, <2>1, <3>1
      <4>2. g[k - 1] = f[k - 1] /\ g[k] = NumFollowing(r, f[k - 1])
        BY <3>1, <4>1
      <4> HIDE DEF g
      <4> QED
        BY <3>1, <4>1, <4>2
    <3>2. CASE i # k
      <4>1. i \in 0..(k - 1) /\ g[i] = f[i]
        BY <2>1, <3>2
      <4>2. i # 0 => i - 1 \in 0..k /\ i - 1 # k
        BY <2>1, <4>1
      <4>3. i # 0 => g[i - 1] = f[i - 1]
        BY <4>2
      <4> HIDE DEF g
      <4> QED
        BY <2>4, <4>1, <4>3
    <3> QED
      BY <3>1, <3>2
  <2>6. g = [i \in 0..k |-> g[i]]
    OBVIOUS
  <2> HIDE DEF g
  <2>7. CnRoundIs(g, r, cur, k)
    BY <2>5, <2>6 DEF CnRoundIs
  <2>8. Has(k)
    BY <2>7
  <2> QED
    BY <1>2, <2>8
<1> QED
  BY <1>3, <1>4

(* They stay in the range, and with a step of one they come round. *)
LEMMA CnRoundStays ==
  ASSUME NEW r \in CnNumRange, NumFits(r), NEW cur \in r.lower..r.upper, NEW n \in Nat,
         NEW f, CnRoundIs(f, r, cur, n)
  PROVE  \A i \in 0..n : f[i] \in r.lower..r.upper
<1> DEFINE bad == {i \in 0..n : f[i] \notin r.lower..r.upper}
<1>1. SUFFICES ASSUME bad # {} PROVE FALSE
  OBVIOUS
<1>2. PICK i \in bad : \A j \in bad : i <= j
  <2> bad \in SUBSET Nat
    OBVIOUS
  <2> HIDE DEF bad
  <2> QED
    BY <1>1, CnSmallest
<1>3. f[i] = IF i = 0 THEN cur ELSE NumFollowing(r, f[i - 1])
  BY <1>2 DEF CnRoundIs
<1>4. i # 0
  BY <1>2, <1>3
<1>5. i - 1 \in 0..n /\ i - 1 \notin bad
  BY <1>2, <1>4
<1>6. PICK c \in r.lower..r.upper : c = f[i - 1]
  BY <1>5
<1>7. f[i] = IF r.upper < c + r.step THEN r.lower ELSE c + r.step
  BY <1>3, <1>4, <1>6, NumFollows
<1>8. r.lower \in Nat /\ r.upper \in Nat /\ r.step \in Nat
  BY DEF CnNumRange
<1>9. f[i] \in r.lower..r.upper
  BY <1>6, <1>7, <1>8
<1> QED
  BY <1>2, <1>9

LEMMA CnRoundReturns ==
  ASSUME NEW r \in CnNumRange, NumFits(r), NEW cur \in r.lower..r.upper, r.step = 1, NEW n,
         n = r.upper - r.lower + 1, NEW f, CnRoundIs(f, r, cur, n)
  PROVE  f[n] = cur /\ {f[i] : i \in 1..n} = r.lower..r.upper
<1>1. PICK lo \in Nat, up \in Nat : lo = r.lower /\ up = r.upper
  BY DEF CnNumRange
<1>2. n \in Nat /\ n = up - lo + 1 /\ cur \in lo..up /\ cur \in Nat
  BY <1>1
<1> DEFINE at(i) == IF cur + i <= up THEN cur + i ELSE cur + i - n
<1>3. \A i \in 0..n : f[i] = at(i)
  <2> DEFINE bad == {i \in 0..n : f[i] # at(i)}
  <2>1. SUFFICES ASSUME bad # {} PROVE FALSE
    OBVIOUS
  <2>2. PICK i \in bad : \A j \in bad : i <= j
    <3>1. 0..n \subseteq Nat
      BY <1>2
    <3>2. bad \in SUBSET Nat
      BY <3>1
    <3> HIDE DEF bad
    <3> QED
      BY <2>1, <3>2, CnSmallest
  <2>3. f[i] = IF i = 0 THEN cur ELSE NumFollowing(r, f[i - 1])
    BY <2>2 DEF CnRoundIs
  <2>4. i # 0
    BY <1>2, <2>2, <2>3
  <2>5. i - 1 \in 0..n /\ i - 1 \notin bad /\ i \in 1..n
    BY <1>2, <2>2, <2>4
  <2>6. f[i - 1] = at(i - 1)
    BY <2>5
  <2>7. at(i - 1) \in lo..up
    BY <1>2, <2>5
  <2>8. PICK c \in lo..up : c = at(i - 1)
    BY <2>7
  <2>9. f[i] = IF up < c + 1 THEN lo ELSE c + 1
    <3>1. c \in r.lower..r.upper /\ f[i - 1] = c
      BY <1>1, <2>6, <2>8
    <3> HIDE DEF at
    <3> QED
      BY <1>1, <2>3, <2>4, <3>1, NumFollows
  <2>10. f[i] = at(i)
    <3>1. i \in Nat /\ i >= 1 /\ i <= n /\ c \in Nat
      BY <1>2, <2>5, <2>8
    <3>2. CASE cur + (i - 1) <= up
      <4>1. c = cur + (i - 1)
        BY <2>8, <3>2
      <4>2. c + 1 = cur + i /\ (cur + i = up + 1 => lo = cur + i - n)
        BY <1>2, <3>1, <4>1
      <4>3. up < c + 1 => cur + i = up + 1 /\ ~(cur + i <= up)
        BY <1>2, <3>1, <3>2, <4>2
      <4>4. ~(up < c + 1) => cur + i <= up
        BY <1>2, <3>1, <4>2
      <4> QED
        BY <2>9, <4>2, <4>3, <4>4
    <3>3. CASE ~(cur + (i - 1) <= up)
      <4>1. c = cur + (i - 1) - n
        BY <2>8, <3>3
      <4>2. c + 1 = cur + i - n /\ ~(cur + i <= up)
        <5>1. n \in Nat /\ cur \in Nat /\ i \in Nat
          BY <1>2, <3>1
        <5> QED
          BY ONLY <5>1, <3>3, <4>1, up \in Nat
      <4>3. ~(up < c + 1)
        BY <1>2, <3>1, <4>2
      <4> QED
        BY <2>9, <4>2, <4>3
    <3> QED
      BY <3>2, <3>3
  <2> QED
    BY <2>2, <2>10
<1>4. f[n] = cur
  <2>1. at(n) = cur /\ n \in 0..n
    BY <1>2
  <2> HIDE DEF at
  <2> QED
    BY <1>3, <2>1
<1>5. ASSUME NEW x \in lo..up PROVE \E i \in 1..n : f[i] = x
  <2>1. CASE x > cur
    <3>1. x - cur \in 1..n /\ at(x - cur) = x
      BY <1>2, <2>1
    <3> HIDE DEF at
    <3> QED
      BY <1>2, <1>3, <3>1
  <2>2. CASE x <= cur
    <3>1. x - cur + n \in 1..n /\ at(x - cur + n) = x
      BY <1>2, <2>2
    <3> HIDE DEF at
    <3> QED
      BY <1>2, <1>3, <3>1
  <2> QED
    BY <1>2, <2>1, <2>2
<1>6. \A i \in 1..n : f[i] \in r.lower..r.upper
  <2>1. 1..n \subseteq 0..n
    BY <1>2
  <2> QED
    BY <1>2, <2>1, CnRoundStays
<1> QED
  BY <1>1, <1>4, <1>5, <1>6

LEMMA CnNumCycles == CnNumTyped => NumCycles
<1> SUFFICES ASSUME CnNumTyped, NumFits(ngRange), ngCur \in ngRange.lower..ngRange.upper
             PROVE  NumCycles
  BY DEF NumCycles
<1> DEFINE n == ngRange.upper - ngRange.lower + 1
           round == CHOOSE f : f = [i \in 0..n |-> IF i = 0 THEN ngCur ELSE NumFollowing(ngRange, f[i - 1])]
<1>1. ngRange \in CnNumRange /\ ngRange.lower \in Nat /\ ngRange.upper \in Nat
  BY DEF CnNumTyped, CnNumRange
<1>2. n \in Nat
  BY <1>1
<1>3. CnRoundIs(round, ngRange, ngCur, n)
  <2>1. \E f : CnRoundIs(f, ngRange, ngCur, n)
    <3> HIDE DEF n
    <3> QED
      BY <1>2, CnRoundExists
  <2>2. \E f : f = [i \in 0..n |-> IF i = 0 THEN ngCur ELSE NumFollowing(ngRange, f[i - 1])]
    BY <2>1 DEF CnRoundIs
  <2> HIDE DEF n
  <2> QED
    BY <2>2 DEF CnRoundIs
<1>4. \A i \in 0..n : round[i] \in ngRange.lower..ngRange.upper
  <2> HIDE DEF round
  <2> QED
    BY <1>1, <1>2, <1>3, CnRoundStays
<1>5. ngRange.step = 1 => round[n] = ngCur /\ {round[i] : i \in 1..n} = ngRange.lower..ngRange.upper
  <2> HIDE DEF round
  <2> QED
    BY <1>1, <1>3, CnRoundReturns
<1> QED
  BY <1>4, <1>5 DEF NumCycles

(* A step of one container leaves the others alone. *)
LEMMA CnInitFits == CnInit => CnArrayInv /\ CnFits(cnMap) /\ CnNumTyped
<1> SUFFICES ASSUME CnInit PROVE CnArrayInv /\ CnFits(cnMap) /\ CnNumTyped
  OBVIOUS
<1>1. CnTaken = {} /\ cnElements \in [CnIndices -> CnValues \cup {CnIdle}] /\ cnCount = 0 /\ cnHint = 0
  BY DEF CnInit, CnTaken
<1>2. CnArrayInv
  BY <1>1, CnPlaces, FS_EmptySet DEF CnArrayInv, ArrayCounts, CnTaken
<1>3. CnFits(cnMap)
  BY CnEmptyFits DEF CnInit
<1>4. CnNumTyped
  BY DEF CnInit, CnNumTyped, CnNumRange
<1> QED
  BY <1>2, <1>3, <1>4

LEMMA CnStepInv == CnArrayInv /\ CnFits(cnMap) /\ CnNumTyped /\ [CnNext]_cnVars => (CnArrayInv /\ CnFits(cnMap) /\ CnNumTyped)'
<1> SUFFICES ASSUME CnArrayInv, CnFits(cnMap), CnNumTyped, [CnNext]_cnVars
             PROVE  CnArrayInv' /\ CnFits(cnMap)' /\ CnNumTyped'
  OBVIOUS
<1>1. UNCHANGED cnArrayVars => CnArrayInv'
  BY DEF cnArrayVars, CnArrayInv, ArrayCounts
<1>2. UNCHANGED cnMapVars => CnFits(cnMap)'
  BY DEF cnMapVars, CnFits
<1>3. UNCHANGED cnNumVars => CnNumTyped'
  BY DEF cnNumVars, CnNumTyped
<1>4. CASE MapNext
  <2>1. CnOthers
    BY <1>4 DEF MapNext, MapSet, MapInsert, MapGet, MapRemove, MapRemoveFirst, MapRemoveAll, MapClear
  <2> QED
    BY <1>1, <1>3, <1>4, <2>1, CnMapStep DEF CnOthers
<1>5. CASE CnArrayNext
  <2>1. UNCHANGED <<cnMapVars, cnNumVars>>
    BY <1>5 DEF CnArrayNext, ArrayPut, ArrayPutAt, ArrayRemove, ArrayNext, ArrayClear, CnArray
  <2>2. CnArrayInv'
    BY <1>5, CnArrayStepInv
  <2> QED
    BY <1>2, <1>3, <2>1, <2>2
<1>6. CASE CnNumNext
  <2>1. UNCHANGED <<cnMapVars, cnArrayVars>>
    BY <1>6 DEF CnNumNext, NumSetRange, NumSetStep, NumNext
  <2> QED
    BY <1>1, <1>2, <1>6, <2>1, CnNumStep
<1>7. CASE UNCHANGED cnVars
  <2>1. UNCHANGED <<cnMapVars, cnArrayVars, cnNumVars>>
    BY <1>7 DEF cnVars, cnMapVars, cnArrayVars, cnNumVars
  <2> QED
    BY <1>1, <1>2, <1>3, <2>1
<1> QED
  BY <1>4, <1>5, <1>6, <1>7 DEF CnNext

(* The containers find what was put into them and count what they hold: a removal by value  *)
(* takes every entry that has it, put finds a place whenever there is one and overwrites    *)
(* nothing, and a generator comes by every number of its range, however the operations      *)
(* followed one another before (TMap.h, TDiscreteArray.h, NumGenerator.h).                  *)
THEOREM ContainersAreKept == CnSpec => ContainersKeep
<1>1. CnArrayInv /\ CnFits(cnMap) /\ CnNumTyped => MapFinds /\ ArrayCounts /\ NumCycles
  BY CnMapFinds, CnNumCycles DEF CnArrayInv
<1>2. CnArrayInv /\ [CnNext]_cnVars =>
        [\A v \in CnValues : ArrayPut(v) =>
           /\ cnGot' = CnNothing <=> cnCount = CnSize
           /\ cnGot' # CnNothing => cnElements'[cnGot'] = v
           /\ \A i \in CnIndices : cnElements[i] # CnIdle => cnElements'[i] = cnElements[i]]_cnVars
  BY CnPutStep
<1> QED
  BY <1>1, <1>2, CnInitFits, CnStepInv, PTL DEF CnSpec, ContainersKeep, ArrayKeeps

-----------------------------------------------------------------------------
(* The growing buffers (Buffers)                                             *)

(* The inductive invariant. *)
BbInv ==
  /\ bbMem \in Seq(Nat) /\ bbData \in Seq(Nat)
  /\ bbLen \in Nat /\ Len(bbData) = bbLen
  /\ bbLen <= Len(bbMem)
  /\ bbMem # <<>> => bbLen + BfReserved <= Len(bbMem)
  /\ \A i \in 1..bbLen : bbMem[i] = bbData[i]

(* The last byte of the block is a zero, beyond what any text may reach. *)
ChInv ==
  /\ chMem \in Seq(Nat) /\ chLen \in Nat /\ chCapacity \in Nat
  /\ chLen <= chCapacity /\ chCapacity <= Len(chMem)
  /\ chMem # <<>> /\ chMem[Len(chMem)] = 0

(* The lesser of two numbers.                                                *)
LEMMA BfLesser ==
  ASSUME NEW a \in Nat, NEW b \in Nat
  PROVE  Min({a, b}) = IF a <= b THEN a ELSE b
<1>1. PICK m \in {a, b} : \A x \in {a, b} : m <= x
  OBVIOUS
<1>2. Min({a, b}) \in {a, b} /\ \A x \in {a, b} : Min({a, b}) <= x
  BY <1>1 DEF Min
<1> QED
  BY <1>2

LEMMA BfFirstIs ==
  ASSUME NEW s \in Seq(Nat), NEW n \in Nat
  PROVE  /\ BfFirst(s, n) \in Seq(Nat)
         /\ Len(BfFirst(s, n)) = IF n <= Len(s) THEN n ELSE Len(s)
         /\ \A i \in 1..Len(BfFirst(s, n)) : BfFirst(s, n)[i] = s[i]
<1>1. Len(s) \in Nat
  BY LenProperties
<1>2. PICK k : k = IF n <= Len(s) THEN n ELSE Len(s)
  OBVIOUS
<1>3. BfFirst(s, n) = SubSeq(s, 1, k)
  BY <1>1, <1>2, BfLesser DEF BfFirst
<1>4. k \in Nat /\ \A i \in 1..k : s[i] \in Nat
  BY <1>1, <1>2, ElementOfSeq
<1>5. /\ SubSeq(s, 1, k) \in Seq(Nat) /\ Len(SubSeq(s, 1, k)) = IF 1 <= k THEN k - 1 + 1 ELSE 0
      /\ \A i \in 1..(k - 1 + 1) : SubSeq(s, 1, k)[i] = s[1 + i - 1]
  BY <1>4, SubSeqProperties
<1> QED
  BY <1>2, <1>3, <1>4, <1>5

LEMMA BfBlockIs ==
  ASSUME NEW n \in Nat, NEW v \in Nat
  PROVE  BfBlock(n, v) \in Seq(Nat) /\ Len(BfBlock(n, v)) = n /\ \A i \in 1..n : BfBlock(n, v)[i] = v
<1>1. BfBlock(n, v) = [i \in 1..n |-> v]
  BY DEF BfBlock
<1> QED
  BY <1>1

LEMMA BfPutIs ==
  ASSUME NEW mem \in Seq(Nat), NEW at \in Nat, NEW data \in Seq(Nat)
  PROVE  /\ BfPut(mem, at, data) \in Seq(Nat) /\ Len(BfPut(mem, at, data)) = Len(mem)
         /\ \A i \in 1..Len(mem) : BfPut(mem, at, data)[i] = IF i > at /\ i <= at + Len(data) THEN data[i - at] ELSE mem[i]
<1>1. Len(mem) \in Nat /\ DOMAIN mem = 1..Len(mem) /\ Len(data) \in Nat /\ DOMAIN data = 1..Len(data)
  BY LenProperties
<1>2. \A i \in 1..Len(mem) : i - at \in DOMAIN data <=> i > at /\ i <= at + Len(data)
  BY <1>1
<1>3. (\A i \in 1..Len(mem) : mem[i] \in Nat) /\ \A i \in 1..Len(data) : data[i] \in Nat
  BY ElementOfSeq
<1>4. BfPut(mem, at, data) = [i \in 1..Len(mem) |-> IF i - at \in DOMAIN data THEN data[i - at] ELSE mem[i]]
  BY <1>1 DEF BfPut
<1>5. \A i \in 1..Len(mem) : (IF i - at \in DOMAIN data THEN data[i - at] ELSE mem[i]) \in Nat
  BY <1>1, <1>3
<1>6. BfPut(mem, at, data) \in [1..Len(mem) -> Nat]
  BY <1>4, <1>5
<1>7. BfPut(mem, at, data) \in Seq(Nat) /\ Len(BfPut(mem, at, data)) = Len(mem)
  <2>1. PICK p, n : p = BfPut(mem, at, data) /\ n = Len(mem)
    OBVIOUS
  <2>2. n \in Nat /\ p \in [1..n -> Nat]
    BY <1>1, <1>6, <2>1
  <2>3. p \in Seq(Nat) /\ Len(p) = n
    BY <2>2, SeqDef, LenProperties
  <2> QED
    BY <2>1, <2>3
<1> QED
  BY <1>1, <1>2, <1>4, <1>7

LEMMA BfPutFront ==
  ASSUME NEW mem \in Seq(Nat), NEW data \in Seq(Nat)
  PROVE  /\ BfPut(mem, 0, data) \in Seq(Nat) /\ Len(BfPut(mem, 0, data)) = Len(mem)
         /\ \A i \in 1..Len(mem) : BfPut(mem, 0, data)[i] = IF i <= Len(data) THEN data[i] ELSE mem[i]
<1>1. PICK at \in Nat : at = 0
  OBVIOUS
<1>2. PICK p : p = BfPut(mem, at, data)
  OBVIOUS
<1>3. /\ p \in Seq(Nat) /\ Len(p) = Len(mem)
      /\ \A i \in 1..Len(mem) : p[i] = IF i > at /\ i <= at + Len(data) THEN data[i - at] ELSE mem[i]
  BY <1>2, BfPutIs
<1>4. Len(data) \in Nat /\ Len(mem) \in Nat
  BY LenProperties
<1>5. \A i \in 1..Len(mem) : p[i] = IF i <= Len(data) THEN data[i] ELSE mem[i]
  <2> SUFFICES ASSUME NEW i \in 1..Len(mem) PROVE p[i] = IF i <= Len(data) THEN data[i] ELSE mem[i]
    OBVIOUS
  <2>1. i > at /\ at + Len(data) = Len(data) /\ i - at = i
    BY <1>1, <1>4
  <2> QED
    BY <1>3, <2>1
<1> QED
  BY <1>1, <1>2, <1>3, <1>5

(* A sequence and a zero.                                                    *)
LEMMA BfZeroed ==
  ASSUME NEW s \in Seq(Nat)
  PROVE  /\ s \o <<0>> \in Seq(Nat) /\ Len(s \o <<0>>) = Len(s) + 1
         /\ \A i \in 1..Len(s) : (s \o <<0>>)[i] = s[i]
         /\ (s \o <<0>>)[Len(s) + 1] = 0
<1>1. <<0>> \in Seq(Nat) /\ Len(<<0>>) = 1 /\ <<0>>[1] = 0 /\ Len(s) \in Nat
  BY LenProperties
<1>2. /\ s \o <<0>> \in Seq(Nat) /\ Len(s \o <<0>>) = Len(s) + Len(<<0>>)
      /\ \A i \in 1..Len(s) + Len(<<0>>) :
           (s \o <<0>>)[i] = IF i <= Len(s) THEN s[i] ELSE <<0>>[i - Len(s)]
  BY <1>1, ConcatProperties
<1> QED
  BY <1>1, <1>2

(* internalEnsure: there is room, and what there was is still there.         *)
LEMMA BbEnsuredIs ==
  ASSUME NEW mem \in Seq(Nat), NEW len \in Nat, NEW capacity \in Nat, len <= Len(mem),
         mem # <<>> => len + BfReserved <= Len(mem)
  PROVE  LET e == BbEnsured(mem, len, capacity) IN
         /\ e \in Seq(Nat) /\ capacity + BfReserved <= Len(e) /\ len + BfReserved <= Len(e)
         /\ \A i \in 1..len : e[i] = mem[i]
<1> DEFINE e == BbEnsured(mem, len, capacity)
           n == (Len(mem) + capacity + BfReserved) * 2
<1>1. Len(mem) \in Nat /\ BfReserved \in Nat \ {0} /\ (mem = <<>> => Len(mem) = 0)
  BY BufferAssumption, LenProperties
<1>2. CASE capacity + BfReserved <= Len(mem)
  BY <1>1, <1>2 DEF BbEnsured
<1>3. CASE ~(capacity + BfReserved <= Len(mem))
  <2>1. PICK f : f = BfFirst(mem, len) \o <<0>>
    OBVIOUS
  <2>2. f \in Seq(Nat) /\ Len(f) = len + 1 /\ \A i \in 1..len : f[i] = mem[i]
    BY <2>1, BfFirstIs, BfZeroed
  <2>3. PICK b : b = BfBlock(n, BfAny)
    OBVIOUS
  <2>4. n \in Nat /\ n >= len + BfReserved /\ n >= capacity + BfReserved
    BY <1>1
  <2>5. b \in Seq(Nat) /\ Len(b) = n
    BY <2>3, <2>4, BfBlockIs DEF BfAny
  <2>6. e = BfPut(b, 0, f)
    BY <1>3, <2>1, <2>3 DEF BbEnsured
  <2> HIDE DEF e, n
  <2>7. /\ BfPut(b, 0, f) \in Seq(Nat) /\ Len(BfPut(b, 0, f)) = n
        /\ \A i \in 1..n : BfPut(b, 0, f)[i] = IF i <= Len(f) THEN f[i] ELSE b[i]
    BY <2>2, <2>5, BfPutFront
  <2>8. \A i \in 1..len : e[i] = mem[i]
    <3> SUFFICES ASSUME NEW i \in 1..len PROVE e[i] = mem[i]
      OBVIOUS
    <3>1. i \in 1..n /\ i <= Len(f)
      BY <1>1, <2>2, <2>4
    <3> QED
      BY <2>2, <2>6, <2>7, <3>1
  <2> QED
    BY <2>4, <2>6, <2>7, <2>8 DEF e
<1> QED
  BY <1>2, <1>3

LEMMA BbInitInv == BfInit => BbInv
<1>1. <<>> \in Seq(Nat) /\ Len(<<>>) = 0
  BY EmptySeq
<1> QED
  BY <1>1 DEF BfInit, BbInv

LEMMA BbWriteInv ==
  ASSUME BbInv, NEW data \in Seq(Nat), BbWrite(data)
  PROVE  BbInv'
<1>1. Len(data) \in Nat /\ BfReserved \in Nat \ {0} /\ (data = <<>> => Len(data) = 0)
      /\ bbMem \in Seq(Nat) /\ bbData \in Seq(Nat) /\ bbLen \in Nat /\ Len(bbData) = bbLen /\ bbLen <= Len(bbMem)
  BY BufferAssumption, LenProperties DEF BbInv
<1>2. PICK d : d = bbData \o data
  OBVIOUS
<1>3. /\ d \in Seq(Nat) /\ Len(d) = bbLen + Len(data)
      /\ \A i \in 1..(bbLen + Len(data)) : d[i] = IF i <= bbLen THEN bbData[i] ELSE data[i - bbLen]
  BY <1>1, <1>2, ConcatProperties
<1>4. bbLen' = bbLen + Len(data) /\ bbData' = d
  BY <1>2 DEF BbWrite, BbSet
<1>5. CASE data = <<>>
  <2>1. bbMem' = bbMem
    BY <1>5 DEF BbWrite, BbSet
  <2>2. Len(d) = bbLen /\ bbLen' = bbLen
    BY <1>1, <1>3, <1>4, <1>5
  <2>3. \A i \in 1..bbLen : d[i] = bbData[i]
    <3> SUFFICES ASSUME NEW i \in 1..bbLen PROVE d[i] = bbData[i]
      OBVIOUS
    <3>1. i <= bbLen /\ i \in 1..(bbLen + Len(data))
      BY <1>1
    <3> QED
      BY <1>3, <3>1
  <2> QED
    BY <1>3, <1>4, <2>1, <2>2, <2>3 DEF BbInv
<1>6. CASE data # <<>>
  <2>1. PICK e : e = BbEnsured(bbMem, bbLen, bbLen + Len(data))
    OBVIOUS
  <2>2. /\ e \in Seq(Nat) /\ bbLen + Len(data) + BfReserved <= Len(e)
        /\ \A i \in 1..bbLen : e[i] = bbMem[i]
    <3>1. PICK capacity : capacity = bbLen + Len(data)
      OBVIOUS
    <3>2. capacity \in Nat
      BY <1>1, <3>1
    <3>3. /\ BbEnsured(bbMem, bbLen, capacity) \in Seq(Nat)
          /\ capacity + BfReserved <= Len(BbEnsured(bbMem, bbLen, capacity))
          /\ \A i \in 1..bbLen : BbEnsured(bbMem, bbLen, capacity)[i] = bbMem[i]
      BY <1>1, <3>2, BbEnsuredIs DEF BbInv
    <3> QED
      BY <2>1, <3>1, <3>3
  <2>3. PICK z : z = data \o <<0>>
    OBVIOUS
  <2>4. z \in Seq(Nat) /\ Len(z) = Len(data) + 1 /\ \A i \in 1..Len(data) : z[i] = data[i]
    BY <2>3, BfZeroed
  <2>5. bbMem' = BfPut(e, bbLen, z)
    BY <1>6, <2>1, <2>3 DEF BbWrite, BbSet
  <2>6. /\ bbMem' \in Seq(Nat) /\ Len(bbMem') = Len(e)
        /\ \A i \in 1..Len(e) : bbMem'[i] = IF i > bbLen /\ i <= bbLen + Len(z) THEN z[i - bbLen] ELSE e[i]
    <3>1. PICK at : at = bbLen
      OBVIOUS
    <3>2. at \in Nat /\ e \in Seq(Nat) /\ z \in Seq(Nat)
      BY <1>1, <2>2, <2>4, <3>1
    <3>3. /\ BfPut(e, at, z) \in Seq(Nat) /\ Len(BfPut(e, at, z)) = Len(e)
          /\ \A i \in 1..Len(e) : BfPut(e, at, z)[i] = IF i > at /\ i <= at + Len(z) THEN z[i - at] ELSE e[i]
      BY <3>2, BfPutIs
    <3> QED
      BY <2>5, <3>1, <3>3
  <2>7. Len(e) \in Nat
    BY <2>2, LenProperties
  <2>8. ASSUME NEW i \in 1..(bbLen + Len(data)) PROVE bbMem'[i] = d[i]
    <3>1. i \in 1..Len(e) /\ i \in Nat
      BY <1>1, <2>2, <2>7
    <3>2. CASE i <= bbLen
      <4>1. i \in 1..bbLen /\ ~(i > bbLen)
        BY <1>1, <3>1, <3>2
      <4>2. bbMem'[i] = e[i]
        BY <2>6, <3>1, <4>1
      <4>3. e[i] = bbMem[i]
        BY <2>2, <4>1
      <4>4. bbMem[i] = bbData[i]
        BY <4>1 DEF BbInv
      <4> QED
        BY <1>3, <3>2, <4>2, <4>3, <4>4
    <3>3. CASE i > bbLen
      <4>1. i <= bbLen + Len(z) /\ i - bbLen \in 1..Len(data) /\ ~(i <= bbLen)
        BY <1>1, <2>4, <3>1, <3>3
      <4>2. bbMem'[i] = z[i - bbLen]
        BY <2>6, <3>1, <3>3, <4>1
      <4> QED
        BY <1>3, <2>4, <4>1, <4>2
    <3> QED
      BY <1>1, <3>1, <3>2, <3>3
  <2>9. bbLen' <= Len(bbMem') /\ bbLen' + BfReserved <= Len(bbMem') /\ bbLen' \in Nat
    BY <1>1, <1>4, <2>2, <2>6, <2>7
  <2> QED
    BY <1>3, <1>4, <2>6, <2>8, <2>9 DEF BbInv
<1> QED
  BY <1>5, <1>6

(* What a call leaves is BbInv if the block, the length and the bytes are.    *)
LEMMA BbReserveInv ==
  ASSUME BbInv, NEW n \in Nat, BbReserve(n)
  PROVE  BbInv'
<1>1. PICK e : e = BbEnsured(bbMem, bbLen, n)
  OBVIOUS
<1>2. /\ e \in Seq(Nat) /\ bbLen + BfReserved <= Len(e)
      /\ \A i \in 1..bbLen : e[i] = bbMem[i]
  BY <1>1, BbEnsuredIs DEF BbInv
<1>3. bbMem' = e /\ bbLen' = bbLen /\ bbData' = bbData
  BY <1>1 DEF BbReserve, BbSet
<1>4. BfReserved \in Nat /\ Len(e) \in Nat /\ bbLen \in Nat
  BY <1>2, BufferAssumption, LenProperties DEF BbInv
<1>5. bbLen <= Len(e)
  BY <1>2, <1>4
<1> QED
  BY <1>2, <1>3, <1>5 DEF BbInv

LEMMA BfPart ==
  ASSUME NEW s \in Seq(Nat), NEW m \in Nat, NEW n \in Nat, n <= Len(s), NEW p, p = SubSeq(s, m + 1, n)
  PROVE  /\ p \in Seq(Nat) /\ Len(p) = IF m <= n THEN n - m ELSE 0
         /\ \A i \in 1..Len(p) : p[i] = s[m + i]
<1>1. PICK a : a = m + 1
  OBVIOUS
<1>2. Len(s) \in Nat /\ a \in Int /\ a >= 1
  BY <1>1, LenProperties
<1>3. \A i \in a..n : s[i] \in Nat
  BY <1>2, ElementOfSeq
<1>4. /\ SubSeq(s, a, n) \in Seq(Nat) /\ Len(SubSeq(s, a, n)) = IF a <= n THEN n - a + 1 ELSE 0
      /\ \A i \in 1..(n - a + 1) : SubSeq(s, a, n)[i] = s[a + i - 1]
  BY <1>2, <1>3, SubSeqProperties
<1>5. p = SubSeq(s, a, n)
  BY <1>1
<1>6. Len(p) = IF m <= n THEN n - m ELSE 0
  BY <1>1, <1>4, <1>5
<1>7. ASSUME NEW i \in 1..Len(p) PROVE p[i] = s[m + i]
  <2>1. i \in 1..(n - a + 1) /\ a + i - 1 = m + i
    BY <1>1, <1>6
  <2> QED
    BY <1>4, <1>5, <2>1
<1> QED
  BY <1>1, <1>4, <1>5, <1>6, <1>7

LEMMA BbResizeInv ==
  ASSUME BbInv, NEW n \in Nat, BbResize(n)
  PROVE  BbInv'
<1>1. PICK e : e = BbEnsured(bbMem, bbLen, n)
  OBVIOUS
<1>2. /\ e \in Seq(Nat) /\ n + BfReserved <= Len(e)
      /\ \A i \in 1..bbLen : e[i] = bbMem[i]
  BY <1>1, BbEnsuredIs DEF BbInv
<1>3. PICK f, g : f = BfFirst(bbData, n) /\ g = SubSeq(e, bbLen + 1, n)
  OBVIOUS
<1>4. bbMem' = e /\ bbLen' = n /\ bbData' = f \o g
  BY <1>1, <1>3 DEF BbResize, BbSet, BbInv
<1>5. /\ BfReserved \in Nat \ {0} /\ Len(e) \in Nat /\ bbLen \in Nat /\ bbData \in Seq(Nat) /\ Len(bbData) = bbLen
      /\ \A i \in 1..bbLen : bbMem[i] = bbData[i]
  BY <1>2, BufferAssumption, LenProperties DEF BbInv
<1>6. n <= Len(e)
  BY <1>2, <1>5
<1>7. /\ f \in Seq(Nat) /\ Len(f) = IF n <= bbLen THEN n ELSE bbLen
      /\ \A i \in 1..Len(f) : f[i] = bbData[i]
  BY <1>3, <1>5, BfFirstIs
<1>8. /\ g \in Seq(Nat) /\ Len(g) = IF bbLen <= n THEN n - bbLen ELSE 0
      /\ \A i \in 1..Len(g) : g[i] = e[bbLen + i]
  <2>1. PICK m : m = bbLen
    OBVIOUS
  <2>2. m \in Nat /\ e \in Seq(Nat)
    BY <1>2, <1>5, <2>1
  <2>3. n <= Len(e) /\ g = SubSeq(e, m + 1, n)
    BY <1>3, <1>6, <2>1
  <2>4. /\ g \in Seq(Nat) /\ Len(g) = IF m <= n THEN n - m ELSE 0
        /\ \A i \in 1..Len(g) : g[i] = e[m + i]
    BY <2>2, <2>3, BfPart
  <2> QED
    BY <2>1, <2>4
<1>9. /\ f \o g \in Seq(Nat) /\ Len(f \o g) = Len(f) + Len(g)
      /\ \A i \in 1..(Len(f) + Len(g)) : (f \o g)[i] = IF i <= Len(f) THEN f[i] ELSE g[i - Len(f)]
  BY <1>7, <1>8, ConcatProperties
<1>10. Len(f) + Len(g) = n /\ Len(f) \in Nat /\ Len(f) <= bbLen
  BY <1>5, <1>7, <1>8
<1>11. ASSUME NEW i \in 1..n PROVE e[i] = (f \o g)[i]
  <2>1. CASE i <= Len(f)
    <3>1. i \in 1..Len(f) /\ i \in 1..bbLen
      BY <1>5, <1>10, <2>1
    <3>2. (f \o g)[i] = f[i]
      BY <1>9, <1>10, <2>1
    <3> QED
      BY <1>2, <1>5, <1>7, <3>1, <3>2
  <2>2. CASE ~(i <= Len(f))
    <3>1. Len(f) = bbLen /\ i - bbLen \in 1..Len(g) /\ bbLen + (i - bbLen) = i
      BY <1>5, <1>7, <1>8, <1>10, <2>2
    <3>2. (f \o g)[i] = g[i - bbLen]
      BY <1>9, <1>10, <2>2, <3>1
    <3> QED
      BY <1>8, <3>1, <3>2
  <2> QED
    BY <2>1, <2>2
<1> QED
  BY <1>2, <1>4, <1>6, <1>9, <1>10, <1>11 DEF BbInv

LEMMA BbEmptyInv ==
  ASSUME BbInv, BbClear \/ BbCleanup
  PROVE  BbInv'
<1>1. <<>> \in Seq(Nat) /\ Len(<<>>) = 0
  BY EmptySeq
<1>2. bbMem' \in {bbMem, <<>>} /\ bbLen' = 0 /\ bbData' = <<>>
  BY DEF BbClear, BbCleanup, BbSet
<1>3. BfReserved \in Nat /\ Len(bbMem) \in Nat /\ bbLen \in Nat
  BY BufferAssumption, LenProperties DEF BbInv
<1>4. 0 <= Len(bbMem) /\ (bbMem # <<>> => 0 + BfReserved <= Len(bbMem))
  BY <1>3 DEF BbInv
<1>5. \A i \in 1..0 : FALSE
  OBVIOUS
<1>6. bbMem' \in Seq(Nat) /\ bbData' \in Seq(Nat)
  BY <1>1, <1>2 DEF BbInv
<1>7. bbLen' \in Nat /\ Len(bbData') = bbLen'
  BY <1>1, <1>2
<1>8. bbLen' <= Len(bbMem') /\ (bbMem' # <<>> => bbLen' + BfReserved <= Len(bbMem'))
  <2>1. CASE bbMem' = bbMem
    BY <1>2, <1>4, <2>1
  <2>2. CASE bbMem' = <<>>
    BY <1>1, <1>2, <2>2
  <2> QED
    BY <1>2, <2>1, <2>2
<1>9. \A i \in 1..bbLen' : bbMem'[i] = bbData'[i]
  BY <1>2, <1>5
<1> QED
  BY <1>6, <1>7, <1>8, <1>9 DEF BbInv

LEMMA BbTrimInv ==
  ASSUME BbInv, NEW n \in Nat, BbTrim(n)
  PROVE  BbInv'
<1>1. CASE n >= bbLen
  BY <1>1, BbEmptyInv DEF BbTrim, BbClear
<1>2. CASE ~(n >= bbLen)
  <2>1. PICK f, g : f = SubSeq(bbMem, n + 1, bbLen) /\ g = SubSeq(bbData, n + 1, bbLen)
    OBVIOUS
  <2>2. PICK p : p = BfPut(bbMem, 0, f)
    OBVIOUS
  <2>3. /\ bbMem \in Seq(Nat) /\ bbData \in Seq(Nat) /\ bbLen \in Nat /\ Len(bbData) = bbLen
        /\ bbLen <= Len(bbMem) /\ bbMem # <<>>
        /\ \A i \in 1..bbLen : bbMem[i] = bbData[i]
    BY DEF BbInv, BbTrim
  <2>4. bbMem' = p /\ bbLen' = bbLen - n /\ bbData' = g
    BY <1>2, <2>1, <2>2, <2>3 DEF BbTrim, BbSet
  <2>5. /\ f \in Seq(Nat) /\ Len(f) = bbLen - n
        /\ \A i \in 1..Len(f) : f[i] = bbMem[n + i]
    <3>1. bbLen \in Nat /\ bbMem \in Seq(Nat) /\ bbLen <= Len(bbMem) /\ f = SubSeq(bbMem, n + 1, bbLen)
      BY <2>1, <2>3
    <3>2. /\ f \in Seq(Nat) /\ Len(f) = IF n <= bbLen THEN bbLen - n ELSE 0
          /\ \A i \in 1..Len(f) : f[i] = bbMem[n + i]
      BY <3>1, BfPart
    <3> QED
      BY <1>2, <3>1, <3>2
  <2>6. /\ g \in Seq(Nat) /\ Len(g) = bbLen - n
        /\ \A i \in 1..Len(g) : g[i] = bbData[n + i]
    <3>1. bbLen \in Nat /\ bbData \in Seq(Nat) /\ bbLen <= Len(bbData) /\ g = SubSeq(bbData, n + 1, bbLen)
      BY <2>1, <2>3
    <3>2. /\ g \in Seq(Nat) /\ Len(g) = IF n <= bbLen THEN bbLen - n ELSE 0
          /\ \A i \in 1..Len(g) : g[i] = bbData[n + i]
      BY <3>1, BfPart
    <3> QED
      BY <1>2, <3>1, <3>2
  <2>7. /\ p \in Seq(Nat) /\ Len(p) = Len(bbMem)
        /\ \A i \in 1..Len(bbMem) : p[i] = IF i <= Len(f) THEN f[i] ELSE bbMem[i]
    BY <2>2, <2>3, <2>5, BfPutFront
  <2>8. BfReserved \in Nat /\ Len(bbMem) \in Nat /\ bbLen + BfReserved <= Len(bbMem)
    BY <2>3, BufferAssumption, LenProperties DEF BbInv
  <2>9. PICK k : k = bbLen - n
    OBVIOUS
  <2>10. k \in Nat /\ k <= Len(bbMem) /\ k + BfReserved <= Len(bbMem) /\ k <= bbLen
    BY <1>2, <2>3, <2>8, <2>9
  <2>11. ASSUME NEW i \in 1..k PROVE p[i] = g[i]
    <3>1. i \in 1..Len(bbMem) /\ i <= Len(f) /\ i \in 1..Len(f) /\ i \in 1..Len(g) /\ n + i \in 1..bbLen
      BY <2>3, <2>5, <2>6, <2>8, <2>9, <2>10
    <3>2. p[i] = f[i]
      BY <2>7, <3>1
    <3>3. f[i] = bbMem[n + i] /\ g[i] = bbData[n + i]
      BY <2>5, <2>6, <3>1
    <3> QED
      BY <2>3, <3>1, <3>2, <3>3
  <2> QED
    BY <2>4, <2>6, <2>7, <2>9, <2>10, <2>11 DEF BbInv
<1> QED
  BY <1>1, <1>2

LEMMA BbAssignInv ==
  ASSUME BbInv, NEW data \in Seq(Nat), BbAssign(data)
  PROVE  BbInv'
<1>1. PICK e, z, n : e = BbEnsured(bbMem, bbLen, n) /\ z = data \o <<0>> /\ n = Len(data)
  OBVIOUS
<1>2. n \in Nat
  BY <1>1, LenProperties
<1>3. e \in Seq(Nat) /\ n + BfReserved <= Len(e)
  BY <1>1, <1>2, BbEnsuredIs DEF BbInv
<1>4. z \in Seq(Nat) /\ Len(z) = n + 1 /\ \A i \in 1..n : z[i] = data[i]
  BY <1>1, BfZeroed
<1>5. PICK p : p = BfPut(e, 0, z)
  OBVIOUS
<1>6. /\ p \in Seq(Nat) /\ Len(p) = Len(e)
      /\ \A i \in 1..Len(e) : p[i] = IF i <= Len(z) THEN z[i] ELSE e[i]
  BY <1>3, <1>4, <1>5, BfPutFront
<1>7. bbMem' = p /\ bbLen' = n /\ bbData' = data
  BY <1>1, <1>5 DEF BbAssign, BbSet
<1>8. BfReserved \in Nat /\ Len(e) \in Nat
  BY <1>3, BufferAssumption, LenProperties
<1>9. n <= Len(e)
  BY <1>2, <1>3, <1>8
<1>10. ASSUME NEW i \in 1..n PROVE p[i] = data[i]
  <2>1. i \in 1..Len(e) /\ i <= Len(z)
    BY <1>2, <1>4, <1>8, <1>9
  <2> QED
    BY <1>4, <1>6, <2>1
<1> QED
  BY <1>1, <1>2, <1>3, <1>6, <1>7, <1>9, <1>10 DEF BbInv

LEMMA BfInputs ==
  /\ \A data \in BfBytes : data \in Seq(Nat)
  /\ \A text \in BfTexts : text \in Seq(Nat)
  /\ \A n \in 0..BfMaxSize : n \in Nat
<1>1. <<>> \in Seq(Nat) /\ <<1>> \in Seq(Nat) /\ <<2>> \in Seq(Nat) /\ <<2, 1>> \in Seq(Nat)
  OBVIOUS
<1>2. \A data \in BfBytes : data \in Seq(Nat)
  BY <1>1 DEF BfBytes
<1>3. \A n \in 0..BfMaxSize : n \in Nat
  BY BufferAssumption
<1>4. \A text \in BfTexts : text \in Seq(Nat)
  <2> SUFFICES ASSUME NEW n \in 0..BfMaxSize PROVE BfBlock(n, 1) \in Seq(Nat)
    BY DEF BfTexts
  <2> QED
    BY <1>3, BfBlockIs
<1> QED
  BY <1>2, <1>3, <1>4

LEMMA BbStepInv ==
  ASSUME BbInv, [BfNext]_bfVars
  PROVE  BbInv'
<1>1. CASE BbNext
  <2>1. ASSUME NEW data \in BfBytes, BbWrite(data) \/ BbAssign(data) PROVE BbInv'
    BY <2>1, BfInputs, BbWriteInv, BbAssignInv
  <2>2. ASSUME NEW n \in 0..BfMaxSize, BbReserve(n) \/ BbResize(n) \/ BbTrim(n) PROVE BbInv'
    BY <2>2, BfInputs, BbReserveInv, BbResizeInv, BbTrimInv
  <2>3. ASSUME BbClear \/ BbCleanup PROVE BbInv'
    BY <2>3, BbEmptyInv
  <2> QED
    BY <1>1, <2>1, <2>2, <2>3 DEF BbNext
<1>2. CASE ChNext \/ UNCHANGED bfVars
  <2>1. bbMem' = bbMem /\ bbLen' = bbLen /\ bbData' = bbData
    <3>1. CASE ChNext
      BY <3>1 DEF ChNext, ChAssign, ChResize, ChFormat, ChSet, bbVars
    <3>2. CASE UNCHANGED bfVars
      BY <3>2 DEF bfVars
    <3> QED
      BY <1>2, <3>1, <3>2
  <2> QED
    BY <2>1 DEF BbInv
<1> QED
  BY <1>1, <1>2 DEF BfNext

LEMMA BbInvHolds == BbInv => BbHolds
<1> SUFFICES ASSUME BbInv PROVE BbHolds
  OBVIOUS
<1>1. /\ bbMem \in Seq(Nat) /\ bbData \in Seq(Nat) /\ bbLen \in Nat /\ Len(bbData) = bbLen /\ bbLen <= Len(bbMem)
      /\ \A i \in 1..bbLen : bbMem[i] = bbData[i]
  BY DEF BbInv
<1>2. PICK f : f = BfFirst(bbMem, bbLen)
  OBVIOUS
<1>3. f \in Seq(Nat) /\ Len(f) = bbLen /\ \A i \in 1..Len(f) : f[i] = bbMem[i]
  BY <1>1, <1>2, BfFirstIs
<1>4. f = bbData
  BY <1>1, <1>3, SeqEqual
<1> QED
  BY <1>2, <1>4 DEF BbInv, BbHolds

(* After any sequence of calls ByteBuffer holds the bytes that were written,  *)
(* assigned and not trimmed, with room for the next zero behind them          *)
(* (ByteBuffer::internalEnsure, write, resize, trim, assign).                 *)
THEOREM BytesAreHeld == BfSpec => []BbHolds
<1>1. BfInit => BbInv
  BY BbInitInv
<1>2. BbInv /\ [BfNext]_bfVars => BbInv'
  BY BbStepInv
<1>3. BbInv => BbHolds
  BY BbInvHolds
<1> QED
  BY <1>1, <1>2, <1>3, PTL DEF BfSpec

-----------------------------------------------------------------------------
(* CharArray *)

(* Half of the block that the object has for itself: not nothing.            *)
LEMMA BfHalf == BfInline \div 2 \in Nat \ {0}
<1>1. BfInline \in Nat /\ BfInline >= 2
  BY BufferAssumption
<1> QED
  BY <1>1

(* ensure: room for a text and the zero that ends the block.                 *)
LEMMA ChEnsuredIs ==
  ASSUME ChInv, NEW n \in Nat
  PROVE  LET b == ChEnsured(n) IN
         /\ b.mem \in Seq(Nat) /\ b.capacity \in Nat /\ n <= b.capacity /\ b.capacity <= Len(b.mem)
         /\ n < Len(b.mem) /\ Len(b.mem) \in Nat /\ b.mem[Len(b.mem)] = 0
<1>1. chMem \in Seq(Nat) /\ chCapacity \in Nat /\ chCapacity <= Len(chMem) /\ chMem[Len(chMem)] = 0 /\ Len(chMem) \in Nat
  BY LenProperties DEF ChInv
<1>2. CASE n < chCapacity
  <2>1. ChEnsured(n).mem = chMem /\ ChEnsured(n).capacity = chCapacity
    BY <1>2 DEF ChEnsured
  <2>2. n <= chCapacity /\ n < Len(chMem)
    BY <1>1, <1>2
  <2> QED
    BY <1>1, <2>1, <2>2
<1>3. CASE ~(n < chCapacity)
  <2>1. PICK k : k = n + BfInline \div 2
    OBVIOUS
  <2>2. k \in Nat /\ k > n
    BY <2>1, BfHalf
  <2>3. ChEnsured(n).mem = BfBlock(k, 0) /\ ChEnsured(n).capacity = k
    BY <1>3, <2>1 DEF ChEnsured
  <2>4. PICK o \in Nat : o = 0
    OBVIOUS
  <2>5. BfBlock(k, o) \in Seq(Nat) /\ Len(BfBlock(k, o)) = k /\ \A i \in 1..k : BfBlock(k, o)[i] = o
    BY <2>2, BfBlockIs
  <2>6. k \in 1..k /\ n <= k
    BY <2>2
  <2> QED
    BY <2>2, <2>3, <2>4, <2>5, <2>6
<1> QED
  BY <1>2, <1>3

LEMMA ChInitInv == BfInit => ChInv
<1> SUFFICES ASSUME BfInit PROVE ChInv
  OBVIOUS
<1>1. PICK o \in Nat : o = 0
  OBVIOUS
<1>2. BfInline \in Nat /\ BfInline >= 2
  BY BufferAssumption
<1>3. chMem = BfBlock(BfInline, o) /\ chCapacity = BfInline /\ chLen = 0
  BY <1>1 DEF BfInit
<1>4. chMem \in Seq(Nat) /\ Len(chMem) = BfInline /\ \A i \in 1..BfInline : chMem[i] = o
  BY <1>2, <1>3, BfBlockIs
<1>5. BfInline \in 1..BfInline /\ chMem # <<>>
  BY <1>2, <1>4, LenProperties
<1> QED
  BY <1>1, <1>2, <1>3, <1>4, <1>5 DEF ChInv

(* A block that is not empty has a last byte.                                *)
LEMMA ChInvOf ==
  ASSUME NEW mem \in Seq(Nat), NEW capacity \in Nat, NEW n \in Nat, n <= capacity, capacity <= Len(mem),
         Len(mem) > 0, mem[Len(mem)] = 0, ChSet(mem, capacity, n)
  PROVE  ChInv'
<1>1. mem # <<>>
  BY LenProperties
<1> QED
  BY <1>1 DEF ChInv, ChSet

LEMMA ChAssignInv ==
  ASSUME ChInv, NEW text \in Seq(Nat), ChAssign(text)
  PROVE  ChInv'
<1>1. PICK n : n = Len(text)
  OBVIOUS
<1>2. n \in Nat
  BY <1>1, LenProperties
<1>3. PICK mem, capacity : mem = ChEnsured(n).mem /\ capacity = ChEnsured(n).capacity
  OBVIOUS
<1>4. /\ mem \in Seq(Nat) /\ capacity \in Nat /\ n <= capacity /\ capacity <= Len(mem)
      /\ n < Len(mem) /\ Len(mem) \in Nat /\ mem[Len(mem)] = 0
  BY <1>2, <1>3, ChEnsuredIs
<1>5. PICK p : p = BfPut(mem, 0, text)
  OBVIOUS
<1>6. /\ p \in Seq(Nat) /\ Len(p) = Len(mem)
      /\ \A i \in 1..Len(mem) : p[i] = IF i <= Len(text) THEN text[i] ELSE mem[i]
  BY <1>4, <1>5, BfPutFront
<1>7. Len(mem) \in 1..Len(mem) /\ ~(Len(mem) <= Len(text)) /\ Len(mem) > 0
  BY <1>1, <1>2, <1>4
<1>8. p[Len(p)] = 0
  BY <1>4, <1>6, <1>7
<1>9. ChSet(p, capacity, n)
  BY <1>1, <1>3, <1>5 DEF ChAssign
<1> QED
  BY <1>2, <1>4, <1>6, <1>7, <1>8, <1>9, ChInvOf

LEMMA ChResizeInv ==
  ASSUME ChInv, NEW n \in Nat, ChResize(n)
  PROVE  ChInv'
<1>1. PICK mem, capacity : mem = ChEnsured(n).mem /\ capacity = ChEnsured(n).capacity
  OBVIOUS
<1>2. /\ mem \in Seq(Nat) /\ capacity \in Nat /\ n <= capacity /\ capacity <= Len(mem)
      /\ n < Len(mem) /\ Len(mem) \in Nat /\ mem[Len(mem)] = 0
  BY <1>1, ChEnsuredIs
<1>3. ChSet(mem, capacity, n)
  BY <1>1 DEF ChResize
<1>4. Len(mem) > 0
  BY <1>2
<1> QED
  BY <1>2, <1>3, <1>4, ChInvOf

LEMMA ChFormatInv ==
  ASSUME ChInv, NEW text \in Seq(Nat), ChFormat(text)
  PROVE  ChInv'
<1>1. /\ chMem \in Seq(Nat) /\ chLen \in Nat /\ chCapacity \in Nat /\ Len(chMem) \in Nat
      /\ chLen <= chCapacity /\ chCapacity <= Len(chMem) /\ chMem # <<>> /\ chMem[Len(chMem)] = 0
  BY LenProperties DEF ChInv
<1>2. Len(text) \in Nat /\ Len(chMem) > 0
  BY <1>1, LenProperties
<1>3. CASE Len(text) > chLen
  <2>1. PICK p, n : p = text \o <<0>> /\ n = Len(text)
    OBVIOUS
  <2>2. p \in Seq(Nat) /\ Len(p) = n + 1 /\ p[n + 1] = 0
    BY <2>1, BfZeroed
  <2>3. ChSet(p, n, n)
    BY <1>3, <2>1 DEF ChFormat
  <2>4. n \in Nat /\ n <= n /\ n <= Len(p) /\ Len(p) > 0 /\ p[Len(p)] = 0
    BY <1>2, <2>1, <2>2
  <2> QED
    BY <2>2, <2>3, <2>4, ChInvOf
<1>4. CASE ~(Len(text) > chLen) /\ chLen = 0
  <2>1. ChSet(chMem, chCapacity, chLen)
    BY <1>4 DEF ChFormat
  <2> QED
    BY <1>1, <1>2, <2>1, ChInvOf
<1>5. CASE ~(Len(text) > chLen) /\ chLen # 0
  <2>1. PICK m : m = chLen - 1
    OBVIOUS
  <2>2. m \in Nat /\ m < Len(chMem)
    BY <1>1, <1>5, <2>1
  <2>3. PICK f : f = BfFirst(text, m)
    OBVIOUS
  <2>4. f \in Seq(Nat) /\ Len(f) = IF m <= Len(text) THEN m ELSE Len(text)
    BY <2>2, <2>3, BfFirstIs
  <2>5. Len(f) \in Nat /\ Len(f) <= m
    BY <1>2, <2>2, <2>4
  <2>6. PICK z : z = f \o <<0>>
    OBVIOUS
  <2>7. z \in Seq(Nat) /\ Len(z) = Len(f) + 1 /\ z[Len(f) + 1] = 0
    BY <2>4, <2>6, BfZeroed
  <2>8. PICK p : p = BfPut(chMem, 0, z)
    OBVIOUS
  <2>9. /\ p \in Seq(Nat) /\ Len(p) = Len(chMem)
        /\ \A i \in 1..Len(chMem) : p[i] = IF i <= Len(z) THEN z[i] ELSE chMem[i]
    BY <1>1, <2>7, <2>8, BfPutFront
  <2>10. Len(chMem) \in 1..Len(chMem) /\ (Len(chMem) <= Len(z) => Len(chMem) = Len(f) + 1)
    BY <1>1, <1>2, <2>2, <2>5, <2>7
  <2>11. p[Len(p)] = 0
    BY <1>1, <2>7, <2>9, <2>10
  <2>12. ChSet(p, chCapacity, chLen)
    BY <1>5, <2>1, <2>3, <2>6, <2>8 DEF ChFormat
  <2> QED
    BY <1>1, <1>2, <2>9, <2>11, <2>12, ChInvOf
<1> QED
  BY <1>3, <1>4, <1>5

LEMMA ChStepInv ==
  ASSUME ChInv, [BfNext]_bfVars
  PROVE  ChInv'
<1>1. CASE ChNext
  <2>1. ASSUME NEW text \in BfTexts, ChAssign(text) \/ ChFormat(text) PROVE ChInv'
    BY <2>1, BfInputs, ChAssignInv, ChFormatInv
  <2>2. ASSUME NEW n \in 0..BfMaxSize, ChResize(n) PROVE ChInv'
    BY <2>2, BfInputs, ChResizeInv
  <2> QED
    BY <1>1, <2>1, <2>2 DEF ChNext
<1>2. CASE BbNext \/ UNCHANGED bfVars
  <2>1. chMem' = chMem /\ chCapacity' = chCapacity /\ chLen' = chLen
    <3>1. CASE BbNext
      BY <3>1 DEF BbNext, BbWrite, BbAssign, BbReserve, BbResize, BbTrim, BbClear, BbCleanup, BbSet, chVars
    <3>2. CASE UNCHANGED bfVars
      BY <3>2 DEF bfVars
    <3> QED
      BY <1>2, <3>1, <3>2
  <2> QED
    BY <2>1 DEF ChInv
<1> QED
  BY <1>1, <1>2 DEF BfNext

LEMMA ChInvTerminated == ChInv => ChTerminated
<1> SUFFICES ASSUME ChInv PROVE ChTerminated
  OBVIOUS
<1>1. chMem \in Seq(Nat) /\ chMem # <<>> /\ chMem[Len(chMem)] = 0 /\ chLen <= chCapacity /\ chCapacity <= Len(chMem)
  BY DEF ChInv
<1>2. Len(chMem) \in DOMAIN chMem
  BY <1>1, LenProperties, EmptySeq
<1> QED
  BY <1>1, <1>2 DEF ChTerminated

(* After any sequence of calls the text of CharArray ends within its block    *)
(* and is no longer than the block (CharArray::ensure, assign, resize,        *)
(* format).                                                                   *)
THEOREM TextsEnd == BfSpec => []ChTerminated
<1>1. BfInit => ChInv
  BY ChInitInv
<1>2. ChInv /\ [BfNext]_bfVars => ChInv'
  BY ChStepInv
<1>3. ChInv => ChTerminated
  BY ChInvTerminated
<1> QED
  BY <1>1, <1>2, <1>3, PTL DEF BfSpec

-----------------------------------------------------------------------------
(* IOBuffer (TIOBuffer): the loop of moveData is a function on the pieces that *)
(* were moved; a function in closed form satisfies its equation, so there is   *)
(* one, and by the smallest piece at which they differ there is no other.      *)

LEMMA IoTimes ==
  ASSUME NEW a \in Nat, NEW b \in Nat, NEW r \in Nat, a <= b
  PROVE  a * r \in Nat /\ b * r \in Nat /\ a * r <= b * r /\ (a + 1) * r = a * r + r
<1>1. b * r - a * r = (b - a) * r
  OBVIOUS
<1>2. (b - a) * r >= 0
  OBVIOUS
<1>q. QED
  BY <1>1, <1>2

(* Blocks that do not overlap are copied byte by byte. *)
LEMMA IoMemcpyIs ==
  ASSUME NEW mem \in Seq(Int), NEW dst \in Nat, NEW src \in Nat, NEW n \in Nat,
         dst + n <= src, src + n <= Len(mem)
  PROVE  /\ IoMemcpy(mem, dst, src, n) \in Seq(Int) /\ Len(IoMemcpy(mem, dst, src, n)) = Len(mem)
         /\ \A i \in 1..Len(mem) :
              IoMemcpy(mem, dst, src, n)[i] = IF i \in (dst + 1)..(dst + n) THEN mem[i + (src - dst)] ELSE mem[i]
<1> DEFINE c == IoMemcpy(mem, dst, src, n)
<1>1. DOMAIN mem = 1..Len(mem) /\ \A i \in 1..Len(mem) : mem[i] \in Int
  OBVIOUS
<1>2. c = [i \in 1..Len(mem) |-> IF i \in (dst + 1)..(dst + n) THEN mem[i + (src - dst)] ELSE mem[i]]
  <2>1. \A i \in 1..Len(mem) : i \in (dst + 1)..(dst + n) => ~(dst < src + n /\ src < dst + n) /\ i - dst + src = i + (src - dst)
    OBVIOUS
  <2>2. \A i \in 1..Len(mem) :
          (IF i \notin (dst + 1)..(dst + n) THEN mem[i]
           ELSE IF dst < src + n /\ src < dst + n THEN IoJunk ELSE mem[i - dst + src])
          = (IF i \in (dst + 1)..(dst + n) THEN mem[i + (src - dst)] ELSE mem[i])
    BY <2>1
  <2>q. QED
    BY <2>2, <1>1 DEF IoMemcpy
<1>3. \A i \in 1..Len(mem) : i \in (dst + 1)..(dst + n) => i + (src - dst) \in 1..Len(mem)
  OBVIOUS
<1>4. \A i \in 1..Len(mem) : c[i] \in Int
  BY <1>1, <1>2, <1>3
<1>5. c \in Seq(Int) /\ Len(c) = Len(mem)
  <2>1. c = [i \in 1..Len(mem) |-> c[i]]
    BY <1>2
  <2> HIDE DEF c
  <2>2. Len(mem) \in Nat
    OBVIOUS
  <2>3. c \in [1..Len(mem) -> Int]
    BY <2>1, <1>4
  <2>q. QED
    BY <2>2, <2>3
<1>q. QED
  BY <1>2, <1>5

(* What a block is when the bytes from r on were brought to its front, up to the p-th. *)
IoBrought(mem, r, p) == [j \in 1..Len(mem) |-> IF j <= p THEN mem[j + r] ELSE mem[j]]

LEMMA IoBroughtIs ==
  ASSUME NEW mem \in Seq(Int), NEW r \in Nat, NEW p \in Nat, p + r <= Len(mem)
  PROVE  /\ IoBrought(mem, r, p) \in Seq(Int) /\ Len(IoBrought(mem, r, p)) = Len(mem)
         /\ \A j \in 1..Len(mem) : IoBrought(mem, r, p)[j] = IF j <= p THEN mem[j + r] ELSE mem[j]
<1>1. \A j \in 1..Len(mem) : mem[j] \in Int /\ (j <= p => mem[j + r] \in Int)
  <2> SUFFICES ASSUME NEW j \in 1..Len(mem) PROVE mem[j] \in Int /\ (j <= p => mem[j + r] \in Int)
    OBVIOUS
  <2>1. j <= p => j + r \in 1..Len(mem)
    OBVIOUS
  <2>q. QED
    BY <2>1
<1>2. IoBrought(mem, r, p) \in [1..Len(mem) -> Int]
  BY <1>1 DEF IoBrought
<1>3. Len(mem) \in Nat
  OBVIOUS
<1>q. QED
  <2>1. IoBrought(mem, r, p) \in Seq(Int) /\ Len(IoBrought(mem, r, p)) = Len(mem)
    BY <1>2, <1>3
  <2>q. QED
    BY <2>1 DEF IoBrought

(* A part of no more than r bytes follows what was brought. *)
LEMMA IoPartIs ==
  ASSUME NEW mem \in Seq(Int), NEW r \in Nat, NEW p \in Nat, NEW d \in Nat, d <= r, (p + d) + r <= Len(mem), p + r <= Len(mem)
  PROVE  /\ IoMemcpy(IoBrought(mem, r, p), p, p + r, d) \in Seq(Int)
         /\ Len(IoMemcpy(IoBrought(mem, r, p), p, p + r, d)) = Len(mem)
         /\ \A i \in 1..Len(mem) :
              IoMemcpy(IoBrought(mem, r, p), p, p + r, d)[i] = IF i <= p + d THEN mem[i + r] ELSE mem[i]
<1>1. PICK m \in Seq(Int) :
        /\ m = IoBrought(mem, r, p) /\ Len(m) = Len(mem)
        /\ \A j \in 1..Len(mem) : m[j] = IF j <= p THEN mem[j + r] ELSE mem[j]
  <2>1. /\ IoBrought(mem, r, p) \in Seq(Int) /\ Len(IoBrought(mem, r, p)) = Len(mem)
        /\ \A j \in 1..Len(mem) : IoBrought(mem, r, p)[j] = IF j <= p THEN mem[j + r] ELSE mem[j]
    BY IoBroughtIs
  <2>q. QED
    BY <2>1, Zenon
<1>2. PICK q \in Nat : q = p + r /\ p + d <= q /\ q + d <= Len(m) /\ q - p = r
  <2>1. Len(m) = Len(mem)
    BY <1>1, Zenon
  <2>2. p + r \in Nat /\ p + d <= p + r /\ (p + r) + d <= Len(mem) /\ (p + r) - p = r
    OBVIOUS
  <2>q. QED
    BY <2>1, <2>2, Zenon
<1>3. /\ IoMemcpy(m, p, q, d) \in Seq(Int) /\ Len(IoMemcpy(m, p, q, d)) = Len(m)
      /\ \A i \in 1..Len(m) : IoMemcpy(m, p, q, d)[i] = IF i \in (p + 1)..(p + d) THEN m[i + (q - p)] ELSE m[i]
  <2>1. p + d <= q /\ q + d <= Len(m)
    BY <1>2, Zenon
  <2>q. QED
    BY ONLY <2>1, IoMemcpyIs, m \in Seq(Int), p \in Nat, q \in Nat, d \in Nat
<1>4. PICK c \in Seq(Int) :
        /\ c = IoMemcpy(IoBrought(mem, r, p), p, p + r, d) /\ Len(c) = Len(mem)
        /\ \A i \in 1..Len(mem) : c[i] = IF i \in (p + 1)..(p + d) THEN m[i + r] ELSE m[i]
  BY <1>1, <1>2, <1>3, Zenon
<1>5. ASSUME NEW i \in 1..Len(mem) PROVE c[i] = IF i <= p + d THEN mem[i + r] ELSE mem[i]
  <2>1. CASE i <= p
    <3>1. i \notin (p + 1)..(p + d) /\ i <= p + d
      BY <2>1
    <3>q. QED
      BY <3>1, <2>1, <1>1, <1>4, Zenon
  <2>2. CASE i \in (p + 1)..(p + d)
    <3>1. i + r \in 1..Len(mem) /\ ~(i + r <= p) /\ i <= p + d
      BY <2>2
    <3>2. c[i] = m[i + r]
      BY <2>2, <1>4, Zenon
    <3>3. m[i + r] = mem[i + r]
      BY <3>1, <1>1, Zenon
    <3>q. QED
      BY <3>1, <3>2, <3>3, Zenon
  <2>3. CASE i > p + d
    <3>1. i \notin (p + 1)..(p + d) /\ ~(i <= p + d) /\ ~(i <= p)
      BY <2>3
    <3>q. QED
      BY <3>1, <1>1, <1>4, Zenon
  <2>4. i <= p \/ i \in (p + 1)..(p + d) \/ i > p + d
    OBVIOUS
  <2>q. QED
    BY <2>1, <2>2, <2>3, <2>4, Zenon
<1>q. QED
  BY <1>4, <1>5, Zenon

(* One more piece. *)
LEMMA IoPieceIs ==
  ASSUME NEW mem \in Seq(Int), NEW r \in Nat, NEW p \in Nat, (p + r) + r <= Len(mem)
  PROVE  IoMemcpy(IoBrought(mem, r, p), p, p + r, r) = IoBrought(mem, r, p + r)
<1>1. PICK c \in Seq(Int) :
        /\ c = IoMemcpy(IoBrought(mem, r, p), p, p + r, r) /\ Len(c) = Len(mem)
        /\ \A i \in 1..Len(mem) : c[i] = IF i <= p + r THEN mem[i + r] ELSE mem[i]
  <2>1. r <= r /\ p + r <= Len(mem)
    OBVIOUS
  <2>q. QED
    BY <2>1, IoPartIs, Zenon
<1>2. c = [i \in 1..Len(mem) |-> c[i]]
  <2>1. c = [i \in 1..Len(c) |-> c[i]]
    OBVIOUS
  <2>q. QED
    BY <1>1, <2>1, Zenon
<1>3. c = [i \in 1..Len(mem) |-> IF i <= p + r THEN mem[i + r] ELSE mem[i]]
  BY <1>1, <1>2
<1>q. QED
  BY <1>1, <1>3, Zenon DEF IoBrought

(* Each piece lands where the one before it was: what was read bytes further on. *)
LEMMA IoPiecesAre ==
  ASSUME NEW b, NEW mem \in Seq(Int), NEW r \in Nat, NEW count \in Nat,
         mem = b.mem, r = b.read, r > 0, count * r + r <= Len(mem)
  PROVE  IoPieces(b, count) = IoBrought(mem, r, count * r)
<1> DEFINE step(f, i) == IF i = 0 THEN mem ELSE IoMemcpy(f[i - 1], (i - 1) * r, i * r, r)
           P(f) == f = [i \in 0..count |-> step(f, i)]
           at(i) == IoBrought(mem, r, i * r)
           w == [i \in 0..count |-> at(i)]
<1>2. \A i \in 1..count : \E p \in Nat : p = (i - 1) * r /\ i * r = p + r /\ (p + r) + r <= Len(mem)
  <2> SUFFICES ASSUME NEW i \in 1..count
               PROVE  \E p \in Nat : p = (i - 1) * r /\ i * r = p + r /\ (p + r) + r <= Len(mem)
    OBVIOUS
  <2>1. PICK k \in Nat : i = k + 1 /\ i - 1 = k /\ k + 1 <= count /\ k <= k + 1 /\ k + 1 \in Nat
    <3>1. i - 1 \in Nat /\ i = (i - 1) + 1
      OBVIOUS
    <3>q. QED
      BY <3>1
  <2>2. k * r \in Nat /\ (k + 1) * r = k * r + r
    BY <2>1, IoTimes
  <2>3. (k + 1) * r <= count * r
    BY <2>1, IoTimes
  <2>4. PICK p \in Nat : p = k * r
    BY <2>2
  <2>5. PICK q \in Int : q = count * r
    OBVIOUS
  <2>6. Len(mem) \in Nat
    OBVIOUS
  <2>7. p + r <= q /\ q + r <= Len(mem)
    BY <2>2, <2>3, <2>4, <2>5
  <2>8. (p + r) + r <= Len(mem)
    <3>1. p + r \in Int /\ q \in Int /\ Len(mem) \in Int
      BY <2>6
    <3>2. PICK u \in Int, l \in Int : u = p + r /\ l = Len(mem)
      BY <3>1
    <3>3. u <= q /\ q + r <= l
      BY <2>7, <3>2
    <3>4. u + r <= q + r
      BY ONLY u \in Int, q \in Int, r \in Nat, <3>3
    <3>5. u + r <= l
      BY ONLY u \in Int, q \in Int, l \in Int, r \in Nat, <3>3, <3>4
    <3>q. QED
      BY <3>2, <3>5
  <2>q. QED
    BY <2>1, <2>2, <2>4, <2>8
<1>4. \A f, i : i \in 1..count /\ f[i - 1] = at(i - 1) => step(f, i) = at(i)
  <2> SUFFICES ASSUME NEW f, NEW i \in 1..count, f[i - 1] = at(i - 1)
               PROVE  step(f, i) = at(i)
    OBVIOUS
  <2>1. PICK p \in Nat : p = (i - 1) * r /\ i * r = p + r /\ (p + r) + r <= Len(mem)
    BY <1>2
  <2>2. IoMemcpy(IoBrought(mem, r, p), p, p + r, r) = IoBrought(mem, r, p + r)
    BY <2>1, IoPieceIs
  <2>3. i # 0
    OBVIOUS
  <2>q. QED
    BY <2>1, <2>2, <2>3, Zenon
<1>5. at(0) = mem
  <2>1. 0 * r = 0 /\ \A j \in 1..Len(mem) : ~(j <= 0)
    OBVIOUS
  <2>2. mem = [j \in 1..Len(mem) |-> mem[j]]
    BY ONLY mem \in Seq(Int)
  <2>q. QED
    BY <2>1, <2>2 DEF IoBrought
<1> HIDE DEF at
<1>6. P(w)
  <2>1. \A i \in 0..count : w[i] = step(w, i)
    <3> SUFFICES ASSUME NEW i \in 0..count PROVE w[i] = step(w, i)
      OBVIOUS
    <3>1. CASE i = 0
      BY <3>1, <1>5
    <3>2. CASE i # 0
      <4>1. i \in 1..count /\ i - 1 \in 0..count
        BY <3>2
      <4>2. w[i - 1] = at(i - 1) /\ w[i] = at(i)
        BY <4>1
      <4> HIDE DEF w, step
      <4>q. QED
        BY <4>1, <4>2, <1>4
    <3>q. QED
      BY <3>1, <3>2
  <2>2. w = [i \in 0..count |-> w[i]]
    OBVIOUS
  <2> HIDE DEF w, step
  <2>q. QED
    BY <2>1, <2>2
<1> DEFINE g == CHOOSE f : P(f)
<1>7. P(g)
  <2> HIDE DEF P, w
  <2>q. QED
    BY <1>6
<1>8. IoPieces(b, count) = g[count]
  BY DEF IoPieces
<1> HIDE DEF g
<1>9. \A i \in 0..count : g[i] = at(i)
  <2> DEFINE T == {i \in 0..count : g[i] # at(i)}
  <2>a. SUFFICES ASSUME T # {} PROVE FALSE
    OBVIOUS
  <2>0. T \in SUBSET Nat
    OBVIOUS
  <2>1. PICK x \in T : \A y \in T : x <= y
    <3> HIDE DEF T
    <3>q. QED
      BY ONLY <2>a, <2>0, CnSmallest
  <2>2. g[x] = step(g, x)
    <3> HIDE DEF step
    <3>q. QED
      BY <1>7, <2>1
  <2>3. CASE x = 0
    BY <2>1, <2>2, <2>3, <1>5
  <2>4. CASE x # 0
    <3>1. x \in 1..count /\ x - 1 \in 0..count /\ x - 1 < x
      BY <2>1, <2>4
    <3>2. g[x - 1] = at(x - 1)
      BY <3>1, <2>1
    <3> HIDE DEF step
    <3>q. QED
      BY <3>1, <3>2, <1>4, <2>1, <2>2
  <2>q. QED
    BY <2>3, <2>4
<1>10. count \in 0..count
  OBVIOUS
<1>q. QED
  BY <1>8, <1>9, <1>10 DEF at

(* All at once, when it fits before the read position. *)
LEMMA IoFrontIs ==
  ASSUME NEW mem \in Seq(Int), NEW r \in Nat, NEW n \in Nat, n <= r, r + n <= Len(mem)
  PROVE  /\ IoMemcpy(mem, 0, r, n) \in Seq(Int) /\ Len(IoMemcpy(mem, 0, r, n)) = Len(mem)
         /\ \A i \in 1..n : IoMemcpy(mem, 0, r, n)[i] = mem[r + i]
<1>1. PICK z \in Nat : z = 0 /\ z + n <= r /\ r - z = r
  OBVIOUS
<1>2. /\ IoMemcpy(mem, z, r, n) \in Seq(Int) /\ Len(IoMemcpy(mem, z, r, n)) = Len(mem)
      /\ \A i \in 1..Len(mem) : IoMemcpy(mem, z, r, n)[i] = IF i \in (z + 1)..(z + n) THEN mem[i + (r - z)] ELSE mem[i]
  BY <1>1, IoMemcpyIs
<1>3. ASSUME NEW i \in 1..n PROVE IoMemcpy(mem, z, r, n)[i] = mem[r + i]
  <2>1. i \in 1..Len(mem) /\ i \in (z + 1)..(z + n) /\ i + (r - z) = r + i
    BY <1>1
  <2>q. QED
    BY <1>2, <2>1, Zenon
<1>q. QED
  BY <1>1, <1>2, <1>3, Zenon

(* The rest that is smaller than a piece. *)
LEMMA IoRestIs ==
  ASSUME NEW mem \in Seq(Int), NEW r \in Nat, NEW p \in Nat, NEW d \in Nat, d < r, (p + d) + r <= Len(mem)
  PROVE  /\ IoMemcpy(IoBrought(mem, r, p), p, p + r, d) \in Seq(Int)
         /\ Len(IoMemcpy(IoBrought(mem, r, p), p, p + r, d)) = Len(mem)
         /\ \A i \in 1..(p + d) : IoMemcpy(IoBrought(mem, r, p), p, p + r, d)[i] = mem[r + i]
<1>1. d <= r /\ p + r <= Len(mem)
  OBVIOUS
<1>2. /\ IoMemcpy(IoBrought(mem, r, p), p, p + r, d) \in Seq(Int)
      /\ Len(IoMemcpy(IoBrought(mem, r, p), p, p + r, d)) = Len(mem)
      /\ \A i \in 1..Len(mem) :
           IoMemcpy(IoBrought(mem, r, p), p, p + r, d)[i] = IF i <= p + d THEN mem[i + r] ELSE mem[i]
  BY <1>1, IoPartIs, Zenon
<1>3. \A i \in 1..(p + d) : i \in 1..Len(mem) /\ i <= p + d /\ i + r = r + i
  OBVIOUS
<1>q. QED
  BY <1>2, <1>3, Zenon

LEMMA IoDivided ==
  ASSUME NEW n \in Nat, NEW r \in Nat, r > 0
  PROVE  \E k \in Nat, d \in Nat, p \in Nat :
           k = n \div r /\ d = n % r /\ d < r /\ p = k * r /\ (k + 1) * r = p + r /\ n = p + d
<1>1. n \div r \in Nat /\ n % r \in Nat /\ n % r < r /\ n = r * (n \div r) + (n % r)
  OBVIOUS
<1>2. PICK k \in Nat, d \in Nat : k = n \div r /\ d = n % r
  BY <1>1
<1>3. k * r \in Nat /\ (k + 1) * r = k * r + r /\ k * r = r * k
  BY IoTimes
<1>q. QED
  BY <1>1, <1>2, <1>3

(* moveData: what can be read is at the front of the same block. *)
LEMMA IoMoveDataIs ==
  ASSUME NEW mem \in Seq(Int), NEW r \in Nat, NEW n \in Nat, r + n <= Len(mem)
  PROVE  \E m \in Seq(Int) :
           /\ IoMoveData([mem |-> mem, read |-> r, write |-> r + n]) = [mem |-> m, read |-> 0, write |-> n]
           /\ Len(m) = Len(mem) /\ \A i \in 1..n : m[i] = mem[r + i]
<1> DEFINE b == [mem |-> mem, read |-> r, write |-> r + n]
<1>1. b.mem = mem /\ b.read = r /\ b.write - b.read = n
  OBVIOUS
<1>2. CASE r = 0
  <2>1. IoMoveData(b) = b /\ r + n = n /\ \A i \in 1..n : r + i = i
    BY <1>1, <1>2 DEF IoMoveData
  <2>q. QED
    BY <2>1, <1>2
<1>3. CASE r > 0 /\ n <= r
  <2>1. IoMoveData(b) = [mem |-> IoMemcpy(mem, 0, r, n), read |-> 0, write |-> n]
    <3> HIDE DEF b
    <3>q. QED
      BY <1>1, <1>3 DEF IoMoveData
  <2>q. QED
    BY <2>1, <1>3, IoFrontIs
<1>4. CASE r > 0 /\ ~(n <= r)
  <2>1. PICK k \in Nat, d \in Nat, p \in Nat :
          k = n \div r /\ d = n % r /\ d < r /\ p = k * r /\ (k + 1) * r = p + r /\ n = p + d
    BY <1>4, IoDivided
  <2>2. IoMoveData(b) = [mem |-> IoMemcpy(IoPieces(b, k), p, p + r, d), read |-> 0, write |-> n]
    <3> HIDE DEF b
    <3>1. IoMoveData(b) = [mem |-> IoMemcpy(IoPieces(b, n \div r), (n \div r) * r, ((n \div r) + 1) * r, n % r),
                           read |-> 0, write |-> n]
      <4>1. b.read # 0 /\ ~(n <= b.read)
        BY <1>1, <1>4
      <4>q. QED
        BY <1>1, <4>1, Zenon DEF IoMoveData
    <3>q. QED
      BY <2>1, <3>1, Zenon
  <2>3. (p + d) + r <= Len(mem) /\ p + r <= Len(mem)
    BY ONLY <2>1, mem \in Seq(Int), p \in Nat, d \in Nat, r \in Nat, n \in Nat, r + n <= Len(mem)
  <2>4. IoPieces(b, k) = IoBrought(mem, r, p)
    <3>1. k * r + r <= Len(mem)
      BY <2>1, <2>3
    <3> HIDE DEF b
    <3>2. IoPieces(b, k) = IoBrought(mem, r, k * r)
      BY <1>1, <1>4, <3>1, IoPiecesAre
    <3>q. QED
      BY <2>1, <3>2, Zenon
  <2>5. PICK m \in Seq(Int) :
          /\ m = IoMemcpy(IoBrought(mem, r, p), p, p + r, d) /\ Len(m) = Len(mem)
          /\ \A i \in 1..(p + d) : m[i] = mem[r + i]
    <3>1. d < r
      BY <2>1
    <3>q. QED
      <4>1. /\ IoMemcpy(IoBrought(mem, r, p), p, p + r, d) \in Seq(Int)
            /\ Len(IoMemcpy(IoBrought(mem, r, p), p, p + r, d)) = Len(mem)
            /\ \A i \in 1..(p + d) : IoMemcpy(IoBrought(mem, r, p), p, p + r, d)[i] = mem[r + i]
        BY ONLY <2>3, <3>1, IoRestIs, mem \in Seq(Int), r \in Nat, p \in Nat, d \in Nat
      <4>q. QED
        BY <4>1, Zenon
  <2>7. \A i \in 1..n : m[i] = mem[r + i]
    BY <2>1, <2>5, Zenon
  <2>8. IoMoveData(b) = [mem |-> m, read |-> 0, write |-> n]
    BY <2>2, <2>4, <2>5, Zenon
  <2>q. QED
    BY <2>5, <2>7, <2>8
<1>5. r = 0 \/ r > 0
  OBVIOUS
<1>q. QED
  BY <1>2, <1>3, <1>4, <1>5, Zenon

LEMMA IoZeroesAre == \A n \in Nat : IoZeroes(n) \in Seq(Int) /\ Len(IoZeroes(n)) = n
  BY DEF IoZeroes

(* A new block, of what can be read and zeroes. *)
IoGrown(mem, r, n, zeroes, grown) ==
  /\ grown \in Seq(Int) /\ Len(grown) = n + Len(zeroes)
  /\ \A i \in 1..n : grown[i] = mem[r + i]

LEMMA IoGrownIs ==
  ASSUME NEW mem \in Seq(Int), NEW r \in Nat, NEW n \in Nat, r + n <= Len(mem), NEW zeroes \in Seq(Int)
  PROVE  /\ Len(SubSeq(mem, r + 1, r + n)) = n
         /\ IoGrown(mem, r, n, zeroes, SubSeq(mem, r + 1, r + n) \o zeroes)
<1> DEFINE rest == SubSeq(mem, r + 1, r + n)
<1>1. rest \in Seq(Int) /\ Len(rest) = n /\ \A i \in 1..n : rest[i] = mem[r + i]
  <2>1. PICK p \in Nat, q \in Nat : p = r + 1 /\ q = r + n /\ p >= 1 /\ q <= Len(mem) /\ p <= q + 1
    OBVIOUS
  <2>2. SubSeq(mem, p, q) \in Seq(Int) /\ Len(SubSeq(mem, p, q)) = n
    BY <2>1
  <2>3. \A i \in 1..n : SubSeq(mem, p, q)[i] = mem[r + i]
    <3> SUFFICES ASSUME NEW i \in 1..n PROVE SubSeq(mem, p, q)[i] = mem[r + i]
      OBVIOUS
    <3>1. SubSeq(mem, p, q)[i] = mem[p + i - 1] /\ p + i - 1 = r + i
      BY <2>1
    <3>q. QED
      BY <3>1
  <2>q. QED
    BY <2>1, <2>2, <2>3
<1> HIDE DEF rest
<1>2. rest \o zeroes \in Seq(Int) /\ Len(rest \o zeroes) = n + Len(zeroes)
  BY <1>1, ConcatProperties
<1>3. \A i \in 1..n : (rest \o zeroes)[i] = rest[i]
  BY <1>1
<1>4. IoGrown(mem, r, n, zeroes, rest \o zeroes)
  BY <1>1, <1>2, <1>3 DEF IoGrown
<1>q. QED
  BY <1>1, <1>4 DEF rest

(* expect: the same bytes, and room for more behind them. *)
LEMMA IoExpectIs ==
  ASSUME NEW mem \in Seq(Int), NEW r \in Nat, NEW k \in Nat, r + k <= Len(mem), NEW n \in Nat
  PROVE  \E m \in Seq(Int), s \in Nat :
           /\ IoExpect([mem |-> mem, read |-> r, write |-> r + k], n) = [mem |-> m, read |-> s, write |-> s + k]
           /\ s + k + n <= Len(m) /\ \A i \in 1..k : m[s + i] = mem[r + i]
<1> DEFINE b == [mem |-> mem, read |-> r, write |-> r + k]
           L == Len(mem)
<1>0. b.mem = mem /\ b.read = r /\ b.write = r + k /\ b.write - b.read = k /\ L \in Nat
  OBVIOUS
<1>1. CASE n = 0 \/ r + k + n <= L
  <2>1. IoExpect(b, n) = b
    BY <1>0, <1>1 DEF IoExpect
  <2>2. r + k + n <= L
    BY <1>1
  <2>q. QED
    BY <2>1, <2>2
<1>2. CASE ~(n = 0 \/ r + k + n <= L) /\ mem = <<>>
  <2>1. r = 0 /\ k = 0
    BY <1>2
  <2>2. IoExpect(b, n) = [mem |-> IoZeroes(n), read |-> 0, write |-> 0]
    <3> HIDE DEF b
    <3>q. QED
      BY <1>0, <1>2 DEF IoExpect
  <2>3. IoExpect(b, n) = [mem |-> IoZeroes(n), read |-> 0, write |-> 0 + k] /\ 0 + k + n <= Len(IoZeroes(n))
        /\ \A i \in 1..k : IoZeroes(n)[0 + i] = mem[r + i]
    BY <2>1, <2>2, IoZeroesAre
  <2>4. IoZeroes(n) \in Seq(Int) /\ 0 \in Nat
    BY IoZeroesAre
  <2> USE <2>4
  <2> WITNESS IoZeroes(n) \in Seq(Int), 0 \in Nat
  <2>q. QED
    BY <2>3
<1>3. CASE ~(n = 0 \/ r + k + n <= L) /\ mem # <<>> /\ k + n <= L
  <2>1. IoExpect(b, n) = IoMoveData(b)
    <3> HIDE DEF b
    <3>q. QED
      BY <1>0, <1>3 DEF IoExpect
  <2>2. PICK m \in Seq(Int) :
          /\ IoMoveData(b) = [mem |-> m, read |-> 0, write |-> k]
          /\ Len(m) = L /\ \A i \in 1..k : m[i] = mem[r + i]
    BY IoMoveDataIs
  <2>3. 0 + k + n <= Len(m) /\ 0 + k = k /\ \A i \in 1..k : m[0 + i] = mem[r + i]
    BY <1>3, <2>2
  <2>q. QED
    BY <2>1, <2>2, <2>3
<1>4. CASE ~(n = 0 \/ r + k + n <= L) /\ mem # <<>> /\ ~(k + n <= L)
  <2> DEFINE rest == SubSeq(mem, r + 1, r + k)
             z == r + k + n + IoStep - Len(rest)
             m == rest \o IoZeroes(z)
  <2>1. IoExpect(b, n) = [mem |-> m, read |-> 0, write |-> Len(rest)]
    <3> HIDE DEF b
    <3>q. QED
      BY <1>0, <1>4 DEF IoExpect
  <2>2. Len(rest) = k
    BY IoGrownIs, IoZeroesAre
  <2>3. z \in Nat /\ z >= n
    <3> HIDE DEF rest
    <3>q. QED
      BY <2>2, IoAssumption
  <2>4. m \in Seq(Int) /\ Len(m) = k + z /\ \A i \in 1..k : m[i] = mem[r + i]
    <3> HIDE DEF z
    <3>1. IoZeroes(z) \in Seq(Int) /\ Len(IoZeroes(z)) = z
      BY <2>3, IoZeroesAre
    <3>2. PICK zeroes \in Seq(Int) : zeroes = IoZeroes(z)
      BY <3>1
    <3>3. IoGrown(mem, r, k, zeroes, SubSeq(mem, r + 1, r + k) \o zeroes)
      <4>1. r + k <= Len(mem)
        OBVIOUS
      <4> QED
        BY ONLY <4>1, mem \in Seq(Int), r \in Nat, k \in Nat, zeroes \in Seq(Int), IoGrownIs
    <3>q. QED
      BY <3>1, <3>2, <3>3, Zenon DEF IoGrown
  <2> HIDE DEF m, z, rest
  <2>5. 0 + k = Len(rest) /\ 0 + k + n <= Len(m) /\ \A i \in 1..k : m[0 + i] = mem[r + i]
    <3>1. \A i \in 1..k : 0 + i = i
      OBVIOUS
    <3>2. 0 + k = k /\ 0 + k + n <= k + z
      BY ONLY <2>3, k \in Nat, n \in Nat
    <3>q. QED
      BY <2>2, <2>4, <3>1, <3>2, Zenon
  <2>6. m \in Seq(Int) /\ 0 \in Nat
    BY <2>4
  <2> USE <2>6
  <2> WITNESS m \in Seq(Int), 0 \in Nat
  <2>q. QED
    BY <2>1, <2>5
<1>q. QED
  BY <1>1, <1>2, <1>3, <1>4

(* After expect: the k bytes at t, and room for n more. *)
IoRoomed(mem, s, k, n, m, t) ==
  /\ IoExpect([mem |-> mem, read |-> s, write |-> s + k], n) = [mem |-> m, read |-> t, write |-> t + k]
  /\ t + k + n <= Len(m) /\ \A i \in 1..k : m[t + i] = mem[s + i]

LEMMA IoExpected ==
  ASSUME NEW mem \in Seq(Int), NEW s \in Nat, NEW k \in Nat, s + k <= Len(mem), NEW n \in Nat
  PROVE  \E m \in Seq(Int), t \in Nat : IoRoomed(mem, s, k, n, m, t)
  BY IoExpectIs, Zenon DEF IoRoomed

(* Bytes that are written into the room behind the others. *)
IoFilled(mem, s, k, g, next, m) ==
  /\ IoWriteBytes([mem |-> mem, read |-> s, write |-> s + k], [i \in 1..g |-> next + i - 1])
     = [mem |-> m, read |-> s, write |-> s + k + g]
  /\ Len(m) = Len(mem) /\ \A i \in 1..k : m[s + i] = mem[s + i]
  /\ \A i \in 1..g : m[s + k + i] = next + i - 1

LEMMA IoWrittenIs ==
  ASSUME NEW mem \in Seq(Int), NEW s \in Nat, NEW k \in Nat, NEW g \in Nat, NEW next \in Int, s + k + g <= Len(mem)
  PROVE  \E m \in Seq(Int) : IoFilled(mem, s, k, g, next, m)
<1> DEFINE data == [i \in 1..g |-> next + i - 1]
           b == [mem |-> mem, read |-> s, write |-> s + k]
           m == [i \in 1..Len(mem) |-> IF i - (s + k) \in 1..g THEN next + (i - (s + k)) - 1 ELSE mem[i]]
<1>1. DOMAIN data = 1..g /\ Len(data) = g /\ DOMAIN mem = 1..Len(mem) /\ \A i \in 1..g : data[i] = next + i - 1
  OBVIOUS
<1>2. b.mem = mem /\ b.read = s /\ b.write = s + k
  OBVIOUS
<1>3. IoWriteBytes(b, data) = [mem |-> m, read |-> s, write |-> s + k + g]
  <2>1. [i \in DOMAIN mem |-> IF i - (s + k) \in DOMAIN data THEN data[i - (s + k)] ELSE mem[i]] = m
    <3>1. \A i \in 1..Len(mem) :
            (IF i - (s + k) \in DOMAIN data THEN data[i - (s + k)] ELSE mem[i])
            = (IF i - (s + k) \in 1..g THEN next + (i - (s + k)) - 1 ELSE mem[i])
      <4> HIDE DEF data
      <4>q. QED
        BY <1>1
    <3> HIDE DEF data
    <3>q. QED
      BY <1>1, <3>1
  <2> HIDE DEF m, data
  <2>2. IoWriteBytes(b, data) = [b EXCEPT !.mem = m, !.write = s + k + g]
    <3> HIDE DEF b
    <3>q. QED
      BY <1>1, <1>2, <2>1, Zenon DEF IoWriteBytes
  <2>q. QED
    BY <2>2
<1>4. \A i \in 1..Len(mem) : m[i] \in Int /\ mem[i] \in Int
  OBVIOUS
<1>5. m \in Seq(Int) /\ Len(m) = Len(mem)
  <2>1. m = [i \in 1..Len(mem) |-> m[i]] /\ Len(mem) \in Nat
    OBVIOUS
  <2> HIDE DEF m
  <2>q. QED
    BY <2>1, <1>4
<1>6. \A i \in 1..k : m[s + i] = mem[s + i]
  <2>1. \A i \in 1..k : s + i \in 1..Len(mem) /\ (s + i) - (s + k) \notin 1..g
    OBVIOUS
  <2>q. QED
    BY <2>1, Zenon
<1>7. \A i \in 1..g : m[s + k + i] = next + i - 1
  <2>1. \A i \in 1..g : s + k + i \in 1..Len(mem) /\ (s + k + i) - (s + k) = i
    OBVIOUS
  <2>q. QED
    BY <2>1, Zenon
<1> HIDE DEF m, data, b
<1>q. QED
  BY <1>3, <1>5, <1>6, <1>7, Zenon DEF IoFilled, data, b

(* A write is both. *)
IoPut(mem, s, k, n, g, next, m, t) ==
  /\ IoWriteBytes(IoExpect([mem |-> mem, read |-> s, write |-> s + k], n), [i \in 1..g |-> next + i - 1])
     = [mem |-> m, read |-> t, write |-> t + k + g]
  /\ t + k + g <= Len(m) /\ \A i \in 1..k : m[t + i] = mem[s + i]
  /\ \A i \in 1..g : m[t + k + i] = next + i - 1

LEMMA IoWritesTo ==
  ASSUME NEW mem \in Seq(Int), NEW s \in Nat, NEW k \in Nat, NEW next \in Nat, s + k <= Len(mem),
         NEW n \in Nat, NEW g \in 0..n
  PROVE  \E m \in Seq(Int), t \in Nat : IoPut(mem, s, k, n, g, next, m, t)
<1>1. PICK m1 \in Seq(Int), t \in Nat : IoRoomed(mem, s, k, n, m1, t)
  BY IoExpected, Zenon
<1>2. t + k + g <= Len(m1) /\ g \in Nat /\ next \in Int
  BY <1>1 DEF IoRoomed
<1>3. PICK m2 \in Seq(Int) : IoFilled(m1, t, k, g, next, m2)
  BY <1>2, IoWrittenIs, Zenon
<1>4. \A i \in 1..k : m2[t + i] = mem[s + i]
  BY <1>1, <1>3, Zenon DEF IoRoomed, IoFilled
<1>5. IoPut(mem, s, k, n, g, next, m2, t)
  BY <1>1, <1>2, <1>3, <1>4, Zenon DEF IoRoomed, IoFilled, IoPut
<1>q. QED
  BY <1>5, Zenon

(* The inductive invariant. *)
IoInv ==
  \E m \in Seq(Int), s \in Nat, k \in Nat, next \in Nat :
    /\ ioMem = m /\ ioRead = s /\ ioWrite = s + k /\ ioNext = next
    /\ s + k <= Len(m) /\ \A i \in 1..k : m[s + i] = next - k + i - 1

(* What a step does to the bytes that can be read: some come, or some go. *)
IoGrows(m, s, k) ==
  \E n \in Seq(Int), t \in Nat, l \in Nat :
    /\ ioMem' = n /\ ioRead' = t /\ ioWrite' = t + l /\ k <= l /\ t + l <= Len(n)
    /\ \A i \in 1..k : n[t + i] = m[s + i]
IoLoses(m, s, k) ==
  \E n \in Seq(Int), t \in Nat, d \in 0..k :
    /\ ioMem' = n /\ ioRead' = t /\ ioWrite' = t + (k - d) /\ t + (k - d) <= Len(n)
    /\ \A i \in 1..(k - d) : n[t + i] = m[s + d + i]

LEMMA IoInvIs ==
  ASSUME NEW n \in Seq(Int), NEW t \in Nat, NEW l \in Nat, NEW next \in Nat,
         ioMem' = n, ioRead' = t, ioWrite' = t + l, ioNext' = next, t + l <= Len(n),
         \A i \in 1..l : n[t + i] = next - l + i - 1
  PROVE  IoInv'
  BY Zenon DEF IoInv

(* A step that does not write keeps the invariant. *)
LEMMA IoLosesInv ==
  ASSUME NEW m \in Seq(Int), NEW s \in Nat, NEW k \in Nat, NEW next \in Nat, s + k <= Len(m),
         \A i \in 1..k : m[s + i] = next - k + i - 1, ioNext' = next, IoLoses(m, s, k)
  PROVE  IoInv'
<1>1. PICK n \in Seq(Int), t \in Nat, d \in 0..k :
        /\ ioMem' = n /\ ioRead' = t /\ ioWrite' = t + (k - d) /\ t + (k - d) <= Len(n)
        /\ \A i \in 1..(k - d) : n[t + i] = m[s + d + i]
  BY DEF IoLoses
<1>2. PICK l \in Nat : l = k - d
  OBVIOUS
<1>3. \A i \in 1..l : n[t + i] = next - l + i - 1
  <2> SUFFICES ASSUME NEW i \in 1..l PROVE n[t + i] = next - l + i - 1
    OBVIOUS
  <2>1. PICK j \in 1..k : j = d + i /\ s + j = s + d + i /\ next - k + j - 1 = next - l + i - 1
    BY ONLY <1>2, d \in 0..k, k \in Nat, l \in Nat, i \in 1..l, s \in Nat, next \in Nat
  <2>2. n[t + i] = m[s + d + i]
    BY <1>1, <1>2, Zenon
  <2>q. QED
    BY <2>1, <2>2, Zenon
<1>4. t + l <= Len(n) /\ ioWrite' = t + l
  BY <1>1, <1>2, Zenon
<1>q. QED
  <2>1. /\ ioMem' = n /\ ioRead' = t /\ ioWrite' = t + l /\ ioNext' = next
        /\ t + l <= Len(n) /\ \A i \in 1..l : n[t + i] = next - l + i - 1
    BY <1>1, <1>3, <1>4, Zenon
  <2>q. QED
    BY <2>1, IoInvIs, Zenon

(* What can be read as a sequence. *)
LEMMA IoBytesAre ==
  ASSUME NEW m \in Seq(Int), NEW s \in Nat, NEW k \in Nat, s + k <= Len(m)
  PROVE  /\ SubSeq(m, s + 1, s + k) \in Seq(Int) /\ Len(SubSeq(m, s + 1, s + k)) = k
         /\ \A i \in 1..k : SubSeq(m, s + 1, s + k)[i] = m[s + i]
<1>1. PICK p \in Nat, q \in Nat : p = s + 1 /\ q = s + k /\ p >= 1 /\ q <= Len(m) /\ p <= q + 1
  OBVIOUS
<1>2. SubSeq(m, p, q) \in Seq(Int) /\ Len(SubSeq(m, p, q)) = k
  BY <1>1
<1>3. \A i \in 1..k : SubSeq(m, p, q)[i] = m[s + i]
  <2> SUFFICES ASSUME NEW i \in 1..k PROVE SubSeq(m, p, q)[i] = m[s + i]
    OBVIOUS
  <2>1. SubSeq(m, p, q)[i] = m[p + i - 1] /\ p + i - 1 = s + i
    BY <1>1
  <2>q. QED
    BY <2>1
<1>q. QED
  BY <1>1, <1>2, <1>3

(* Sequences with the same bytes are the same. *)
LEMMA IoSame ==
  ASSUME NEW p \in Seq(Int), NEW q \in Seq(Int), Len(p) = Len(q), \A i \in 1..Len(p) : p[i] = q[i]
  PROVE  p = q
  OBVIOUS

LEMMA IoGrowsIsQueue ==
  ASSUME NEW m \in Seq(Int), NEW s \in Nat, NEW k \in Nat, s + k <= Len(m),
         ioMem = m, ioRead = s, ioWrite = s + k, IoGrows(m, s, k)
  PROVE  IoQueue!Own
<1>1. PICK n \in Seq(Int), t \in Nat, l \in Nat :
        /\ ioMem' = n /\ ioRead' = t /\ ioWrite' = t + l /\ k <= l /\ t + l <= Len(n)
        /\ \A i \in 1..k : n[t + i] = m[s + i]
  BY DEF IoGrows
<1>2. PICK q \in Seq(Int) : q = SubSeq(m, s + 1, s + k) /\ Len(q) = k /\ \A i \in 1..k : q[i] = m[s + i]
  BY IoBytesAre
<1>3. PICK r \in Seq(Int) : r = SubSeq(n, t + 1, t + l) /\ Len(r) = l /\ \A i \in 1..l : r[i] = n[t + i]
  <2>1. n \in Seq(Int) /\ t \in Nat /\ l \in Nat /\ t + l <= Len(n)
    BY <1>1
  <2>2. /\ SubSeq(n, t + 1, t + l) \in Seq(Int) /\ Len(SubSeq(n, t + 1, t + l)) = l
        /\ \A i \in 1..l : SubSeq(n, t + 1, t + l)[i] = n[t + i]
    BY ONLY <2>1, IoBytesAre
  <2>q. QED
    BY <2>2, Zenon
<1>4. SubSeq(ioMem, ioRead + 1, ioWrite) = q /\ SubSeq(ioMem, ioRead + 1, ioWrite)' = r
  BY <1>1, <1>2, <1>3, Zenon
<1>5. \A i \in 1..k : r[i] = q[i]
  BY <1>1, <1>2, <1>3
<1>6. CASE k = l
  <2>1. r = q
    BY <1>2, <1>3, <1>5, <1>6, IoSame
  <2>2. 0 \in 0..Len(q) /\ r = SubSeq(q, 0 + 1, Len(q))
    BY <1>2, <2>1
  <2>q. QED
    BY <1>4, <2>2, Zenon DEF IoQueue!Own
<1>7. CASE k < l
  <2>1. Len(r) > Len(q)
    BY <1>2, <1>3, <1>7
  <2>2. SubSeq(r, 1, k) = q
    <3>1. PICK z \in Nat : z = 0 /\ z + 1 = 1 /\ z + k = k /\ z + k <= Len(r) /\ \A i \in 1..k : z + i = i
      BY <1>3, <1>7
    <3>2. /\ SubSeq(r, z + 1, z + k) \in Seq(Int) /\ Len(SubSeq(r, z + 1, z + k)) = k
          /\ \A i \in 1..k : SubSeq(r, z + 1, z + k)[i] = r[z + i]
      BY ONLY <3>1, IoBytesAre, r \in Seq(Int), k \in Nat, z \in Nat
    <3>3. SubSeq(r, 1, k) \in Seq(Int) /\ Len(SubSeq(r, 1, k)) = k /\ \A i \in 1..k : SubSeq(r, 1, k)[i] = r[i]
      BY <3>1, <3>2, Zenon
    <3>q. QED
      BY <3>3, <1>2, <1>5, IoSame
  <2>q. QED
    BY <1>2, <1>4, <2>1, <2>2, Zenon DEF IoQueue!Own
<1>q. QED
  BY <1>1, <1>6, <1>7

LEMMA IoLosesIsQueue ==
  ASSUME NEW m \in Seq(Int), NEW s \in Nat, NEW k \in Nat, s + k <= Len(m),
         ioMem = m, ioRead = s, ioWrite = s + k, IoLoses(m, s, k)
  PROVE  IoQueue!Own
<1>1. PICK n \in Seq(Int), t \in Nat, d \in 0..k :
        /\ ioMem' = n /\ ioRead' = t /\ ioWrite' = t + (k - d) /\ t + (k - d) <= Len(n)
        /\ \A i \in 1..(k - d) : n[t + i] = m[s + d + i]
  BY DEF IoLoses
<1>2. PICK q \in Seq(Int) : q = SubSeq(m, s + 1, s + k) /\ Len(q) = k /\ \A i \in 1..k : q[i] = m[s + i]
  BY IoBytesAre
<1>3. PICK l \in Nat : l = k - d /\ d \in Nat /\ d + l = k
  OBVIOUS
<1>4. PICK r \in Seq(Int) : r = SubSeq(n, t + 1, t + l) /\ Len(r) = l /\ \A i \in 1..l : r[i] = n[t + i]
  <2>1. t + l <= Len(n)
    BY <1>1, <1>3, Zenon
  <2>2. /\ SubSeq(n, t + 1, t + l) \in Seq(Int) /\ Len(SubSeq(n, t + 1, t + l)) = l
        /\ \A i \in 1..l : SubSeq(n, t + 1, t + l)[i] = n[t + i]
    BY ONLY <2>1, IoBytesAre, n \in Seq(Int), t \in Nat, l \in Nat
  <2>q. QED
    BY <2>2, Zenon
<1>5. SubSeq(ioMem, ioRead + 1, ioWrite) = q /\ SubSeq(ioMem, ioRead + 1, ioWrite)' = r
  BY <1>1, <1>2, <1>3, <1>4, Zenon
<1>6. SubSeq(q, d + 1, d + l) \in Seq(Int) /\ Len(SubSeq(q, d + 1, d + l)) = l
      /\ \A i \in 1..l : SubSeq(q, d + 1, d + l)[i] = q[d + i]
  <2>1. d + l <= Len(q) /\ d \in Nat
    BY <1>2, <1>3
  <2>q. QED
    BY ONLY <2>1, IoBytesAre, q \in Seq(Int), l \in Nat
<1>7. \A i \in 1..l : r[i] = q[d + i]
  <2> SUFFICES ASSUME NEW i \in 1..l PROVE r[i] = q[d + i]
    OBVIOUS
  <2>1. PICK j \in 1..k : j = d + i /\ s + j = s + d + i
    BY ONLY <1>3, d \in 0..k, k \in Nat, l \in Nat, i \in 1..l, s \in Nat
  <2>2. r[i] = m[s + d + i]
    BY <1>1, <1>3, <1>4, Zenon
  <2>q. QED
    BY <2>1, <2>2, <1>2, Zenon
<1>8. r = SubSeq(q, d + 1, Len(q))
  <2>1. r = SubSeq(q, d + 1, d + l)
    BY <1>4, <1>6, <1>7, IoSame
  <2>q. QED
    BY <2>1, <1>2, <1>3, Zenon
<1>q. QED
  BY <1>2, <1>5, <1>8, Zenon DEF IoQueue!Own

(* Growing: bytes are written into room that was expected. *)
LEMMA IoWritesInv ==
  ASSUME NEW m \in Seq(Int), NEW s \in Nat, NEW k \in Nat, NEW next \in Nat, s + k <= Len(m),
         \A i \in 1..k : m[s + i] = next - k + i - 1,
         NEW n \in Nat, NEW g \in 0..n, ioNext' = next + g,
         IoSetBuffer(IoWriteBytes(IoExpect([mem |-> m, read |-> s, write |-> s + k], n), [i \in 1..g |-> next + i - 1]))
  PROVE  IoInv' /\ IoGrows(m, s, k)
<1>0. PICK m2 \in Seq(Int), t \in Nat : IoPut(m, s, k, n, g, next, m2, t)
  BY IoWritesTo, Zenon
<1>1. /\ IoWriteBytes(IoExpect([mem |-> m, read |-> s, write |-> s + k], n), [i \in 1..g |-> next + i - 1])
         = [mem |-> m2, read |-> t, write |-> t + k + g]
      /\ t + k + g <= Len(m2) /\ \A i \in 1..k : m2[t + i] = m[s + i]
      /\ \A i \in 1..g : m2[t + k + i] = next + i - 1
  BY <1>0, Zenon DEF IoPut
<1>3. ioMem' = m2 /\ ioRead' = t /\ ioWrite' = t + k + g
  BY <1>1 DEF IoSetBuffer
<1>4. PICK l \in Nat, after \in Nat : l = k + g /\ t + l = t + k + g /\ k <= l /\ t + l <= Len(m2) /\ after = next + g
  BY <1>1
<1>5. \A i \in 1..l : m2[t + i] = after - l + i - 1
  <2> SUFFICES ASSUME NEW i \in 1..l PROVE m2[t + i] = after - l + i - 1
    OBVIOUS
  <2>1. CASE i <= k
    <3>1. m2[t + i] = next - k + i - 1
      <4>1. i \in 1..k
        BY <2>1
      <4>q. QED
        BY <1>1, <4>1, Zenon
    <3>2. next - k + i - 1 = after - l + i - 1
      BY ONLY <1>4, next \in Nat, k \in Nat, after \in Nat, l \in Nat, g \in 0..n, n \in Nat, i \in 1..l
    <3>q. QED
      BY <3>1, <3>2, Zenon
  <2>2. CASE i > k
    <3>1. PICK j \in 1..g : t + i = t + k + j /\ next + j - 1 = after - l + i - 1
      <4>1. i - k \in 1..g /\ t + i = t + k + (i - k) /\ next + (i - k) - 1 = after - l + i - 1
        BY ONLY <1>4, <2>2, next \in Nat, k \in Nat, after \in Nat, l \in Nat, g \in 0..n, n \in Nat, t \in Nat, i \in 1..l
      <4>q. QED
        BY <4>1, Zenon
    <3>q. QED
      BY <1>1, <3>1, Zenon
  <2>3. i <= k \/ i > k
    BY ONLY i \in 1..l, k \in Nat, l \in Nat
  <2>q. QED
    BY <2>1, <2>2, <2>3, Zenon
<1>6. IoInv'
  <2>1. /\ ioMem' = m2 /\ ioRead' = t /\ ioWrite' = t + l /\ ioNext' = after
        /\ t + l <= Len(m2) /\ \A i \in 1..l : m2[t + i] = after - l + i - 1
    BY <1>3, <1>4, <1>5, Zenon
  <2>q. QED
    BY <2>1, IoInvIs, Zenon
<1>7. IoGrows(m, s, k)
  <2>1. /\ ioMem' = m2 /\ ioRead' = t /\ ioWrite' = t + l /\ k <= l /\ t + l <= Len(m2)
        /\ \A i \in 1..k : m2[t + i] = m[s + i]
    BY <1>1, <1>3, <1>4, Zenon
  <2>q. QED
    BY ONLY <2>1, m2 \in Seq(Int), t \in Nat, l \in Nat DEF IoGrows
<1>q. QED
  BY <1>6, <1>7

(* The places of the bytes do not matter: a step that only moves them loses none. *)
LEMMA IoMovesLoses ==
  ASSUME NEW m \in Seq(Int), NEW s \in Nat, NEW k \in Nat, NEW n \in Seq(Int), NEW t \in Nat, NEW d \in 0..k,
         ioMem' = n, ioRead' = t, ioWrite' = t + (k - d), t + (k - d) <= Len(n),
         \A i \in 1..(k - d) : n[t + i] = m[s + d + i]
  PROVE  IoLoses(m, s, k)
  BY DEF IoLoses

(* Bytes are taken, and the buffer may be recycled or cleared. *)
LEMMA IoTakes ==
  ASSUME NEW m \in Seq(Int), NEW s \in Nat, NEW k \in Nat, s + k <= Len(m), NEW d \in 0..k, ioMem' = m,
         \/ ioRead' = s + d /\ ioWrite' = s + k
         \/ d = k /\ ioRead' = 0 /\ ioWrite' = 0
  PROVE  IoLoses(m, s, k)
<1>1. CASE ioRead' = s + d /\ ioWrite' = s + k
  <2>1. PICK t \in Nat : t = s + d /\ t + (k - d) = s + k /\ t + (k - d) <= Len(m)
                        /\ \A i \in 1..(k - d) : t + i = s + d + i
    OBVIOUS
  <2>2. ioRead' = t /\ ioWrite' = t + (k - d) /\ \A i \in 1..(k - d) : m[t + i] = m[s + d + i]
    BY <1>1, <2>1, Zenon
  <2>q. QED
    BY <2>1, <2>2, Zenon DEF IoLoses
<1>2. CASE d = k /\ ioRead' = 0 /\ ioWrite' = 0
  <2>1. PICK t \in Nat : t = 0 /\ t + (k - d) = 0 /\ t + (k - d) <= Len(m) /\ \A i \in 1..(k - d) : m[t + i] = m[s + d + i]
    BY <1>2
  <2>2. ioRead' = t /\ ioWrite' = t + (k - d)
    BY <1>2, <2>1, Zenon
  <2>q. QED
    BY <2>1, <2>2, Zenon DEF IoLoses
<1>q. QED
  BY <1>1, <1>2

(* What a step does, from a state of the invariant. *)
IoAt(m, s, k, next) ==
  /\ ioMem = m /\ ioRead = s /\ ioWrite = s + k /\ ioNext = next
  /\ s + k <= Len(m) /\ \A i \in 1..k : m[s + i] = next - k + i - 1
IoDone(m, s, k) == IoInv' /\ (IoGrows(m, s, k) \/ IoLoses(m, s, k))

LEMMA IoWritingInv ==
  ASSUME NEW m \in Seq(Int), NEW s \in Nat, NEW k \in Nat, NEW next \in Nat, IoAt(m, s, k, next),
         NEW n \in Nat, NEW got \in 0..n, IoWriting(n) \/ IoReceiving(n, got)
  PROVE  IoDone(m, s, k)
<1>1. IoBuffer = [mem |-> m, read |-> s, write |-> s + k]
  BY Zenon DEF IoAt, IoBuffer
<1>2. PICK g \in 0..n :
        /\ ioNext' = next + g
        /\ IoSetBuffer(IoWriteBytes(IoExpect([mem |-> m, read |-> s, write |-> s + k], n), [i \in 1..g |-> next + i - 1]))
  <2>1. n \in 0..n
    OBVIOUS
  <2>2. CASE IoWriting(n)
    BY <1>1, <2>1, <2>2, Zenon DEF IoWriting, IoAt
  <2>3. CASE IoReceiving(n, got)
    BY <1>1, <2>3, Zenon DEF IoReceiving, IoAt
  <2>q. QED
    BY <2>2, <2>3
<1>q. QED
  BY <1>2, IoWritesInv, Zenon DEF IoAt, IoDone

LEMMA IoLosesDone ==
  ASSUME NEW m \in Seq(Int), NEW s \in Nat, NEW k \in Nat, NEW next \in Nat, IoAt(m, s, k, next),
         ioNext' = ioNext, IoLoses(m, s, k)
  PROVE  IoDone(m, s, k)
  BY IoLosesInv, Zenon DEF IoAt, IoDone

LEMMA IoTakingInv ==
  ASSUME NEW m \in Seq(Int), NEW s \in Nat, NEW k \in Nat, NEW next \in Nat, IoAt(m, s, k, next),
         NEW n \in Nat, IoReading(n) \/ IoTaking(n) \/ IoSkipping(n)
  PROVE  IoDone(m, s, k)
<1>1. ioMem = m /\ ioRead = s /\ ioWrite = s + k /\ s + k <= Len(m) /\ IoReadable = k
  BY DEF IoAt, IoReadable
<1>2. PICK d \in 0..k :
        /\ ioMem' = m /\ ioNext' = ioNext
        /\ \/ ioRead' = s + d /\ ioWrite' = s + k
           \/ d = k /\ ioRead' = 0 /\ ioWrite' = 0
  <2>1. PICK d \in 0..k : d = IF n < k THEN n ELSE k
    OBVIOUS
  <2>2. CASE IoReading(n)
    BY <1>1, <2>1, <2>2 DEF IoReading
  <2> DEFINE taken(e) == [mem |-> m, read |-> s + e, write |-> s + k]
  <2>3. \A e \in 0..k :
          \/ e # k /\ IoRecycled(taken(e)) = taken(e)
          \/ e = k /\ IoRecycled(taken(e)) = [mem |-> m, read |-> 0, write |-> 0]
    <3> SUFFICES ASSUME NEW e \in 0..k
                 PROVE  \/ e # k /\ IoRecycled(taken(e)) = taken(e)
                        \/ e = k /\ IoRecycled(taken(e)) = [mem |-> m, read |-> 0, write |-> 0]
      OBVIOUS
    <3>1. taken(e).mem = m /\ taken(e).read = s + e /\ taken(e).write = s + k /\ (s + e = s + k <=> e = k)
      OBVIOUS
    <3> HIDE DEF taken
    <3>q. QED
      BY <3>1, Zenon DEF IoRecycled
  <2>6. \A e \in 0..k : taken(e).mem = m /\ taken(e).read = s + e /\ taken(e).write = s + k
    OBVIOUS
  <2>7. \A e \in 0..k : IoSetBuffer(IoRecycled(taken(e))) =>
          /\ ioMem' = m
          /\ \/ ioRead' = s + e /\ ioWrite' = s + k
             \/ e = k /\ ioRead' = 0 /\ ioWrite' = 0
    <3> SUFFICES ASSUME NEW e \in 0..k, IoSetBuffer(IoRecycled(taken(e)))
                 PROVE  /\ ioMem' = m
                        /\ \/ ioRead' = s + e /\ ioWrite' = s + k
                           \/ e = k /\ ioRead' = 0 /\ ioWrite' = 0
      OBVIOUS
    <3>1. CASE IoRecycled(taken(e)) = taken(e)
      BY <3>1, <2>6, Zenon DEF IoSetBuffer
    <3>2. CASE e = k /\ IoRecycled(taken(e)) = [mem |-> m, read |-> 0, write |-> 0]
      BY <3>2 DEF IoSetBuffer
    <3>q. QED
      BY <3>1, <3>2, <2>3, Zenon
  <2>4. CASE IoTaking(n)
    <3>1. [IoBuffer EXCEPT !.read = @ + (IF n < IoReadable THEN n ELSE IoReadable)] = taken(d)
      BY <1>1, <2>1 DEF IoBuffer
    <3>2. IoSetBuffer(IoRecycled(taken(d))) /\ ioNext' = ioNext
      BY <2>4, <3>1, Zenon DEF IoTaking
    <3>q. QED
      BY <2>7, <3>2, Zenon
  <2>5. CASE IoSkipping(n)
    <3>1. [IoBuffer EXCEPT !.read = @ + n] = taken(n) /\ n \in 0..k
      BY <1>1, <2>5 DEF IoBuffer, IoSkipping
    <3>2. IoSetBuffer(IoRecycled(taken(n))) /\ ioNext' = ioNext
      BY <2>5, <3>1, Zenon DEF IoSkipping
    <3>q. QED
      BY <2>7, <3>1, <3>2, Zenon
  <2>q. QED
    BY <2>2, <2>4, <2>5
<1>3. IoLoses(m, s, k)
  BY <1>1, <1>2, IoTakes, Zenon
<1>q. QED
  BY <1>2, <1>3, IoLosesDone, Zenon

LEMMA IoEnsuringInv ==
  ASSUME NEW m \in Seq(Int), NEW s \in Nat, NEW k \in Nat, NEW next \in Nat, IoAt(m, s, k, next),
         NEW n \in Nat, IoEnsuring(ioWrite + n)
  PROVE  IoDone(m, s, k)
<1>1. IoBuffer = [mem |-> m, read |-> s, write |-> s + k] /\ s + k <= Len(m) /\ (ioWrite + n) - ioWrite = n
  BY DEF IoAt, IoBuffer
<1>2. PICK m1 \in Seq(Int), t \in Nat : IoRoomed(m, s, k, n, m1, t)
  BY <1>1, IoExpected, Zenon
<1>3. ioMem' = m1 /\ ioRead' = t /\ ioWrite' = t + k /\ ioNext' = ioNext
  BY <1>1, <1>2 DEF IoEnsuring, IoSetBuffer, IoRoomed
<1>4. t + k + n <= Len(m1) /\ \A i \in 1..k : m1[t + i] = m[s + i]
  BY <1>2 DEF IoRoomed
<1>5. PICK d \in 0..k : d = 0 /\ k - d = k /\ t + (k - d) = t + k /\ t + (k - d) <= Len(m1)
                       /\ \A i \in 1..k : s + d + i = s + i
  BY <1>4
<1>6. IoLoses(m, s, k)
  <2>1. ioWrite' = t + (k - d)
    BY <1>3, <1>5, Zenon
  <2>2. \A i \in 1..(k - d) : m1[t + i] = m[s + d + i]
    BY <1>4, <1>5, Zenon
  <2>q. QED
    BY <1>3, <1>5, <2>1, <2>2, Zenon DEF IoLoses
<1>q. QED
  BY <1>3, <1>6, IoLosesDone, Zenon

LEMMA IoClearingInv ==
  ASSUME NEW m \in Seq(Int), NEW s \in Nat, NEW k \in Nat, NEW next \in Nat, IoAt(m, s, k, next), IoClearing
  PROVE  IoDone(m, s, k)
<1>1. ioMem' = m /\ ioRead' = 0 /\ ioWrite' = 0 /\ ioNext' = ioNext /\ s + k <= Len(m) /\ k \in 0..k
  BY DEF IoAt, IoClearing
<1>2. IoLoses(m, s, k)
  BY <1>1, IoTakes, Zenon
<1>q. QED
  BY <1>1, <1>2, IoLosesDone, Zenon

(* assign: the bytes of the other block, and its positions. *)
LEMMA IoAssignedIs ==
  ASSUME NEW m \in Seq(Int), NEW s \in Nat, NEW k \in Nat, s + k <= Len(m),
         NEW n \in Seq(Int), NEW r \in Nat, NEW l \in Nat, r + l <= Len(n)
  PROVE  \E to \in Seq(Int) :
           /\ IoAssigned([mem |-> m, read |-> s, write |-> s + k], [mem |-> n, read |-> r, write |-> r + l])
              = [mem |-> to, read |-> r, write |-> r + l]
           /\ Len(n) <= Len(to) /\ \A i \in 1..Len(n) : to[i] = n[i]
           /\ m = <<>> => Len(to) = Len(n)
<1> DEFINE b == [mem |-> m, read |-> s, write |-> s + k]
           other == [mem |-> n, read |-> r, write |-> r + l]
<1>1. other.mem = n /\ other.read = r /\ other.write = r + l /\ Len(n) \in Nat /\ DOMAIN n = 1..Len(n)
  OBVIOUS
<1>2. PICK m1 \in Seq(Int), t \in Nat : IoRoomed(m, s, k, Len(n), m1, t)
  BY <1>1, IoExpected, Zenon
<1>3. IoExpect(b, Len(n)) = [mem |-> m1, read |-> t, write |-> t + k] /\ t + k + Len(n) <= Len(m1)
  BY <1>2 DEF IoRoomed
<1>4. Len(n) <= Len(m1) /\ Len(m1) \in Nat /\ DOMAIN m1 = 1..Len(m1)
  BY <1>1, <1>3
<1>5. m = <<>> => Len(m1) = Len(n)
  <2> SUFFICES ASSUME m = <<>> PROVE Len(m1) = Len(n)
    OBVIOUS
  <2>1. s = 0 /\ k = 0 /\ b.mem = <<>> /\ b.write = 0 /\ Len(b.mem) = 0
    OBVIOUS
  <2>2. IoZeroes(Len(n)) \in Seq(Int) /\ Len(IoZeroes(Len(n))) = Len(n)
    BY <1>1, IoZeroesAre
  <2>3. CASE Len(n) = 0
    <3>1. IoExpect(b, Len(n)) = b
      BY <2>3 DEF IoExpect
    <3>2. m1 = <<>>
      BY <1>3, <3>1
    <3> QED
      BY <2>3, <3>2
  <2>4. CASE Len(n) # 0
    <3>1. ~(b.write + Len(n) <= Len(b.mem))
      BY <1>1, <2>1, <2>4
    <3>2. IoExpect(b, Len(n)) = [mem |-> IoZeroes(Len(n)), read |-> 0, write |-> 0]
      <4> HIDE DEF b
      <4> QED
        BY <2>1, <2>4, <3>1, Zenon DEF IoExpect
    <3>3. m1 = IoZeroes(Len(n))
      BY <1>3, <3>2
    <3> QED
      BY <2>2, <3>3
  <2> QED
    BY <2>3, <2>4
<1>6. CASE m1 = <<>>
  <2>1. Len(n) = 0 /\ r = 0 /\ l = 0 /\ t = 0 /\ k = 0
    BY <1>1, <1>3, <1>6
  <2>2. IoAssigned(b, other) = [mem |-> m1, read |-> t, write |-> t + k]
    <3>1. [mem |-> m1, read |-> t, write |-> t + k].mem = <<>>
      BY <1>6
    <3> HIDE DEF b, other
    <3> QED
      BY <1>1, <1>3, <3>1, Zenon DEF IoAssigned
  <2>3. [mem |-> m1, read |-> t, write |-> t + k] = [mem |-> m1, read |-> r, write |-> r + l]
    BY <2>1
  <2>4. Len(n) <= Len(m1) /\ \A i \in 1..Len(n) : m1[i] = n[i]
    BY <1>4, <2>1
  <2> QED
    BY <1>5, <2>2, <2>3, <2>4, Zenon
<1>7. CASE m1 # <<>>
  <2> DEFINE to == [i \in 1..Len(m1) |-> IF i \in DOMAIN n THEN n[i] ELSE IoJunk]
  <2>1. to \in Seq(Int) /\ Len(to) = Len(m1)
    <3>1. \A i \in 1..Len(m1) : (IF i \in DOMAIN n THEN n[i] ELSE IoJunk) \in Int
      BY <1>1 DEF IoJunk
    <3> QED
      BY <1>4, <3>1
  <2>2. \A i \in 1..Len(n) : to[i] = n[i]
    BY <1>1, <1>4
  <2>3. IoAssigned(b, other) = [mem |-> to, read |-> r, write |-> r + l]
    <3>1. /\ [mem |-> m1, read |-> t, write |-> t + k].mem = m1
      OBVIOUS
    <3> HIDE DEF b, other
    <3> QED
      BY <1>1, <1>3, <1>4, <1>7, <3>1, Zenon DEF IoAssigned
  <2> HIDE DEF to
  <2> QED
    BY <1>4, <1>5, <2>1, <2>2, <2>3, Zenon
<1> QED
  BY <1>6, <1>7

LEMMA IoSameDone ==
  ASSUME NEW m \in Seq(Int), NEW s \in Nat, NEW k \in Nat, NEW next \in Nat, IoAt(m, s, k, next),
         ioMem' = ioMem, ioRead' = ioRead, ioWrite' = ioWrite, ioNext' = ioNext
  PROVE  IoDone(m, s, k)
<1>1. ioMem' = m /\ ioNext' = ioNext /\ s + k <= Len(m)
  BY DEF IoAt
<1>2. 0 \in 0..k /\ ioRead' = s + 0 /\ ioWrite' = s + k
  BY DEF IoAt
<1>3. IoLoses(m, s, k)
  BY <1>1, <1>2, IoTakes, Zenon
<1>q. QED
  BY <1>1, <1>3, IoLosesDone, Zenon

LEMMA IoCopyingDone ==
  ASSUME NEW m \in Seq(Int), NEW s \in Nat, NEW k \in Nat, NEW next \in Nat, IoAt(m, s, k, next), IoCopying
  PROVE  IoDone(m, s, k) /\ ioGiven' = <<>> /\ ioBeyond' = FALSE
<1>1. IoBuffer = [mem |-> m, read |-> s, write |-> s + k] /\ s + k <= Len(m)
  BY DEF IoAt, IoBuffer
<1>2. PICK e \in Seq(Int), z \in Nat : IoNoBlock = [mem |-> e, read |-> z, write |-> z + z] /\ z + z <= Len(e) /\ e = <<>>
  <2>1. IoNoBlock = [mem |-> <<>>, read |-> 0, write |-> 0 + 0] /\ <<>> \in Seq(Int) /\ 0 + 0 <= Len(<<>>) /\ 0 \in Nat
    BY DEF IoNoBlock
  <2>q. QED
    BY <2>1, Zenon
<1>3. PICK to \in Seq(Int) :
        /\ IoAssigned(IoNoBlock, IoBuffer) = [mem |-> to, read |-> s, write |-> s + k]
        /\ \A i \in 1..Len(m) : to[i] = m[i]
        /\ Len(to) = Len(m)
  <2>1. z + z <= Len(e) /\ s + k <= Len(m)
    BY <1>1, <1>2, Zenon
  <2>2. PICK to \in Seq(Int) :
          /\ IoAssigned([mem |-> e, read |-> z, write |-> z + z], [mem |-> m, read |-> s, write |-> s + k])
             = [mem |-> to, read |-> s, write |-> s + k]
          /\ Len(m) <= Len(to) /\ \A i \in 1..Len(m) : to[i] = m[i]
          /\ e = <<>> => Len(to) = Len(m)
    BY ONLY <2>1, m \in Seq(Int), s \in Nat, k \in Nat, e \in Seq(Int), z \in Nat, IoAssignedIs
  <2>q. QED
    BY <1>1, <1>2, <2>2, Zenon
<1>4. to = m
  BY <1>3, IoSame
<1>5. ioMem' = m /\ ioRead' = s /\ ioWrite' = s + k /\ ioNext' = ioNext /\ ioGiven' = <<>>
  BY <1>3, <1>4 DEF IoCopying, IoSetBuffer
<1>6. ioBeyond' = FALSE
  <2>1. ioBeyond' = (Len(m) > Len(m))
    BY <1>5, Zenon DEF IoCopying, IoAt
  <2>2. (Len(m) > Len(m)) = FALSE
    OBVIOUS
  <2>q. QED
    BY <2>1, <2>2, Zenon
<1>7. ioMem' = ioMem /\ ioRead' = ioRead /\ ioWrite' = ioWrite
  BY <1>5, Zenon DEF IoAt
<1> QED
  BY <1>5, <1>6, <1>7, IoSameDone, Zenon

(* operator= : the bytes are those of the other buffer, whatever was there. *)
LEMMA IoAssigningDone ==
  ASSUME NEW m \in Seq(Int), NEW s \in Nat, NEW k \in Nat, NEW next \in Nat, IoAt(m, s, k, next),
         NEW size \in Nat, NEW r \in Nat, NEW l \in Nat, IoAssigning(size, r, l)
  PROVE  /\ IoInv' /\ SubSeq(ioMem', ioRead' + 1, ioWrite') = ioGiven'
         /\ ioBeyond' => ioMem # <<>>
<1> DEFINE n == [i \in 1..size |-> IF i - r \in 1..l THEN next + (i - r) - 1 ELSE 0]
<1>1. IoBuffer = [mem |-> m, read |-> s, write |-> s + k] /\ s + k <= Len(m) /\ ioNext = next /\ ioMem = m
  BY DEF IoAt, IoBuffer
<1>2. IoOther(size, r, l) = [mem |-> n, read |-> r, write |-> r + l]
  BY <1>1, Zenon DEF IoOther
<1>3. n \in Seq(Int) /\ Len(n) = size
  <2>1. \A i \in 1..size : (IF i - r \in 1..l THEN next + (i - r) - 1 ELSE 0) \in Int
    OBVIOUS
  <2> QED
    BY <2>1
<1>4. r + l <= size /\ ioNext' = next + l /\ ioGiven' = [i \in 1..l |-> next + i - 1] /\ ioBeyond' = (Len(ioMem') > size)
  BY <1>1 DEF IoAssigning
<1>5. \A i \in 1..l : n[r + i] = next + i - 1 /\ r + i \in 1..size
  <2> SUFFICES ASSUME NEW i \in 1..l PROVE n[r + i] = next + i - 1 /\ r + i \in 1..size
    OBVIOUS
  <2>1. r + i \in 1..size /\ (r + i) - r = i
    BY <1>4
  <2> QED
    BY <2>1
<1> HIDE DEF n
<1>6. PICK to \in Seq(Int) :
        /\ IoAssigned(IoBuffer, IoOther(size, r, l)) = [mem |-> to, read |-> r, write |-> r + l]
        /\ Len(n) <= Len(to) /\ \A i \in 1..Len(n) : to[i] = n[i]
        /\ m = <<>> => Len(to) = Len(n)
  <2>1. r + l <= Len(n)
    BY <1>3, <1>4
  <2>2. PICK to \in Seq(Int) :
          /\ IoAssigned([mem |-> m, read |-> s, write |-> s + k], [mem |-> n, read |-> r, write |-> r + l])
             = [mem |-> to, read |-> r, write |-> r + l]
          /\ Len(n) <= Len(to) /\ \A i \in 1..Len(n) : to[i] = n[i]
          /\ m = <<>> => Len(to) = Len(n)
    BY ONLY <1>1, <1>3, <2>1, m \in Seq(Int), s \in Nat, k \in Nat, r \in Nat, l \in Nat, IoAssignedIs
  <2> QED
    BY <1>1, <1>2, <2>2, Zenon
<1>7. ioMem' = to /\ ioRead' = r /\ ioWrite' = r + l
  BY <1>6 DEF IoAssigning, IoSetBuffer
<1>8. PICK after \in Nat : after = next + l
  OBVIOUS
<1>9. r + l <= Len(to) /\ \A i \in 1..l : to[r + i] = next + i - 1
  <2>1. r + l <= Len(to)
    BY <1>3, <1>4, <1>6
  <2>2. \A i \in 1..l : to[r + i] = n[r + i]
    BY <1>3, <1>5, <1>6, Zenon
  <2> QED
    BY <1>5, <2>1, <2>2, Zenon
<1>10. IoInv'
  <2>1. \A i \in 1..l : next + i - 1 = after - l + i - 1
    BY <1>8
  <2>2. \A i \in 1..l : to[r + i] = after - l + i - 1
    BY <1>9, <2>1, Zenon
  <2>3. ioNext' = after
    BY <1>4, <1>8
  <2> QED
    BY <1>7, <1>9, <2>2, <2>3, IoInvIs, Zenon
<1>11. SubSeq(ioMem', ioRead' + 1, ioWrite') = ioGiven'
  <2>1. /\ SubSeq(to, r + 1, r + l) \in Seq(Int) /\ Len(SubSeq(to, r + 1, r + l)) = l
        /\ \A i \in 1..l : SubSeq(to, r + 1, r + l)[i] = to[r + i]
    BY ONLY <1>9, IoBytesAre, to \in Seq(Int), r \in Nat, l \in Nat
  <2>2. PICK g \in Seq(Int) : g = [i \in 1..l |-> next + i - 1] /\ Len(g) = l /\ \A i \in 1..l : g[i] = next + i - 1
    <3>1. \A i \in 1..l : next + i - 1 \in Int
      OBVIOUS
    <3> DEFINE g == [i \in 1..l |-> next + i - 1]
    <3>2. g \in Seq(Int) /\ Len(g) = l /\ \A i \in 1..l : g[i] = next + i - 1
      BY <3>1
    <3> HIDE DEF g
    <3>3. g = g
      OBVIOUS
    <3> QED
      BY <3>2, <3>3, Zenon DEF g
  <2>3. \A i \in 1..l : SubSeq(to, r + 1, r + l)[i] = g[i]
    BY <1>9, <2>1, <2>2, Zenon
  <2>4. PICK q \in Seq(Int) : q = SubSeq(to, r + 1, r + l) /\ Len(q) = l /\ \A i \in 1..l : q[i] = g[i]
    BY <2>1, <2>3, Zenon
  <2>5. q = g
    BY <2>2, <2>4, IoSame
  <2> QED
    BY <1>4, <1>7, <2>2, <2>4, <2>5, Zenon
<1>12. ioBeyond' => ioMem # <<>>
  <2>1. ioMem = <<>> => Len(ioMem') = size
    BY <1>1, <1>3, <1>6, <1>7, Zenon
  <2>2. ~(size > size)
    OBVIOUS
  <2> QED
    BY <1>4, <2>1, <2>2, Zenon
<1> QED
  BY <1>10, <1>11, <1>12

LEMMA IoCallsDone ==
  ASSUME NEW m \in Seq(Int), NEW s \in Nat, NEW k \in Nat, NEW next \in Nat, IoAt(m, s, k, next), IoCalls
  PROVE  IoDone(m, s, k)
<1>1. ASSUME NEW n \in 0..IoMaxWrite,
             IoWriting(n) \/ IoReading(n) \/ IoTaking(n) \/ IoSkipping(n)
               \/ (\E got \in 0..n : IoReceiving(n, got)) \/ IoEnsuring(ioWrite + n)
      PROVE  IoDone(m, s, k)
  <2>1. n \in Nat /\ 0 \in 0..n
    OBVIOUS
  <2>q. QED
    BY <1>1, <2>1, IoWritingInv, IoTakingInv, IoEnsuringInv, Zenon
<1>2. CASE IoClearing
  BY <1>2, IoClearingInv, Zenon
<1>q. QED
  BY <1>1, <1>2, Zenon DEF IoCalls

LEMMA IoInvAt ==
  IoInv <=> \E m \in Seq(Int), s \in Nat, k \in Nat, next \in Nat : IoAt(m, s, k, next)
  BY Zenon DEF IoInv, IoAt

LEMMA IoInitInv == IoInit => IoInv
<1> SUFFICES ASSUME IoInit PROVE IoInv
  OBVIOUS
<1>1. ioMem = <<>> /\ ioRead = 0 /\ ioWrite = 0 + 0 /\ ioNext = 1
  BY DEF IoInit
<1>2. <<>> \in Seq(Int) /\ 0 + 0 <= Len(<<>>) /\ \A i \in 1..0 : <<>>[0 + i] = 1 - 0 + i - 1
  OBVIOUS
<1>3. IoAt(<<>>, 0, 0, 1)
  BY <1>1, <1>2, Zenon DEF IoAt
<1>4. 0 \in Nat /\ 1 \in Nat
  OBVIOUS
<1>q. QED
  BY <1>2, <1>3, <1>4, IoInvAt, Zenon

(* What every step does. *)
IoStepped ==
  /\ IoInv' /\ (ioBeyond' => ioMem # <<>>)
  /\ (IoQueue!Own /\ ioGiven' = <<>>) \/ SubSeq(ioMem', ioRead' + 1, ioWrite') = ioGiven'

LEMMA IoStepDone == IoInv /\ IoNext => IoStepped
<1> SUFFICES ASSUME IoInv, IoNext PROVE IoStepped
  OBVIOUS
<1>1. PICK m \in Seq(Int), s \in Nat, k \in Nat, next \in Nat : IoAt(m, s, k, next)
  BY IoInvAt, Zenon
<1>2. ASSUME IoDone(m, s, k) PROVE IoInv' /\ IoQueue!Own
  <2>1. ioMem = m /\ ioRead = s /\ ioWrite = s + k /\ s + k <= Len(m)
    BY <1>1, Zenon DEF IoAt
  <2>2. IoGrows(m, s, k) \/ IoLoses(m, s, k)
    BY <1>2, Zenon DEF IoDone
  <2>q. QED
    BY <1>2, <2>1, <2>2, IoGrowsIsQueue, IoLosesIsQueue, Zenon DEF IoDone
<1>3. CASE IoCalls /\ ioGiven' = <<>> /\ ioBeyond' = FALSE
  BY <1>1, <1>2, <1>3, IoCallsDone, Zenon DEF IoStepped
<1>4. CASE IoCopying
  BY <1>1, <1>2, <1>4, IoCopyingDone, Zenon DEF IoStepped
<1>5. ASSUME NEW size \in 0..IoMaxWrite, NEW r \in 0..IoMaxWrite, NEW l \in 0..IoMaxWrite, IoAssigning(size, r, l)
      PROVE  IoStepped
  <2>1. size \in Nat /\ r \in Nat /\ l \in Nat
    OBVIOUS
  <2>q. QED
    BY <1>1, <1>5, <2>1, IoAssigningDone, Zenon DEF IoStepped
<1>q. QED
  BY <1>3, <1>4, <1>5, Zenon DEF IoNext

LEMMA IoStepInv == IoInv /\ [IoNext]_ioVars => IoInv'
<1>1. ASSUME IoInv, UNCHANGED ioVars PROVE IoInv'
  <2>1. ioMem' = ioMem /\ ioRead' = ioRead /\ ioWrite' = ioWrite /\ ioNext' = ioNext
    BY <1>1 DEF ioVars
  <2>2. PICK m \in Seq(Int), s \in Nat, k \in Nat, next \in Nat : IoAt(m, s, k, next)
    BY <1>1, IoInvAt, Zenon
  <2>q. QED
    BY <2>1, <2>2, IoSameDone, Zenon DEF IoDone
<1>q. QED
  BY <1>1, IoStepDone, Zenon DEF IoStepped

LEMMA IoStepIsQueue ==
  IoInv /\ [IoNext]_ioVars => [IoQueue!Next]_<<SubSeq(ioMem, ioRead + 1, ioWrite), ioGiven>>
<1>1. IoStepped => IoQueue!Next
  BY Zenon DEF IoStepped, IoQueue!Next
<1>2. UNCHANGED ioVars => UNCHANGED <<SubSeq(ioMem, ioRead + 1, ioWrite), ioGiven>>
  BY DEF ioVars
<1>q. QED
  BY <1>1, <1>2, IoStepDone, Zenon

LEMMA IoStepWithin == IoInv /\ [IoNext]_ioVars => [ioBeyond' => ioMem # <<>>]_ioVars
  BY IoStepDone, Zenon DEF IoStepped

LEMMA IoInvHolds == IoInv => IoTypeOK /\ IoWhole
<1> SUFFICES ASSUME IoInv PROVE IoTypeOK /\ IoWhole
  OBVIOUS
<1>1. PICK m \in Seq(Int), s \in Nat, k \in Nat, next \in Nat : IoAt(m, s, k, next)
  BY IoInvAt, Zenon
<1>2. ioMem = m /\ ioRead = s /\ ioWrite = s + k /\ ioNext = next /\ s + k <= Len(m) /\ IoReadable = k
      /\ \A i \in 1..k : m[s + i] = next - k + i - 1
  BY <1>1 DEF IoAt, IoReadable
<1>3. IoTypeOK
  BY <1>2 DEF IoTypeOK
<1>q. QED
  BY <1>2, <1>3, Zenon DEF IoWhole

(* An IOBuffer keeps its positions in its block, and the bytes that were written and *)
(* not read, in their order: it is a queue of bytes, however large it is and whatever *)
(* it was asked for, or the bytes of the buffer that was assigned to it; operator=    *)
(* reads beyond the block of that buffer only where there was a block to keep         *)
(* (TIOBuffer.h write, read, skip, expect, moveData, assign).                         *)
THEOREM BufferIsQueue == IoSpec => [](IoTypeOK /\ IoWhole) /\ IoIsQueue /\ IoCopiesWithin
<1>1. IoInit => IoQueue!Init
  BY DEF IoInit, IoQueue!Init
<1>q. QED
  BY <1>1, IoInitInv, IoStepInv, IoStepIsQueue, IoStepWithin, IoInvHolds, PTL
     DEF IoSpec, IoIsQueue, IoQueue!Spec, IoCopiesWithin

(* All buffers of comn, each in an application of its own: the bytes of a ByteBuffer  *)
(* are those it was given; the text of a CharArray ends within its block, which text  *)
(* that is being left open; and an IOBuffer is a queue, or what was assigned to it.   *)
THEOREM BuffersAreKept == IoSpec /\ BfSpec => BuffersHold
  BY BufferIsQueue, BytesAreHeld, TextsEnd, PTL DEF BuffersHold
=============================================================================
