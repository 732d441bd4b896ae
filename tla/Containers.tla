----------------------------- MODULE Containers ------------------------------
(* The shared containers of comn, each operation under its lock: Map, which    *)
(* owns the connections and the data processors, DiscreteArray, and            *)
(* NumGenerator, whose type has CnModulus numbers.                             *)
EXTENDS Integers, Sequences, SequencesExt, FiniteSets, FiniteSetsExt, Functions

CONSTANTS
  CnKeys,        \* keys of the map, numbers, in the order of the map
  CnValues,      \* values of the map and of the array
  CnSize,        \* MAX_SIZE of the array
  CnModulus      \* how many numbers NumGenerator's type has, which has no sign

\* A place of the array that is not taken is none of the values.
CnIdle == 0

ASSUME ContainersAssumption ==
  CnKeys \subseteq Nat /\ CnIdle \notin CnValues /\ CnSize \in Nat \ {0} /\ CnModulus \in Nat \ {0}

VARIABLES
  cnMap,         \* m_map
  cnElements,    \* m_elements: [index -> value, or CnIdle]
  cnCount,       \* m_size
  cnHint,        \* m_hintIndex
  cnGot,         \* what the last operation of the array returned: an index, a value, or -1
  ngRange,       \* m_lower, m_upper and m_step
  ngCur          \* m_cur

cnMapVars == <<cnMap>>
cnArrayVars == <<cnElements, cnCount, cnHint, cnGot>>
cnNumVars == <<ngRange, ngCur>>
cnVars == <<cnMap, cnElements, cnCount, cnHint, cnGot, ngRange, ngCur>>

CnNothing == -1
CnIndices == 0..(CnSize - 1)

CnInit ==
  /\ cnMap = << >>
  /\ cnElements = [i \in CnIndices |-> CnIdle] /\ cnCount = 0 /\ cnHint = 0 /\ cnGot = CnNothing
  /\ ngRange = [lower |-> 0, upper |-> 2, step |-> 1] /\ ngCur = 0

-----------------------------------------------------------------------------
(* Map *)

CnOthers == UNCHANGED <<cnArrayVars, cnNumVars>>
CnWith(m, k, v) == [l \in DOMAIN m \cup {k} |-> IF l = k THEN v ELSE m[l]]
CnWithout(m, keys) == RestrictDomain(m, LAMBDA k : k \notin keys)
CnFront(keys) == IF keys = {} THEN {} ELSE {Min(keys)}

\* set, and put, which also tells the value there was.
MapSet(k, v) == cnMap' = CnWith(cnMap, k, v) /\ CnOthers
\* insert leaves what is there.
MapInsert(k, v) == cnMap' = (IF k \in DOMAIN cnMap THEN cnMap ELSE CnWith(cnMap, k, v)) /\ CnOthers
\* get makes the entry when it is not there.
MapGet(k) == MapInsert(k, CnIdle)
MapRemove(k) == cnMap' = CnWithout(cnMap, {k}) /\ CnOthers

\* removeValue, removeIf and pop_front: the first entry with one of the values.
MapRemoveFirst(values) == cnMap' = CnWithout(cnMap, CnFront({k \in DOMAIN cnMap : cnMap[k] \in values})) /\ CnOthers

\* A faulty variant: the loop goes on one entry too far behind one that is erased.
CnErasedSkipping(m, v) ==
  FoldLeft(LAMBDA st, k : IF ~st.skip /\ m[k] = v
                          THEN [map |-> CnWithout(st.map, {k}), count |-> st.count + 1, skip |-> TRUE]
                          ELSE [st EXCEPT !.skip = FALSE],
           [map |-> m, count |-> 0, skip |-> FALSE], SetToSortSeq(DOMAIN m, <))

\* removeAll: the loop over the entries in their order, which goes on behind an entry
\* that is erased. passed: what there is once the loop went past these keys.
CnErased(m, v) ==
  LET passed[keys \in SUBSET DOMAIN m] ==
        IF keys = {} THEN [map |-> m, count |-> 0]
        ELSE LET k == Max(keys)
                 before == passed[keys \ {k}]
             IN IF m[k] = v THEN [map |-> CnWithout(before.map, {k}), count |-> before.count + 1] ELSE before
  IN passed[DOMAIN m]
MapRemoveAll(v) == cnMap' = CnErased(cnMap, v).map /\ CnOthers
MapClear == cnMap' = << >> /\ CnOthers

\* findByValue, findIf and getAt: the first that fits, and the one at a place.
MapFindFirst(m, v) == CnFront({k \in DOMAIN m : m[k] = v})
MapGetAt(m, i) == {k \in DOMAIN m : Cardinality({l \in DOMAIN m : l < k}) = i}

MapNext ==
  \/ \E k \in CnKeys : MapRemove(k) \/ MapGet(k) \/ \E v \in CnValues : MapSet(k, v) \/ MapInsert(k, v)
  \/ \E v \in CnValues : MapRemoveFirst({v}) \/ MapRemoveAll(v)
  \/ MapRemoveFirst(CnValues \cup {CnIdle})
  \/ MapClear

-----------------------------------------------------------------------------
(* DiscreteArray *)

CnArray(elements, count, hint, got) ==
  /\ cnElements' = elements /\ cnCount' = count /\ cnHint' = hint /\ cnGot' = got
  /\ UNCHANGED <<cnMapVars, cnNumVars>>

\* The first place from index i on, around the end, that is idle or not.
CnSearch(i, idle) ==
  LET d == {n \in 0..(CnSize - 1) : (cnElements[(i + n) % CnSize] = CnIdle) = idle}
  IN IF d = {} THEN CnNothing ELSE (i + Min(d)) % CnSize

\* A faulty variant: the index it returns is the one of the time before.
ArrayPutHint(v) ==
  LET i == CnSearch(cnHint, TRUE)
  IN IF cnCount >= CnSize \/ i = CnNothing THEN CnArray(cnElements, cnCount, cnHint, CnNothing)
     ELSE CnArray([cnElements EXCEPT ![i] = v], cnCount + 1, i, cnHint)

\* put: an idle place, looked for from the one that was taken last.
ArrayPut(v) ==
  LET i == CnSearch(cnHint, TRUE)
  IN IF cnCount >= CnSize \/ i = CnNothing THEN CnArray(cnElements, cnCount, cnHint, CnNothing)
     ELSE CnArray([cnElements EXCEPT ![i] = v], cnCount + 1, i, i)

\* A faulty variant: a place that is taken is counted again.
ArrayPutAtCounted(i, v) ==
  IF cnCount >= CnSize THEN CnArray(cnElements, cnCount, cnHint, CnNothing)
  ELSE CnArray([cnElements EXCEPT ![i] = v], cnCount + 1, cnHint, i)

\* putAt refuses when the array is full, a place that is taken too.
ArrayPutAt(i, v) ==
  IF cnCount >= CnSize THEN CnArray(cnElements, cnCount, cnHint, CnNothing)
  ELSE CnArray([cnElements EXCEPT ![i] = v], cnCount + (IF cnElements[i] = CnIdle THEN 1 ELSE 0), cnHint, i)

ArrayRemove(i) ==
  IF cnElements[i] = CnIdle THEN CnArray(cnElements, cnCount, cnHint, CnNothing)
  ELSE CnArray([cnElements EXCEPT ![i] = CnIdle], cnCount - 1, cnHint, cnElements[i])

ArrayClear == CnArray([i \in CnIndices |-> CnIdle], 0, 0, CnNothing)

\* next: the element at an index, or the next one there is.
ArrayNext(i) ==
  LET j == CnSearch(i % CnSize, FALSE)
  IN CnArray(cnElements, cnCount, cnHint, IF j = CnNothing THEN CnNothing ELSE cnElements[j])

CnArrayNext ==
  \/ \E v \in CnValues : ArrayPut(v) \/ \E i \in CnIndices : ArrayPutAt(i, v)
  \/ \E i \in CnIndices : ArrayRemove(i) \/ ArrayNext(i + 1)
  \/ ArrayClear

-----------------------------------------------------------------------------
(* NumGenerator *)

CnNumbers == 0..(CnModulus - 1)

\* setRange starts from the lower end.
NumSetRange(a, b) ==
  /\ ngRange' = [ngRange EXCEPT !.lower = Min({a, b}), !.upper = Max({a, b})]
  /\ ngCur' = Min({a, b})
  /\ UNCHANGED <<cnMapVars, cnArrayVars>>
NumSetStep(s) == ngRange' = [ngRange EXCEPT !.step = s] /\ UNCHANGED <<ngCur, cnMapVars, cnArrayVars>>

\* A faulty variant: the upper end is not reached.
NumFollowingShort(r, cur) == LET n == (cur + r.step) % CnModulus IN IF r.upper <= n THEN r.lower ELSE n

\* next: the sum has the width of the type.
NumFollowing(r, cur) == LET n == (cur + r.step) % CnModulus IN IF r.upper < n THEN r.lower ELSE n
NumNext == ngCur' = NumFollowing(ngRange, ngCur) /\ UNCHANGED <<ngRange, cnMapVars, cnArrayVars>>

CnNumNext ==
  \/ \E a, b \in CnNumbers : NumSetRange(a, b)
  \/ \E s \in CnNumbers : NumSetStep(s)
  \/ NumNext

CnNext == MapNext \/ CnArrayNext \/ CnNumNext
CnSpec == CnInit /\ [][CnNext]_cnVars

-----------------------------------------------------------------------------
(* Properties *)

\* A removal by value takes each entry that has it, counts them, and leaves the others;
\* a search finds the first of the entries that getAt lists in the order of their keys
\* (Map::removeAll, findByValue, getAt).
MapFinds ==
  \A v \in CnValues :
    LET having == {k \in DOMAIN cnMap : cnMap[k] = v}
        all == CnErased(cnMap, v)
    IN /\ DOMAIN all.map = DOMAIN cnMap \ having /\ all.count = Cardinality(having)
       /\ \A k \in DOMAIN all.map : all.map[k] = cnMap[k]
       /\ \A k \in MapFindFirst(cnMap, v) :
            \E i \in 0..Cardinality(DOMAIN cnMap) :
              /\ MapGetAt(cnMap, i) = {k}
              /\ \A j \in 0..(i - 1) : MapGetAt(cnMap, j) \cap having = {}

\* m_size counts what is there, so that put finds a place until the array is full and
\* next finds an element unless it is empty (DiscreteArray).
ArrayCounts == cnCount = Cardinality({i \in CnIndices : cnElements[i] # CnIdle})

\* put overwrites nothing: the element it was given is at the index it returned, and all
\* others are where they were (findIdle, m_hintIndex).
ArrayKeeps ==
  [][\A v \in CnValues : ArrayPut(v) =>
       /\ cnGot' = CnNothing <=> cnCount = CnSize
       /\ cnGot' # CnNothing => cnElements'[cnGot'] = v
       /\ \A i \in CnIndices : cnElements[i] # CnIdle => cnElements'[i] = cnElements[i]]_cnVars

\* The numbers are in their range, and with a step of one each of the range comes once
\* in a round, when the type can hold what lies one step beyond the range.
NumFits(r) == r.upper + r.step \in CnNumbers
NumCycles ==
  NumFits(ngRange) =>
    LET span == ngRange.lower..ngRange.upper
        n == ngRange.upper - ngRange.lower + 1
        round[i \in 0..n] == IF i = 0 THEN ngCur ELSE NumFollowing(ngRange, round[i - 1])
    IN ngCur \in span =>
         /\ \A i \in 0..n : round[i] \in span
         /\ ngRange.step = 1 => round[n] = ngCur /\ {round[i] : i \in 1..n} = span

\* A container finds what was put into it, and what its counters say is there; a generator
\* comes round.
ContainersKeep == [](MapFinds /\ ArrayCounts /\ NumCycles) /\ ArrayKeeps
=============================================================================
