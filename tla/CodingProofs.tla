---------------------------- MODULE CodingProofs -----------------------------
(* Proofs about what comn parses and encodes, for any options, command lines    *)
(* and bytes: the options tell what the last command line says; what is encoded *)
(* is decoded again, and MD5 is fed every byte once.                            *)
EXTENDS Options, Codings, TLAPS, FiniteSetTheorems, SequenceTheorems, WellFoundedInduction

LEMMA CnSmallest ==
  ASSUME NEW S \in SUBSET Nat, S # {}
  PROVE  \E m \in S : \A j \in S : m <= j
<1>1. PICK m \in S : \A j \in S : ~(<<j, m>> \in OpToRel(<, Nat))
  BY NatLessThanWellFounded, WFMin
<1>2. \A j \in S : m <= j
  <2> SUFFICES ASSUME NEW j \in S PROVE m <= j
    OBVIOUS
  <2>1. <<j, m>> \in Nat \X Nat /\ j \in Nat /\ m \in Nat
    OBVIOUS
  <2>2. ~(j < m)
    BY <1>1, <2>1 DEF OpToRel
  <2> QED
    BY <2>1, <2>2
<1> QED
  BY <1>2

-----------------------------------------------------------------------------
(* Options (OptionParser)                                                    *)

OpOptions ==
  [short : OpLetters \cup {OpNone}, needArg : BOOLEAN, def : OpDefaults \cup {OpNone},
   present : BOOLEAN, value : OpDefaults \cup OpTexts \cup {OpNone}]
OpLineItems ==
  [plain : BOOLEAN, double : BOOLEAN, name : OpLetters \cup OpLongs \cup {OpNone},
   given : BOOLEAN, text : OpTexts \cup {OpNone}]

(* What the properties say of the options and the line, for any options m, any *)
(* line l and any arguments: a step changes these, and little else.            *)
OpShorts(m, name) == {o \in DOMAIN m : m[o].short = name}
OpAnyOf(options) == CHOOSE o \in options : TRUE
OpFindIn(m, name) ==
  IF name \in DOMAIN m THEN name
  ELSE IF name \in OpLetters /\ OpShorts(m, name) # {} THEN OpAnyOf(OpShorts(m, name)) ELSE OpNone
OpNamesIn(m, l, i, o) == ~l[i].plain /\ OpFindIn(m, l[i].name) = o
OpAsksIn(m, l, i) ==
  /\ i \in DOMAIN l /\ ~l[i].plain /\ ~l[i].given
  /\ m[OpFindIn(m, l[i].name)].needArg /\ (l[i].double => m[OpFindIn(m, l[i].name)].def = OpNone)
OpGivesIn(m, l, o) ==
  {i \in DOMAIN l : (OpNamesIn(m, l, i, o) /\ l[i].given)
                      \/ (l[i].plain /\ OpAsksIn(m, l, i - 1) /\ OpNamesIn(m, l, i - 1, o))}
OpWith(places, place, given) == IF given THEN places \cup {place} ELSE places
OpGivesNow(m, l, it, o) ==
  \/ ~it.plain /\ OpFindIn(m, it.name) = o /\ it.given
  \/ it.plain /\ OpAsksIn(m, l, Len(l)) /\ OpNamesIn(m, l, Len(l), o)
OpKeptIn(m, l) == {i \in DOMAIN l : l[i].plain /\ ~OpAsksIn(m, l, i - 1)}
OpBadIn(m, l, i) == ~l[i].plain /\ (OpFindIn(m, l[i].name) = OpNone \/ (i > 1 /\ OpAsksIn(m, l, i - 1)))

OpShown(m, l) == \A o \in DOMAIN m : m[o].present <=> \E i \in DOMAIN l : OpNamesIn(m, l, i, o)
OpLatest(m, l) ==
  \A o \in DOMAIN m : \A i \in OpGivesIn(m, l, o) :
    (\A j \in OpGivesIn(m, l, o) : j <= i) => m[o].value = l[i].text
OpRanked(m, l, args) ==
  /\ Len(args) = Cardinality(OpKeptIn(m, l))
  /\ \A i \in OpKeptIn(m, l) : args[Cardinality({j \in OpKeptIn(m, l) : j <= i})] = l[i].text

(* The same names, arguments and defaults. *)
OpSame(m, n) ==
  /\ DOMAIN n = DOMAIN m
  /\ \A o \in DOMAIN m : n[o].short = m[o].short /\ n[o].needArg = m[o].needArg /\ n[o].def = m[o].def

OpTyped(m) == m \in [DOMAIN m -> OpOptions] /\ OpNone \notin DOMAIN m

LEMMA OpFindKept ==
  ASSUME NEW m, NEW n, OpSame(m, n), NEW name
  PROVE  OpFindIn(n, name) = OpFindIn(m, name)
<1>1. OpShorts(n, name) = OpShorts(m, name)
  BY DEF OpSame, OpShorts
<1>2. DOMAIN n = DOMAIN m
  BY DEF OpSame
<1> QED
  BY <1>1, <1>2, Zenon DEF OpFindIn

LEMMA OpFindsOne ==
  ASSUME NEW m, OpTyped(m), NEW name
  PROVE  OpFindIn(m, name) = OpNone \/ OpFindIn(m, name) \in DOMAIN m
  BY DEF OpFindIn, OpAnyOf, OpShorts

LEMMA OpOneMore ==
  ASSUME NEW l \in Seq(OpLineItems), NEW it \in OpLineItems
  PROVE  /\ Append(l, it) \in Seq(OpLineItems) /\ Len(l) \in Nat /\ Len(Append(l, it)) = Len(l) + 1
         /\ DOMAIN l = 1..Len(l) /\ DOMAIN Append(l, it) = DOMAIN l \cup {Len(l) + 1}
         /\ Len(l) + 1 \notin DOMAIN l /\ Append(l, it)[Len(l) + 1] = it
         /\ \A i \in DOMAIN l : Append(l, it)[i] = l[i]
         /\ \A i \in DOMAIN l : i \in Nat /\ i >= 1 /\ i <= Len(l) /\ (i - 1 \in DOMAIN l \/ i = 1)
         /\ Len(l) \in DOMAIN l \/ Len(l) = 0
         /\ 0 \notin DOMAIN l /\ 0 # Len(l) + 1
  OBVIOUS

(* Every item so far names an option: an item behind them does not change what *)
(* they ask for and what they gave.                                            *)
OpNamed(m, l) == \A i \in DOMAIN l : ~l[i].plain => OpFindIn(m, l[i].name) \in DOMAIN m

LEMMA OpAsksKept ==
  ASSUME NEW m, NEW n, OpSame(m, n), NEW l \in Seq(OpLineItems), NEW it \in OpLineItems, OpNamed(m, l)
  PROVE  /\ \A i \in DOMAIN l : OpAsksIn(n, Append(l, it), i) = OpAsksIn(m, l, i)
         /\ \A i \in DOMAIN l : OpAsksIn(n, Append(l, it), i - 1) = OpAsksIn(m, l, i - 1)
         /\ OpAsksIn(n, Append(l, it), Len(l)) = OpAsksIn(m, l, Len(l))
         /\ \A i \in DOMAIN l : \A o \in DOMAIN m : OpNamesIn(n, Append(l, it), i, o) = OpNamesIn(m, l, i, o)
<1>1. PICK k : k = Append(l, it)
  OBVIOUS
<1>2. DOMAIN l \subseteq DOMAIN k /\ \A i \in DOMAIN l : k[i] = l[i]
  BY <1>1, OpOneMore
<1>3. ASSUME NEW i \in DOMAIN l PROVE OpAsksIn(n, k, i) = OpAsksIn(m, l, i)
  <2>1. OpFindIn(n, l[i].name) = OpFindIn(m, l[i].name)
    BY OpFindKept, Zenon
  <2>2. ~l[i].plain => OpFindIn(m, l[i].name) \in DOMAIN m
    BY Zenon DEF OpNamed
  <2>3. PICK f : f = OpFindIn(m, l[i].name)
    OBVIOUS
  <2>4. ~l[i].plain => n[f].needArg = m[f].needArg /\ n[f].def = m[f].def
    BY <2>2, <2>3 DEF OpSame
  <2>5. OpAsksIn(m, l, i) <=> /\ i \in DOMAIN l /\ ~l[i].plain /\ ~l[i].given
                              /\ m[f].needArg /\ (l[i].double => m[f].def = OpNone)
    BY <2>3, Zenon DEF OpAsksIn
  <2>6. OpAsksIn(n, k, i) <=> /\ i \in DOMAIN k /\ ~l[i].plain /\ ~l[i].given
                              /\ n[f].needArg /\ (l[i].double => n[f].def = OpNone)
    BY <1>2, <2>1, <2>3, Zenon DEF OpAsksIn
  <2>7. OpAsksIn(n, k, i) <=> OpAsksIn(m, l, i)
    BY <1>2, <2>4, <2>5, <2>6, Zenon
  <2> QED
    BY <2>7, Zenon DEF OpAsksIn
<1>4. ~OpAsksIn(n, k, 0) /\ ~OpAsksIn(m, l, 0)
  BY <1>1, OpOneMore, Zenon DEF OpAsksIn
<1>5. ASSUME NEW i \in DOMAIN l PROVE OpAsksIn(n, k, i - 1) = OpAsksIn(m, l, i - 1)
  <2>1. i - 1 \in DOMAIN l \/ (i = 1 /\ i - 1 = 0)
    BY OpOneMore
  <2> QED
    BY <1>3, <1>4, <2>1, Zenon DEF OpAsksIn
<1>6. OpAsksIn(n, k, Len(l)) = OpAsksIn(m, l, Len(l))
  <2>1. Len(l) \in DOMAIN l \/ Len(l) = 0
    BY OpOneMore, Zenon
  <2> QED
    BY <1>3, <1>4, <2>1, Zenon DEF OpAsksIn
<1>7. ASSUME NEW i \in DOMAIN l, NEW o \in DOMAIN m PROVE OpNamesIn(n, k, i, o) = OpNamesIn(m, l, i, o)
  BY <1>2, OpFindKept, Zenon DEF OpNamesIn
<1> QED
  BY <1>1, <1>3, <1>5, <1>6, <1>7, Zenon

LEMMA OpLineOn ==
  ASSUME NEW m, NEW n, OpSame(m, n), NEW l \in Seq(OpLineItems), NEW it \in OpLineItems, OpNamed(m, l)
  PROVE  /\ \A o \in DOMAIN m : OpGivesIn(n, Append(l, it), o) =
                     OpWith(OpGivesIn(m, l, o), Len(l) + 1, OpGivesNow(m, l, it, o))
         /\ OpKeptIn(n, Append(l, it)) =
              OpWith(OpKeptIn(m, l), Len(l) + 1, it.plain /\ ~OpAsksIn(m, l, Len(l)))
         /\ \A i \in DOMAIN l : OpBadIn(n, Append(l, it), i) = OpBadIn(m, l, i)
         /\ OpBadIn(n, Append(l, it), Len(l) + 1) <=>
              ~it.plain /\ (OpFindIn(m, it.name) = OpNone \/ OpAsksIn(m, l, Len(l)))
<1>1. PICK k : k = Append(l, it)
  OBVIOUS
<1>2. PICK e \in Nat : e = Len(l) + 1
  BY OpOneMore
<1>3. DOMAIN k = DOMAIN l \cup {e} /\ e \notin DOMAIN l /\ k[e] = it /\ \A i \in DOMAIN l : k[i] = l[i]
  BY <1>1, <1>2, OpOneMore
<1>4. e - 1 = Len(l)
  BY <1>2, OpOneMore
<1>5. \A i \in DOMAIN l : OpAsksIn(n, k, i - 1) = OpAsksIn(m, l, i - 1)
  BY <1>1, OpAsksKept, Zenon
<1>6. OpAsksIn(n, k, e - 1) = OpAsksIn(m, l, Len(l))
  <2>1. OpAsksIn(n, k, Len(l)) = OpAsksIn(m, l, Len(l))
    BY <1>1, OpAsksKept, Zenon
  <2> QED
    BY <1>4, <2>1, Zenon
<1>7. \A i \in DOMAIN l : \A o \in DOMAIN m : OpNamesIn(n, k, i, o) = OpNamesIn(m, l, i, o)
  BY <1>1, OpAsksKept, Zenon
<1>8. \A i : \A o \in DOMAIN m : OpAsksIn(m, l, i) => OpNamesIn(n, k, i, o) = OpNamesIn(m, l, i, o)
  BY <1>7, Zenon DEF OpAsksIn
<1>9. \A o : OpNamesIn(n, k, e, o) <=> ~it.plain /\ OpFindIn(m, it.name) = o
  BY <1>3, OpFindKept, Zenon DEF OpNamesIn
<1>10. ASSUME NEW o \in DOMAIN m
       PROVE  OpGivesIn(n, k, o) = OpWith(OpGivesIn(m, l, o), e, OpGivesNow(m, l, it, o))
  <2>1. ASSUME NEW i \in DOMAIN l PROVE i \in OpGivesIn(n, k, o) <=> i \in OpGivesIn(m, l, o)
    <3>1. i \in DOMAIN k /\ k[i] = l[i]
      BY <1>3, Zenon
    <3>2. OpAsksIn(n, k, i - 1) /\ OpNamesIn(n, k, i - 1, o) <=> OpAsksIn(m, l, i - 1) /\ OpNamesIn(m, l, i - 1, o)
      BY <1>5, <1>8, Zenon
    <3>3. OpNamesIn(n, k, i, o) <=> OpNamesIn(m, l, i, o)
      BY <1>7, Zenon
    <3> QED
      BY <3>1, <3>2, <3>3, Zenon DEF OpGivesIn
  <2>2. e \in OpGivesIn(n, k, o) <=> OpGivesNow(m, l, it, o)
    <3>1. e \in DOMAIN k /\ k[e] = it
      BY <1>3, Zenon
    <3>2. OpAsksIn(n, k, e - 1) /\ OpNamesIn(n, k, e - 1, o)
            <=> OpAsksIn(m, l, Len(l)) /\ OpNamesIn(m, l, Len(l), o)
      BY <1>4, <1>6, <1>8, Zenon
    <3>3. OpNamesIn(n, k, e, o) <=> ~it.plain /\ OpFindIn(m, it.name) = o
      BY <1>9, Zenon
    <3> QED
      BY <3>1, <3>2, <3>3, Zenon DEF OpGivesIn, OpGivesNow
  <2>3. OpGivesIn(n, k, o) \subseteq DOMAIN l \cup {e} /\ OpGivesIn(m, l, o) \subseteq DOMAIN l
    BY <1>3, Zenon DEF OpGivesIn
  <2> QED
    <3>1. OpGivesIn(n, k, o) = OpGivesIn(m, l, o) \cup (IF OpGivesNow(m, l, it, o) THEN {e} ELSE {})
      BY <1>3, <2>1, <2>2, <2>3
    <3>2. CASE OpGivesNow(m, l, it, o)
      BY <3>1, <3>2, Zenon DEF OpWith
    <3>3. CASE ~OpGivesNow(m, l, it, o)
      <4>1. OpGivesIn(n, k, o) = OpGivesIn(m, l, o)
        BY <3>1, <3>3
      <4> QED
        BY <4>1, <3>3, Zenon DEF OpWith
    <3> QED
      BY <3>2, <3>3
<1>11. OpKeptIn(n, k) = OpWith(OpKeptIn(m, l), e, it.plain /\ ~OpAsksIn(m, l, Len(l)))
  <2>1. ASSUME NEW i \in DOMAIN l PROVE i \in OpKeptIn(n, k) <=> i \in OpKeptIn(m, l)
    BY <1>3, <1>5, Zenon DEF OpKeptIn
  <2>2. e \in OpKeptIn(n, k) <=> it.plain /\ ~OpAsksIn(m, l, Len(l))
    BY <1>3, <1>6, Zenon DEF OpKeptIn
  <2>3. OpKeptIn(n, k) \subseteq DOMAIN l \cup {e} /\ OpKeptIn(m, l) \subseteq DOMAIN l
    BY <1>3, Zenon DEF OpKeptIn
  <2> QED
    <3> DEFINE Now == it.plain /\ ~OpAsksIn(m, l, Len(l))
    <3>1. OpKeptIn(n, k) = OpKeptIn(m, l) \cup (IF Now THEN {e} ELSE {})
      BY <1>3, <2>1, <2>2, <2>3
    <3>2. CASE Now
      BY <3>1, <3>2, Zenon DEF OpWith
    <3>3. CASE ~Now
      <4>1. OpKeptIn(n, k) = OpKeptIn(m, l)
        BY <3>1, <3>3
      <4> QED
        BY <4>1, <3>3, Zenon DEF OpWith
    <3> QED
      BY <3>2, <3>3
<1>12. ASSUME NEW i \in DOMAIN l PROVE OpBadIn(n, k, i) = OpBadIn(m, l, i)
  <2>1. k[i] = l[i] /\ OpFindIn(n, l[i].name) = OpFindIn(m, l[i].name)
    BY <1>3, OpFindKept, Zenon
  <2> QED
    BY <1>5, <2>1, Zenon DEF OpBadIn
<1>13. OpBadIn(n, k, e) <=> ~it.plain /\ (OpFindIn(m, it.name) = OpNone \/ OpAsksIn(m, l, Len(l)))
  <2>1. k[e] = it /\ OpFindIn(n, it.name) = OpFindIn(m, it.name)
    BY <1>3, OpFindKept, Zenon
  <2>2. OpAsksIn(m, l, Len(l)) => e > 1
    <3>1. OpAsksIn(m, l, Len(l)) => Len(l) \in DOMAIN l
      BY Zenon DEF OpAsksIn
    <3>2. Len(l) \in DOMAIN l => Len(l) >= 1 /\ Len(l) \in Nat
      BY OpOneMore, Zenon
    <3> QED
      BY <1>2, <3>1, <3>2
  <2> QED
    BY <1>6, <2>1, <2>2, Zenon DEF OpBadIn
<1> QED
  BY <1>1, <1>2, <1>10, <1>11, <1>12, <1>13, Zenon

(* What is presented, given and kept, with one item more.                    *)
LEMMA OpShownOn ==
  ASSUME NEW m, NEW n, OpSame(m, n), NEW l \in Seq(OpLineItems), NEW it \in OpLineItems, OpNamed(m, l),
         OpShown(m, l),
         \A o \in DOMAIN m : n[o].present <=> m[o].present \/ (~it.plain /\ OpFindIn(m, it.name) = o)
  PROVE  OpShown(n, Append(l, it))
<1>1. PICK k : k = Append(l, it)
  OBVIOUS
<1>2. PICK e : e = Len(l) + 1
  OBVIOUS
<1>3. DOMAIN k = DOMAIN l \cup {e} /\ k[e] = it
  BY <1>1, <1>2, OpOneMore
<1>4. \A i \in DOMAIN l : \A o \in DOMAIN m : OpNamesIn(n, k, i, o) = OpNamesIn(m, l, i, o)
  BY <1>1, OpAsksKept, Zenon
<1>5. \A o : OpNamesIn(n, k, e, o) <=> ~it.plain /\ OpFindIn(m, it.name) = o
  BY <1>3, OpFindKept, Zenon DEF OpNamesIn
<1>6. ASSUME NEW o \in DOMAIN n PROVE n[o].present <=> \E i \in DOMAIN k : OpNamesIn(n, k, i, o)
  <2>1. o \in DOMAIN m
    BY DEF OpSame
  <2>2. m[o].present <=> \E i \in DOMAIN l : OpNamesIn(m, l, i, o)
    BY <2>1, Zenon DEF OpShown
  <2>3. (\E i \in DOMAIN k : OpNamesIn(n, k, i, o)) <=>
          (\E i \in DOMAIN l : OpNamesIn(m, l, i, o)) \/ OpNamesIn(n, k, e, o)
    BY <1>3, <1>4, <2>1, Zenon
  <2> QED
    BY <1>5, <2>1, <2>2, <2>3, Zenon
<1> QED
  BY <1>1, <1>6, Zenon DEF OpShown

LEMMA OpLatestOn ==
  ASSUME NEW m, NEW n, OpSame(m, n), NEW l \in Seq(OpLineItems), NEW it \in OpLineItems, OpNamed(m, l),
         OpLatest(m, l),
         \A o \in DOMAIN m : n[o].value = IF OpGivesNow(m, l, it, o) THEN it.text ELSE m[o].value
  PROVE  OpLatest(n, Append(l, it))
<1>1. PICK k : k = Append(l, it)
  OBVIOUS
<1>2. PICK e \in Nat : e = Len(l) + 1
  BY OpOneMore
<1>3. k[e] = it /\ \A i \in DOMAIN l : k[i] = l[i] /\ i \in Nat /\ ~(e <= i)
  BY <1>1, <1>2, OpOneMore
<1>4. ASSUME NEW o \in DOMAIN n, NEW i \in OpGivesIn(n, k, o), \A j \in OpGivesIn(n, k, o) : j <= i
      PROVE  n[o].value = k[i].text
  <2>1. o \in DOMAIN m
    BY DEF OpSame
  <2>2. OpGivesIn(n, k, o) = OpWith(OpGivesIn(m, l, o), e, OpGivesNow(m, l, it, o))
    <3>1. OpGivesIn(n, k, o) = OpWith(OpGivesIn(m, l, o), Len(l) + 1, OpGivesNow(m, l, it, o))
      BY <1>1, <2>1, OpLineOn, Zenon
    <3> QED
      BY <1>2, <3>1
  <2>3. OpGivesIn(m, l, o) \subseteq DOMAIN l
    BY Zenon DEF OpGivesIn
  <2>4. CASE OpGivesNow(m, l, it, o)
    <3>1. e \in OpGivesIn(n, k, o)
      BY <2>2, <2>4 DEF OpWith
    <3>2. i = e
      BY <1>3, <1>4, <2>2, <2>3, <2>4, <3>1 DEF OpWith
    <3> QED
      BY <1>3, <2>1, <2>4, <3>2
  <2>5. CASE ~OpGivesNow(m, l, it, o)
    <3>1. OpGivesIn(n, k, o) = OpGivesIn(m, l, o)
      BY <2>2, <2>5 DEF OpWith
    <3>2. m[o].value = l[i].text
      BY <1>4, <2>1, <3>1, Zenon DEF OpLatest
    <3>3. k[i] = l[i]
      BY <1>3, <2>3, <3>1
    <3> QED
      BY <2>1, <2>5, <3>2, <3>3
  <2> QED
    BY <2>4, <2>5
<1> QED
  BY <1>1, <1>4, Zenon DEF OpLatest

(* The place of an argument is its rank among the items that are arguments.  *)
OpRanksOf(K, n, a) ==
  /\ \A i \in K : Cardinality({j \in K : j <= i}) \in 1..a
  /\ \A i \in K : {j \in K \cup {n + 1} : j <= i} = {j \in K : j <= i}
  /\ {j \in K \cup {n + 1} : j <= n + 1} = K \cup {n + 1}
  /\ Cardinality(K \cup {n + 1}) = a + 1

LEMMA OpRanks ==
  ASSUME NEW n \in Nat, NEW K \in SUBSET (1..n), NEW a \in Nat, a = Cardinality(K)
  PROVE  OpRanksOf(K, n, a)
<1>1. IsFiniteSet(K)
  <2>1. IsFiniteSet(1..n)
    BY FS_Interval
  <2> QED
    BY <2>1, FS_Subset
<1>2. ASSUME NEW i \in K PROVE Cardinality({j \in K : j <= i}) \in 1..a
  <2> DEFINE S == {j \in K : j <= i}
  <2>1. S \subseteq K /\ S # {}
    OBVIOUS
  <2> HIDE DEF S
  <2>2. IsFiniteSet(S) /\ Cardinality(S) <= Cardinality(K)
    BY <1>1, <2>1, FS_Subset
  <2>3. Cardinality(S) \in Nat /\ Cardinality(S) # 0
    BY <2>1, <2>2, FS_CardinalityType, FS_EmptySet
  <2>4. Cardinality(S) \in 1..a
    BY <2>2, <2>3
  <2> QED
    BY <2>4 DEF S
<1>3. \A i \in K : i \in Nat /\ i <= n
  OBVIOUS
<1>4. n + 1 \notin K
  BY <1>3
<1>5. Cardinality(K \cup {n + 1}) = a + 1
  BY <1>1, <1>4, FS_AddElement
<1>6. \A i \in K : {j \in K \cup {n + 1} : j <= i} = {j \in K : j <= i}
  BY <1>3
<1>7. {j \in K \cup {n + 1} : j <= n + 1} = K \cup {n + 1}
  <2>1. \A j \in K \cup {n + 1} : j <= n + 1
    BY <1>3
  <2> QED
    BY <2>1
<1> QED
  BY <1>2, <1>5, <1>6, <1>7 DEF OpRanksOf

LEMMA OpRankedOn ==
  ASSUME NEW m, NEW n, OpSame(m, n), NEW l \in Seq(OpLineItems), NEW it \in OpLineItems, OpNamed(m, l),
         NEW args \in Seq(OpTexts), OpRanked(m, l, args), it.plain => it.text \in OpTexts
  PROVE  OpRanked(n, Append(l, it),
                  IF it.plain /\ ~OpAsksIn(m, l, Len(l)) THEN Append(args, it.text) ELSE args)
<1> DEFINE K == OpKeptIn(m, l)
<1>1. PICK k : k = Append(l, it)
  OBVIOUS
<1>2. PICK e \in Nat : e = Len(l)
  BY OpOneMore
<1>3. k[e + 1] = it /\ (\A i \in DOMAIN l : k[i] = l[i]) /\ DOMAIN l = 1..e
  BY <1>1, <1>2, OpOneMore
<1>4. OpKeptIn(n, k) = OpWith(K, e + 1, it.plain /\ ~OpAsksIn(m, l, Len(l)))
  <2>1. OpKeptIn(n, k) = OpWith(K, Len(l) + 1, it.plain /\ ~OpAsksIn(m, l, Len(l)))
    BY <1>1, OpLineOn, Zenon
  <2> QED
    BY <1>2, <2>1
<1>5. K \in SUBSET (1..e)
  BY <1>3 DEF OpKeptIn
<1>6. PICK a \in Nat : a = Len(args)
  OBVIOUS
<1>7. a = Cardinality(K) /\ \A i \in K : args[Cardinality({j \in K : j <= i})] = l[i].text
  BY <1>6 DEF OpRanked
<1>8. \A i \in K : k[i] = l[i]
  BY <1>3, <1>5
<1> HIDE DEF K
<1>9. /\ \A i \in K : Cardinality({j \in K : j <= i}) \in 1..a
      /\ \A i \in K : {j \in K \cup {e + 1} : j <= i} = {j \in K : j <= i}
      /\ {j \in K \cup {e + 1} : j <= e + 1} = K \cup {e + 1}
      /\ Cardinality(K \cup {e + 1}) = a + 1
  <2>1. a = Cardinality(K)
    BY <1>7
  <2>2. OpRanksOf(K, e, a)
    BY <1>5, <2>1, OpRanks, Zenon
  <2> QED
    BY <2>2, Zenon DEF OpRanksOf
<1>10. CASE it.plain /\ ~OpAsksIn(m, l, Len(l))
  <2>1. OpKeptIn(n, k) = K \cup {e + 1}
    BY <1>4, <1>10 DEF OpWith
  <2>2. PICK b \in Seq(OpTexts) : b = Append(args, it.text)
    <3>1. Append(args, it.text) \in Seq(OpTexts)
      BY <1>10
    <3> QED
      BY <3>1
  <2>3. Len(b) = a + 1 /\ b[a + 1] = it.text /\ \A q \in 1..a : b[q] = args[q]
    BY <1>6, <1>10, <2>2
  <2>4. \A i \in K : b[Cardinality({j \in K \cup {e + 1} : j <= i})] = k[i].text
    BY <1>7, <1>8, <1>9, <2>3, Zenon
  <2>5. b[Cardinality({j \in K \cup {e + 1} : j <= e + 1})] = k[e + 1].text
    BY <1>3, <1>9, <2>3, Zenon
  <2>6. OpRanked(n, k, b)
    <3>1. Len(b) = Cardinality(OpKeptIn(n, k))
      BY <1>9, <2>1, <2>3, Zenon
    <3>2. \A i \in K \cup {e + 1} : b[Cardinality({j \in K \cup {e + 1} : j <= i})] = k[i].text
      <4> SUFFICES ASSUME NEW i \in K \cup {e + 1}
                   PROVE  b[Cardinality({j \in K \cup {e + 1} : j <= i})] = k[i].text
        OBVIOUS
      <4>1. CASE i \in K
        BY <2>4, <4>1, Zenon
      <4>2. CASE i = e + 1
        BY <2>5, <4>2, Zenon
      <4> QED
        BY <4>1, <4>2
    <3> QED
      BY <2>1, <3>1, <3>2, Zenon DEF OpRanked
  <2> QED
    BY <1>1, <1>10, <2>2, <2>6, Zenon
<1>11. CASE ~(it.plain /\ ~OpAsksIn(m, l, Len(l)))
  <2>1. OpKeptIn(n, k) = K
    BY <1>4, <1>11 DEF OpWith
  <2>2. OpRanked(n, k, args)
    <3>1. \A i \in K : args[Cardinality({j \in K : j <= i})] = k[i].text
      BY <1>7, <1>8, Zenon
    <3> QED
      BY <1>6, <1>7, <2>1, <3>1, Zenon DEF OpRanked
  <2> QED
    BY <1>1, <1>11, <2>2, Zenon
<1> QED
  BY <1>10, <1>11, Zenon

(* No two options have the same letter. *)
OpDistinct(m) == \A o, p \in DOMAIN m : m[o].short = m[p].short => o = p \/ m[o].short = OpNone

(* needArg is whether the last item asks for an argument, and the option is the *)
(* one it names: the item after it goes there.                                  *)
OpAwaited ==
  opParsing =>
    /\ opResult
    /\ opNeedArg <=> OpAsksIn(opMap, opLine, Len(opLine))
    /\ opNeedArg => opOption = OpFindIn(opMap, opLine[Len(opLine)].name) /\ opOption # OpNone

OpJudged ==
  \A i \in DOMAIN opLine : OpBadIn(opMap, opLine, i) <=> ~OpAccepted /\ i = Len(opLine)

OpFollowed ==
  OpAccepted =>
    /\ OpRanked(opMap, opLine, opArgs)
    /\ opWork > 0 => OpShown(opMap, opLine) /\ OpLatest(opMap, opLine)

OpValues ==
  /\ OpTyped(opMap) /\ opArgs \in Seq(OpTexts) /\ opLine \in Seq(OpLineItems)
  /\ opParsing \in BOOLEAN /\ opNeedArg \in BOOLEAN /\ opResult \in BOOLEAN /\ opWork \in Nat
  /\ opWork = 0 => opLine = <<>> /\ opArgs = <<>> /\ ~opParsing /\ opResult

(* A step changes the value of an option only when the line then gives it one.  *)
OpKeepsValues ==
  \A o \in DOMAIN opMap : OpGivesIn(opMap', opLine', o) = {} => opMap'[o].value = opMap[o].value

(* The inductive invariant. *)
OpInv == OpValues /\ OpDistinct(opMap) /\ OpAwaited /\ OpJudged /\ OpFollowed

LEMMA OpNoLine ==
  ASSUME NEW m
  PROVE  /\ ~OpAsksIn(m, <<>>, Len(<<>>)) /\ OpLatest(m, <<>>) /\ OpRanked(m, <<>>, <<>>)
         /\ (\A o \in DOMAIN m : m[o].present = FALSE) => OpShown(m, <<>>)
<1>1. DOMAIN <<>> = {} /\ Len(<<>>) = 0
  OBVIOUS
<1>2. \A o : OpGivesIn(m, <<>>, o) = {}
  BY <1>1 DEF OpGivesIn
<1>3. OpKeptIn(m, <<>>) = {}
  BY <1>1 DEF OpKeptIn
<1>4. Cardinality({}) = 0
  BY FS_EmptySet
<1>5. ~OpAsksIn(m, <<>>, Len(<<>>))
  BY <1>1 DEF OpAsksIn
<1>6. OpLatest(m, <<>>)
  BY <1>2, Zenon DEF OpLatest
<1>7. OpRanked(m, <<>>, <<>>)
  BY <1>1, <1>3, <1>4 DEF OpRanked
<1>8. (\A o \in DOMAIN m : m[o].present = FALSE) => OpShown(m, <<>>)
  BY <1>1 DEF OpShown
<1> QED
  BY <1>5, <1>6, <1>7, <1>8

LEMMA OpInitInv == OpInit => OpInv
<1> SUFFICES ASSUME OpInit PROVE OpInv
  OBVIOUS
<1>1. /\ opMap = <<>> /\ opArgs = <<>> /\ opParsing = FALSE /\ opNeedArg = FALSE
      /\ opLine = <<>> /\ opResult = TRUE /\ opWork = 0
  BY DEF OpInit
<1>2. DOMAIN opMap = {} /\ DOMAIN opLine = {}
  BY <1>1
<1>3. OpValues
  <2>1. OpTyped(opMap)
    BY <1>1, <1>2 DEF OpTyped
  <2>2. opArgs \in Seq(OpTexts) /\ opLine \in Seq(OpLineItems)
    BY <1>1
  <2> QED
    BY <1>1, <2>1, <2>2 DEF OpValues
<1>4. OpDistinct(opMap) /\ OpAwaited /\ OpJudged
  BY <1>1, <1>2 DEF OpDistinct, OpAwaited, OpJudged
<1>5. OpRanked(opMap, opLine, opArgs)
  BY <1>1, OpNoLine, Zenon
<1>6. OpFollowed
  BY <1>1, <1>5 DEF OpFollowed
<1> QED
  BY <1>3, <1>4, <1>6 DEF OpInv

LEMMA OpAddInv ==
  ASSUME OpInv, NEW short \in OpLetters \cup {OpNone}, NEW long \in OpLongs \cup {OpNone},
         NEW need \in BOOLEAN, NEW def \in OpDefaults \cup {OpNone}, OpAddOption(short, long, need, def)
  PROVE  OpInv' /\ OpKeepsValues
<1>1. PICK name : name = IF long = OpNone THEN short ELSE long
  OBVIOUS
<1> DEFINE new == [short |-> short, needArg |-> need, def |-> def, present |-> FALSE, value |-> def]
<1>2. /\ ~opParsing /\ opWork = 0 /\ (short # OpNone \/ long # OpNone) /\ ~OpTaken(short, name)
      /\ opMap' = [o \in DOMAIN opMap \cup {name} |-> IF o = name THEN new ELSE opMap[o]]
      /\ opArgs' = opArgs /\ opParsing' = opParsing /\ opNeedArg' = opNeedArg
      /\ opLine' = opLine /\ opResult' = opResult /\ opWork' = opWork
  BY <1>1 DEF OpAddOption
<1>3. new \in OpOptions /\ new.short = short
  BY DEF OpOptions
<1> HIDE DEF new
<1>4. OpTyped(opMap) /\ opLine = <<>> /\ opArgs = <<>> /\ opResult /\ OpValues
  BY <1>2 DEF OpInv, OpValues
<1>5. name # OpNone /\ name \notin DOMAIN opMap
  BY <1>1, <1>2 DEF OpTaken
<1>6. /\ DOMAIN opMap' = DOMAIN opMap \cup {name} /\ opMap'[name] = new
      /\ \A o \in DOMAIN opMap : opMap'[o] = opMap[o]
  BY <1>2, <1>5
<1>7. OpTyped(opMap')
  <2>1. \A o \in DOMAIN opMap' : opMap'[o] \in OpOptions
    BY <1>3, <1>4, <1>6 DEF OpTyped
  <2>2. opMap' = [o \in DOMAIN opMap' |-> opMap'[o]]
    BY <1>2, <1>6
  <2>3. opMap' \in [DOMAIN opMap' -> OpOptions]
    BY <2>1, <2>2
  <2>4. OpNone \notin DOMAIN opMap'
    BY <1>4, <1>5, <1>6 DEF OpTyped
  <2> QED
    BY <2>3, <2>4, Zenon DEF OpTyped
<1>8. OpValues'
  BY <1>2, <1>4, <1>7 DEF OpValues
<1>9. OpDistinct(opMap')
  <2>1. \A o \in DOMAIN opMap : opMap[o].short = short => short = OpNone
    BY <1>2 DEF OpTaken
  <2>2. OpDistinct(opMap)
    BY DEF OpInv
  <2> QED
    BY <1>3, <1>6, <2>1, <2>2 DEF OpDistinct
<1>10. OpAwaited' /\ OpJudged'
  BY <1>2, <1>4 DEF OpAwaited, OpJudged
<1>11. OpRanked(opMap', opLine', opArgs')
  BY <1>2, <1>4, OpNoLine, Zenon
<1>12. OpFollowed'
  BY <1>2, <1>11 DEF OpFollowed
<1>13. OpKeepsValues
  BY <1>6 DEF OpKeepsValues
<1> QED
  BY <1>8, <1>9, <1>10, <1>12, <1>13 DEF OpInv

LEMMA OpParseInv ==
  ASSUME OpInv, NEW empty \in BOOLEAN, OpParse(empty)
  PROVE  OpInv' /\ OpKeepsValues
<1>1. /\ opMap' = [o \in DOMAIN opMap |-> [opMap[o] EXCEPT !.present = FALSE]]
      /\ opArgs' = <<>> /\ opParsing' = ~empty /\ opNeedArg' = FALSE
      /\ opLine' = <<>> /\ opResult' = ~empty /\ opWork' = opWork + 1
  BY DEF OpParse, OpBegin
<1>2. OpTyped(opMap) /\ opWork \in Nat
  BY DEF OpInv, OpValues
<1>3. OpTyped(opMap') /\ OpSame(opMap, opMap')
  <2>1. \A o \in DOMAIN opMap : opMap[o] \in OpOptions
    BY <1>2 DEF OpTyped
  <2>2. \A o \in DOMAIN opMap : [opMap[o] EXCEPT !.present = FALSE] \in OpOptions
    BY <2>1 DEF OpOptions
  <2>3. OpTyped(opMap')
    BY <1>1, <1>2, <2>2 DEF OpTyped
  <2>4. OpSame(opMap, opMap')
    BY <1>1, <2>1 DEF OpSame, OpOptions
  <2> QED
    BY <2>3, <2>4
<1>4. \A o \in DOMAIN opMap' : opMap'[o].present = FALSE
  <2>1. \A o \in DOMAIN opMap : opMap[o] \in OpOptions
    BY <1>2 DEF OpTyped
  <2> QED
    BY <1>1, <2>1 DEF OpOptions
<1>5. OpValues'
  <2>1. opArgs' \in Seq(OpTexts) /\ opLine' \in Seq(OpLineItems)
    BY <1>1
  <2>2. opWork' \in Nat /\ opWork' # 0
    BY <1>1, <1>2
  <2> QED
    BY <1>1, <1>3, <2>1, <2>2 DEF OpValues
<1>6. OpDistinct(opMap')
  <2>1. OpDistinct(opMap)
    BY DEF OpInv
  <2> QED
    BY <1>3, <2>1 DEF OpDistinct, OpSame
<1>7. ~OpAsksIn(opMap', opLine', Len(opLine'))
  BY <1>1, OpNoLine, Zenon
<1>8. OpAwaited' /\ OpJudged'
  <2>1. DOMAIN opLine' = {}
    BY <1>1
  <2>2. opParsing' => opResult'
    BY <1>1
  <2> QED
    BY <1>1, <1>7, <2>1, <2>2, Zenon DEF OpAwaited, OpJudged
<1>9. OpRanked(opMap', opLine', opArgs') /\ OpShown(opMap', opLine') /\ OpLatest(opMap', opLine')
  BY <1>1, <1>4, OpNoLine, Zenon
<1>10. OpFollowed'
  BY <1>9, Zenon DEF OpFollowed
<1>11. OpKeepsValues
  <2> SUFFICES ASSUME NEW o \in DOMAIN opMap PROVE opMap'[o].value = opMap[o].value
    BY Zenon DEF OpKeepsValues
  <2>1. PICK r \in OpOptions : r = opMap[o]
    BY <1>2 DEF OpTyped
  <2>2. [r EXCEPT !.present = FALSE].value = r.value
    BY DEF OpOptions
  <2> QED
    BY <1>1, <2>1, <2>2
<1> QED
  BY <1>5, <1>6, <1>8, <1>10, <1>11 DEF OpInv

LEMMA OpEndInv == OpInv /\ OpEnd => OpInv' /\ OpKeepsValues
<1> SUFFICES ASSUME OpInv, OpEnd PROVE OpInv' /\ OpKeepsValues
  OBVIOUS
<1>1. /\ opParsing /\ opParsing' = FALSE /\ opResult' = TRUE /\ opMap' = opMap /\ opArgs' = opArgs
      /\ opNeedArg' = opNeedArg /\ opLine' = opLine /\ opWork' = opWork
  BY DEF OpEnd, OpReturn
<1>2. OpValues' /\ OpDistinct(opMap') /\ OpAwaited'
  BY <1>1 DEF OpInv, OpValues, OpDistinct, OpAwaited
<1>3. OpAccepted /\ OpAccepted'
  BY <1>1 DEF OpAccepted
<1>4. OpJudged'
  <2>1. \A i \in DOMAIN opLine : ~OpBadIn(opMap, opLine, i)
    BY <1>3, Zenon DEF OpInv, OpJudged
  <2>2. \A i \in DOMAIN opLine' : ~OpBadIn(opMap', opLine', i)
    BY <1>1, <2>1, Zenon
  <2> QED
    BY <1>3, <2>2, Zenon DEF OpJudged
<1>5. OpFollowed'
  BY <1>1, <1>3, Zenon DEF OpInv, OpFollowed
<1>6. OpKeepsValues
  BY <1>1, Zenon DEF OpKeepsValues
<1> QED
  BY <1>2, <1>4, <1>5, <1>6, Zenon DEF OpInv

(* A line that goes on names options only.                                   *)
LEMMA OpGoesOn == OpInv /\ OpAccepted => OpNamed(opMap, opLine)
<1> SUFFICES ASSUME OpInv, OpAccepted, NEW i \in DOMAIN opLine, ~opLine[i].plain
             PROVE  OpFindIn(opMap, opLine[i].name) \in DOMAIN opMap
  BY DEF OpNamed
<1>1. ~OpBadIn(opMap, opLine, i)
  BY Zenon DEF OpInv, OpJudged
<1>2. OpFindIn(opMap, opLine[i].name) # OpNone
  BY <1>1, Zenon DEF OpBadIn
<1>3. OpTyped(opMap)
  BY DEF OpInv, OpValues
<1> QED
  BY <1>2, <1>3, OpFindsOne, Zenon

(* setValue and setPresent leave the names, arguments and defaults.          *)
OpSetTo(m, o, v) == [m EXCEPT ![o].present = TRUE, ![o].value = v]
OpMarked(m, o) == [m EXCEPT ![o].present = TRUE]
OpChanged(m, n, o, v) ==
  /\ OpTyped(n) /\ OpSame(m, n)
  /\ \A p \in DOMAIN m : n[p].present <=> m[p].present \/ p = o
  /\ \A p \in DOMAIN m : p # o => n[p].value = m[p].value
  /\ n[o].value = v

LEMMA OpMarksSet ==
  ASSUME NEW m, OpTyped(m), NEW o \in DOMAIN m, NEW v \in OpTexts \cup {OpNone}
  PROVE  OpChanged(m, OpSetTo(m, o, v), o, v)
<1>1. \A p \in DOMAIN m : m[p] \in OpOptions
  BY DEF OpTyped
<1>2. PICK r \in OpOptions : r = m[o]
  BY <1>1
<1>0. PICK n : n = [m EXCEPT ![o].present = TRUE, ![o].value = v]
  OBVIOUS
<1>3. PICK s : s = n[o]
  OBVIOUS
<1>4. DOMAIN n = DOMAIN m /\ (\A p \in DOMAIN m : p # o => n[p] = m[p]) /\ n = [p \in DOMAIN n |-> n[p]]
  BY <1>0
<1>5. /\ s \in OpOptions /\ s.present = TRUE /\ s.short = r.short /\ s.needArg = r.needArg /\ s.def = r.def
      /\ s.value = v
  <2>1. s = [[r EXCEPT !.present = TRUE] EXCEPT !.value = v]
    BY <1>0, <1>2, <1>3
  <2>2. PICK q \in OpOptions : q = [r EXCEPT !.present = TRUE]
    BY DEF OpOptions
  <2>3. q.present = TRUE /\ q.short = r.short /\ q.needArg = r.needArg /\ q.def = r.def
    BY <2>2 DEF OpOptions
  <2>4. /\ s \in OpOptions /\ s.present = q.present /\ s.short = q.short /\ s.needArg = q.needArg
        /\ s.def = q.def /\ s.value = v
    BY <2>1, <2>2 DEF OpOptions
  <2> QED
    BY <2>3, <2>4, Zenon
<1>6. OpTyped(n)
  <2>1. \A p \in DOMAIN n : n[p] \in OpOptions
    BY <1>1, <1>3, <1>4, <1>5
  <2>2. n \in [DOMAIN n -> OpOptions]
    BY <1>4, <2>1
  <2>3. OpNone \notin DOMAIN n
    BY <1>4 DEF OpTyped
  <2> QED
    BY <2>2, <2>3, Zenon DEF OpTyped
<1>7. OpSame(m, n)
  BY <1>2, <1>3, <1>4, <1>5, Zenon DEF OpSame
<1>8. \A p \in DOMAIN m : n[p].present <=> m[p].present \/ p = o
  <2> SUFFICES ASSUME NEW p \in DOMAIN m PROVE n[p].present <=> m[p].present \/ p = o
    OBVIOUS
  <2>1. CASE p = o
    BY <1>3, <1>5, <2>1
  <2>2. CASE p # o
    BY <1>4, <2>2
  <2> QED
    BY <2>1, <2>2
<1>9. OpChanged(m, n, o, v)
  BY <1>2, <1>3, <1>4, <1>5, <1>6, <1>7, <1>8, Zenon DEF OpChanged
<1> QED
  BY <1>0, <1>9, Zenon DEF OpSetTo

LEMMA OpMarksPresent ==
  ASSUME NEW m, OpTyped(m), NEW o \in DOMAIN m
  PROVE  OpChanged(m, OpMarked(m, o), o, m[o].value)
<1>1. \A p \in DOMAIN m : m[p] \in OpOptions
  BY DEF OpTyped
<1>2. PICK r \in OpOptions : r = m[o]
  BY <1>1
<1>0. PICK n : n = [m EXCEPT ![o].present = TRUE]
  OBVIOUS
<1>3. PICK s : s = n[o]
  OBVIOUS
<1>4. DOMAIN n = DOMAIN m /\ (\A p \in DOMAIN m : p # o => n[p] = m[p]) /\ n = [p \in DOMAIN n |-> n[p]]
  BY <1>0
<1>5. /\ s \in OpOptions /\ s.present = TRUE /\ s.short = r.short /\ s.needArg = r.needArg /\ s.def = r.def
      /\ s.value = r.value
  <2>1. s = [r EXCEPT !.present = TRUE]
    BY <1>0, <1>2, <1>3
  <2> QED
    BY <2>1 DEF OpOptions
<1>6. OpTyped(n)
  <2>1. \A p \in DOMAIN n : n[p] \in OpOptions
    BY <1>1, <1>3, <1>4, <1>5
  <2>2. n \in [DOMAIN n -> OpOptions]
    BY <1>4, <2>1
  <2>3. OpNone \notin DOMAIN n
    BY <1>4 DEF OpTyped
  <2> QED
    BY <2>2, <2>3, Zenon DEF OpTyped
<1>7. OpSame(m, n)
  BY <1>2, <1>3, <1>4, <1>5, Zenon DEF OpSame
<1>8. \A p \in DOMAIN m : n[p].present <=> m[p].present \/ p = o
  <2> SUFFICES ASSUME NEW p \in DOMAIN m PROVE n[p].present <=> m[p].present \/ p = o
    OBVIOUS
  <2>1. CASE p = o
    BY <1>3, <1>5, <2>1
  <2>2. CASE p # o
    BY <1>4, <2>2
  <2> QED
    BY <2>1, <2>2
<1>9. OpChanged(m, n, o, m[o].value)
  BY <1>2, <1>3, <1>4, <1>5, <1>6, <1>7, <1>8, Zenon DEF OpChanged
<1> QED
  BY <1>0, <1>9, Zenon DEF OpMarked

(* The values and verdicts with one item more.                               *)
LEMMA OpItemValues ==
  ASSUME OpInv, opParsing, NEW it \in OpLineItems, opLine' = Append(opLine, it),
         OpTyped(opMap'), OpSame(opMap, opMap'), opWork' = opWork + 1, opArgs' \in Seq(OpTexts),
         opParsing' \in BOOLEAN, opNeedArg' \in BOOLEAN, opResult' \in BOOLEAN
  PROVE  OpValues' /\ OpDistinct(opMap')
<1>1. opLine \in Seq(OpLineItems) /\ opWork \in Nat
  BY DEF OpInv, OpValues
<1>2. opLine' \in Seq(OpLineItems)
  BY <1>1
<1>3. opWork' \in Nat /\ opWork' # 0
  BY <1>1
<1>4. OpDistinct(opMap')
  BY Zenon DEF OpInv, OpDistinct, OpSame
<1>5. OpValues'
  BY <1>2, <1>3, Zenon DEF OpValues
<1> QED
  BY <1>4, <1>5

LEMMA OpItemJudged ==
  ASSUME OpInv, opParsing, NEW it \in OpLineItems, opLine' = Append(opLine, it), OpSame(opMap, opMap'),
         OpAccepted' <=> ~(~it.plain /\ (OpFindIn(opMap, it.name) = OpNone \/ opNeedArg))
  PROVE  OpJudged'
<1>1. OpAccepted /\ OpNamed(opMap, opLine) /\ opLine \in Seq(OpLineItems)
  BY OpGoesOn DEF OpInv, OpValues, OpAccepted
<1>2. opNeedArg <=> OpAsksIn(opMap, opLine, Len(opLine))
  BY Zenon DEF OpInv, OpAwaited
<1>3. PICK k : k = opLine'
  OBVIOUS
<1>4. PICK e : e = Len(opLine) + 1
  OBVIOUS
<1>5. DOMAIN k = DOMAIN opLine \cup {e} /\ e \notin DOMAIN opLine /\ Len(k) = e
  BY <1>1, <1>3, <1>4, OpOneMore
<1>6. \A i \in DOMAIN opLine : ~OpBadIn(opMap', k, i)
  <2>1. \A i \in DOMAIN opLine : OpBadIn(opMap', k, i) = OpBadIn(opMap, opLine, i)
    BY <1>1, <1>3, OpLineOn, Zenon
  <2>2. \A i \in DOMAIN opLine : ~OpBadIn(opMap, opLine, i)
    BY <1>1, Zenon DEF OpInv, OpJudged
  <2> QED
    BY <2>1, <2>2, Zenon
<1>7. OpBadIn(opMap', k, e) <=> ~OpAccepted'
  <2>1. OpBadIn(opMap', k, e) <=>
          ~it.plain /\ (OpFindIn(opMap, it.name) = OpNone \/ OpAsksIn(opMap, opLine, Len(opLine)))
    BY <1>1, <1>3, <1>4, OpLineOn, Zenon
  <2> QED
    BY <1>2, <2>1, Zenon
<1>8. \A i \in DOMAIN k : OpBadIn(opMap', k, i) <=> ~OpAccepted' /\ i = Len(k)
  BY <1>5, <1>6, <1>7, Zenon
<1> QED
  BY <1>3, <1>8, Zenon DEF OpJudged

LEMMA OpItemFollowed ==
  ASSUME OpInv, opParsing, NEW it \in OpLineItems, opLine' = Append(opLine, it), OpSame(opMap, opMap'),
         it.plain => it.text \in OpTexts,
         opArgs' = IF it.plain /\ ~opNeedArg THEN Append(opArgs, it.text) ELSE opArgs,
         \A o \in DOMAIN opMap :
           opMap'[o].present <=> opMap[o].present \/ (~it.plain /\ OpFindIn(opMap, it.name) = o),
         \A o \in DOMAIN opMap :
           opMap'[o].value = IF OpGivesNow(opMap, opLine, it, o) THEN it.text ELSE opMap[o].value
  PROVE  OpFollowed' /\ OpKeepsValues
<1>1. /\ OpAccepted /\ OpNamed(opMap, opLine) /\ opLine \in Seq(OpLineItems) /\ opArgs \in Seq(OpTexts)
      /\ opWork \in Nat /\ opWork # 0
  BY OpGoesOn DEF OpInv, OpValues, OpAccepted
<1>2. opWork > 0
  BY <1>1
<1>3. OpRanked(opMap, opLine, opArgs) /\ OpShown(opMap, opLine) /\ OpLatest(opMap, opLine)
  BY <1>1, <1>2, Zenon DEF OpInv, OpFollowed
<1>4. opNeedArg <=> OpAsksIn(opMap, opLine, Len(opLine))
  BY Zenon DEF OpInv, OpAwaited
<1>5. PICK n, k, args : n = opMap' /\ k = Append(opLine, it) /\ args = opArgs'
  OBVIOUS
<1>6. OpShown(n, k)
  BY <1>1, <1>3, <1>5, OpShownOn, Zenon
<1>7. OpLatest(n, k)
  BY <1>1, <1>3, <1>5, OpLatestOn, Zenon
<1>8. OpRanked(n, k, args)
  <2>1. OpRanked(n, k, IF it.plain /\ ~OpAsksIn(opMap, opLine, Len(opLine))
                       THEN Append(opArgs, it.text) ELSE opArgs)
    BY <1>1, <1>3, <1>5, OpRankedOn, Zenon
  <2>2. CASE it.plain /\ ~opNeedArg
    <3>1. it.plain /\ ~OpAsksIn(opMap, opLine, Len(opLine)) /\ args = Append(opArgs, it.text)
      BY <1>4, <1>5, <2>2, Zenon
    <3> QED
      BY <2>1, <3>1, Zenon
  <2>3. CASE ~(it.plain /\ ~opNeedArg)
    <3>1. ~(it.plain /\ ~OpAsksIn(opMap, opLine, Len(opLine))) /\ args = opArgs
      BY <1>4, <1>5, <2>3, Zenon
    <3> QED
      BY <2>1, <3>1, Zenon
  <2> QED
    BY <2>2, <2>3, Zenon
<1>9. OpKeepsValues
  <2> SUFFICES ASSUME NEW o \in DOMAIN opMap, OpGivesIn(n, k, o) = {}
               PROVE  opMap'[o].value = opMap[o].value
    BY <1>5, Zenon DEF OpKeepsValues
  <2>1. OpGivesIn(n, k, o) =
          OpWith(OpGivesIn(opMap, opLine, o), Len(opLine) + 1, OpGivesNow(opMap, opLine, it, o))
    <3>1. OpSame(opMap, n)
      BY <1>5, Zenon
    <3>2. \A p \in DOMAIN opMap : OpGivesIn(n, Append(opLine, it), p) =
             OpWith(OpGivesIn(opMap, opLine, p), Len(opLine) + 1, OpGivesNow(opMap, opLine, it, p))
      BY ONLY <1>1, <3>1, it \in OpLineItems, OpLineOn, Zenon
    <3> QED
      BY <1>5, <3>2, Zenon
  <2>2. ~OpGivesNow(opMap, opLine, it, o)
    BY <2>1 DEF OpWith
  <2> QED
    BY <2>2, Zenon
<1>10. OpFollowed'
  BY <1>5, <1>6, <1>7, <1>8, Zenon DEF OpFollowed
<1> QED
  BY <1>9, <1>10, Zenon

LEMMA OpNameInv ==
  ASSUME OpInv, NEW double \in BOOLEAN, NEW given \in BOOLEAN, NEW name \in OpLetters \cup OpLongs,
         NEW value \in OpTexts \cup {OpNone}, OpNameItem(double, name, given, value)
  PROVE  OpInv' /\ OpKeepsValues
<1>1. PICK it : it = [plain |-> FALSE, double |-> double, name |-> name, given |-> given, text |-> value]
  OBVIOUS
<1>2. /\ it \in OpLineItems /\ ~it.plain /\ it.double = double /\ it.name = name /\ it.given = given
      /\ it.text = value
  BY <1>1 DEF OpLineItems
<1>3. PICK o : o = OpFindIn(opMap, name)
  OBVIOUS
<1>4. o = OpFind(name)
  BY <1>3, Zenon DEF OpFind, OpFindIn, OpShorts, OpAnyOf
<1>5. opParsing /\ opLine' = Append(opLine, it) /\ opWork' = opWork + 1
  BY <1>1 DEF OpNameItem
<1>6. /\ OpTyped(opMap) /\ opLine \in Seq(OpLineItems) /\ opArgs \in Seq(OpTexts)
      /\ opNeedArg \in BOOLEAN /\ opResult \in BOOLEAN /\ OpNamed(opMap, opLine) /\ opResult
  BY <1>5, OpGoesOn DEF OpInv, OpValues, OpAccepted, OpAwaited
<1>7. CASE opNeedArg \/ o = OpNone
  <2>1. opParsing' = FALSE /\ opResult' = FALSE /\ opMap' = opMap /\ opArgs' = opArgs /\ opNeedArg' = opNeedArg
    BY <1>4, <1>7 DEF OpNameItem, OpReturn
  <2>2. OpSame(opMap, opMap') /\ OpTyped(opMap') /\ opArgs' \in Seq(OpTexts)
    BY <1>6, <2>1 DEF OpSame
  <2>3. ~OpAccepted'
    <3>1. opLine' # <<>>
      BY <1>2, <1>5, <1>6
    <3> QED
      BY <2>1, <3>1, Zenon DEF OpAccepted
  <2>4. OpValues' /\ OpDistinct(opMap')
    <3>1. opParsing' \in BOOLEAN /\ opNeedArg' \in BOOLEAN /\ opResult' \in BOOLEAN
      BY <1>6, <2>1
    <3> QED
      BY <1>2, <1>5, <2>2, <3>1, OpItemValues
  <2>5. OpAccepted' <=> ~(~it.plain /\ (OpFindIn(opMap, it.name) = OpNone \/ opNeedArg))
    BY <1>2, <1>3, <1>7, <2>3
  <2>6. OpJudged'
    BY <1>2, <1>5, <2>2, <2>5, OpItemJudged
  <2>7. OpFollowed'
    BY <2>3, Zenon DEF OpFollowed
  <2>8. OpAwaited'
    BY <2>1 DEF OpAwaited
  <2>9. OpKeepsValues
    BY <2>1, Zenon DEF OpKeepsValues
  <2> QED
    BY <2>4, <2>6, <2>7, <2>8, <2>9, Zenon DEF OpInv
<1>8. CASE ~opNeedArg /\ o # OpNone
  <2>1. /\ opOption' = o /\ opArgs' = opArgs /\ opParsing' = opParsing /\ opResult' = opResult
        /\ IF given THEN opMap' = [opMap EXCEPT ![o].present = TRUE, ![o].value = value] /\ opNeedArg' = opNeedArg
           ELSE /\ opMap' = [opMap EXCEPT ![o].present = TRUE]
                /\ opNeedArg' = (opMap[o].needArg /\ (double => opMap[o].def = OpNone))
    BY <1>4, <1>8 DEF OpNameItem, OpSetValue
  <2>2. o \in DOMAIN opMap
    BY <1>3, <1>6, <1>8, OpFindsOne, Zenon
  <2>3. PICK n : n = opMap'
    OBVIOUS
  <2>4. n = IF given THEN OpSetTo(opMap, o, value) ELSE OpMarked(opMap, o)
    BY <2>1, <2>3, Zenon DEF OpSetTo, OpMarked
  <2>5. /\ OpTyped(n) /\ OpSame(opMap, n)
        /\ \A p \in DOMAIN opMap : n[p].present <=> opMap[p].present \/ p = o
        /\ \A p \in DOMAIN opMap : p # o => n[p].value = opMap[p].value
        /\ n[o].value = IF given THEN value ELSE opMap[o].value
    <3>1. OpChanged(opMap, OpSetTo(opMap, o, value), o, value)
      BY <1>6, <2>2, OpMarksSet, Zenon
    <3>2. OpChanged(opMap, OpMarked(opMap, o), o, opMap[o].value)
      BY <1>6, <2>2, OpMarksPresent, Zenon
    <3>3. CASE given
      BY <2>4, <3>1, <3>3, Zenon DEF OpChanged
    <3>4. CASE ~given
      BY <2>4, <3>2, <3>4, Zenon DEF OpChanged
    <3> QED
      BY <3>3, <3>4, Zenon
  <2>6. OpAccepted'
    BY <1>5, <2>1 DEF OpAccepted
  <2>7. opParsing' \in BOOLEAN /\ opNeedArg' \in BOOLEAN /\ opResult' \in BOOLEAN
    <3>1. opMap[o].needArg \in BOOLEAN
      BY <1>6, <2>2 DEF OpTyped, OpOptions
    <3>2. opParsing' = TRUE /\ opResult' = opResult
      BY <1>5, <2>1 DEF OpInv, OpValues
    <3>3. CASE given
      BY <1>6, <2>1, <3>2, <3>3
    <3>4. CASE ~given
      BY <1>6, <2>1, <3>1, <3>2, <3>4
    <3> QED
      BY <3>3, <3>4
  <2>8. OpValues' /\ OpDistinct(opMap')
    BY <1>2, <1>5, <1>6, <2>1, <2>3, <2>5, <2>7, OpItemValues
  <2>9. OpAccepted' <=> ~(~it.plain /\ (OpFindIn(opMap, it.name) = OpNone \/ opNeedArg))
    BY <1>2, <1>3, <1>8, <2>6
  <2>10. OpJudged'
    BY <1>2, <1>5, <2>3, <2>5, <2>9, OpItemJudged
  <2>11. \A p : OpGivesNow(opMap, opLine, it, p) <=> p = o /\ given
    BY <1>2, <1>3 DEF OpGivesNow
  <2>12. OpFollowed' /\ OpKeepsValues
    <3>1. opArgs' = IF it.plain /\ ~opNeedArg THEN Append(opArgs, it.text) ELSE opArgs
      BY <1>2, <2>1
    <3>2. \A p \in DOMAIN opMap :
            opMap'[p].present <=> opMap[p].present \/ (~it.plain /\ OpFindIn(opMap, it.name) = p)
      BY <1>2, <1>3, <2>3, <2>5, Zenon
    <3>3. n[o].value = IF given THEN value ELSE opMap[o].value
      BY <2>5, Zenon
    <3>4. \A p \in DOMAIN opMap :
            opMap'[p].value = IF OpGivesNow(opMap, opLine, it, p) THEN it.text ELSE opMap[p].value
      BY <1>2, <2>3, <2>5, <2>11, <3>3
    <3> QED
      BY <1>2, <1>5, <2>3, <2>5, <3>1, <3>2, <3>4, OpItemFollowed
  <2>13. OpAwaited'
    <3>1. PICK k : k = opLine'
      OBVIOUS
    <3>2. Len(k) \in DOMAIN k /\ k[Len(k)] = it
      BY <1>2, <1>5, <1>6, <3>1
    <3>3. OpFindIn(n, name) = o /\ n[o].needArg = opMap[o].needArg /\ n[o].def = opMap[o].def
      <4>1. OpFindIn(n, name) = o
        BY <1>3, <2>5, OpFindKept, Zenon
      <4> QED
        BY <2>2, <2>5, <4>1 DEF OpSame
    <3>4. OpAsksIn(n, k, Len(k)) <=> ~given /\ opMap[o].needArg /\ (double => opMap[o].def = OpNone)
      BY <1>2, <3>2, <3>3, Zenon DEF OpAsksIn
    <3>5. opNeedArg' <=> OpAsksIn(n, k, Len(k))
      BY <1>8, <2>1, <3>4, Zenon
    <3>6. opOption' = OpFindIn(n, k[Len(k)].name) /\ opOption' # OpNone
      BY <1>2, <1>8, <2>1, <3>2, <3>3, Zenon
    <3> QED
      BY <1>6, <2>1, <2>3, <3>1, <3>5, <3>6, Zenon DEF OpAwaited
  <2> QED
    BY <2>8, <2>10, <2>12, <2>13, Zenon DEF OpInv
<1> QED
  BY <1>7, <1>8, Zenon

LEMMA OpPlainInv ==
  ASSUME OpInv, NEW text \in OpTexts, OpPlainItem(text)
  PROVE  OpInv' /\ OpKeepsValues
<1>1. PICK it : it = [plain |-> TRUE, double |-> FALSE, name |-> OpNone, given |-> FALSE, text |-> text]
  OBVIOUS
<1>2. it \in OpLineItems /\ it.plain /\ it.text = text
  BY <1>1 DEF OpLineItems
<1>3. /\ opParsing /\ opLine' = Append(opLine, it) /\ opWork' = opWork + 1 /\ opNeedArg' = FALSE
      /\ opParsing' = opParsing /\ opResult' = opResult
      /\ IF opOption # OpNone /\ opNeedArg
         THEN opMap' = [opMap EXCEPT ![opOption].present = TRUE, ![opOption].value = text] /\ opArgs' = opArgs
         ELSE opArgs' = Append(opArgs, text) /\ opMap' = opMap
  BY <1>1 DEF OpPlainItem, OpSetValue
<1>4. /\ OpTyped(opMap) /\ opLine \in Seq(OpLineItems) /\ opArgs \in Seq(OpTexts)
      /\ opParsing \in BOOLEAN /\ opResult \in BOOLEAN /\ OpNamed(opMap, opLine) /\ opResult
      /\ opWork \in Nat /\ opWork # 0
  BY <1>3, OpGoesOn DEF OpInv, OpValues, OpAccepted, OpAwaited
<1>5. /\ opNeedArg <=> OpAsksIn(opMap, opLine, Len(opLine))
      /\ opNeedArg => opOption = OpFindIn(opMap, opLine[Len(opLine)].name) /\ opOption # OpNone
  BY <1>3, Zenon DEF OpInv, OpAwaited
<1>6. OpShown(opMap, opLine)
  BY <1>3, <1>4 DEF OpInv, OpFollowed, OpAccepted
<1>7. /\ OpTyped(opMap') /\ OpSame(opMap, opMap') /\ opArgs' \in Seq(OpTexts)
      /\ opArgs' = IF it.plain /\ ~opNeedArg THEN Append(opArgs, it.text) ELSE opArgs
      /\ \A p \in DOMAIN opMap :
            opMap'[p].present <=> opMap[p].present \/ (~it.plain /\ OpFindIn(opMap, it.name) = p)
      /\ \A p \in DOMAIN opMap :
            opMap'[p].value = IF OpGivesNow(opMap, opLine, it, p) THEN it.text ELSE opMap[p].value
  <2>1. CASE opNeedArg
    <3>1. PICK o : o = opOption
      OBVIOUS
    <3>2. PICK n : n = opMap'
      OBVIOUS
    <3>3. /\ o = OpFindIn(opMap, opLine[Len(opLine)].name) /\ o # OpNone /\ OpAsksIn(opMap, opLine, Len(opLine))
          /\ n = [opMap EXCEPT ![o].present = TRUE, ![o].value = text] /\ opArgs' = opArgs
      BY <1>3, <1>5, <2>1, <3>1, <3>2, Zenon
    <3>4. o \in DOMAIN opMap
      BY <1>4, <3>3, OpFindsOne, Zenon
    <3>5. /\ OpTyped(n) /\ OpSame(opMap, n)
          /\ \A p \in DOMAIN opMap : n[p].present <=> opMap[p].present \/ p = o
          /\ \A p \in DOMAIN opMap : p # o => n[p].value = opMap[p].value
          /\ n[o].value = text
      <4>1. text \in OpTexts \cup {OpNone}
        OBVIOUS
      <4>2. OpChanged(opMap, OpSetTo(opMap, o, text), o, text)
        BY <1>4, <3>4, <4>1, OpMarksSet, Zenon
      <4>3. n = OpSetTo(opMap, o, text)
        BY <3>3, Zenon DEF OpSetTo
      <4> QED
        BY <4>2, <4>3, Zenon DEF OpChanged
    <3>6. Len(opLine) \in DOMAIN opLine /\ \A p : OpNamesIn(opMap, opLine, Len(opLine), p) <=> o = p
      BY <3>3, Zenon DEF OpAsksIn, OpNamesIn
    <3>7. opMap[o].present
      BY <1>6, <3>4, <3>6, Zenon DEF OpShown
    <3>8. \A p : OpGivesNow(opMap, opLine, it, p) <=> p = o
      BY <1>2, <3>3, <3>6, Zenon DEF OpGivesNow
    <3>9. \A p \in DOMAIN opMap : n[p].present <=> opMap[p].present
      BY <3>5, <3>7, Zenon
    <3>10. \A p \in DOMAIN opMap :
             n[p].value = IF OpGivesNow(opMap, opLine, it, p) THEN it.text ELSE opMap[p].value
      BY <1>2, <3>5, <3>8
    <3>11. opArgs' = IF it.plain /\ ~opNeedArg THEN Append(opArgs, it.text) ELSE opArgs
      BY <2>1, <3>3
    <3> QED
      BY <1>2, <1>4, <3>2, <3>3, <3>5, <3>9, <3>10, <3>11, Zenon
  <2>2. CASE ~opNeedArg
    <3>1. opMap' = opMap /\ opArgs' = Append(opArgs, text)
      BY <1>3, <2>2
    <3>2. OpTyped(opMap') /\ OpSame(opMap, opMap')
      BY <1>4, <3>1 DEF OpSame
    <3>3. opArgs' \in Seq(OpTexts)
      BY <1>4, <3>1
    <3>4. opArgs' = IF it.plain /\ ~opNeedArg THEN Append(opArgs, it.text) ELSE opArgs
      BY <1>2, <2>2, <3>1
    <3>5. \A p : ~OpGivesNow(opMap, opLine, it, p)
      BY <1>2, <1>5, <2>2, Zenon DEF OpGivesNow
    <3>6. \A p \in DOMAIN opMap :
            opMap'[p].present <=> opMap[p].present \/ (~it.plain /\ OpFindIn(opMap, it.name) = p)
      BY <1>2, <3>1
    <3>7. \A p \in DOMAIN opMap :
            opMap'[p].value = IF OpGivesNow(opMap, opLine, it, p) THEN it.text ELSE opMap[p].value
      BY <3>1, <3>5
    <3> QED
      BY <3>2, <3>3, <3>4, <3>6, <3>7, Zenon
  <2> QED
    BY <2>1, <2>2, Zenon
<1>8. opParsing' \in BOOLEAN /\ opNeedArg' \in BOOLEAN /\ opResult' \in BOOLEAN
  BY <1>3, <1>4
<1>9. OpValues' /\ OpDistinct(opMap')
  BY <1>2, <1>3, <1>7, <1>8, OpItemValues
<1>10. OpAccepted' <=> ~(~it.plain /\ (OpFindIn(opMap, it.name) = OpNone \/ opNeedArg))
  BY <1>2, <1>3 DEF OpAccepted
<1>11. OpJudged'
  BY <1>2, <1>3, <1>7, <1>10, OpItemJudged
<1>12. OpFollowed' /\ OpKeepsValues
  BY <1>2, <1>3, <1>7, OpItemFollowed
<1>13. OpAwaited'
  <2>1. PICK k : k = opLine'
    OBVIOUS
  <2>2. k[Len(k)] = it
    BY <1>2, <1>3, <1>4, <2>1
  <2>3. ~OpAsksIn(opMap', k, Len(k))
    BY <1>2, <2>2, Zenon DEF OpAsksIn
  <2> QED
    BY <1>3, <1>4, <2>1, <2>3, Zenon DEF OpAwaited
<1> QED
  BY <1>9, <1>11, <1>12, <1>13, Zenon DEF OpInv

LEMMA OpStepInv == OpInv /\ [OpNext]_opVars => OpInv' /\ OpKeepsValues
<1> SUFFICES ASSUME OpInv, [OpNext]_opVars PROVE OpInv' /\ OpKeepsValues
  OBVIOUS
<1>1. CASE \E short \in OpLetters \cup {OpNone}, long \in OpLongs \cup {OpNone}, need \in BOOLEAN,
              def \in OpDefaults \cup {OpNone} : OpAddOption(short, long, need, def)
  BY <1>1, OpAddInv
<1>2. CASE (\E empty \in BOOLEAN : OpParse(empty)) \/ OpEnd
  BY <1>2, OpParseInv, OpEndInv
<1>3. CASE \E double, given \in BOOLEAN, name \in OpLetters \cup OpLongs, value \in OpTexts :
             OpNameItem(double, name, given, IF given THEN value ELSE OpNone)
  <2>1. PICK double \in BOOLEAN, given \in BOOLEAN, name \in OpLetters \cup OpLongs, value \in OpTexts :
             OpNameItem(double, name, given, IF given THEN value ELSE OpNone)
    BY <1>3
  <2>2. (IF given THEN value ELSE OpNone) \in OpTexts \cup {OpNone}
    OBVIOUS
  <2> QED
    BY <2>1, <2>2, OpNameInv, Zenon
<1>4. CASE \E text \in OpTexts : OpPlainItem(text)
  BY <1>4, OpPlainInv
<1>5. CASE UNCHANGED opVars
  <2>1. /\ opMap' = opMap /\ opArgs' = opArgs /\ opParsing' = opParsing /\ opOption' = opOption
        /\ opNeedArg' = opNeedArg /\ opLine' = opLine /\ opResult' = opResult /\ opWork' = opWork
    BY <1>5 DEF opVars
  <2>2. OpValues' /\ OpDistinct(opMap') /\ OpAwaited'
    BY <2>1, Zenon DEF OpInv, OpValues, OpDistinct, OpAwaited
  <2>3. OpJudged' /\ OpFollowed'
    BY <2>1, Zenon DEF OpInv, OpJudged, OpFollowed, OpAccepted
  <2>4. OpKeepsValues
    BY <2>1, Zenon DEF OpKeepsValues
  <2> QED
    BY <2>2, <2>3, <2>4, Zenon DEF OpInv
<1> QED
  BY <1>1, <1>2, <1>3, <1>4, <1>5 DEF OpNext

(* The largest of a set of places. *)
LEMMA OpLast ==
  ASSUME NEW n \in Nat, NEW S \in SUBSET (1..n), S # {}
  PROVE  Max(S) \in S /\ \A j \in S : j <= Max(S)
<1> DEFINE T == {n - i : i \in S}
<1>1. T \in SUBSET Nat /\ T # {}
  <2>1. \A i \in S : n - i \in Nat
    OBVIOUS
  <2> QED
    BY <2>1, Zenon
<1>2. PICK m \in T : \A j \in T : m <= j
  <2> HIDE DEF T
  <2> QED
    BY <1>1, CnSmallest
<1>3. PICK i \in S : m = n - i
  OBVIOUS
<1>4. \A j \in S : i >= j
  <2> SUFFICES ASSUME NEW j \in S PROVE i >= j
    OBVIOUS
  <2>1. m <= n - j
    BY <1>2
  <2> QED
    BY <1>3, <2>1
<1>5. Max(S) \in S /\ \A j \in S : Max(S) >= j
  BY <1>4 DEF Max
<1> QED
  BY <1>5

LEMMA OpInvTold == OpInv => OpTold /\ OpArgsKept /\ OpRefused /\ OpFound
<1> SUFFICES ASSUME OpInv PROVE OpTold /\ OpArgsKept /\ OpRefused /\ OpFound
  OBVIOUS
<1>1. OpTyped(opMap) /\ opLine \in Seq(OpLineItems)
  BY DEF OpInv, OpValues
<1>2. \A name : OpFind(name) = OpFindIn(opMap, name)
  BY Zenon DEF OpFind, OpFindIn, OpShorts, OpAnyOf
<1>3. \A i : OpAsks(i) <=> OpAsksIn(opMap, opLine, i)
  BY <1>2, Zenon DEF OpAsks, OpAsksIn
<1>4. \A i, o : OpNames(i, o) <=> OpNamesIn(opMap, opLine, i, o)
  BY <1>2, Zenon DEF OpNames, OpNamesIn
<1>5. \A o : OpGives(o) = OpGivesIn(opMap, opLine, o)
  BY <1>3, <1>4 DEF OpGives, OpGivesIn
<1>6. {i \in DOMAIN opLine : opLine[i].plain /\ ~OpAsks(i - 1)} = OpKeptIn(opMap, opLine)
  BY <1>3 DEF OpKeptIn
<1>7. OpTold
  <2> SUFFICES ASSUME opWork > 0, OpAccepted, NEW o \in DOMAIN opMap
               PROVE  /\ opMap[o].present <=> \E i \in DOMAIN opLine : OpNames(i, o)
                      /\ OpGives(o) # {} => opMap[o].value = opLine[Max(OpGives(o))].text
    BY Zenon DEF OpTold
  <2>1. OpShown(opMap, opLine) /\ OpLatest(opMap, opLine)
    BY Zenon DEF OpInv, OpFollowed
  <2>2. opMap[o].present <=> \E i \in DOMAIN opLine : OpNames(i, o)
    BY <1>4, <2>1, Zenon DEF OpShown
  <2>3. ASSUME OpGives(o) # {} PROVE opMap[o].value = opLine[Max(OpGives(o))].text
    <3>1. OpGivesIn(opMap, opLine, o) # {}
      BY <1>5, <2>3, Zenon
    <3>2. OpGivesIn(opMap, opLine, o) \in SUBSET (1..Len(opLine)) /\ Len(opLine) \in Nat
      BY <1>1 DEF OpGivesIn
    <3>3. PICK x : x = Max(OpGivesIn(opMap, opLine, o))
      OBVIOUS
    <3>4. x \in OpGivesIn(opMap, opLine, o) /\ \A j \in OpGivesIn(opMap, opLine, o) : j <= x
      BY <3>1, <3>2, <3>3, OpLast, Zenon
    <3>5. opMap[o].value = opLine[x].text
      BY <2>1, <3>4, Zenon DEF OpLatest
    <3> QED
      BY <1>5, <3>3, <3>5, Zenon
  <2> QED
    BY <2>2, <2>3, Zenon
<1>8. OpArgsKept
  BY <1>6, Zenon DEF OpInv, OpFollowed, OpRanked, OpArgsKept
<1>9. OpRefused
  <2>1. \A i \in DOMAIN opLine :
          (~opLine[i].plain /\ (OpFind(opLine[i].name) = OpNone \/ (i > 1 /\ OpAsks(i - 1))))
            <=> OpBadIn(opMap, opLine, i)
    BY <1>2, <1>3, Zenon DEF OpBadIn
  <2> QED
    BY <2>1, Zenon DEF OpInv, OpJudged, OpRefused
<1>10. OpFound
  <2> SUFFICES ASSUME NEW o \in DOMAIN opMap
               PROVE  /\ OpFind(o) = o
                      /\ opMap[o].short \notin DOMAIN opMap \cup {OpNone} => OpFind(opMap[o].short) = o
    BY Zenon DEF OpFound
  <2>1. OpFind(o) = o
    BY Zenon DEF OpFind
  <2>2. ASSUME opMap[o].short \notin DOMAIN opMap \cup {OpNone} PROVE OpFind(opMap[o].short) = o
    <3>1. PICK s : s = opMap[o].short
      OBVIOUS
    <3>2. s \in OpLetters
      BY <1>1, <2>2, <3>1 DEF OpTyped, OpOptions
    <3>3. OpShorts(opMap, s) = {o}
      <4>1. \A p \in DOMAIN opMap : opMap[p].short = s => p = o
        BY <2>2, <3>1 DEF OpInv, OpDistinct
      <4> QED
        BY <3>1, <4>1 DEF OpShorts
    <3>4. OpAnyOf({o}) = o
      BY DEF OpAnyOf
    <3>5. OpFindIn(opMap, s) = o
      BY <2>2, <3>1, <3>2, <3>3, <3>4 DEF OpFindIn
    <3> QED
      BY <1>2, <3>1, <3>5, Zenon
  <2> QED
    BY <2>1, <2>2, Zenon
<1> QED
  BY <1>7, <1>8, <1>9, <1>10

(* What an item gives is what it gives in the state after a step, too.          *)
LEMMA OpGivesAfter == \A o : OpGives(o)' = OpGivesIn(opMap', opLine', o)
<1>1. \A name : OpFind(name)' = OpFindIn(opMap', name)
  BY Zenon DEF OpFind, OpFindIn, OpShorts, OpAnyOf
<1>2. \A i : OpAsks(i)' <=> OpAsksIn(opMap', opLine', i)
  BY <1>1, Zenon DEF OpAsks, OpAsksIn
<1>3. \A i, o : OpNames(i, o)' <=> OpNamesIn(opMap', opLine', i, o)
  BY <1>1, Zenon DEF OpNames, OpNamesIn
<1> QED
  BY <1>2, <1>3 DEF OpGives, OpGivesIn

(* A program is told what its last command line says: the options that it      *)
(* names, the value that was given last to each, by this line or by one before *)
(* it, the arguments in their order, no line refused without a cause, and no   *)
(* option hidden (OptionParser::parse, clearResult, addOption, find), for any  *)
(* options and command lines.                                                  *)
THEOREM OptionsAreTold == OpSpec => OptionsTold
<1>1. OpInit => OpInv
  BY OpInitInv
<1>2. OpInv /\ [OpNext]_opVars => OpInv'
  BY OpStepInv
<1>3. OpInv => OpTold /\ OpArgsKept /\ OpRefused /\ OpFound
  BY OpInvTold
<1>4. OpInv /\ [OpNext]_opVars =>
        [\A o \in DOMAIN opMap : OpGives(o)' = {} => opMap'[o].value = opMap[o].value]_opVars
  BY OpStepInv, OpGivesAfter DEF OpKeepsValues
<1> QED
  BY <1>1, <1>2, <1>3, <1>4, PTL DEF OpSpec, OptionsTold, OpValuesStay

-----------------------------------------------------------------------------
(* Base64 (Codings)                                                          *)

LEMMA CoLeastIs ==
  ASSUME NEW S \in SUBSET Int, NEW x \in S, \A y \in S : x <= y
  PROVE  Min(S) = x
<1>1. \A z \in S : (\A y \in S : z <= y) => z = x
  <2> SUFFICES ASSUME NEW z \in S, \A y \in S : z <= y PROVE z = x
    OBVIOUS
  <2>1. z <= x /\ x <= z /\ z \in Int /\ x \in Int
    OBVIOUS
  <2> QED
    BY <2>1
<1>2. Min(S) \in S /\ \A y \in S : Min(S) <= y
  BY DEF Min
<1> QED
  BY <1>1, <1>2

(* How often the inner loop runs, for every shift that there is.             *)
LEMMA CoRoundsAre ==
  /\ CoRounds(8, FALSE) = 1 /\ CoRounds(8, TRUE) = 2
  /\ CoRounds(10, FALSE) = 1 /\ CoRounds(10, TRUE) = 2
  /\ CoRounds(12, FALSE) = 1 /\ CoRounds(12, TRUE) = 2
  /\ CoRounds(14, FALSE) = 2 /\ CoRounds(14, TRUE) = 3
<1> DEFINE K(s, l) == {k \in 1..3 : ~(s - 6 * k > 6 \/ (l /\ s - 6 * k > 0))}
<1>1. \A s, l : CoRounds(s, l) = Min(K(s, l)) /\ K(s, l) \in SUBSET Int
  BY DEF CoRounds
<1>2. 1 \in K(8, FALSE) /\ \A k \in K(8, FALSE) : 1 <= k
  OBVIOUS
<1>3. 2 \in K(8, TRUE) /\ \A k \in K(8, TRUE) : 2 <= k
  OBVIOUS
<1>4. 1 \in K(10, FALSE) /\ \A k \in K(10, FALSE) : 1 <= k
  OBVIOUS
<1>5. 2 \in K(10, TRUE) /\ \A k \in K(10, TRUE) : 2 <= k
  OBVIOUS
<1>6. 1 \in K(12, FALSE) /\ \A k \in K(12, FALSE) : 1 <= k
  OBVIOUS
<1>7. 2 \in K(12, TRUE) /\ \A k \in K(12, TRUE) : 2 <= k
  OBVIOUS
<1>8. 2 \in K(14, FALSE) /\ \A k \in K(14, FALSE) : 2 <= k
  OBVIOUS
<1>9. 3 \in K(14, TRUE) /\ \A k \in K(14, TRUE) : 3 <= k
  OBVIOUS
<1> HIDE DEF K
<1> QED
  BY <1>1, <1>2, <1>3, <1>4, <1>5, <1>6, <1>7, <1>8, <1>9, CoLeastIs

(* The bits of two bytes that follow one another, taken apart and put together. *)
CoBits(a, d) == (a % 64) * 256 + d

CoSplit(a, d, bits) ==
  /\ CoDigit(bits, 14) = a % 64 /\ CoDigit(bits, 8) = d \div 4 /\ CoDigit(bits, 2) = (d % 4) * 16
  /\ CoDigit(bits, 10) = (a % 4) * 16 + (d \div 16) /\ CoDigit(bits, 4) = (d % 16) * 4
  /\ CoDigit(bits, 12) = (a % 16) * 4 + (d \div 64) /\ CoDigit(bits, 6) = d % 64
  /\ bits % 64 = d % 64

LEMMA CoDigitsAre ==
  ASSUME NEW a \in 0..255, NEW d \in 0..255
  PROVE  CoSplit(a, d, CoBits(a, d))
<1> DEFINE b == (a % 64) * 256 + d
<1>1. b \in Nat
  OBVIOUS
<1>2. CoDigit(b, 14) = a % 64
  BY DEF CoDigit, CoPowers
<1>3. CoDigit(b, 8) = d \div 4
  BY DEF CoDigit, CoPowers
<1>4. CoDigit(b, 2) = (d % 4) * 16
  BY DEF CoDigit, CoPowers
<1>5. CoDigit(b, 10) = (a % 4) * 16 + (d \div 16)
  BY DEF CoDigit, CoPowers
<1>6. CoDigit(b, 4) = (d % 16) * 4
  BY DEF CoDigit, CoPowers
<1>7. CoDigit(b, 12) = (a % 16) * 4 + (d \div 64)
  BY DEF CoDigit, CoPowers
<1>8. CoDigit(b, 6) = d % 64
  BY DEF CoDigit, CoPowers
<1>9. b % 64 = d % 64
  OBVIOUS
<1> QED
  BY <1>2, <1>3, <1>4, <1>5, <1>6, <1>7, <1>8, <1>9 DEF CoBits, CoSplit

LEMMA CoBytesAre ==
  ASSUME NEW a \in 0..255, NEW b \in 0..255, NEW c \in 0..255
  PROVE  /\ (((a \div 4) * 64 + ((a % 4) * 16 + (b \div 16))) \div 16) % 256 = a
         /\ ((((a % 4) * 16 + (b \div 16)) * 64 + ((b % 16) * 4 + (c \div 64))) \div 4) % 256 = b
         /\ ((((b % 16) * 4 + (c \div 64)) * 64 + (c % 64)) \div 1) % 256 = c
         /\ a \div 4 \in 0..63 /\ (a % 4) * 16 + (b \div 16) \in 0..63
         /\ (b % 16) * 4 + (c \div 64) \in 0..63 /\ c % 64 \in 0..63
<1>1. (((a \div 4) * 64 + ((a % 4) * 16 + (b \div 16))) \div 16) % 256 = a
  OBVIOUS
<1>2. ((((a % 4) * 16 + (b \div 16)) * 64 + ((b % 16) * 4 + (c \div 64))) \div 4) % 256 = b
  OBVIOUS
<1>3. ((((b % 16) * 4 + (c \div 64)) * 64 + (c % 64)) \div 1) % 256 = c
  OBVIOUS
<1>4. /\ a \div 4 \in 0..63 /\ (a % 4) * 16 + (b \div 16) \in 0..63
      /\ (b % 16) * 4 + (c \div 64) \in 0..63 /\ c % 64 \in 0..63
  OBVIOUS
<1> QED
  BY <1>1, <1>2, <1>3, <1>4

(* The sextets that a text is made of, with zeros behind its end.            *)
CoByte(data, i) == IF i <= Len(data) THEN data[i] ELSE 0
CoPart(r, a, b, c) ==
  IF r = 0 THEN a \div 4 ELSE IF r = 1 THEN (a % 4) * 16 + (b \div 16)
  ELSE IF r = 2 THEN (b % 16) * 4 + (c \div 64) ELSE c % 64
CoGroup(data, q, r) == CoPart(r, CoByte(data, 3 * q + 1), CoByte(data, 3 * q + 2), CoByte(data, 3 * q + 3))
CoSextet(data, p) == CoGroup(data, (p - 1) \div 4, (p - 1) % 4)

LEMMA CoSextets ==
  ASSUME NEW data, NEW q \in Nat, NEW a, NEW b, NEW c,
         a = CoByte(data, 3 * q + 1), b = CoByte(data, 3 * q + 2), c = CoByte(data, 3 * q + 3)
  PROVE  /\ CoSextet(data, 4 * q + 1) = a \div 4
         /\ CoSextet(data, 4 * q + 2) = (a % 4) * 16 + (b \div 16)
         /\ CoSextet(data, 4 * q + 3) = (b % 16) * 4 + (c \div 64)
         /\ CoSextet(data, 4 * q + 4) = c % 64
<1>1. (4 * q + 1 - 1) \div 4 = q /\ (4 * q + 1 - 1) % 4 = 0
  OBVIOUS
<1>2. (4 * q + 2 - 1) \div 4 = q /\ (4 * q + 2 - 1) % 4 = 1
  OBVIOUS
<1>3. (4 * q + 3 - 1) \div 4 = q /\ (4 * q + 3 - 1) % 4 = 2
  OBVIOUS
<1>4. (4 * q + 4 - 1) \div 4 = q /\ (4 * q + 4 - 1) % 4 = 3
  OBVIOUS
<1>5. \A r : CoGroup(data, q, r) = CoPart(r, a, b, c)
  BY DEF CoGroup
<1>6. /\ CoSextet(data, 4 * q + 1) = CoPart(0, a, b, c) /\ CoSextet(data, 4 * q + 2) = CoPart(1, a, b, c)
      /\ CoSextet(data, 4 * q + 3) = CoPart(2, a, b, c) /\ CoSextet(data, 4 * q + 4) = CoPart(3, a, b, c)
  BY <1>1, <1>2, <1>3, <1>4, <1>5 DEF CoSextet
<1> QED
  BY <1>6 DEF CoPart

(* How many digits there are after i of n bytes, and how many bits are left. *)
CoMade(i, n) ==
  4 * (i \div 3) + (IF i % 3 = 0 THEN (IF i = n THEN 0 ELSE IF i = 0 THEN 0 ELSE -1)
                    ELSE IF i % 3 = 1 THEN (IF i = n THEN 2 ELSE 1)
                    ELSE IF i = n THEN 3 ELSE 2)
CoKept(i, n) ==
  IF i = 0 THEN 0
  ELSE IF i % 3 = 0 THEN (IF i = n THEN 0 ELSE 6)
  ELSE IF i % 3 = 1 THEN (IF i = n THEN -4 ELSE 2)
  ELSE IF i = n THEN -2 ELSE 4

LEMMA CoAppended ==
  ASSUME NEW a \in Nat, NEW b \in Nat, NEW f, NEW g, \A k \in 1..b : g[k] = f[a + k]
  PROVE  [p \in 1..a |-> f[p]] \o [k \in 1..b |-> g[k]] = [p \in 1..(a + b) |-> f[p]]
<1> DEFINE s == [p \in 1..a |-> f[p]]
           t == [k \in 1..b |-> g[k]]
<1>1. Len(s) = a /\ Len(t) = b
  OBVIOUS
<1>2. s \o t = [i \in 1..(Len(s) + Len(t)) |-> IF i <= Len(s) THEN s[i] ELSE t[i - Len(s)]]
  OBVIOUS
<1>3. \A i \in 1..(a + b) : (IF i <= a THEN s[i] ELSE t[i - a]) = f[i]
  <2> SUFFICES ASSUME NEW i \in 1..(a + b) PROVE (IF i <= a THEN s[i] ELSE t[i - a]) = f[i]
    OBVIOUS
  <2>1. CASE i <= a
    BY <2>1
  <2>2. CASE ~(i <= a)
    <3>1. i - a \in 1..b /\ a + (i - a) = i
      BY <2>2
    <3> QED
      BY <2>2, <3>1
  <2> QED
    BY <2>1, <2>2
<1> HIDE DEF s, t
<1>4. s \o t = [i \in 1..(a + b) |-> f[i]]
  BY <1>1, <1>2, <1>3
<1> QED
  BY <1>4 DEF s, t
LEMMA CoMadeAre ==
  ASSUME NEW q \in Nat, NEW n \in Nat
  PROVE  /\ CoMade(3 * q + 1, n) = 4 * q + (IF 3 * q + 1 = n THEN 2 ELSE 1)
         /\ CoMade(3 * q + 2, n) = 4 * q + (IF 3 * q + 2 = n THEN 3 ELSE 2)
         /\ CoMade(3 * q + 3, n) = 4 * q + (IF 3 * q + 3 = n THEN 4 ELSE 3)
         /\ CoKept(3 * q + 1, n) = IF 3 * q + 1 = n THEN -4 ELSE 2
         /\ CoKept(3 * q + 2, n) = IF 3 * q + 2 = n THEN -2 ELSE 4
         /\ CoKept(3 * q + 3, n) = IF 3 * q + 3 = n THEN 0 ELSE 6
         /\ CoMade(0, n) = 0 /\ CoKept(0, n) = 0
<1>1. (3 * q + 1) \div 3 = q /\ (3 * q + 1) % 3 = 1 /\ 3 * q + 1 # 0
  OBVIOUS
<1>2. (3 * q + 2) \div 3 = q /\ (3 * q + 2) % 3 = 2 /\ 3 * q + 2 # 0
  OBVIOUS
<1>3. (3 * q + 3) \div 3 = q + 1 /\ (3 * q + 3) % 3 = 0 /\ 3 * q + 3 # 0
  OBVIOUS
<1>4. CoMade(3 * q + 1, n) = 4 * q + (IF 3 * q + 1 = n THEN 2 ELSE 1)
  BY <1>1 DEF CoMade
<1>5. CoMade(3 * q + 2, n) = 4 * q + (IF 3 * q + 2 = n THEN 3 ELSE 2)
  BY <1>2 DEF CoMade
<1>6. CoMade(3 * q + 3, n) = 4 * q + (IF 3 * q + 3 = n THEN 4 ELSE 3)
  BY <1>3 DEF CoMade
<1>7. CoKept(3 * q + 1, n) = IF 3 * q + 1 = n THEN -4 ELSE 2
  BY <1>1 DEF CoKept
<1>8. CoKept(3 * q + 2, n) = IF 3 * q + 2 = n THEN -2 ELSE 4
  BY <1>2 DEF CoKept
<1>9. CoKept(3 * q + 3, n) = IF 3 * q + 3 = n THEN 0 ELSE 6
  BY <1>3 DEF CoKept
<1>10. CoMade(0, n) = 0 /\ CoKept(0, n) = 0
  BY DEF CoMade, CoKept
<1> QED
  BY <1>4, <1>5, <1>6, <1>7, <1>8, <1>9, <1>10

(* One byte of the outer loop: what it adds to m digits, whatever is left of the bytes *)
(* before it.                                                                          *)
CoAdds(data, n, i, m, bits, shift, rounds) ==
  /\ bits % 64 = data[i] % 64
  /\ rounds \in Nat
  /\ shift - 6 * rounds = CoKept(i, n)
  /\ CoMade(i, n) = m + rounds
  /\ \A k \in 1..rounds : CoDigit(bits, shift - 6 * (k - 1)) = CoSextet(data, m + k)


LEMMA CoRoundOne ==
  ASSUME NEW data, NEW bits, NEW m, NEW s \in Int, CoDigit(bits, s) = CoSextet(data, m + 1)
  PROVE  \A k \in 1..1 : CoDigit(bits, s - 6 * (k - 1)) = CoSextet(data, m + k)
<1>1. s - 6 * (1 - 1) = s /\ \A k \in 1..1 : k = 1
  OBVIOUS
<1> QED
  BY <1>1

LEMMA CoRoundTwo ==
  ASSUME NEW data, NEW bits, NEW m, NEW s \in Int, CoDigit(bits, s) = CoSextet(data, m + 1),
         NEW t, t = s - 6, CoDigit(bits, t) = CoSextet(data, m + 2)
  PROVE  \A k \in 1..2 : CoDigit(bits, s - 6 * (k - 1)) = CoSextet(data, m + k)
<1>1. s - 6 * (1 - 1) = s /\ s - 6 * (2 - 1) = t /\ \A k \in 1..2 : k = 1 \/ k = 2
  OBVIOUS
<1> QED
  BY <1>1

LEMMA CoRoundThree ==
  ASSUME NEW data, NEW bits, NEW m, NEW s \in Int, CoDigit(bits, s) = CoSextet(data, m + 1),
         NEW t, t = s - 6, CoDigit(bits, t) = CoSextet(data, m + 2),
         NEW u, u = s - 12, CoDigit(bits, u) = CoSextet(data, m + 3)
  PROVE  \A k \in 1..3 : CoDigit(bits, s - 6 * (k - 1)) = CoSextet(data, m + k)
<1>1. /\ s - 6 * (1 - 1) = s /\ s - 6 * (2 - 1) = t /\ s - 6 * (3 - 1) = u
      /\ \A k \in 1..3 : k = 1 \/ k = 2 \/ k = 3
  OBVIOUS
<1> QED
  BY <1>1

CoTurns(shift, i, n) == CoRounds(shift, i = n)

LEMMA CoAddsFirst ==
  ASSUME NEW data \in Seq(0..255), NEW n \in Nat, n = Len(data), n > 0,
         NEW a \in 0..255, NEW d \in 0..255, a = 0, d = data[1], NEW bits, bits = CoBits(a, d),
         NEW i, i = 1, NEW m, m = 0, NEW shift, shift = 8, NEW rounds, rounds = CoTurns(shift, i, n)
  PROVE  CoAdds(data, n, i, m, bits, shift, rounds)
<1> SUFFICES CoAdds(data, n, 1, 0, bits, 8, CoRounds(8, 1 = n))
  BY DEF CoTurns
<1>1. d = data[1] /\ 1 \in 1..n
  OBVIOUS
<1>3. /\ CoDigit(bits, 8) = d \div 4 /\ CoDigit(bits, 2) = (d % 4) * 16 /\ bits % 64 = d % 64
  <2>1. CoSplit(a, d, bits)
    BY CoDigitsAre
  <2> QED
    BY <2>1 DEF CoSplit
<1>4. PICK q \in Nat : q = 0
  OBVIOUS
<1>5. CoMade(1, n) = (IF 1 = n THEN 2 ELSE 1) /\ CoKept(1, n) = IF 1 = n THEN -4 ELSE 2
  <2>1. /\ CoMade(3 * q + 1, n) = 4 * q + (IF 3 * q + 1 = n THEN 2 ELSE 1)
        /\ CoKept(3 * q + 1, n) = IF 3 * q + 1 = n THEN -4 ELSE 2
    BY CoMadeAre
  <2>2. 3 * q + 1 = 1 /\ 4 * q = 0
    BY <1>4
  <2>3. \A x \in {1, 2} : 0 + x = x
    OBVIOUS
  <2> QED
    BY <2>1, <2>2, <2>3
<1>6. CoSextet(data, 1) = d \div 4 /\ (n = 1 => CoSextet(data, 2) = (d % 4) * 16)
  <2>1. PICK b, c : b = CoByte(data, 3 * q + 2) /\ c = CoByte(data, 3 * q + 3)
    OBVIOUS
  <2>2. d = CoByte(data, 3 * q + 1) /\ (n = 1 => b = 0)
    BY <1>1, <1>4, <2>1 DEF CoByte
  <2>3. CoSextet(data, 4 * q + 1) = d \div 4 /\ CoSextet(data, 4 * q + 2) = (d % 4) * 16 + (b \div 16)
    BY <2>1, <2>2, CoSextets
  <2>4. 4 * q + 1 = 1 /\ 4 * q + 2 = 2
    BY <1>4
  <2> QED
    BY <2>2, <2>3, <2>4
<1>7. CASE n = 1
  <2>1. CoRounds(8, 1 = n) = 2
    BY <1>7, CoRoundsAre
  <2>2. \A k \in 1..2 : CoDigit(bits, 8 - 6 * (k - 1)) = CoSextet(data, 0 + k)
    <3>1. 8 - 6 = 2 /\ 8 - 12 = -4 /\ 8 \in Int
      OBVIOUS
    <3>2. /\ CoDigit(bits, 8) = CoSextet(data, 0 + 1)
           /\ CoDigit(bits, 2) = CoSextet(data, 0 + 2)
      BY <1>3, <1>6, <1>7
    <3> QED
      BY <3>1, <3>2, CoRoundTwo
  <2>3. 8 - 6 * 2 = -4 /\ 2 \in Nat /\ 0 + 2 = 2
    OBVIOUS
  <2>4. bits % 64 = data[1] % 64
    BY <1>1, <1>3
  <2>5. CoMade(1, n) = 2 /\ CoKept(1, n) = -4
    BY <1>5, <1>7
  <2> QED
    BY <2>1, <2>2, <2>3, <2>4, <2>5 DEF CoAdds
<1>8. CASE n # 1
  <2>1. CoRounds(8, 1 = n) = 1
    BY <1>8, CoRoundsAre
  <2>2. \A k \in 1..1 : CoDigit(bits, 8 - 6 * (k - 1)) = CoSextet(data, 0 + k)
    <3>1. 8 - 6 = 2 /\ 8 - 12 = -4 /\ 8 \in Int
      OBVIOUS
    <3>2. CoDigit(bits, 8) = CoSextet(data, 0 + 1)
      BY <1>3, <1>6
    <3> QED
      BY <3>1, <3>2, CoRoundOne
  <2>3. 8 - 6 * 1 = 2 /\ 1 \in Nat /\ 0 + 1 = 1
    OBVIOUS
  <2>4. bits % 64 = data[1] % 64
    BY <1>1, <1>3
  <2>5. CoMade(1, n) = 1 /\ CoKept(1, n) = 2
    BY <1>5, <1>8
  <2> QED
    BY <2>1, <2>2, <2>3, <2>4, <2>5 DEF CoAdds
<1> QED
  BY <1>7, <1>8

CoThird(i, q, r) == i = 3 * q + r

(* The bits that are left of byte j, and byte j + 1.                         *)
LEMMA CoAddsNext ==
  ASSUME NEW data \in Seq(0..255), NEW n \in Nat, n = Len(data),
         NEW q \in Nat, NEW r \in 1..3, NEW i, CoThird(i, q, r), i \in 2..n,
         NEW a \in 0..255, NEW d \in 0..255, a = data[i - 1], d = data[i], NEW bits, bits = CoBits(a, d),
         NEW made, made = CoMade(i - 1, n), NEW shift, shift = CoKept(i - 1, n) + 8,
         NEW rounds, rounds = CoTurns(shift, i, n)
  PROVE  CoAdds(data, n, i, made, bits, shift, rounds)
<1> SUFFICES CoAdds(data, n, i, CoMade(i - 1, n), bits, shift, CoRounds(shift, i = n))
  BY DEF CoTurns
<1>t. i = 3 * q + r
  BY DEF CoThird
<1>0. i \in Nat /\ i - 1 \in 1..Len(data) /\ i \in 1..Len(data) /\ i - 1 # n
  OBVIOUS
<1>1. a = data[i - 1] /\ d = data[i]
  OBVIOUS
<1>2. CoSplit(a, d, bits)
  BY CoDigitsAre
<1>3. bits % 64 = data[i] % 64
  BY <1>1, <1>2 DEF CoSplit
<1>4. CASE r = 1
  <2>1. PICK p \in Nat : q = p + 1
    <3>1. q # 0
      BY <1>t, <1>4
    <3> QED
      BY <3>1
  <2>2. i - 1 = 3 * p + 3 /\ 4 * q = 4 * p + 4 /\ i = 3 * q + 1
    BY <1>t, <1>4, <2>1
  <2>m. PICK m \in Nat : m = 4 * p + 3
    OBVIOUS
  <2>3. /\ CoMade(3 * p + 3, n) = 4 * p + (IF 3 * p + 3 = n THEN 4 ELSE 3)
        /\ CoKept(3 * p + 3, n) = IF 3 * p + 3 = n THEN 0 ELSE 6
        /\ CoMade(3 * q + 1, n) = 4 * q + (IF 3 * q + 1 = n THEN 2 ELSE 1)
        /\ CoKept(3 * q + 1, n) = IF 3 * q + 1 = n THEN -4 ELSE 2
    BY CoMadeAre
  <2>4. /\ CoMade(i - 1, n) = m /\ CoKept(i - 1, n) = 6
        /\ CoMade(i, n) = 4 * q + (IF i = n THEN 2 ELSE 1) /\ CoKept(i, n) = IF i = n THEN -4 ELSE 2
    <3>1. CoMade(i - 1, n) = m /\ CoKept(i - 1, n) = 6
      <4>1. 3 * p + 3 = i - 1 /\ 3 * p + 3 # n
        BY <1>0, <2>2
      <4> QED
        BY ONLY <2>3, <2>m, <4>1
    <3>2. CoMade(i, n) = 4 * q + (IF i = n THEN 2 ELSE 1) /\ CoKept(i, n) = IF i = n THEN -4 ELSE 2
      BY ONLY <2>2, <2>3, Zenon
    <3> QED
      BY ONLY <3>1, <3>2
  <2>5. shift = 14
    BY <2>4
  <2>6. /\ CoDigit(bits, 14) = a % 64 /\ CoDigit(bits, 8) = d \div 4 /\ CoDigit(bits, 2) = (d % 4) * 16
    BY <1>2 DEF CoSplit
  <2>7. CoSextet(data, 4 * p + 4) = a % 64
    <3>1. PICK b, c : b = CoByte(data, 3 * p + 1) /\ c = CoByte(data, 3 * p + 2)
      OBVIOUS
    <3>2. a = CoByte(data, 3 * p + 3)
      <4>1. i - 1 = 3 * p + 3 /\ i - 1 <= Len(data) /\ a = data[i - 1]
        BY <1>0, <1>1, <2>2
      <4>2. a = CoByte(data, i - 1)
        BY ONLY <4>1 DEF CoByte
      <4> QED
        BY ONLY <4>1, <4>2
    <3> QED
      BY <3>1, <3>2, CoSextets
  <2>8. CoSextet(data, 4 * q + 1) = d \div 4 /\ (i = n => CoSextet(data, 4 * q + 2) = (d % 4) * 16)
    <3>1. PICK b, c : b = CoByte(data, 3 * q + 2) /\ c = CoByte(data, 3 * q + 3)
      OBVIOUS
    <3>2. d = CoByte(data, 3 * q + 1)
      <4>1. i = 3 * q + 1 /\ i <= Len(data) /\ d = data[i]
        BY <1>0, <1>1, <2>2
      <4>2. d = CoByte(data, i)
        BY ONLY <4>1 DEF CoByte
      <4> QED
        BY ONLY <4>1, <4>2
    <3>5. i = n => b = 0
      <4>1. i = n => ~(3 * q + 2 <= Len(data))
        BY <2>2
      <4> QED
        BY <3>1, <4>1 DEF CoByte
    <3>3. CoSextet(data, 4 * q + 1) = d \div 4 /\ CoSextet(data, 4 * q + 2) = (d % 4) * 16 + (b \div 16)
      BY <3>1, <3>2, CoSextets
    <3>4. (d % 4) * 16 + (0 \div 16) = (d % 4) * 16
      OBVIOUS
    <3> QED
      BY <3>3, <3>4, <3>5
  <2>9. /\ CoSextet(data, m + 1) = a % 64 /\ CoSextet(data, m + 2) = d \div 4
        /\ (i = n => CoSextet(data, m + 3) = (d % 4) * 16)
    <3>1. m + 1 = 4 * p + 4 /\ m + 2 = 4 * q + 1 /\ m + 3 = 4 * q + 2
      BY <2>2, <2>m
    <3> QED
      BY <2>7, <2>8, <3>1
  <2>10. CASE i = n
    <3>1. CoRounds(shift, i = n) = 3
      BY <2>5, <2>10, CoRoundsAre
    <3>2. \A k \in 1..3 : CoDigit(bits, 14 - 6 * (k - 1)) = CoSextet(data, m + k)
      <4>1. 14 - 6 = 8 /\ 14 - 12 = 2 /\ 14 \in Int
        OBVIOUS
      <4>2. /\ CoDigit(bits, 14) = CoSextet(data, m + 1)
             /\ CoDigit(bits, 8) = CoSextet(data, m + 2)
             /\ CoDigit(bits, 2) = CoSextet(data, m + 3)
        BY <2>6, <2>9, <2>10
      <4> QED
        BY <4>1, <4>2, CoRoundThree
    <3>3. 14 - 6 * 3 = -4 /\ 3 \in Nat /\ m + 3 = 4 * q + 2
      BY <2>2, <2>m
    <3> QED
      BY <1>3, <2>4, <2>5, <2>10, <3>1, <3>2, <3>3 DEF CoAdds
  <2>11. CASE i # n
    <3>1. CoRounds(shift, i = n) = 2
      BY <2>5, <2>11, CoRoundsAre
    <3>2. \A k \in 1..2 : CoDigit(bits, 14 - 6 * (k - 1)) = CoSextet(data, m + k)
      <4>1. 14 - 6 = 8 /\ 14 - 12 = 2 /\ 14 \in Int
        OBVIOUS
      <4>2. /\ CoDigit(bits, 14) = CoSextet(data, m + 1)
             /\ CoDigit(bits, 8) = CoSextet(data, m + 2)
        BY <2>6, <2>9
      <4> QED
        BY <4>1, <4>2, CoRoundTwo
    <3>3. 14 - 6 * 2 = 2 /\ 2 \in Nat /\ m + 2 = 4 * q + 1
      BY <2>2, <2>m
    <3> QED
      BY <1>3, <2>4, <2>5, <2>11, <3>1, <3>2, <3>3 DEF CoAdds
  <2> QED
    BY <2>10, <2>11
<1>5. CASE r = 2
  <2>2. i - 1 = 3 * q + 1 /\ i = 3 * q + 2
    BY <1>t, <1>5
  <2>m. PICK m \in Nat : m = 4 * q + 1
    OBVIOUS
  <2>3. /\ CoMade(3 * q + 1, n) = 4 * q + (IF 3 * q + 1 = n THEN 2 ELSE 1)
        /\ CoKept(3 * q + 1, n) = IF 3 * q + 1 = n THEN -4 ELSE 2
        /\ CoMade(3 * q + 2, n) = 4 * q + (IF 3 * q + 2 = n THEN 3 ELSE 2)
        /\ CoKept(3 * q + 2, n) = IF 3 * q + 2 = n THEN -2 ELSE 4
    BY CoMadeAre
  <2>4. /\ CoMade(i - 1, n) = m /\ CoKept(i - 1, n) = 2
        /\ CoMade(i, n) = 4 * q + (IF i = n THEN 3 ELSE 2) /\ CoKept(i, n) = IF i = n THEN -2 ELSE 4
    BY <1>0, <2>2, <2>3, <2>m
  <2>5. shift = 10
    BY <2>4
  <2>6. /\ CoDigit(bits, 10) = (a % 4) * 16 + (d \div 16) /\ CoDigit(bits, 4) = (d % 16) * 4
    BY <1>2 DEF CoSplit
  <2>7. PICK c : c = CoByte(data, 3 * q + 3)
    OBVIOUS
  <2>8. a = CoByte(data, 3 * q + 1) /\ d = CoByte(data, 3 * q + 2) /\ (i = n => c = 0)
    BY <1>0, <1>1, <2>2, <2>7 DEF CoByte
  <2>9. /\ CoSextet(data, 4 * q + 2) = (a % 4) * 16 + (d \div 16)
        /\ CoSextet(data, 4 * q + 3) = (d % 16) * 4 + (c \div 64)
    BY <2>7, <2>8, CoSextets
  <2>10. /\ CoSextet(data, m + 1) = (a % 4) * 16 + (d \div 16)
         /\ i = n => CoSextet(data, m + 2) = (d % 16) * 4
    <3>1. m + 1 = 4 * q + 2 /\ m + 2 = 4 * q + 3
      BY <2>m
    <3>2. \A x \in Nat : x + (0 \div 64) = x
      OBVIOUS
    <3>3. (d % 16) * 4 \in Nat
      OBVIOUS
    <3>4. i = n => CoSextet(data, m + 2) = (d % 16) * 4 + (0 \div 64)
      BY <2>8, <2>9, <3>1
    <3>5. CoSextet(data, m + 1) = (a % 4) * 16 + (d \div 16)
      BY <2>9, <3>1
    <3> QED
      BY <3>2, <3>3, <3>4, <3>5
  <2>11. CASE i = n
    <3>1. CoRounds(shift, i = n) = 2
      BY <2>5, <2>11, CoRoundsAre
    <3>2. \A k \in 1..2 : CoDigit(bits, 10 - 6 * (k - 1)) = CoSextet(data, m + k)
      <4>1. 10 - 6 = 4 /\ 10 - 12 = -2 /\ 10 \in Int
        OBVIOUS
      <4>2. /\ CoDigit(bits, 10) = CoSextet(data, m + 1)
             /\ CoDigit(bits, 4) = CoSextet(data, m + 2)
        BY <2>6, <2>10, <2>11
      <4> QED
        BY <4>1, <4>2, CoRoundTwo
    <3>3. 10 - 6 * 2 = -2 /\ 2 \in Nat /\ m + 2 = 4 * q + 3
      BY <2>m
    <3> QED
      BY <1>3, <2>4, <2>5, <2>11, <3>1, <3>2, <3>3 DEF CoAdds
  <2>12. CASE i # n
    <3>1. CoRounds(shift, i = n) = 1
      BY <2>5, <2>12, CoRoundsAre
    <3>2. \A k \in 1..1 : CoDigit(bits, 10 - 6 * (k - 1)) = CoSextet(data, m + k)
      <4>1. 10 - 6 = 4 /\ 10 - 12 = -2 /\ 10 \in Int
        OBVIOUS
      <4>2. CoDigit(bits, 10) = CoSextet(data, m + 1)
        BY <2>6, <2>10
      <4> QED
        BY <4>1, <4>2, CoRoundOne
    <3>3. 10 - 6 * 1 = 4 /\ 1 \in Nat /\ m + 1 = 4 * q + 2
      BY <2>m
    <3> QED
      BY <1>3, <2>4, <2>5, <2>12, <3>1, <3>2, <3>3 DEF CoAdds
  <2> QED
    BY <2>11, <2>12
<1>6. CASE r = 3
  <2>2. i - 1 = 3 * q + 2 /\ i = 3 * q + 3
    BY <1>t, <1>6
  <2>m. PICK m \in Nat : m = 4 * q + 2
    OBVIOUS
  <2>3. /\ CoMade(3 * q + 2, n) = 4 * q + (IF 3 * q + 2 = n THEN 3 ELSE 2)
        /\ CoKept(3 * q + 2, n) = IF 3 * q + 2 = n THEN -2 ELSE 4
        /\ CoMade(3 * q + 3, n) = 4 * q + (IF 3 * q + 3 = n THEN 4 ELSE 3)
        /\ CoKept(3 * q + 3, n) = IF 3 * q + 3 = n THEN 0 ELSE 6
    BY CoMadeAre
  <2>4. /\ CoMade(i - 1, n) = m /\ CoKept(i - 1, n) = 4
        /\ CoMade(i, n) = 4 * q + (IF i = n THEN 4 ELSE 3) /\ CoKept(i, n) = IF i = n THEN 0 ELSE 6
    BY <1>0, <2>2, <2>3, <2>m
  <2>5. shift = 12
    BY <2>4
  <2>6. /\ CoDigit(bits, 12) = (a % 16) * 4 + (d \div 64) /\ CoDigit(bits, 6) = d % 64
    BY <1>2 DEF CoSplit
  <2>7. PICK z : z = CoByte(data, 3 * q + 1)
    OBVIOUS
  <2>8. a = CoByte(data, 3 * q + 2) /\ d = CoByte(data, 3 * q + 3)
    BY <1>0, <1>1, <2>2 DEF CoByte
  <2>9. /\ CoSextet(data, 4 * q + 3) = (a % 16) * 4 + (d \div 64)
        /\ CoSextet(data, 4 * q + 4) = d % 64
    BY <2>7, <2>8, CoSextets
  <2>10. /\ CoSextet(data, m + 1) = (a % 16) * 4 + (d \div 64)
         /\ CoSextet(data, m + 2) = d % 64
    <3>1. m + 1 = 4 * q + 3 /\ m + 2 = 4 * q + 4
      BY <2>m
    <3> QED
      BY <2>9, <3>1
  <2>11. CASE i = n
    <3>1. CoRounds(shift, i = n) = 2
      BY <2>5, <2>11, CoRoundsAre
    <3>2. \A k \in 1..2 : CoDigit(bits, 12 - 6 * (k - 1)) = CoSextet(data, m + k)
      <4>1. 12 - 6 = 6 /\ 12 - 12 = 0 /\ 12 \in Int
        OBVIOUS
      <4>2. /\ CoDigit(bits, 12) = CoSextet(data, m + 1)
             /\ CoDigit(bits, 6) = CoSextet(data, m + 2)
        BY <2>6, <2>10
      <4> QED
        BY <4>1, <4>2, CoRoundTwo
    <3>3. 12 - 6 * 2 = 0 /\ 2 \in Nat /\ m + 2 = 4 * q + 4
      BY <2>m
    <3> QED
      BY <1>3, <2>4, <2>5, <2>11, <3>1, <3>2, <3>3 DEF CoAdds
  <2>12. CASE i # n
    <3>1. CoRounds(shift, i = n) = 1
      BY <2>5, <2>12, CoRoundsAre
    <3>2. \A k \in 1..1 : CoDigit(bits, 12 - 6 * (k - 1)) = CoSextet(data, m + k)
      <4>1. 12 - 6 = 6 /\ 12 - 12 = 0 /\ 12 \in Int
        OBVIOUS
      <4>2. CoDigit(bits, 12) = CoSextet(data, m + 1)
        BY <2>6, <2>10
      <4> QED
        BY <4>1, <4>2, CoRoundOne
    <3>3. 12 - 6 * 1 = 6 /\ 1 \in Nat /\ m + 1 = 4 * q + 3
      BY <2>m
    <3> QED
      BY <1>3, <2>4, <2>5, <2>12, <3>1, <3>2, <3>3 DEF CoAdds
  <2> QED
    BY <2>11, <2>12
<1> QED
  BY <1>4, <1>5, <1>6

LEMMA CoThirds ==
  ASSUME NEW i \in Nat, i # 0
  PROVE  \E q \in Nat, r \in 1..3 : CoThird(i, q, r) /\ i = 3 * q + r
<1>1. (i - 1) \div 3 \in Nat /\ ((i - 1) % 3) + 1 \in 1..3 /\ i = 3 * ((i - 1) \div 3) + ((i - 1) % 3) + 1
  OBVIOUS
<1> QED
  BY <1>1 DEF CoThird

LEMMA CoMadeType ==
  ASSUME NEW i \in Nat, NEW n \in Nat
  PROVE  CoMade(i, n) \in Nat /\ CoKept(i, n) \in Int
<1>1. CASE i = 0
  <2>1. PICK q \in Nat : q = 0
    OBVIOUS
  <2>2. CoMade(0, n) = 0 /\ CoKept(0, n) = 0
    BY CoMadeAre, <2>1
  <2> QED
    BY <1>1, <2>2
<1>2. CASE i # 0
  <2>1. PICK q \in Nat, r \in 1..3 : i = 3 * q + r
    BY <1>2, CoThirds
  <2>2. r = 1 \/ r = 2 \/ r = 3
    OBVIOUS
  <2>3. /\ CoMade(3 * q + 1, n) \in Nat /\ CoKept(3 * q + 1, n) \in Int
        /\ CoMade(3 * q + 2, n) \in Nat /\ CoKept(3 * q + 2, n) \in Int
        /\ CoMade(3 * q + 3, n) \in Nat /\ CoKept(3 * q + 3, n) \in Int
    BY CoMadeAre
  <2> QED
    BY <2>1, <2>2, <2>3
<1> QED
  BY <1>1, <1>2

(* The state of the outer loop after i bytes.                                *)
CoAt(data, n, i) ==
  [bits |-> IF i = 0 THEN 0 ELSE data[i] % 64, shift |-> CoKept(i, n),
   digits |-> [p \in 1..CoMade(i, n) |-> CoSextet(data, p)]]

CoDone(data, n, i, before) ==
  LET bits == before.bits * 256 + data[i]
      shift == before.shift + 8
      rounds == CoRounds(shift, i = n)
  IN [bits |-> bits % 64, shift |-> shift - 6 * rounds,
      digits |-> before.digits \o [k \in 1..rounds |-> CoDigit(bits, shift - 6 * (k - 1))]]

(* The bits that are there when byte i has been taken in.                    *)
CoLoaded(data, i, bits) == bits = (IF i - 1 = 0 THEN 0 ELSE data[i - 1] % 64) * 256 + data[i]

LEMMA CoAddsEach ==
  ASSUME NEW data \in Seq(0..255), NEW n \in Nat, n = Len(data), NEW i \in 1..n,
         NEW bits, CoLoaded(data, i, bits),
         NEW made, made = CoMade(i - 1, n), NEW shift, shift = CoKept(i - 1, n) + 8,
         NEW rounds, rounds = CoTurns(shift, i, n)
  PROVE  CoAdds(data, n, i, made, bits, shift, rounds)
<1>1. \A j \in 1..n : data[j] \in 0..255
  OBVIOUS
<1>2. CASE i = 1
  <2>1. PICK a \in 0..255 : a = 0
    OBVIOUS
  <2>2. PICK d \in 0..255 : d = data[1]
    BY <1>1, <1>2
  <2>3. bits = CoBits(a, d)
    BY <1>2, <2>1, <2>2 DEF CoBits, CoLoaded
  <2>4. CoMade(0, n) = 0 /\ CoKept(0, n) = 0
    <3>1. PICK q \in Nat : q = 0
      OBVIOUS
    <3> QED
      BY <3>1, CoMadeAre
  <2>5. shift = 8 /\ i - 1 = 0 /\ made = 0
    BY <1>2, <2>4
  <2>6. n > 0
    BY <1>2
  <2>7. d = data[1]
    BY <2>2
  <2>8. data \in Seq(0..255) /\ n \in Nat /\ n = Len(data) /\ rounds = CoTurns(shift, i, n)
    OBVIOUS
  <2>9. a \in 0..255 /\ a = 0 /\ d \in 0..255
    BY <2>1, <2>2
  <2> QED
    BY ONLY <1>2, <2>3, <2>5, <2>6, <2>7, <2>8, <2>9, CoAddsFirst, Zenon
<1>3. CASE i # 1
  <2>1. i \in 2..n /\ i - 1 \in 1..n /\ i - 1 # 0
    BY <1>3
  <2>2. PICK a \in 0..255, d \in 0..255 : a = data[i - 1] /\ d = data[i]
    BY <1>1, <2>1
  <2>3. bits = CoBits(a, d)
    BY <2>1, <2>2 DEF CoBits, CoLoaded
  <2>4. PICK q \in Nat, r \in 1..3 : CoThird(i, q, r)
    <3>1. i \in Nat /\ i # 0
      OBVIOUS
    <3> QED
      BY <3>1, CoThirds
  <2>5. /\ data \in Seq(0..255) /\ n \in Nat /\ n = Len(data) /\ rounds = CoTurns(shift, i, n)
        /\ made = CoMade(i - 1, n) /\ shift = CoKept(i - 1, n) + 8
    OBVIOUS
  <2> QED
    BY ONLY <2>1, <2>2, <2>3, <2>4, <2>5, CoAddsNext, Zenon
<1> QED
  BY <1>2, <1>3

LEMMA CoDoneIs ==
  ASSUME NEW data \in Seq(0..255), NEW n \in Nat, n = Len(data), NEW i \in 1..n
  PROVE  CoDone(data, n, i, CoAt(data, n, i - 1)) = CoAt(data, n, i)
<1> DEFINE before == CoAt(data, n, i - 1)
<1>1. PICK bits, shift : bits = before.bits * 256 + data[i] /\ shift = before.shift + 8
  OBVIOUS
<1>2. CoLoaded(data, i, bits) /\ shift = CoKept(i - 1, n) + 8
  BY <1>1 DEF CoAt, CoLoaded
<1>3. PICK rounds : rounds = CoTurns(shift, i, n)
  OBVIOUS
<1>5. PICK m \in Nat : m = CoMade(i - 1, n)
  <2>1. i - 1 \in Nat
    OBVIOUS
  <2> QED
    BY <2>1, CoMadeType
<1>4. CoAdds(data, n, i, m, bits, shift, rounds)
  <2>1. data \in Seq(0..255) /\ n \in Nat /\ n = Len(data) /\ i \in 1..n
    OBVIOUS
  <2> QED
    BY ONLY <1>2, <1>3, <1>5, <2>1, CoAddsEach, Zenon
<1>6. /\ bits % 64 = data[i] % 64 /\ rounds \in Nat /\ shift - 6 * rounds = CoKept(i, n)
      /\ CoMade(i, n) = m + rounds
      /\ \A k \in 1..rounds : CoDigit(bits, shift - 6 * (k - 1)) = CoSextet(data, m + k)
  BY <1>4, <1>5 DEF CoAdds
<1>7. [p \in 1..m |-> CoSextet(data, p)] \o [k \in 1..rounds |-> CoDigit(bits, shift - 6 * (k - 1))]
      = [p \in 1..(m + rounds) |-> CoSextet(data, p)]
  <2> DEFINE f == [p \in 1..(m + rounds) |-> CoSextet(data, p)]
             g == [k \in 1..rounds |-> CoDigit(bits, shift - 6 * (k - 1))]
  <2>1. \A k \in 1..rounds : m + k \in 1..(m + rounds)
    BY <1>6
  <2>2. \A k \in 1..rounds : g[k] = f[m + k]
    BY <1>6, <2>1
  <2>3. \A p \in 1..m : p \in 1..(m + rounds)
    BY <1>6
  <2>4. [p \in 1..m |-> f[p]] = [p \in 1..m |-> CoSextet(data, p)]
    BY <2>3
  <2>5. [p \in 1..(m + rounds) |-> f[p]] = f /\ [k \in 1..rounds |-> g[k]] = g
    OBVIOUS
  <2> HIDE DEF f, g
  <2>6. [p \in 1..m |-> f[p]] \o [k \in 1..rounds |-> g[k]] = [p \in 1..(m + rounds) |-> f[p]]
    BY <1>6, <2>2, CoAppended
  <2>7. [p \in 1..m |-> CoSextet(data, p)] \o g = f
    BY <2>4, <2>5, <2>6
  <2> QED
    BY <2>7 DEF f, g
<1>8. before.digits = [p \in 1..m |-> CoSextet(data, p)]
  BY <1>5 DEF CoAt
<1>9. CoDone(data, n, i, before)
      = [bits |-> bits % 64, shift |-> shift - 6 * rounds,
         digits |-> before.digits \o [k \in 1..rounds |-> CoDigit(bits, shift - 6 * (k - 1))]]
  <2> HIDE DEF before
  <2> QED
    BY <1>1, <1>3 DEF CoDone, CoTurns
<1>10. i # 0
  OBVIOUS
<1> HIDE DEF before
<1>11. CoDone(data, n, i, before)
       = [bits |-> data[i] % 64, shift |-> CoKept(i, n), digits |-> [p \in 1..CoMade(i, n) |-> CoSextet(data, p)]]
  BY <1>6, <1>7, <1>8, <1>9
<1> QED
  BY <1>10, <1>11 DEF CoAt, before

LEMMA CoDigitsIs ==
  ASSUME NEW data \in Seq(0..255), NEW n \in Nat, n = Len(data)
  PROVE  CoDigits(data) = [p \in 1..CoMade(n, n) |-> CoSextet(data, p)]
<1> DEFINE Is(f) == f = [i \in 0..n |-> IF i = 0 THEN [bits |-> 0, shift |-> 0, digits |-> <<>>]
                                        ELSE CoDone(data, n, i, f[i - 1])]
           walk == [i \in 0..n |-> CoAt(data, n, i)]
           at == CHOOSE f : Is(f)
<1>1. CoAt(data, n, 0) = [bits |-> 0, shift |-> 0, digits |-> <<>>]
  <2>1. PICK q \in Nat : q = 0
    OBVIOUS
  <2>2. CoMade(0, n) = 0 /\ CoKept(0, n) = 0
    BY <2>1, CoMadeAre
  <2>3. [p \in 1..0 |-> CoSextet(data, p)] = <<>>
    OBVIOUS
  <2> QED
    BY <2>2, <2>3 DEF CoAt
<1>2. \A i \in 0..n : i # 0 => i \in 1..n /\ i - 1 \in 0..n /\ ~(i <= i - 1)
  OBVIOUS
<1>3. Is(walk)
  <2>1. ASSUME NEW i \in 0..n
        PROVE  CoAt(data, n, i) = IF i = 0 THEN [bits |-> 0, shift |-> 0, digits |-> <<>>]
                                  ELSE CoDone(data, n, i, walk[i - 1])
    <3>1. CASE i = 0
      BY <1>1, <3>1
    <3>2. CASE i # 0
      <4>1. walk[i - 1] = CoAt(data, n, i - 1)
        BY <1>2, <3>2
      <4> HIDE DEF walk
      <4>2. CoDone(data, n, i, walk[i - 1]) = CoAt(data, n, i)
        BY <1>2, <3>2, <4>1, CoDoneIs
      <4> QED
        BY <3>2, <4>2
    <3> QED
      BY <3>1, <3>2
  <2> QED
    BY <2>1
<1>4. Is(at)
  <2> HIDE DEF Is, walk
  <2> QED
    BY <1>3
<1>5. \A i \in 0..n : at[i] = IF i = 0 THEN [bits |-> 0, shift |-> 0, digits |-> <<>>]
                              ELSE CoDone(data, n, i, at[i - 1])
  <2> HIDE DEF at
  <2> QED
    BY <1>4
<1>6. CoDigits(data) = at[n].digits
  BY DEF CoDigits, CoDone
<1> HIDE DEF Is, walk, at
<1>7. \A i \in 0..n : at[i] = CoAt(data, n, i)
  <2> DEFINE S == {i \in 0..n : at[i] # CoAt(data, n, i)}
  <2>a. SUFFICES ASSUME S # {} PROVE FALSE
    OBVIOUS
  <2>1. S \in SUBSET Nat
    OBVIOUS
  <2>2. PICK k \in S : \A j \in S : k <= j
    BY <2>a, <2>1, CnSmallest
  <2>3. k \in 0..n /\ at[k] # CoAt(data, n, k)
    OBVIOUS
  <2>4. k # 0
    BY <1>1, <1>5, <2>3
  <2>5. at[k - 1] = CoAt(data, n, k - 1)
    BY <1>2, <2>2, <2>3, <2>4
  <2>6. at[k] = CoDone(data, n, k, CoAt(data, n, k - 1))
    BY <1>5, <2>3, <2>4, <2>5
  <2> QED
    BY <1>2, <2>3, <2>4, <2>6, CoDoneIs
<1>8. at[n].digits = [p \in 1..CoMade(n, n) |-> CoSextet(data, p)]
  <2>1. at[n] = CoAt(data, n, n)
    BY <1>7
  <2> QED
    BY <2>1 DEF CoAt
<1> QED
  BY <1>6, <1>8

(* How many digits n bytes give.                                             *)
LEMMA CoLengthIs ==
  ASSUME NEW n \in Nat, NEW L, L = CoMade(n, n)
  PROVE  \E q \in Nat : \/ n = 3 * q /\ L = 4 * q
                        \/ n = 3 * q + 1 /\ L = 4 * q + 2
                        \/ n = 3 * q + 2 /\ L = 4 * q + 3
<1>1. CASE n = 0
  <2>1. PICK q \in Nat : q = 0
    OBVIOUS
  <2>2. CoMade(0, n) = 0
    BY CoMadeAre, <2>1
  <2> QED
    BY <1>1, <2>1, <2>2
<1>2. CASE n # 0
  <2>1. PICK q \in Nat, r \in 1..3 : n = 3 * q + r
    BY <1>2, CoThirds
  <2>2. /\ CoMade(3 * q + 1, n) = 4 * q + (IF 3 * q + 1 = n THEN 2 ELSE 1)
        /\ CoMade(3 * q + 2, n) = 4 * q + (IF 3 * q + 2 = n THEN 3 ELSE 2)
        /\ CoMade(3 * q + 3, n) = 4 * q + (IF 3 * q + 3 = n THEN 4 ELSE 3)
    BY CoMadeAre
  <2>3. CASE r = 1
    BY <2>1, <2>2, <2>3
  <2>4. CASE r = 2
    BY <2>1, <2>2, <2>4
  <2>5. CASE r = 3
    <3>1. n = 3 * q + 3 /\ L = 4 * q + 4
      BY <2>1, <2>2, <2>5
    <3>2. q + 1 \in Nat /\ n = 3 * (q + 1) /\ L = 4 * (q + 1)
      BY <3>1
    <3> QED
      BY <3>2
  <2> QED
    BY <2>1, <2>3, <2>4, <2>5
<1> QED
  BY <1>1, <1>2

LEMMA CoByteType ==
  ASSUME NEW data \in Seq(0..255), NEW i \in Nat, i >= 1
  PROVE  CoByte(data, i) \in 0..255
<1>1. CASE i <= Len(data)
  <2>1. i \in 1..Len(data)
    BY <1>1
  <2>2. data[i] \in 0..255
    BY <2>1, ElementOfSeq
  <2> QED
    BY <1>1, <2>2 DEF CoByte
<1>2. CASE ~(i <= Len(data))
  BY <1>2 DEF CoByte
<1> QED
  BY <1>1, <1>2

LEMMA CoSextetType ==
  ASSUME NEW data \in Seq(0..255), NEW p \in Nat, p >= 1
  PROVE  CoSextet(data, p) \in 0..63
<1>1. PICK q \in Nat, r \in 0..3 : q = (p - 1) \div 4 /\ r = (p - 1) % 4
  OBVIOUS
<1>2. PICK a \in 0..255, b \in 0..255, c \in 0..255 :
        a = CoByte(data, 3 * q + 1) /\ b = CoByte(data, 3 * q + 2) /\ c = CoByte(data, 3 * q + 3)
  <2>1. 3 * q + 1 \in Nat /\ 3 * q + 1 >= 1 /\ 3 * q + 2 \in Nat /\ 3 * q + 2 >= 1
        /\ 3 * q + 3 \in Nat /\ 3 * q + 3 >= 1
    OBVIOUS
  <2> QED
    BY <2>1, CoByteType
<1>3. /\ a \div 4 \in 0..63 /\ (a % 4) * 16 + (b \div 16) \in 0..63
      /\ (b % 16) * 4 + (c \div 64) \in 0..63 /\ c % 64 \in 0..63
  OBVIOUS
<1>4. CoSextet(data, p) = CoPart(r, a, b, c)
  BY <1>1, <1>2 DEF CoSextet, CoGroup
<1> QED
  BY <1>3, <1>4 DEF CoPart

(* The encoded text: the digits, then '='.                                   *)
CoTextIs(data, n, L, text) ==
  /\ Len(text) + 1 = CoOutSize(n) /\ L <= Len(text) /\ Len(text) <= L + 2
  /\ \A i \in 1..L : text[i] = CoSextet(data, i) /\ text[i] # CoPad
  /\ \A i \in 1..Len(text) : i > L => text[i] = CoPad
  /\ text \in Seq(Nat)

LEMMA CoEncodeIs ==
  ASSUME NEW data \in Seq(0..255), NEW n \in Nat, n = Len(data), NEW L, L = CoMade(n, n)
  PROVE  L \in Nat /\ CoTextIs(data, n, L, CoEncode(data))
<1> DEFINE digits == CoDigits(data)
           rest == [i \in 1..((-Len(digits)) % 4) |-> CoPad]
<1>1. L \in Nat
  BY CoMadeType
<1>2. digits = [p \in 1..L |-> CoSextet(data, p)]
  BY CoDigitsIs
<1>3. \A p \in 1..L : CoSextet(data, p) \in 0..63
  <2> SUFFICES ASSUME NEW p \in 1..L PROVE CoSextet(data, p) \in 0..63
    OBVIOUS
  <2>1. p \in Nat /\ p >= 1
    OBVIOUS
  <2> QED
    BY <2>1, CoSextetType
<1>4. digits \in Seq(Nat) /\ Len(digits) = L
  BY <1>1, <1>2, <1>3
<1>5. PICK e \in 0..3 : e = (-L) % 4
  BY <1>1
<1>6. rest \in Seq(Nat) /\ Len(rest) = e /\ \A i \in 1..e : rest[i] = CoPad
  <2>1. rest = [i \in 1..e |-> CoPad]
    BY <1>4, <1>5
  <2>2. CoPad \in Nat
    BY DEF CoPad
  <2> HIDE DEF rest
  <2> QED
    BY <2>1, <2>2
<1>7. CoEncode(data) = digits \o rest
  BY DEF CoEncode, CoPadded
<1>8. L + e + 1 = CoOutSize(n) /\ e <= 2
  <2>1. PICK q \in Nat : \/ n = 3 * q /\ L = 4 * q
                         \/ n = 3 * q + 1 /\ L = 4 * q + 2
                         \/ n = 3 * q + 2 /\ L = 4 * q + 3
    BY CoLengthIs
  <2>2. CASE n = 3 * q /\ L = 4 * q
    <3>1. e = 0 /\ (n + 2) \div 3 = q
      BY <1>5, <2>2
    <3> QED
      BY <2>2, <3>1 DEF CoOutSize
  <2>3. CASE n = 3 * q + 1 /\ L = 4 * q + 2
    <3>1. e = 2 /\ (n + 2) \div 3 = q + 1
      BY <1>5, <2>3
    <3> QED
      BY <2>3, <3>1 DEF CoOutSize
  <2>4. CASE n = 3 * q + 2 /\ L = 4 * q + 3
    <3>1. e = 1 /\ (n + 2) \div 3 = q + 1
      BY <1>5, <2>4
    <3> QED
      BY <2>4, <3>1 DEF CoOutSize
  <2> QED
    BY <2>1, <2>2, <2>3, <2>4
<1> HIDE DEF rest, digits
<1>9. /\ digits \o rest \in Seq(Nat) /\ Len(digits \o rest) = L + e
      /\ \A i \in 1..L : (digits \o rest)[i] = digits[i]
      /\ \A i \in 1..(L + e) : i > L => (digits \o rest)[i] = rest[i - L]
  BY <1>1, <1>4, <1>6
<1>10. \A i \in 1..L : digits[i] = CoSextet(data, i) /\ digits[i] # CoPad
  <2>1. \A x \in 0..63 : x # CoPad
    BY DEF CoPad
  <2> QED
    BY <1>2, <1>3, <2>1
<1>11. \A i \in 1..(L + e) : i > L => i - L \in 1..e
  BY <1>1
<1>12. PICK text \in Seq(Nat) : text = digits \o rest
  BY <1>9
<1>13. /\ Len(text) = L + e /\ \A i \in 1..L : text[i] = CoSextet(data, i) /\ text[i] # CoPad
       /\ \A i \in 1..(L + e) : i > L => text[i] = CoPad
  BY <1>6, <1>9, <1>10, <1>11, <1>12
<1>14. CoTextIs(data, n, L, text)
  BY <1>1, <1>8, <1>13 DEF CoTextIs
<1> QED
  BY <1>1, <1>7, <1>12, <1>14

LEMMA CoFitsIs ==
  ASSUME coData \in Seq(0..255)
  PROVE  CoFits
<1>1. PICK n, L, text : n \in Nat /\ n = Len(coData) /\ L = CoMade(n, n) /\ text = CoEncode(coData)
  OBVIOUS
<1>2. L \in Nat /\ CoTextIs(coData, n, L, text)
  BY <1>1, CoEncodeIs
<1>3. Len(text) + 1 = CoOutSize(n) /\ \A i \in 1..Len(text) : text[i] = CoPad => i > Len(text) - 2
  BY <1>2 DEF CoTextIs
<1>4. DOMAIN text = 1..Len(text)
  BY <1>2 DEF CoTextIs
<1> QED
  BY <1>1, <1>3, <1>4 DEF CoFits

(* The bytes that i digits make.                                             *)
CoWhole(i) == i - ((i + 3) \div 4)
CoSmaller(a, b) == IF a <= b THEN a ELSE b

LEMMA CoWholeIs ==
  ASSUME NEW i \in Nat, i # 0
  PROVE  /\ CoWhole(i) \in Nat /\ CoWhole(i - 1) \in Nat
         /\ (i - 1) % 4 = 0 => CoWhole(i) = CoWhole(i - 1)
         /\ (i - 1) % 4 # 0 => CoWhole(i) = CoWhole(i - 1) + 1
<1>1. PICK q \in Nat, r \in 0..3 : q = (i - 1) \div 4 /\ r = (i - 1) % 4 /\ i = 4 * q + r + 1
  <2>1. (i - 1) \div 4 \in Nat /\ (i - 1) % 4 \in 0..3 /\ i = 4 * ((i - 1) \div 4) + ((i - 1) % 4) + 1
    OBVIOUS
  <2> QED
    BY <2>1
<1>2. CASE r = 0
  <2>1. (i + 3) \div 4 = q + 1 /\ (i - 1 + 3) \div 4 = q
    BY <1>1, <1>2
  <2> QED
    BY <1>1, <1>2, <2>1 DEF CoWhole
<1>3. CASE r # 0
  <2>1. (i + 3) \div 4 = q + 1 /\ (i - 1 + 3) \div 4 = q + 1
    BY <1>1, <1>3
  <2> QED
    BY <1>1, <1>3, <2>1 DEF CoWhole
<1> QED
  BY <1>2, <1>3

(* A digit but the first of four, and the one before it, make the next byte. *)
LEMMA CoByteMade ==
  ASSUME NEW data \in Seq(0..255), NEW i \in Nat, i # 0, (i - 1) % 4 # 0,
         NEW w, w = CoWhole(i), w <= Len(data), NEW x, x = CoSextet(data, i - 1), NEW y, y = CoSextet(data, i)
  PROVE  ((x * 64 + y) \div CoPowers[7 - 2 * ((i - 1) % 4)]) % 256 = data[w] /\ w \in 1..Len(data)
<1>1. PICK q \in Nat, r \in 1..3 : r = (i - 1) % 4 /\ i = 4 * q + r + 1
  <2>1. (i - 1) \div 4 \in Nat /\ (i - 1) % 4 \in 1..3 /\ i = 4 * ((i - 1) \div 4) + ((i - 1) % 4) + 1
    OBVIOUS
  <2> QED
    BY <2>1
<1>2. w = 3 * q + r
  <2>1. (i + 3) \div 4 = q + 1
    BY <1>1
  <2> QED
    BY <1>1, <2>1 DEF CoWhole
<1>3. w \in 1..Len(data) /\ data[w] = CoByte(data, w)
  <2>1. w \in Nat /\ 1 <= w
    BY <1>2
  <2> QED
    BY <2>1 DEF CoByte
<1>4. PICK a \in 0..255, b \in 0..255, c \in 0..255 :
        a = CoByte(data, 3 * q + 1) /\ b = CoByte(data, 3 * q + 2) /\ c = CoByte(data, 3 * q + 3)
  <2>1. 3 * q + 1 \in Nat /\ 3 * q + 1 >= 1 /\ 3 * q + 2 \in Nat /\ 3 * q + 2 >= 1
        /\ 3 * q + 3 \in Nat /\ 3 * q + 3 >= 1
    OBVIOUS
  <2> QED
    BY <2>1, CoByteType
<1>5. /\ CoSextet(data, 4 * q + 1) = a \div 4
      /\ CoSextet(data, 4 * q + 2) = (a % 4) * 16 + (b \div 16)
      /\ CoSextet(data, 4 * q + 3) = (b % 16) * 4 + (c \div 64)
      /\ CoSextet(data, 4 * q + 4) = c % 64
  BY <1>4, CoSextets
<1>6. /\ (((a \div 4) * 64 + ((a % 4) * 16 + (b \div 16))) \div 16) % 256 = a
      /\ ((((a % 4) * 16 + (b \div 16)) * 64 + ((b % 16) * 4 + (c \div 64))) \div 4) % 256 = b
      /\ ((((b % 16) * 4 + (c \div 64)) * 64 + (c % 64)) \div 1) % 256 = c
  <2>1. a \in 0..255 /\ b \in 0..255 /\ c \in 0..255
    OBVIOUS
  <2>2. (((a \div 4) * 64 + ((a % 4) * 16 + (b \div 16))) \div 16) % 256 = a
    BY ONLY <2>1
  <2>3. ((((a % 4) * 16 + (b \div 16)) * 64 + ((b % 16) * 4 + (c \div 64))) \div 4) % 256 = b
    BY ONLY <2>1
  <2>4. ((((b % 16) * 4 + (c \div 64)) * 64 + (c % 64)) \div 1) % 256 = c
    BY ONLY <2>1
  <2> QED
    BY ONLY <2>2, <2>3, <2>4
<1>7. CoPowers[5] = 16 /\ CoPowers[3] = 4 /\ CoPowers[1] = 1
  BY DEF CoPowers
<1>8. CASE r = 1
  <2>1. i - 1 = 4 * q + 1 /\ i = 4 * q + 2 /\ w = 3 * q + 1 /\ 7 - 2 * ((i - 1) % 4) = 5
    BY <1>1, <1>2, <1>8
  <2>2. x = a \div 4 /\ y = (a % 4) * 16 + (b \div 16) /\ data[w] = a
    BY <1>3, <1>4, <1>5, <2>1
  <2>3. CoPowers[7 - 2 * ((i - 1) % 4)] = 16
    BY ONLY <1>7, <2>1
  <2>4. ((x * 64 + y) \div 16) % 256 = data[w]
    BY ONLY <1>6, <2>2, Zenon
  <2> QED
    BY ONLY <1>3, <2>3, <2>4, Zenon
<1>9. CASE r = 2
  <2>1. i - 1 = 4 * q + 2 /\ i = 4 * q + 3 /\ w = 3 * q + 2 /\ 7 - 2 * ((i - 1) % 4) = 3
    BY <1>1, <1>2, <1>9
  <2>2. x = (a % 4) * 16 + (b \div 16) /\ y = (b % 16) * 4 + (c \div 64) /\ data[w] = b
    BY <1>3, <1>4, <1>5, <2>1
  <2>3. CoPowers[7 - 2 * ((i - 1) % 4)] = 4
    BY ONLY <1>7, <2>1
  <2>4. ((x * 64 + y) \div 4) % 256 = data[w]
    BY ONLY <1>6, <2>2, Zenon
  <2> QED
    BY ONLY <1>3, <2>3, <2>4, Zenon
<1>10. CASE r = 3
  <2>1. i - 1 = 4 * q + 3 /\ i = 4 * q + 4 /\ w = 3 * q + 3 /\ 7 - 2 * ((i - 1) % 4) = 1
    BY <1>1, <1>2, <1>10
  <2>2. x = (b % 16) * 4 + (c \div 64) /\ y = c % 64 /\ data[w] = c
    BY <1>3, <1>4, <1>5, <2>1
  <2>3. CoPowers[7 - 2 * ((i - 1) % 4)] = 1
    BY ONLY <1>7, <2>1
  <2>4. ((x * 64 + y) \div 1) % 256 = data[w]
    BY ONLY <1>6, <2>2, Zenon
  <2> QED
    BY ONLY <1>3, <2>3, <2>4, Zenon
<1> QED
  BY <1>8, <1>9, <1>10

(* The first m bytes; one more.                                              *)
CoFirst(data, m) == [j \in 1..m |-> data[j]]

LEMMA CoFirstNext ==
  ASSUME NEW data, NEW m \in Nat
  PROVE  Append(CoFirst(data, m), data[m + 1]) = CoFirst(data, m + 1) /\ Len(CoFirst(data, m)) = m
<1>1. Len(CoFirst(data, m)) = m /\ DOMAIN CoFirst(data, m) = 1..m /\ \A j \in 1..m : CoFirst(data, m)[j] = data[j]
  BY DEF CoFirst
<1>2. CoFirst(data, m) \in Seq({data[j] : j \in 1..m})
  BY DEF CoFirst
<1>3. Append(CoFirst(data, m), data[m + 1])
      = [j \in 1..(m + 1) |-> IF j = m + 1 THEN data[m + 1] ELSE CoFirst(data, m)[j]]
  BY <1>1, <1>2
<1>4. \A j \in 1..(m + 1) : (IF j = m + 1 THEN data[m + 1] ELSE CoFirst(data, m)[j]) = data[j]
  BY <1>1
<1> QED
  BY <1>1, <1>3, <1>4 DEF CoFirst

(* decode: after i digits, the bytes they make, as many as fit.              *)
CoTake(text, size, i, before) ==
  LET Digit(j) == IF text[j] = CoPad THEN 0 ELSE text[j]
  IN IF (i - 1) % 4 # 0 /\ Len(before) < size
     THEN Append(before, ((Digit(i - 1) * 64 + Digit(i)) \div CoPowers[7 - 2 * ((i - 1) % 4)]) % 256)
     ELSE before

LEMMA CoTakeIs ==
  ASSUME NEW data \in Seq(0..255), NEW text, NEW L \in Nat, NEW size \in Nat,
         \A j \in 1..L : text[j] = CoSextet(data, j) /\ text[j] # CoPad,
         NEW i \in 1..L, CoWhole(i) <= Len(data)
  PROVE  CoTake(text, size, i, CoFirst(data, CoSmaller(size, CoWhole(i - 1))))
         = CoFirst(data, CoSmaller(size, CoWhole(i)))
<1>1. i \in Nat /\ i # 0
  OBVIOUS
<1>2. PICK v \in Nat, w \in Nat :
        /\ v = CoWhole(i - 1) /\ w = CoWhole(i)
        /\ (i - 1) % 4 = 0 => w = v
        /\ (i - 1) % 4 # 0 => w = v + 1
  BY <1>1, CoWholeIs
<1>3. PICK m \in Nat : m = CoSmaller(size, v)
  BY DEF CoSmaller
<1>4. Len(CoFirst(data, m)) = m
  BY CoFirstNext
<1>5. CASE (i - 1) % 4 = 0
  <2>1. CoTake(text, size, i, CoFirst(data, m)) = CoFirst(data, m)
    BY <1>5 DEF CoTake
  <2> QED
    BY <1>2, <1>3, <1>5, <2>1
<1>6. CASE (i - 1) % 4 # 0 /\ ~(m < size)
  <2>1. CoTake(text, size, i, CoFirst(data, m)) = CoFirst(data, m)
    BY <1>4, <1>6 DEF CoTake
  <2>2. m = size /\ CoSmaller(size, w) = size
    BY <1>2, <1>3, <1>6 DEF CoSmaller
  <2> QED
    BY <1>2, <1>3, <2>1, <2>2
<1>7. CASE (i - 1) % 4 # 0 /\ m < size
  <2>1. m = v /\ w = m + 1 /\ CoSmaller(size, w) = m + 1
    BY <1>2, <1>3, <1>7 DEF CoSmaller
  <2>2. i - 1 \in 1..L
    BY <1>7
  <2>3. PICK x, y : x = CoSextet(data, i - 1) /\ y = CoSextet(data, i)
    OBVIOUS
  <2>4. text[i - 1] = x /\ text[i - 1] # CoPad /\ text[i] = y /\ text[i] # CoPad
    BY <2>2, <2>3
  <2>5. ((x * 64 + y) \div CoPowers[7 - 2 * ((i - 1) % 4)]) % 256 = data[w]
    BY <1>1, <1>2, <1>7, <2>3, CoByteMade
  <2>6. CoTake(text, size, i, CoFirst(data, m))
        = Append(CoFirst(data, m), ((x * 64 + y) \div CoPowers[7 - 2 * ((i - 1) % 4)]) % 256)
    BY <1>4, <1>7, <2>4 DEF CoTake
  <2>7. Append(CoFirst(data, m), data[m + 1]) = CoFirst(data, m + 1)
    BY CoFirstNext
  <2>8. CoTake(text, size, i, CoFirst(data, m)) = CoFirst(data, m + 1)
    BY <2>1, <2>5, <2>6, <2>7
  <2> QED
    BY <1>2, <1>3, <2>1, <2>8
<1> QED
  BY <1>5, <1>6, <1>7

LEMMA CoBytesOfIs ==
  ASSUME NEW data \in Seq(0..255), NEW text, NEW L \in Nat, NEW size \in Nat,
         \A j \in 1..L : text[j] = CoSextet(data, j) /\ text[j] # CoPad,
         \A i \in 1..L : CoWhole(i) <= Len(data)
  PROVE  CoBytesOf(text, L, size) = CoFirst(data, CoSmaller(size, CoWhole(L)))
<1> DEFINE Is(f) == f = [i \in 0..L |-> IF i = 0 THEN <<>> ELSE CoTake(text, size, i, f[i - 1])]
           walk == [i \in 0..L |-> CoFirst(data, CoSmaller(size, CoWhole(i)))]
           at == CHOOSE f : Is(f)
<1>1. CoFirst(data, CoSmaller(size, CoWhole(0))) = <<>>
  <2>1. PICK z \in Nat : z = 0
    OBVIOUS
  <2>2. CoWhole(z) = 0
    BY <2>1 DEF CoWhole
  <2>3. CoSmaller(size, 0) = 0
    BY DEF CoSmaller
  <2>4. CoFirst(data, 0) = <<>>
    BY DEF CoFirst
  <2> QED
    BY <2>1, <2>2, <2>3, <2>4
<1>2. \A i \in 0..L : i # 0 => i \in 1..L /\ i - 1 \in 0..L /\ ~(i <= i - 1)
  OBVIOUS
<1>3. Is(walk)
  <2>1. ASSUME NEW i \in 0..L
        PROVE  CoFirst(data, CoSmaller(size, CoWhole(i)))
               = IF i = 0 THEN <<>> ELSE CoTake(text, size, i, walk[i - 1])
    <3>1. CASE i = 0
      BY <1>1, <3>1
    <3>2. CASE i # 0
      <4>1. walk[i - 1] = CoFirst(data, CoSmaller(size, CoWhole(i - 1)))
        BY <1>2, <3>2
      <4> HIDE DEF walk
      <4>2. i \in 1..L /\ CoWhole(i) <= Len(data)
        BY <1>2, <3>2
      <4>3. CoTake(text, size, i, CoFirst(data, CoSmaller(size, CoWhole(i - 1))))
            = CoFirst(data, CoSmaller(size, CoWhole(i)))
        BY <4>2, CoTakeIs
      <4> QED
        BY <3>2, <4>1, <4>3
    <3> QED
      BY <3>1, <3>2
  <2> QED
    BY <2>1
<1>4. Is(at)
  <2> HIDE DEF Is, walk
  <2> QED
    BY <1>3
<1>5. \A i \in 0..L : at[i] = IF i = 0 THEN <<>> ELSE CoTake(text, size, i, at[i - 1])
  <2> HIDE DEF at
  <2> QED
    BY <1>4
<1>6. CoBytesOf(text, L, size) = at[L]
  BY DEF CoBytesOf, CoTake
<1> HIDE DEF Is, walk, at
<1>7. \A i \in 0..L : at[i] = CoFirst(data, CoSmaller(size, CoWhole(i)))
  <2> DEFINE S == {i \in 0..L : at[i] # CoFirst(data, CoSmaller(size, CoWhole(i)))}
  <2>a. SUFFICES ASSUME S # {} PROVE FALSE
    OBVIOUS
  <2>1. S \in SUBSET Nat
    OBVIOUS
  <2>2. PICK k \in S : \A j \in S : k <= j
    BY <2>a, <2>1, CnSmallest
  <2>3. k \in 0..L /\ at[k] # CoFirst(data, CoSmaller(size, CoWhole(k)))
    OBVIOUS
  <2>4. k # 0
    BY <1>1, <1>5, <2>3
  <2>5. at[k - 1] = CoFirst(data, CoSmaller(size, CoWhole(k - 1)))
    BY <1>2, <2>2, <2>3, <2>4
  <2>6. at[k] = CoTake(text, size, k, at[k - 1])
    BY <1>5, <2>3, <2>4
  <2>7. k \in 1..L /\ CoWhole(k) <= Len(data)
    BY <1>2, <2>3, <2>4
  <2>8. CoTake(text, size, k, CoFirst(data, CoSmaller(size, CoWhole(k - 1))))
        = CoFirst(data, CoSmaller(size, CoWhole(k)))
    BY <2>7, CoTakeIs
  <2> QED
    BY <2>3, <2>5, <2>6, <2>8
<1> QED
  BY <1>6, <1>7

(* What the length of the data and that of their digits have to do with each other. *)
LEMMA CoWholeFits ==
  ASSUME NEW n \in Nat, NEW L, L = CoMade(n, n)
  PROVE  L \in Nat /\ CoWhole(L) = n /\ \A i \in 1..L : CoWhole(i) <= n
<1>1. PICK q \in Nat : \/ n = 3 * q /\ L = 4 * q
                       \/ n = 3 * q + 1 /\ L = 4 * q + 2
                       \/ n = 3 * q + 2 /\ L = 4 * q + 3
  BY CoLengthIs
<1>2. L \in Nat
  BY <1>1
<1>3. CoWhole(L) = n
  <2>1. L + 3 = 4 * q + 3 => (L + 3) \div 4 = q
    OBVIOUS
  <2>2. L + 3 = 4 * q + 5 => (L + 3) \div 4 = q + 1
    OBVIOUS
  <2>3. L + 3 = 4 * q + 6 => (L + 3) \div 4 = q + 1
    OBVIOUS
  <2> QED
    BY <1>1, <2>1, <2>2, <2>3 DEF CoWhole
<1>4. ASSUME NEW i \in 1..L PROVE CoWhole(i) <= CoWhole(L)
  BY <1>2 DEF CoWhole
<1> QED
  BY <1>2, <1>3, <1>4

LEMMA CoDecodeIs ==
  ASSUME NEW data \in Seq(0..255), NEW size \in Nat
  PROVE  CoDecode(CoEncode(data), size) = CoFirst(data, CoSmaller(size, Len(data)))
<1>1. PICK n, L, text : n \in Nat /\ n = Len(data) /\ L = CoMade(n, n) /\ text = CoEncode(data)
  OBVIOUS
<1>2. L \in Nat /\ CoTextIs(data, n, L, text)
  BY <1>1, CoEncodeIs
<1>3. CoWhole(L) = n /\ \A i \in 1..L : CoWhole(i) <= n
  BY <1>1, CoWholeFits
<1> DEFINE ends == {i \in 1..(Len(text) + 1) : i = Len(text) + 1 \/ text[i] = CoPad}
<1>4. Min(ends) = L + 1
  <2>1. Len(text) \in Nat /\ L <= Len(text)
    BY <1>2 DEF CoTextIs
  <2>2. L + 1 \in 1..(Len(text) + 1)
    BY <1>2, <2>1
  <2>3. L + 1 = Len(text) + 1 \/ text[L + 1] = CoPad
    <3>1. CASE L + 1 <= Len(text)
      <4>1. L + 1 \in 1..Len(text) /\ L + 1 > L
        BY <1>2, <3>1
      <4> QED
        BY <1>2, <4>1 DEF CoTextIs
    <3>2. CASE ~(L + 1 <= Len(text))
      BY <1>2, <2>1, <3>2
    <3> QED
      BY <3>1, <3>2
  <2>4. L + 1 \in ends
    BY <2>2, <2>3
  <2>5. ASSUME NEW y \in ends PROVE L + 1 <= y
    <3>1. SUFFICES ASSUME y <= L PROVE FALSE
      BY <1>2, <2>1
    <3>2. y \in 1..L /\ y # Len(text) + 1
      BY <1>2, <2>1, <3>1
    <3>3. text[y] # CoPad
      BY <1>2, <3>2 DEF CoTextIs
    <3> QED
      BY <3>2, <3>3
  <2>6. ends \in SUBSET Int
    OBVIOUS
  <2> HIDE DEF ends
  <2> QED
    BY <2>4, <2>5, <2>6, CoLeastIs
<1>5. CoDecode(text, size) = CoBytesOf(text, L, size)
  <2>1. CoDecode(text, size) = CoBytesOf(text, Min(ends) - 1, size)
    BY DEF CoDecode
  <2>2. Min(ends) - 1 = L
    BY <1>2, <1>4
  <2> QED
    BY <2>1, <2>2
<1>6. \A j \in 1..L : text[j] = CoSextet(data, j) /\ text[j] # CoPad
  BY <1>2 DEF CoTextIs
<1>7. CoBytesOf(text, L, size) = CoFirst(data, CoSmaller(size, CoWhole(L)))
  <2>1. \A i \in 1..L : CoWhole(i) <= Len(data)
    BY <1>1, <1>3
  <2> QED
    BY <1>2, <1>6, <2>1, CoBytesOfIs
<1> QED
  BY <1>1, <1>3, <1>5, <1>7

LEMMA CoRoundTripIs ==
  ASSUME coData \in Seq(0..255)
  PROVE  CoRoundTrip
<1>1. SUFFICES ASSUME NEW size \in 0..(Len(coData) + 1)
               PROVE  CoDecode(CoEncode(coData), size) = SubSeq(coData, 1, Min({size, Len(coData)}))
  BY DEF CoRoundTrip
<1>2. PICK n \in Nat, m \in Nat : n = Len(coData) /\ m = CoSmaller(size, n) /\ m <= n
  BY DEF CoSmaller
<1>3. Min({size, n}) = m
  <2>1. {size, n} \in SUBSET Int /\ m \in {size, n} /\ \A y \in {size, n} : m <= y
    BY <1>2 DEF CoSmaller
  <2> QED
    BY <2>1, CoLeastIs
<1>4. SubSeq(coData, 1, m) = CoFirst(coData, m)
  BY <1>2 DEF CoFirst
<1>5. CoDecode(CoEncode(coData), size) = CoFirst(coData, CoSmaller(size, n))
  <2>1. size \in Nat
    OBVIOUS
  <2> QED
    BY <1>2, <2>1, CoDecodeIs
<1> QED
  BY <1>2, <1>3, <1>4, <1>5

-----------------------------------------------------------------------------
(* Percent encoding (Codings)                                                *)

CoOut == {c \in Nat : CoUnreserved(c) \/ c = 37}
CoBlank(c) == IF CoSpace(c) THEN 32 ELSE c

(* What one byte becomes.                                                    *)
LEMMA CoEscapeIs ==
  ASSUME NEW c \in 0..255
  PROVE  \/ /\ CoEscape(c) = <<c>> /\ c \in CoOut /\ c # 37 /\ c # 43 /\ CoBlank(c) = c
         \/ \E d \in CoOut, e \in CoOut :
              /\ CoEscape(c) = <<37, d, e>>
              /\ (CoUnhex(d) * 16 + CoUnhex(e)) % 256 = CoBlank(c)
<1>1. CASE CoUnreserved(c)
  <2>1. c \in CoOut
    BY <1>1 DEF CoOut
  <2>2. c # 37 /\ c # 43 /\ ~CoSpace(c)
    BY <1>1 DEF CoUnreserved, CoAlnum, CoSpace
  <2> QED
    BY <1>1, <2>1, <2>2 DEF CoEscape, CoBlank
<1>2. CASE ~CoUnreserved(c) /\ CoSpace(c)
  <2>1. 50 \in CoOut /\ 48 \in CoOut
    BY DEF CoOut, CoUnreserved, CoAlnum
  <2>2. (CoUnhex(50) * 16 + CoUnhex(48)) % 256 = 32
    BY DEF CoUnhex
  <2> QED
    BY <1>2, <2>1, <2>2 DEF CoEscape, CoBlank
<1>3. CASE ~CoUnreserved(c) /\ ~CoSpace(c)
  <2>1. PICK x \in 0..15, y \in 0..15 : x = c \div 16 /\ y = c % 16 /\ (x * 16 + y) % 256 = c
    <3>1. c \div 16 \in 0..15 /\ c % 16 \in 0..15 /\ ((c \div 16) * 16 + (c % 16)) % 256 = c
      OBVIOUS
    <3> QED
      BY <3>1
  <2>2. ASSUME NEW z \in 0..15
        PROVE  CoHex(z) \in CoOut /\ CoUnhex(CoHex(z)) = z
    <3>1. CASE z <= 9
      <4>1. CoHex(z) = 48 + z /\ CoHex(z) \in 48..57
        BY <3>1 DEF CoHex
      <4> QED
        BY <4>1 DEF CoOut, CoUnreserved, CoAlnum, CoUnhex
    <3>2. CASE ~(z <= 9)
      <4>1. CoHex(z) = 55 + z /\ CoHex(z) \in 65..70
        BY <3>2 DEF CoHex
      <4> QED
        BY <4>1 DEF CoOut, CoUnreserved, CoAlnum, CoUnhex
    <3> QED
      BY <3>1, <3>2
  <2>3. CoEscape(c) = <<37, CoHex(x), CoHex(y)>>
    BY <1>3, <2>1 DEF CoEscape
  <2>4. (CoUnhex(CoHex(x)) * 16 + CoUnhex(CoHex(y))) % 256 = CoBlank(c)
    BY <1>3, <2>1, <2>2 DEF CoBlank
  <2>5. CoHex(x) \in CoOut /\ CoHex(y) \in CoOut
    BY <2>2
  <2> QED
    BY <2>3, <2>4, <2>5
<1> QED
  BY <1>1, <1>2, <1>3

LEMMA CoEscapeType ==
  ASSUME NEW c \in 0..255
  PROVE  CoEscape(c) \in Seq(CoOut)
<1>1. 37 \in CoOut
  BY DEF CoOut
<1>2. CASE CoEscape(c) = <<c>> /\ c \in CoOut
  BY <1>2
<1>3. CASE \E d \in CoOut, e \in CoOut : CoEscape(c) = <<37, d, e>>
  BY <1>1, <1>3
<1> QED
  BY <1>2, <1>3, CoEscapeIs

(* encode, byte by byte.                                                     *)
CoDest(data, D) ==
  /\ D \in [0..Len(data) -> Seq(CoOut)] /\ D[0] = <<>>
  /\ \A i \in 1..Len(data) : D[i] = D[i - 1] \o CoEscape(data[i])

LEMMA CoPercentIs ==
  ASSUME NEW data \in Seq(0..255)
  PROVE  \E D : CoDest(data, D) /\ CoPercent(data) = D[Len(data)]
<1> DEFINE n == Len(data)
           Step(f, i) == IF i = 0 THEN <<>> ELSE f[i - 1] \o CoEscape(data[i])
           Is(f, k) == f \in [0..n -> Seq(CoOut)] /\ \A i \in 0..k : f[i] = Step(f, i)
           bad == {k \in 0..n : ~\E f : Is(f, k)}
           D == CHOOSE f : f = [i \in 0..n |-> Step(f, i)]
<1>1. n \in Nat
  OBVIOUS
<1>2. bad = {}
  <2>a. SUFFICES ASSUME bad # {} PROVE FALSE
    OBVIOUS
  <2>1. bad \in SUBSET Nat
    OBVIOUS
  <2>2. PICK k \in bad : \A j \in bad : k <= j
    <3> HIDE DEF bad
    <3> QED
      BY <2>a, <2>1, CnSmallest
  <2>3. k \in 0..n /\ ~\E f : Is(f, k)
    OBVIOUS
  <2>4. CASE k = 0
    <3> DEFINE f == [i \in 0..n |-> <<>>]
    <3>1. f \in [0..n -> Seq(CoOut)] /\ f[0] = <<>>
      OBVIOUS
    <3>2. \A i \in 0..0 : i = 0
      OBVIOUS
    <3>3. Is(f, 0)
      <4> HIDE DEF f
      <4> QED
        BY <3>1, <3>2
    <3> QED
      BY <2>3, <2>4, <3>3
  <2>5. CASE k # 0
    <3>1. k - 1 \in 0..n /\ ~(k <= k - 1) /\ k \in 1..n
      BY <2>3, <2>5
    <3>2. k - 1 \notin bad
      BY <2>2, <3>1
    <3>3. \E f : Is(f, k - 1)
      BY <3>1, <3>2
    <3> HIDE DEF bad
    <3>4. PICK f : f \in [0..n -> Seq(CoOut)] /\ \A i \in 0..(k - 1) : f[i] = Step(f, i)
      BY <3>3
    <3>5. data[k] \in 0..255
      BY <3>1, ElementOfSeq
    <3>6. f[k - 1] \o CoEscape(data[k]) \in Seq(CoOut)
      <4>1. f[k - 1] \in Seq(CoOut) /\ CoEscape(data[k]) \in Seq(CoOut)
        BY <3>1, <3>4, <3>5, CoEscapeType
      <4> QED
        BY <4>1, ConcatProperties
    <3> DEFINE g == [f EXCEPT ![k] = f[k - 1] \o CoEscape(data[k])]
    <3>7. g \in [0..n -> Seq(CoOut)] /\ g[k] = f[k - 1] \o CoEscape(data[k])
          /\ \A i \in 0..(k - 1) : g[i] = f[i]
      BY <2>3, <3>1, <3>4, <3>6
    <3> HIDE DEF g
    <3>8. ASSUME NEW i \in 0..k PROVE g[i] = Step(g, i)
      <4>1. CASE i = k
        <5>1. k - 1 \in 0..(k - 1) /\ i # 0
          BY <2>3, <2>5, <4>1
        <5>2. g[k - 1] = f[k - 1]
          BY <3>7, <5>1
        <5> QED
          BY <3>7, <4>1, <5>1, <5>2
      <4>2. CASE i # k
        <5>1. i \in 0..(k - 1) /\ (i # 0 => i - 1 \in 0..(k - 1))
          BY <2>3, <4>2
        <5> QED
          BY <3>4, <3>7, <5>1
      <4> QED
        BY <4>1, <4>2
    <3> QED
      BY <2>3, <3>7, <3>8
  <2> QED
    BY <2>4, <2>5
<1>3. PICK f : f \in [0..n -> Seq(CoOut)] /\ \A i \in 0..n : f[i] = Step(f, i)
  <2>0. n \notin bad
    <3> HIDE DEF bad
    <3> QED
      BY <1>2
  <2>3. n \in 0..n
    OBVIOUS
  <2>1. n \in 0..n /\ n \notin bad
    BY <2>0, <2>3
  <2>2. \E f : Is(f, n)
    BY <2>1
  <2> QED
    BY <2>2
<1>4. f = [i \in 0..n |-> Step(f, i)]
  BY <1>3
<1>5. D = [i \in 0..n |-> Step(D, i)]
  BY <1>4
<1>6. CoPercent(data) = D[n]
  BY DEF CoPercent
<1> HIDE DEF D, bad
<1>7. \A i \in 0..n : D[i] = f[i]
  <2> DEFINE S == {i \in 0..n : D[i] # f[i]}
  <2>a. SUFFICES ASSUME S # {} PROVE FALSE
    OBVIOUS
  <2>1. S \in SUBSET Nat
    OBVIOUS
  <2>2. PICK k \in S : \A j \in S : k <= j
    BY <2>a, <2>1, CnSmallest
  <2>3. k \in 0..n /\ D[k] # f[k]
    OBVIOUS
  <2>4. D[k] = Step(D, k) /\ f[k] = Step(f, k)
    BY <1>3, <1>5, <2>3
  <2>5. k # 0
    BY <2>3, <2>4
  <2>6. k - 1 \in 0..n /\ ~(k <= k - 1)
    BY <2>3, <2>5
  <2>7. D[k - 1] = f[k - 1]
    BY <2>2, <2>6
  <2> QED
    BY <2>3, <2>4, <2>5, <2>7
<1>8. CoDest(data, f)
  <2>1. 0 \in 0..n /\ \A i \in 1..n : i \in 0..n /\ i # 0
    OBVIOUS
  <2>2. f[0] = <<>> /\ \A i \in 1..n : f[i] = f[i - 1] \o CoEscape(data[i])
    BY <1>3, <2>1
  <2> QED
    BY <1>3, <2>2 DEF CoDest
<1>9. CoPercent(data) = f[n]
  <2>1. n \in 0..n
    BY <1>1
  <2> QED
    BY <1>6, <1>7, <2>1
<1> QED
  BY <1>8, <1>9

(* decode at one place, from what is decoded after it.                       *)
CoFrom(text, f, i) ==
  IF i > Len(text) THEN <<>>
  ELSE IF text[i] = 37
  THEN (IF i + 2 <= Len(text) THEN <<(CoUnhex(text[i + 1]) * 16 + CoUnhex(text[i + 2])) % 256>> ELSE <<>>) \o f[i + 3]
  ELSE <<IF text[i] = 43 THEN 32 ELSE text[i]>> \o f[i + 1]

LEMMA CoUnpercentIs ==
  ASSUME NEW text, Len(text) \in Nat
  PROVE  \E f : f[1] = CoUnpercent(text) /\ \A i \in 1..(Len(text) + 3) : f[i] = CoFrom(text, f, i)
<1>1. PICK n \in Nat : n = Len(text)
  OBVIOUS
<1> DEFINE Has(f, k) == DOMAIN f = 1..(n + 3) /\ \A i \in 1..(n + 3) : i > n - k => f[i] = CoFrom(text, f, i)
           bad == {k \in 0..n : ~\E f : Has(f, k)}
           from == CHOOSE f : f = [i \in 1..(n + 3) |-> CoFrom(text, f, i)]
<1>2. bad = {}
  <2>a. SUFFICES ASSUME bad # {} PROVE FALSE
    OBVIOUS
  <2>1. bad \in SUBSET Nat
    OBVIOUS
  <2>2. PICK k \in bad : \A j \in bad : k <= j
    <3> HIDE DEF bad
    <3> QED
      BY <2>a, <2>1, CnSmallest
  <2>3. k \in 0..n /\ ~\E f : Has(f, k)
    OBVIOUS
  <2>4. CASE k = 0
    <3> DEFINE f == [i \in 1..(n + 3) |-> <<>>]
    <3>1. ASSUME NEW i \in 1..(n + 3), i > n - 0 PROVE f[i] = CoFrom(text, f, i)
      <4>1. i > Len(text) /\ f[i] = <<>>
        BY <1>1, <3>1
      <4> HIDE DEF f
      <4> QED
        BY <4>1 DEF CoFrom
    <3>2. DOMAIN f = 1..(n + 3)
      OBVIOUS
    <3> HIDE DEF f
    <3>3. Has(f, 0)
      BY <3>1, <3>2
    <3> QED
      BY <2>3, <2>4, <3>3
  <2>5. CASE k # 0
    <3>1. k - 1 \in 0..n /\ ~(k <= k - 1) /\ n - k + 1 \in 1..n
      BY <2>3, <2>5
    <3>2. k - 1 \notin bad
      BY <2>2, <3>1
    <3>3. \E f : Has(f, k - 1)
      BY <3>1, <3>2
    <3>4. PICK f : DOMAIN f = 1..(n + 3) /\ \A i \in 1..(n + 3) : i > n - (k - 1) => f[i] = CoFrom(text, f, i)
      BY <3>3
    <3>5. PICK p \in 1..n : p = n - k + 1
      BY <3>1
    <3> DEFINE g == [i \in 1..(n + 3) |-> IF i = p THEN CoFrom(text, f, p) ELSE f[i]]
    <3>6. DOMAIN g = 1..(n + 3) /\ g[p] = CoFrom(text, f, p) /\ \A i \in 1..(n + 3) : i # p => g[i] = f[i]
      <4>1. p \in 1..(n + 3)
        OBVIOUS
      <4> QED
        BY <4>1
    <3> HIDE DEF g
    <3>7. ASSUME NEW i \in 1..(n + 3), i >= p PROVE CoFrom(text, g, i) = CoFrom(text, f, i)
      <4>1. CASE i > Len(text)
        BY <4>1 DEF CoFrom
      <4>2. CASE ~(i > Len(text))
        <5>1. i + 1 \in 1..(n + 3) /\ i + 1 # p /\ i + 3 \in 1..(n + 3) /\ i + 3 # p
          BY <1>1, <3>7, <4>2
        <5>2. g[i + 1] = f[i + 1] /\ g[i + 3] = f[i + 3]
          BY <3>6, <5>1
        <5> QED
          BY <5>2 DEF CoFrom
      <4> QED
        BY <4>1, <4>2
    <3>8. ASSUME NEW i \in 1..(n + 3), i > n - k PROVE g[i] = CoFrom(text, g, i)
      <4>1. i >= p
        BY <2>3, <3>5, <3>8
      <4>2. CASE i = p
        BY <3>6, <3>7, <4>1, <4>2
      <4>3. CASE i # p
        <5>1. i > n - (k - 1)
          BY <2>3, <3>5, <4>1, <4>3
        <5>2. g[i] = f[i] /\ f[i] = CoFrom(text, f, i)
          BY <3>4, <3>6, <4>3, <5>1
        <5> QED
          BY <3>7, <4>1, <5>2
      <4> QED
        BY <4>2, <4>3
    <3>9. Has(g, k)
      BY <3>6, <3>8
    <3> QED
      BY <2>3, <3>9
  <2> QED
    BY <2>4, <2>5
<1>3. PICK f : DOMAIN f = 1..(n + 3) /\ \A i \in 1..(n + 3) : f[i] = CoFrom(text, f, i)
  <2>0. n \notin bad
    <3> HIDE DEF bad
    <3> QED
      BY <1>2
  <2>4. n \in 0..n
    OBVIOUS
  <2>1. n \in 0..n /\ n \notin bad
    BY <2>0, <2>4
  <2>2. PICK f : Has(f, n)
    BY <2>1
  <2>3. \A i \in 1..(n + 3) : i > n - n
    OBVIOUS
  <2> QED
    BY <2>2, <2>3
<1> DEFINE f2 == [i \in 1..(n + 3) |-> f[i]]
           Is(h) == h = [i \in 1..(n + 3) |-> CoFrom(text, h, i)]
<1>4. Is(f2)
  <2>1. ASSUME NEW i \in 1..(n + 3) PROVE f[i] = CoFrom(text, f2, i)
    <3>1. CASE i > Len(text)
      BY <1>3, <3>1 DEF CoFrom
    <3>2. CASE ~(i > Len(text))
      <4>1. i + 1 \in 1..(n + 3) /\ i + 3 \in 1..(n + 3)
        BY <1>1, <3>2
      <4>2. f2[i + 1] = f[i + 1] /\ f2[i + 3] = f[i + 3]
        BY <4>1
      <4> HIDE DEF f2
      <4>3. CoFrom(text, f2, i) = CoFrom(text, f, i)
        BY <4>2 DEF CoFrom
      <4> QED
        BY <1>3, <4>3
    <3> QED
      BY <3>1, <3>2
  <2> QED
    BY <2>1
<1>5. Is(from)
  <2> HIDE DEF f2
  <2>1. from = CHOOSE h : Is(h)
    OBVIOUS
  <2> HIDE DEF Is, from
  <2> QED
    BY <1>4, <2>1
<1>6. CoUnpercent(text) = from[1]
  BY <1>1 DEF CoUnpercent, CoFrom
<1> HIDE DEF from, bad, f2
<1>7. \A i \in 1..(Len(text) + 3) : from[i] = CoFrom(text, from, i)
  BY <1>1, <1>5
<1> QED
  BY <1>6, <1>7

(* Every D[i] is the beginning of D[j] for j >= i.                           *)
LEMMA CoPrefixes ==
  ASSUME NEW data \in Seq(0..255), NEW D, CoDest(data, D), NEW i \in 0..Len(data)
  PROVE  \A j \in i..Len(data) : /\ D[j] \in Seq(CoOut) /\ Len(D[i]) <= Len(D[j])
                                 /\ \A p \in 1..Len(D[i]) : D[j][p] = D[i][p]
<1> DEFINE n == Len(data)
           Good(j) == /\ D[j] \in Seq(CoOut) /\ Len(D[i]) <= Len(D[j])
                      /\ \A p \in 1..Len(D[i]) : D[j][p] = D[i][p]
           S == {j \in i..n : ~Good(j)}
<1>a. SUFFICES ASSUME S # {} PROVE FALSE
  OBVIOUS
<1>1. S \in SUBSET Nat
  OBVIOUS
<1>2. PICK k \in S : \A j \in S : k <= j
  <2> HIDE DEF S
  <2> QED
    BY <1>a, <1>1, CnSmallest
<1>3. k \in i..n /\ ~Good(k)
  OBVIOUS
<1>4. \A j \in 0..n : D[j] \in Seq(CoOut) /\ Len(D[j]) \in Nat
  <2>1. D \in [0..n -> Seq(CoOut)]
    BY DEF CoDest
  <2>2. \A s \in Seq(CoOut) : Len(s) \in Nat
    OBVIOUS
  <2> QED
    BY <2>1, <2>2
<1>5. k # i
  BY <1>3, <1>4
<1>6. k - 1 \in i..n /\ k \in 1..n /\ ~(k <= k - 1) /\ k - 1 \in 0..n /\ k \in 0..n
  BY <1>3, <1>5
<1>7. Good(k - 1)
  BY <1>2, <1>6
<1> HIDE DEF S
<1>8. D[k] = D[k - 1] \o CoEscape(data[k])
  BY <1>6 DEF CoDest
<1>9. CoEscape(data[k]) \in Seq(CoOut)
  BY <1>6, ElementOfSeq, CoEscapeType
<1>10. PICK s \in Seq(CoOut), t \in Seq(CoOut) : s = D[k - 1] /\ t = CoEscape(data[k])
  BY <1>4, <1>6, <1>9
<1>11. s \o t \in Seq(CoOut) /\ Len(s \o t) = Len(s) + Len(t) /\ \A p \in 1..Len(s) : (s \o t)[p] = s[p]
  OBVIOUS
<1>12. Len(D[i]) \in Nat /\ Len(D[i]) <= Len(s) /\ \A p \in 1..Len(D[i]) : s[p] = D[i][p]
  BY <1>4, <1>7, <1>10
<1>13. \A p \in 1..Len(D[i]) : p \in 1..Len(s)
  BY <1>12
<1>14. Len(D[i]) <= Len(s \o t)
  BY <1>11, <1>12
<1>15. Good(k)
  BY <1>8, <1>10, <1>11, <1>12, <1>13, <1>14
<1> QED
  BY <1>3, <1>15

(* What decoding gives from the place where byte i + 1 begins, if it gives the rest of *)
(* them from the place where it ends.                                                  *)
CoRest(data, i) == [k \in 1..(Len(data) - i) |-> CoBlank(data[i + k])]

LEMMA CoRestNext ==
  ASSUME NEW data \in Seq(0..255), NEW i \in 1..Len(data)
  PROVE  <<CoBlank(data[i])>> \o CoRest(data, i) = CoRest(data, i - 1)
<1>1. PICK n \in Nat, m \in Nat : n = Len(data) /\ m = n - i /\ n - (i - 1) = 1 + m
  OBVIOUS
<1> DEFINE f == [k \in 1..(1 + m) |-> CoBlank(data[i - 1 + k])]
           g == [k \in 1..m |-> CoBlank(data[i + k])]
<1>2. \A k \in 1..m : 1 + k \in 1..(1 + m) /\ i - 1 + (1 + k) = i + k
  OBVIOUS
<1>3. \A k \in 1..m : g[k] = f[1 + k]
  BY <1>2
<1>4. 1 \in 1..(1 + m) /\ i - 1 + 1 = i
  OBVIOUS
<1>5. f[1] = CoBlank(data[i])
  BY <1>4
<1>6. CoRest(data, i) = g /\ CoRest(data, i - 1) = f
  BY <1>1 DEF CoRest
<1>7. [k \in 1..m |-> g[k]] = g /\ [k \in 1..(1 + m) |-> f[k]] = f
  OBVIOUS
<1> HIDE DEF f, g
<1>8. PICK a \in Nat : a = 1
  OBVIOUS
<1>9. [k \in 1..a |-> f[k]] \o [k \in 1..m |-> g[k]] = [k \in 1..(a + m) |-> f[k]]
  BY <1>3, <1>8, CoAppended
<1>10. [k \in 1..a |-> f[k]] = <<f[1]>>
  BY <1>8
<1> QED
  BY <1>5, <1>6, <1>7, <1>8, <1>9, <1>10

LEMMA CoFromStep ==
  ASSUME NEW data \in Seq(0..255), NEW D, CoDest(data, D), NEW text, text = D[Len(data)],
         NEW f, \A p \in 1..(Len(text) + 3) : f[p] = CoFrom(text, f, p),
         NEW i \in 1..Len(data), f[Len(D[i]) + 1] = CoRest(data, i)
  PROVE  f[Len(D[i - 1]) + 1] = CoRest(data, i - 1)
<1>1. PICK n \in Nat, c \in 0..255 : n = Len(data) /\ c = data[i]
  <2>1. data[i] \in 0..255
    BY ElementOfSeq
  <2> QED
    BY <2>1
<1>2. i - 1 \in 0..n /\ i \in 0..n /\ n \in i..n
  BY <1>1
<1>3. D[i] = D[i - 1] \o CoEscape(c)
  BY <1>1 DEF CoDest
<1>4. text \in Seq(CoOut) /\ Len(D[i]) <= Len(text) /\ \A p \in 1..Len(D[i]) : text[p] = D[i][p]
  BY <1>1, <1>2, CoPrefixes
<1>5. PICK s \in Seq(CoOut), m \in Nat : s = D[i - 1] /\ m = Len(s)
  <2>1. D \in [0..Len(data) -> Seq(CoOut)]
    BY DEF CoDest
  <2>2. \A s \in Seq(CoOut) : Len(s) \in Nat
    OBVIOUS
  <2>3. D[i - 1] \in Seq(CoOut)
    BY <1>1, <1>2, <2>1
  <2> QED
    BY <2>2, <2>3
<1>6. <<CoBlank(c)>> \o CoRest(data, i) = CoRest(data, i - 1)
  BY <1>1, CoRestNext
<1>7. CASE CoEscape(c) = <<c>> /\ c \in CoOut /\ c # 37 /\ c # 43 /\ CoBlank(c) = c
  <2>1. D[i] = s \o <<c>>
    BY <1>3, <1>5, <1>7
  <2>2. Len(D[i]) = m + 1 /\ D[i][m + 1] = c
    BY <1>5, <1>7, <2>1
  <2>3. m + 1 \in 1..(m + 1) /\ m + 1 \in 1..(Len(text) + 3) /\ ~(m + 1 > Len(text)) /\ (m + 1) + 1 = Len(D[i]) + 1
    BY <1>4, <2>2
  <2>4. text[m + 1] = c
    BY <1>4, <2>2, <2>3
  <2>5. f[m + 1] = CoFrom(text, f, m + 1)
    BY <2>3
  <2>6. CoFrom(text, f, m + 1) = <<c>> \o f[(m + 1) + 1]
    BY <1>7, <2>3, <2>4 DEF CoFrom
  <2>7. f[(m + 1) + 1] = CoRest(data, i)
    BY <2>3
  <2> QED
    BY <1>5, <1>6, <1>7, <2>5, <2>6, <2>7
<1>8. CASE \E d \in CoOut, e \in CoOut :
             /\ CoEscape(c) = <<37, d, e>> /\ (CoUnhex(d) * 16 + CoUnhex(e)) % 256 = CoBlank(c)
  <2>1. PICK d \in CoOut, e \in CoOut :
             /\ CoEscape(c) = <<37, d, e>> /\ (CoUnhex(d) * 16 + CoUnhex(e)) % 256 = CoBlank(c)
    BY <1>8
  <2>2. D[i] = s \o <<37, d, e>> /\ 37 \in CoOut
    BY <1>3, <1>5, <2>1 DEF CoOut
  <2>3. Len(D[i]) = m + 3 /\ D[i][m + 1] = 37 /\ D[i][m + 2] = d /\ D[i][m + 3] = e
    BY <1>5, <2>2
  <2>4. /\ m + 1 \in 1..(m + 3) /\ m + 2 \in 1..(m + 3) /\ m + 3 \in 1..(m + 3)
        /\ m + 1 \in 1..(Len(text) + 3) /\ ~(m + 1 > Len(text)) /\ m + 3 <= Len(text)
        /\ (m + 1) + 1 = m + 2 /\ (m + 1) + 2 = m + 3 /\ (m + 1) + 3 = Len(D[i]) + 1
    BY <1>4, <2>3
  <2>5. text[m + 1] = 37 /\ text[m + 2] = d /\ text[m + 3] = e
    BY <1>4, <2>3, <2>4
  <2>6. f[m + 1] = CoFrom(text, f, m + 1)
    BY <2>4
  <2>7. CoFrom(text, f, m + 1) = <<(CoUnhex(d) * 16 + CoUnhex(e)) % 256>> \o f[(m + 1) + 3]
    BY <2>4, <2>5 DEF CoFrom
  <2>8. f[(m + 1) + 3] = CoRest(data, i)
    BY <2>4
  <2> QED
    BY <1>5, <1>6, <2>1, <2>6, <2>7, <2>8
<1> QED
  BY <1>7, <1>8, CoEscapeIs

LEMMA CoPercentKeeps ==
  ASSUME NEW data \in Seq(0..255)
  PROVE  /\ CoUnpercent(CoPercent(data)) = CoRest(data, 0)
         /\ CoPercent(data) \in Seq(CoOut)
<1>1. PICK n \in Nat : n = Len(data)
  OBVIOUS
<1>2. PICK D, text : CoDest(data, D) /\ text = CoPercent(data) /\ text = D[n]
  BY <1>1, CoPercentIs
<1>3. text \in Seq(CoOut) /\ Len(text) \in Nat
  <2>1. n \in 0..Len(data)
    BY <1>1
  <2> QED
    BY <1>2, <2>1 DEF CoDest
<1>4. PICK f : f[1] = CoUnpercent(text) /\ \A i \in 1..(Len(text) + 3) : f[i] = CoFrom(text, f, i)
  BY <1>3, CoUnpercentIs
<1> DEFINE Good(i) == f[Len(D[i]) + 1] = CoRest(data, i)
           S == {k \in 0..n : ~Good(n - k)}
<1>5. S = {}
  <2>a. SUFFICES ASSUME S # {} PROVE FALSE
    OBVIOUS
  <2>1. S \in SUBSET Nat
    OBVIOUS
  <2>2. PICK k \in S : \A j \in S : k <= j
    <3> HIDE DEF S
    <3> QED
      BY <2>a, <2>1, CnSmallest
  <2>3. k \in 0..n /\ ~Good(n - k)
    OBVIOUS
  <2>4. Good(n)
    <3>1. Len(text) + 1 \in 1..(Len(text) + 3) /\ Len(text) + 1 > Len(text)
      BY <1>3
    <3>2. f[Len(text) + 1] = <<>>
      BY <1>4, <3>1 DEF CoFrom
    <3>3. CoRest(data, n) = <<>>
      <4>1. Len(data) - n = 0
        BY <1>1
      <4> QED
        BY <4>1 DEF CoRest
    <3> QED
      BY <1>2, <3>2, <3>3
  <2>5. k # 0
    BY <2>3, <2>4
  <2>6. k - 1 \in 0..n /\ ~(k <= k - 1) /\ n - k + 1 \in 1..n /\ n - (k - 1) = n - k + 1
    BY <2>3, <2>5
  <2>7. Good(n - (k - 1))
    BY <2>2, <2>6
  <2>8. PICK i \in 1..n : i = n - k + 1 /\ i - 1 = n - k
    BY <2>3, <2>6
  <2>9. f[Len(D[i]) + 1] = CoRest(data, i)
    BY <2>6, <2>7, <2>8
  <2> HIDE DEF S, Good
  <2>10. f[Len(D[i - 1]) + 1] = CoRest(data, i - 1)
    BY <1>1, <1>2, <1>4, <2>9, CoFromStep
  <2> QED
    BY <2>3, <2>8, <2>10 DEF Good
<1>6. Good(0)
  <2>1. n \in 0..n /\ n - n = 0
    OBVIOUS
  <2>2. n \notin S
    <3> HIDE DEF S
    <3> QED
      BY <1>5
  <2> QED
    BY <2>1, <2>2
<1>7. Len(D[0]) + 1 = 1
  BY <1>2 DEF CoDest
<1> HIDE DEF S
<1> QED
  BY <1>2, <1>3, <1>4, <1>6, <1>7

LEMMA CoPercentKeptIs ==
  ASSUME coData \in Seq(0..255)
  PROVE  CoPercentKept
<1>1. CoUnpercent(CoPercent(coData)) = CoRest(coData, 0) /\ CoPercent(coData) \in Seq(CoOut)
  BY CoPercentKeeps
<1>2. CoRest(coData, 0) = [i \in DOMAIN coData |-> IF CoSpace(coData[i]) THEN 32 ELSE coData[i]]
  <2>1. DOMAIN coData = 1..(Len(coData) - 0) /\ \A i \in DOMAIN coData : 0 + i = i
    OBVIOUS
  <2> QED
    BY <2>1 DEF CoRest, CoBlank
<1>3. \A i \in DOMAIN CoPercent(coData) : CoUnreserved(CoPercent(coData)[i]) \/ CoPercent(coData)[i] = 37
  <2>1. PICK text \in Seq(CoOut) : text = CoPercent(coData)
    BY <1>1
  <2>2. \A i \in DOMAIN text : text[i] \in CoOut
    OBVIOUS
  <2> QED
    BY <2>1, <2>2 DEF CoOut
<1> QED
  BY <1>1, <1>2, <1>3 DEF CoPercentKept

-----------------------------------------------------------------------------
(* The blocks of MD5 (Codings)                                               *)

LEMMA MdDivides ==
  ASSUME NEW B \in Nat \ {0}
  PROVE  /\ \A a \in Nat : a % B \in 0..(B - 1) /\ a \div B \in Nat /\ a = B * (a \div B) + (a % B)
         /\ \A q \in Nat, x \in 0..(B - 1) : (B * q + x) % B = x /\ (B * q + x) \div B = q
<1>1. ASSUME NEW a \in Nat PROVE a % B \in 0..(B - 1) /\ a \div B \in Nat /\ a = B * (a \div B) + (a % B)
  OBVIOUS
<1>2. ASSUME NEW q \in Nat, NEW x \in 0..(B - 1) PROVE (B * q + x) % B = x /\ (B * q + x) \div B = q
  OBVIOUS
<1> QED
  BY <1>1, <1>2

MdSplit(a, B, q, x) == a = B * q + x /\ q \in Nat /\ x \in 0..(B - 1)

LEMMA MdSplits ==
  ASSUME NEW B \in Nat \ {0}, NEW a \in Nat, NEW q, NEW x, MdSplit(a, B, q, x)
  PROVE  a % B = x /\ a \div B = q
  BY DEF MdSplit

LEMMA MdMultiples ==
  ASSUME NEW B \in Nat \ {0}, NEW u \in Nat, NEW z \in Nat
  PROVE  (B * u + z) % B = z % B
<1>1. PICK s \in Nat, t \in 0..(B - 1) : z = B * s + t /\ z % B = t
  BY MdDivides
<1>2. PICK a \in Nat : a = B * u + z
  OBVIOUS
<1>3. a = B * (u + s) + t /\ u + s \in Nat
  BY <1>1, <1>2
<1>4. MdSplit(a, B, u + s, t)
  BY <1>3 DEF MdSplit
<1>5. a % B = t
  BY <1>4, MdSplits
<1> QED
  BY <1>1, <1>2, <1>5

(* The number of bits, in two words.                                         *)
MdBits(n) == <<(8 * n) % CoWord, ((8 * n) \div CoWord) % CoWord>>

LEMMA MdCountedIs ==
  ASSUME NEW n \in Nat, NEW m \in Nat
  PROVE  MdCounted(MdBits(n), m) = MdBits(n + m)
<1>1. PICK W \in Nat \ {0} : W = CoWord
  BY CodingsAssumption
<1>2. PICK a \in Nat, b \in Nat : a = 8 * n /\ b = 8 * m /\ 8 * (n + m) = a + b
  OBVIOUS
<1>3. PICK aq \in Nat, ar \in 0..(W - 1) : a = W * aq + ar /\ a % W = ar /\ a \div W = aq
  BY MdDivides
<1>4. PICK bq \in Nat, br \in 0..(W - 1) : b = W * bq + br /\ b % W = br /\ b \div W = bq
  BY MdDivides
<1>5. PICK u \in Nat, v \in 0..(W - 1) : aq = W * u + v /\ aq % W = v
  BY MdDivides
<1>6. PICK low \in Nat, carry \in Nat :
        /\ low = (ar + b) % W /\ carry = (IF low < b % W THEN 1 ELSE 0)
        /\ (a + b) % W = low /\ (a + b) \div W = aq + bq + carry
  <2>1. CASE ar + br < W
    <3>1. PICK c \in 0..(W - 1) : c = ar + br
      BY <2>1
    <3>2. ar + b = W * bq + c /\ a + b = W * (aq + bq) + c /\ aq + bq \in Nat
      BY <1>3, <1>4, <3>1
    <3>5. MdSplit(ar + b, W, bq, c) /\ MdSplit(a + b, W, aq + bq, c)
      BY <3>2 DEF MdSplit
    <3>6. ar + b \in Nat /\ a + b \in Nat
      OBVIOUS
    <3>3. (ar + b) % W = c /\ (a + b) % W = c /\ (a + b) \div W = aq + bq
      BY <3>5, <3>6, MdSplits
    <3>4. ~(c < b % W) /\ aq + bq + 0 = aq + bq
      BY <1>4, <3>1
    <3> QED
      BY <3>3, <3>4
  <2>2. CASE ~(ar + br < W)
    <3>1. PICK c \in 0..(W - 1) : c = ar + br - W
      BY <2>2
    <3>2. ar + b = W * (bq + 1) + c /\ a + b = W * (aq + bq + 1) + c /\ aq + bq + 1 \in Nat /\ bq + 1 \in Nat
      BY <1>3, <1>4, <3>1
    <3>5. MdSplit(ar + b, W, bq + 1, c) /\ MdSplit(a + b, W, aq + bq + 1, c)
      BY <3>2 DEF MdSplit
    <3>6. ar + b \in Nat /\ a + b \in Nat
      OBVIOUS
    <3>3. (ar + b) % W = c /\ (a + b) % W = c /\ (a + b) \div W = aq + bq + 1
      BY <3>5, <3>6, MdSplits
    <3>4. c < b % W
      BY <1>4, <3>1
    <3> QED
      BY <3>3, <3>4
  <2> QED
    BY <2>1, <2>2
<1>7. (v + carry + bq) % W = (aq + bq + carry) % W
  <2>1. PICK z \in Nat : z = v + carry + bq /\ aq + bq + carry = W * u + z
    BY <1>5
  <2>2. (W * u + z) % W = z % W
    BY MdMultiples
  <2> QED
    BY <2>1, <2>2
<1>8. MdBits(n) = <<ar, v>>
  BY <1>1, <1>2, <1>3, <1>5 DEF MdBits
<1>9. MdBits(n + m) = <<low, (aq + bq + carry) % W>>
  BY <1>1, <1>2, <1>6 DEF MdBits
<1>10. MdCounted(<<ar, v>>, m) = <<low, (v + carry + bq) % W>>
  <2>1. <<ar, v>>[1] = ar /\ <<ar, v>>[2] = v
    OBVIOUS
  <2> QED
    BY <1>1, <1>2, <1>4, <1>6, <2>1 DEF MdCounted
<1> QED
  BY <1>7, <1>8, <1>9, <1>10

(* The place in the block.                                                   *)
LEMMA MdIndexIs ==
  ASSUME NEW h \in Nat, NEW x \in 0..(CoBlock - 1)
  PROVE  MdIndex(MdBits(CoBlock * h + x)) = x
<1>1. PICK W \in Nat \ {0}, B \in Nat \ {0} : W = CoWord /\ B = CoBlock /\ W % (8 * B) = 0 /\ x \in 0..(B - 1)
  BY CodingsAssumption
<1>2. PICK w \in Nat : W = 8 * (B * w)
  <2>1. PICK E \in Nat \ {0} : E = 8 * B
    BY <1>1
  <2>2. W = E * (W \div E) + (W % E) /\ W \div E \in Nat
    BY <1>1, <2>1, MdDivides
  <2>3. W % E = 0
    BY <1>1, <2>1
  <2>4. PICK w \in Nat : w = W \div E
    BY <2>2
  <2>5. W = E * w
    BY <2>2, <2>3, <2>4
  <2>6. E * w = 8 * (B * w)
    BY <2>1
  <2> QED
    BY <2>5, <2>6
<1>3. PICK n \in Nat : n = B * h + x
  BY <1>1
<1>4. PICK k \in Nat, r \in 0..(W - 1) : 8 * n = W * k + r /\ (8 * n) % W = r
  <2>1. 8 * n \in Nat
    BY <1>3
  <2> QED
    BY <2>1, MdDivides
<1>5. PICK c \in Nat : c = w * k
  OBVIOUS
<1>6. W * k = 8 * (B * c)
  BY <1>2, <1>5
<1>7. PICK Bh \in Nat, Bc \in Nat : Bh = B * h /\ Bc = B * c
  <2>1. B * h \in Nat /\ B * c \in Nat
    BY <1>1, <1>5
  <2> QED
    BY <2>1
<1>8. PICK g \in Nat : g = Bh + x - Bc /\ r = 8 * g
  <2>1. r = 8 * (Bh + x - Bc)
    BY <1>3, <1>4, <1>6, <1>7
  <2>2. Bh + x - Bc >= 0
    BY <2>1
  <2> QED
    BY <2>1, <2>2
<1>9. r \div 8 = g
  BY <1>8
<1>10. h >= c
  <2>1. SUFFICES ASSUME h + 1 <= c PROVE FALSE
    BY <1>5
  <2>2. B * (h + 1) <= B * c
    BY <1>1, <2>1
  <2>3. B * (h + 1) = Bh + B
    BY <1>7
  <2>4. x < B
    BY <1>1
  <2>5. Bh + B <= Bc
    BY <1>7, <2>2, <2>3
  <2> QED
    BY <1>8, <2>4, <2>5
<1>11. g = B * (h - c) + x /\ h - c \in Nat
  <2>1. B * (h - c) = Bh - Bc
    BY <1>7
  <2> QED
    BY <1>8, <1>10, <2>1
<1>12. g % B = x
  BY <1>1, <1>11, MdDivides
<1>13. MdBits(n)[1] = r
  BY <1>1, <1>4 DEF MdBits
<1>14. MdIndex(MdBits(n)) = (r \div 8) % B
  BY <1>1, <1>13 DEF MdIndex
<1> QED
  BY <1>1, <1>3, <1>9, <1>12, <1>14

(* A context that was given d: h whole blocks and x bytes that wait.         *)
MdHolds(ctx, d, h, x) ==
  /\ Len(d) = CoBlock * h + x
  /\ ctx.count = MdBits(Len(d)) /\ ctx.state = [i \in 1..(CoBlock * h) |-> d[i]]
  /\ \A j \in 0..(x - 1) : ctx.buffer[j] = d[CoBlock * h + j + 1]

(* d, and then m bytes more.                                                 *)
MdAfter(d, input, e, n, m) ==
  /\ Len(e) = n + m
  /\ \A i \in 1..n : e[i] = d[i]
  /\ \A k \in 1..m : e[n + k] = input[k]

LEMMA MdAppends ==
  ASSUME NEW T, NEW d \in Seq(T), NEW input \in Seq(T), NEW n, NEW m, n = Len(d), m = Len(input)
  PROVE  MdAfter(d, input, d \o input, n, m)
<1>1. n \in Nat /\ m \in Nat
  OBVIOUS
<1>2. Len(d \o input) = n + m
  OBVIOUS
<1>3. \A i \in 1..n : (d \o input)[i] = d[i]
  OBVIOUS
<1>4. \A k \in 1..m : (d \o input)[n + k] = input[k]
  <2> SUFFICES ASSUME NEW k \in 1..m PROVE (d \o input)[n + k] = input[k]
    OBVIOUS
  <2>1. n + k \in 1..(Len(d) + Len(input)) /\ ~(n + k <= Len(d)) /\ n + k - Len(d) = k
    BY <1>1
  <2> QED
    BY <2>1
<1> QED
  BY <1>2, <1>3, <1>4 DEF MdAfter

LEMMA MdFields ==
  ASSUME NEW k, NEW s, NEW u, NEW c, c = [count |-> k, state |-> s, buffer |-> u]
  PROVE  /\ c.count = k /\ c.state = s /\ c.buffer = u
  <1>1. c.count = k /\ c.state = s /\ c.buffer = u
  OBVIOUS
<1> QED
  BY <1>1

(* What fits into the block that is begun.                                   *)
LEMMA MdKeepsRest ==
  ASSUME NEW ctx, NEW T, NEW d \in Seq(T), NEW input \in Seq(T), NEW h \in Nat, NEW x \in 0..(CoBlock - 1),
         MdHolds(ctx, d, h, x), x + Len(input) < CoBlock
  PROVE  /\ x + Len(input) \in 0..(CoBlock - 1)
         /\ MdHolds(MdAbsorb(ctx, input, FALSE), d \o input, h, x + Len(input))
<1>1. PICK B \in Nat \ {0} : B = CoBlock
  BY CodingsAssumption
<1>0. PICK e : e = d \o input
  OBVIOUS
<1>2. PICK n \in Nat, m \in Nat : n = Len(d) /\ m = Len(input) /\ e = d \o input
  <2>1. Len(d) \in Nat /\ Len(input) \in Nat
    OBVIOUS
  <2> QED
    BY <1>0, <2>1
<1>3. PICK b \in Nat : b = B * h
  OBVIOUS
<1>4. n = b + x /\ x + m < B /\ x \in Nat /\ x < B /\ Len(e) = b + (x + m) /\ x + m \in 0..(B - 1)
  <2>1. n = b + x /\ x + m < B
    BY <1>1, <1>2, <1>3 DEF MdHolds
  <2>2. Len(e) = n + m
    BY <1>2
  <2> QED
    BY <1>1, <2>1, <2>2
<1>5. /\ \A i \in 1..n : e[i] = d[i]
      /\ \A k \in 1..m : e[n + k] = input[k]
  BY <1>2, MdAppends DEF MdAfter
<1>6. MdIndex(ctx.count) = x
  <2>1. ctx.count = MdBits(CoBlock * h + x)
    BY DEF MdHolds
  <2> QED
    BY <2>1, MdIndexIs
<1> DEFINE put == [j \in 0..(CoBlock - 1) |-> IF j >= x /\ j < x + Len(input) THEN input[j - x + 1] ELSE ctx.buffer[j]]
<1>7. MdAbsorb(ctx, input, FALSE) = [count |-> MdCounted(ctx.count, Len(input)), state |-> ctx.state, buffer |-> put]
  BY <1>6, Zenon DEF MdAbsorb
<1>8. MdCounted(ctx.count, m) = MdBits(n + m)
  <2>1. ctx.count = MdBits(n)
    BY <1>2 DEF MdHolds
  <2> QED
    BY <2>1, MdCountedIs
<1>9. MdAbsorb(ctx, input, FALSE) = [count |-> MdBits(n + m), state |-> ctx.state, buffer |-> put]
  <2> HIDE DEF put
  <2> QED
    BY <1>2, <1>7, <1>8, Zenon
<1>10. ctx.state = [i \in 1..b |-> e[i]]
  <2>1. ctx.state = [i \in 1..b |-> d[i]]
    BY <1>1, <1>3 DEF MdHolds
  <2>2. \A i \in 1..b : d[i] = e[i]
    BY <1>4, <1>5
  <2> QED
    BY <2>1, <2>2
<1>11. ASSUME NEW j \in 0..(x + m - 1) PROVE put[j] = e[b + j + 1]
  <2>1. j \in 0..(CoBlock - 1)
    BY <1>1, <1>4
  <2>2. CASE j >= x
    <3>1. j < x + Len(input) /\ j - x + 1 \in 1..m /\ n + (j - x + 1) = b + j + 1
      BY <1>2, <1>4, <2>2
    <3>2. put[j] = input[j - x + 1]
      BY <2>1, <2>2, <3>1
    <3>3. e[n + (j - x + 1)] = input[j - x + 1]
      BY <1>5, <3>1
    <3> QED
      BY <3>1, <3>2, <3>3
  <2>3. CASE ~(j >= x)
    <3>1. j \in 0..(x - 1) /\ b + j + 1 \in 1..n
      BY <1>4, <2>3
    <3>2. put[j] = ctx.buffer[j]
      BY <2>1, <2>3
    <3>3. ctx.buffer[j] = d[b + j + 1]
      BY <1>1, <1>3, <3>1 DEF MdHolds
    <3> QED
      BY <1>5, <3>1, <3>2, <3>3
  <2> QED
    BY <2>2, <2>3
<1> HIDE DEF put
<1>12. PICK c : c = MdAbsorb(ctx, input, FALSE)
  OBVIOUS
<1>13. /\ c.count = MdBits(Len(e)) /\ c.state = [i \in 1..b |-> e[i]] /\ c.buffer = put
  <2>1. MdBits(Len(e)) = MdBits(n + m)
    BY <1>4
  <2>2. c = [count |-> MdBits(Len(e)), state |-> [i \in 1..b |-> e[i]], buffer |-> put]
    BY <1>9, <1>10, <1>12, <2>1, Zenon
  <2> QED
    BY <2>2, MdFields, Zenon
<1>14. MdHolds(c, e, h, x + m)
  BY <1>1, <1>3, <1>4, <1>11, <1>13 DEF MdHolds
<1> QED
  BY <1>1, <1>2, <1>4, <1>12, <1>14

(* The context after it was filled.                                          *)
MdFilled(ctx, input, block, n, index, part, done) ==
  LET first == SubSeq(input, 1, part)
      filled == [j \in 0..(block - 1) |-> IF j >= index /\ j < index + Len(first) THEN first[j - index + 1]
                                          ELSE ctx.buffer[j]]
  IN [count |-> MdCounted(ctx.count, n),
      state |-> ctx.state \o [j \in 1..block |-> filled[j - 1]] \o SubSeq(input, part + 1, done),
      buffer |-> [j \in 0..(block - 1) |-> IF j < n - done THEN input[done + j + 1] ELSE filled[j]]]

(* What fills it.                                                            *)
LEMMA MdTransforms ==
  ASSUME NEW ctx, NEW T, NEW d \in Seq(T), NEW input \in Seq(T), NEW h \in Nat, NEW x \in 0..(CoBlock - 1),
         MdHolds(ctx, d, h, x), x + Len(input) >= CoBlock
  PROVE  \E g \in Nat, y \in 0..(CoBlock - 1) : MdHolds(MdAbsorb(ctx, input, TRUE), d \o input, g, y)
<1>1. PICK B \in Nat \ {0} : B = CoBlock
  BY CodingsAssumption
<1>0. PICK e : e = d \o input
  OBVIOUS
<1>2. PICK n \in Nat, m \in Nat : n = Len(d) /\ m = Len(input) /\ e = d \o input
  <2>1. Len(d) \in Nat /\ Len(input) \in Nat
    OBVIOUS
  <2> QED
    BY <1>0, <2>1
<1>3. PICK b \in Nat : b = B * h
  OBVIOUS
<1>4. n = b + x /\ x + m >= B /\ x \in Nat /\ x < B /\ Len(e) = n + m
  <2>1. n = b + x /\ x + m >= B
    BY <1>1, <1>2, <1>3 DEF MdHolds
  <2>2. Len(e) = n + m
    BY <1>2
  <2> QED
    BY <1>1, <2>1, <2>2
<1>5. /\ \A i \in 1..n : e[i] = d[i]
      /\ \A k \in 1..m : e[n + k] = input[k]
  BY <1>2, MdAppends DEF MdAfter
<1>6. MdIndex(ctx.count) = x
  <2>1. ctx.count = MdBits(CoBlock * h + x)
    BY DEF MdHolds
  <2> QED
    BY <2>1, MdIndexIs
<1>7. PICK part \in Nat, rest \in Nat : part = B - x /\ rest = m - part /\ part <= m
  BY <1>4
<1>8. PICK more \in Nat, y \in 0..(B - 1) : more = rest \div B /\ rest = B * more + y
  <2>1. rest % B \in 0..(B - 1) /\ rest \div B \in Nat /\ rest = B * (rest \div B) + (rest % B)
    BY MdDivides
  <2> QED
    BY <2>1
<1>9. PICK p \in Nat, done \in Nat : p = B * more /\ done = part + p /\ done <= m /\ m - done = y
  <2>1. B * more \in Nat
    OBVIOUS
  <2> QED
    BY <1>7, <1>8, <2>1
<1> DEFINE first == SubSeq(input, 1, part)
           filled == [j \in 0..(B - 1) |-> IF j >= x /\ j < x + Len(first) THEN first[j - x + 1] ELSE ctx.buffer[j]]
           last == [j \in 0..(B - 1) |-> IF j < m - done THEN input[done + j + 1] ELSE filled[j]]
           state == ctx.state \o [j \in 1..B |-> filled[j - 1]] \o SubSeq(input, part + 1, done)
<1>10. MdAbsorb(ctx, input, TRUE) = [count |-> MdCounted(ctx.count, m), state |-> state, buffer |-> last]
  <2>1. /\ CoBlock - MdIndex(ctx.count) = part /\ (Len(input) - part) \div CoBlock = more
        /\ part + more * CoBlock = done /\ CoBlock = B /\ Len(input) = m
    BY <1>1, <1>2, <1>6, <1>7, <1>8, <1>9
  <2> DEFINE i == MdIndex(ctx.count)
             pt == CoBlock - i
             mo == (Len(input) - pt) \div CoBlock
  <2>2. MdAbsorb(ctx, input, TRUE) = MdFilled(ctx, input, CoBlock, Len(input), i, pt, pt + mo * CoBlock)
    BY Zenon DEF MdAbsorb, MdFilled
  <2>3. MdFilled(ctx, input, CoBlock, Len(input), i, pt, pt + mo * CoBlock) = MdFilled(ctx, input, B, m, x, part, done)
    <3>1. pt = part
      BY <2>1
    <3>2. mo = more
      BY <2>1, <3>1
    <3>3. pt + mo * CoBlock = done
      BY <2>1, <3>1, <3>2
    <3> HIDE DEF pt, mo, i
    <3> QED
      BY <1>6, <2>1, <3>1, <3>3 DEF i
  <2>4. MdFilled(ctx, input, B, m, x, part, done) = [count |-> MdCounted(ctx.count, m), state |-> state, buffer |-> last]
    BY Zenon DEF MdFilled
  <2> QED
    BY <2>2, <2>3, <2>4, Zenon
<1>11. MdCounted(ctx.count, m) = MdBits(n + m)
  <2>1. ctx.count = MdBits(n)
    BY <1>2 DEF MdHolds
  <2> QED
    BY <2>1, MdCountedIs
<1>12. Len(first) = part /\ \A i \in 1..part : first[i] = input[i]
  BY <1>2, <1>7
<1>13. ASSUME NEW j \in 0..(B - 1) PROVE filled[j] = e[b + j + 1]
  <2>2. CASE j >= x
    <3>1. j < x + part /\ j - x + 1 \in 1..part /\ j - x + 1 \in 1..m /\ n + (j - x + 1) = b + j + 1
      BY <1>4, <1>7, <2>2
    <3>2. filled[j] = first[j - x + 1]
      BY <1>12, <2>2, <3>1
    <3>3. e[n + (j - x + 1)] = input[j - x + 1]
      BY <1>5, <3>1
    <3> QED
      BY <1>12, <3>1, <3>2, <3>3
  <2>3. CASE ~(j >= x)
    <3>1. j \in 0..(x - 1) /\ b + j + 1 \in 1..n
      BY <1>4, <2>3
    <3>2. filled[j] = ctx.buffer[j]
      BY <2>3
    <3>3. ctx.buffer[j] = d[b + j + 1]
      BY <1>1, <1>3, <3>1 DEF MdHolds
    <3> QED
      BY <1>5, <3>1, <3>2, <3>3
  <2> QED
    BY <2>2, <2>3
<1>14. ASSUME NEW j \in 0..(y - 1) PROVE last[j] = e[b + B + p + j + 1]
  <2>1. j \in 0..(B - 1) /\ j < m - done /\ done + j + 1 \in 1..m /\ n + (done + j + 1) = b + B + p + j + 1
    BY <1>4, <1>7, <1>9
  <2>2. last[j] = input[done + j + 1]
    BY <2>1
  <2>3. e[n + (done + j + 1)] = input[done + j + 1]
    BY <1>5, <2>1
  <2> QED
    BY <2>1, <2>2, <2>3
<1> HIDE DEF first, last
<1>15. state = [i \in 1..(b + B + p) |-> e[i]]
  <2>1. ctx.state = [i \in 1..b |-> e[i]]
    <3>1. ctx.state = [i \in 1..b |-> d[i]]
      BY <1>1, <1>3 DEF MdHolds
    <3>2. \A i \in 1..b : d[i] = e[i]
      BY <1>4, <1>5
    <3> QED
      BY <3>1, <3>2
  <2> DEFINE g1 == [j \in 1..B |-> filled[j - 1]]
             g2 == SubSeq(input, part + 1, done)
  <2>2. \A j \in 1..B : g1[j] = e[b + j]
    <3> SUFFICES ASSUME NEW j \in 1..B PROVE g1[j] = e[b + j]
      OBVIOUS
    <3>1. j - 1 \in 0..(B - 1) /\ b + (j - 1) + 1 = b + j
      OBVIOUS
    <3> HIDE DEF filled
    <3> QED
      BY <1>13, <3>1
  <2>3. g1 = [j \in 1..B |-> g1[j]]
    OBVIOUS
  <2>4. g2 = [k \in 1..p |-> g2[k]] /\ \A k \in 1..p : g2[k] = e[b + B + k]
    <3>1. part + 1 \in 1..(m + 1) /\ done \in 0..m /\ done - (part + 1) + 1 = p
      BY <1>7, <1>9
    <3>2. g2 = [k \in 1..p |-> input[part + 1 + k - 1]]
      BY <1>2, <3>1
    <3>3. \A k \in 1..p : part + 1 + k - 1 = part + k /\ part + k \in 1..m /\ n + (part + k) = b + B + k
      BY <1>4, <1>7, <1>9
    <3> HIDE DEF g2
    <3>4. \A k \in 1..p : g2[k] = input[part + k]
      BY <3>2, <3>3
    <3>5. \A k \in 1..p : e[n + (part + k)] = input[part + k]
      BY <1>5, <3>3
    <3> QED
      BY <3>2, <3>3, <3>4, <3>5
  <2>5. state = ([i \in 1..b |-> e[i]] \o [j \in 1..B |-> g1[j]]) \o [k \in 1..p |-> g2[k]]
    <3>1. state = (ctx.state \o g1) \o g2
      OBVIOUS
    <3> HIDE DEF state, g1, g2, filled
    <3> QED
      BY <2>1, <2>3, <2>4, <3>1
  <2> HIDE DEF state, g1, g2, filled
  <2>6. [i \in 1..b |-> e[i]] \o [j \in 1..B |-> g1[j]] = [i \in 1..(b + B) |-> e[i]]
    BY <2>2, CoAppended
  <2>7. PICK a \in Nat : a = b + B
    OBVIOUS
  <2>9. \A k \in 1..p : g2[k] = e[a + k]
    BY <2>4, <2>7
  <2>8. [i \in 1..a |-> e[i]] \o [k \in 1..p |-> g2[k]] = [i \in 1..(a + p) |-> e[i]]
    BY <2>9, CoAppended
  <2> QED
    BY <2>5, <2>6, <2>7, <2>8
<1> HIDE DEF state, filled
<1>16. PICK g \in Nat : g = h + 1 + more /\ B * g = b + B + p
  <2>1. B * (h + 1 + more) = B * h + B + B * more
    OBVIOUS
  <2> QED
    BY <1>3, <1>9, <2>1
<1>17. Len(e) = (b + B + p) + y
  BY <1>4, <1>7, <1>9
<1>18. PICK c : c = MdAbsorb(ctx, input, TRUE)
  OBVIOUS
<1>19. /\ c.count = MdBits(Len(e)) /\ c.state = [i \in 1..(b + B + p) |-> e[i]] /\ c.buffer = last
  <2>1. MdBits(Len(e)) = MdBits(n + m)
    BY <1>4
  <2>2. c = [count |-> MdBits(Len(e)), state |-> [i \in 1..(b + B + p) |-> e[i]], buffer |-> last]
    BY <1>10, <1>11, <1>15, <1>18, <2>1, Zenon
  <2> QED
    BY <2>2, MdFields, Zenon
<1>20. MdHolds(c, e, g, y)
  BY <1>1, <1>14, <1>16, <1>17, <1>19 DEF MdHolds
<1> QED
  BY <1>1, <1>2, <1>18, <1>20

LEMMA MdUpdateHolds ==
  ASSUME NEW ctx, NEW T, NEW d \in Seq(T), NEW input \in Seq(T), NEW h \in Nat, NEW x \in 0..(CoBlock - 1),
         MdHolds(ctx, d, h, x)
  PROVE  \E g \in Nat, y \in 0..(CoBlock - 1) : MdHolds(MdUpdate(ctx, input), d \o input, g, y)
<1>1. CoBlock \in Nat /\ Len(input) \in Nat
  BY CodingsAssumption
<1>2. MdIndex(ctx.count) = x
  <2>1. ctx.count = MdBits(CoBlock * h + x)
    BY DEF MdHolds
  <2> QED
    BY <2>1, MdIndexIs
<1>3. CASE x + Len(input) < CoBlock
  <2>1. ~(Len(input) >= CoBlock - MdIndex(ctx.count))
    BY <1>1, <1>2, <1>3
  <2>2. MdUpdate(ctx, input) = MdAbsorb(ctx, input, FALSE)
    BY <2>1, Zenon DEF MdUpdate, MdAbsorb
  <2>3. /\ x + Len(input) \in 0..(CoBlock - 1)
        /\ MdHolds(MdAbsorb(ctx, input, FALSE), d \o input, h, x + Len(input))
    BY <1>3, MdKeepsRest
  <2> QED
    BY <2>2, <2>3
<1>4. CASE ~(x + Len(input) < CoBlock)
  <2>1. Len(input) >= CoBlock - MdIndex(ctx.count) /\ x + Len(input) >= CoBlock
    BY <1>1, <1>2, <1>4
  <2>2. MdUpdate(ctx, input) = MdAbsorb(ctx, input, TRUE)
    BY <2>1, Zenon DEF MdUpdate, MdAbsorb
  <2>3. \E g \in Nat, y \in 0..(CoBlock - 1) : MdHolds(MdAbsorb(ctx, input, TRUE), d \o input, g, y)
    BY <2>1, MdTransforms
  <2> QED
    BY <2>2, <2>3
<1> QED
  BY <1>3, <1>4

(* What is put behind the data.                                              *)
LEMMA MdFillers ==
  ASSUME NEW T, 0 \in T, NEW n \in Nat, n > 0, NEW a \in T
  PROVE  /\ <<a>> \o [i \in 1..(n - 1) |-> 0] \in Seq(T)
         /\ Len(<<a>> \o [i \in 1..(n - 1) |-> 0]) = n
         /\ \A k \in 1..n : (<<a>> \o [i \in 1..(n - 1) |-> 0])[k] = IF k = 1 THEN a ELSE 0
<1>1. PICK m \in Nat : m = n - 1 /\ n = 1 + m
  OBVIOUS
<1> DEFINE z == [i \in 1..m |-> 0]
<1>2. z \in Seq(T) /\ Len(z) = m /\ \A i \in 1..m : z[i] = 0
  OBVIOUS
<1> HIDE DEF z
<1>3. <<a>> \in Seq(T) /\ Len(<<a>>) = 1 /\ <<a>>[1] = a
  OBVIOUS
<1>4. /\ <<a>> \o z \in Seq(T) /\ Len(<<a>> \o z) = 1 + m
  BY <1>2, <1>3
<1>5. \A k \in 1..(1 + m) : (<<a>> \o z)[k] = IF k = 1 THEN a ELSE 0
  <2> SUFFICES ASSUME NEW k \in 1..(1 + m) PROVE (<<a>> \o z)[k] = IF k = 1 THEN a ELSE 0
    OBVIOUS
  <2>1. (<<a>> \o z)[k] = IF k <= 1 THEN <<a>>[k] ELSE z[k - 1]
    BY <1>2, <1>3
  <2>2. CASE k = 1
    BY <1>3, <2>1, <2>2
  <2>3. CASE k # 1
    <3>1. ~(k <= 1) /\ k - 1 \in 1..m
      BY <2>3
    <3> QED
      BY <1>2, <2>1, <2>3, <3>1
  <2> QED
    BY <2>2, <2>3
<1>6. [i \in 1..(n - 1) |-> 0] = z
  BY <1>1 DEF z
<1> QED
  BY <1>1, <1>4, <1>5, <1>6

LEMMA MdJoined ==
  ASSUME NEW T, NEW d \in Seq(T), NEW p \in Seq(T)
  PROVE  d \o p \in Seq(T) /\ Len(d \o p) = Len(d) + Len(p)
  OBVIOUS

(* The end: whole blocks, the length in the last of them.                    *)
MdEnds(blocks, d, n, count, pad, g) ==
  /\ n + pad + CoLength = CoBlock * g
  /\ DOMAIN blocks = 1..(CoBlock * g) /\ blocks \in Seq((0..255) \cup {count})
  /\ \A i \in 1..n : blocks[i] = d[i]
  /\ \A k \in 1..pad : blocks[n + k] = IF k = 1 THEN 128 ELSE 0
  /\ blocks[n + pad + 1] = count

LEMMA MdFinalIs ==
  ASSUME NEW ctx, NEW d \in Seq(0..255), NEW h \in Nat, NEW x \in 0..(CoBlock - 1), MdHolds(ctx, d, h, x)
  PROVE  \E pad \in 1..CoBlock, g \in Nat : MdEnds(MdFinal(ctx), d, Len(d), ctx.count, pad, g)
<1> DEFINE T == (0..255) \cup {ctx.count}
           room == CoBlock - CoLength
<1>1. PICK B \in Nat \ {0}, l \in Nat : B = CoBlock /\ l = CoLength /\ 1 <= l /\ l < B /\ room = B - l
  BY CodingsAssumption
<1>2. PICK n \in Nat, b \in Nat : n = Len(d) /\ b = B * h /\ n = b + x /\ x \in Nat /\ x < B
  <2>1. Len(d) \in Nat /\ B * h \in Nat
    OBVIOUS
  <2> QED
    BY <1>1, <2>1 DEF MdHolds
<1>3. MdIndex(ctx.count) = x
  <2>1. ctx.count = MdBits(CoBlock * h + x)
    BY DEF MdHolds
  <2> QED
    BY <2>1, MdIndexIs
<1>4. PICK pad \in 1..B, s \in Nat :
        /\ pad = (IF x < room THEN room - x ELSE CoBlock + room - x)
        /\ n + pad + l = B * s
  <2>1. CASE x < room
    <3>1. B * (h + 1) = b + B
      BY <1>2
    <3>2. PICK pad \in 1..B : pad = room - x /\ n + pad + l = b + B
      BY <1>1, <1>2, <2>1
    <3>3. h + 1 \in Nat /\ n + pad + l = B * (h + 1)
      <4>1. h + 1 \in Nat
        OBVIOUS
      <4> QED
        BY <3>1, <3>2, <4>1, Zenon
    <3>4. PICK s \in Nat : n + pad + l = B * s
      BY <3>3
    <3> QED
      BY <2>1, <3>2, <3>4
  <2>2. CASE ~(x < room)
    <3>1. B * (h + 2) = b + B + B
      BY <1>2
    <3>2. PICK pad \in 1..B : pad = CoBlock + room - x /\ n + pad + l = b + B + B
      <4>1. PICK r \in Int : r = room /\ r = B - l /\ r <= x
        <5>1. room \in Int /\ room = B - l
          BY <1>1
        <5> QED
          BY <1>2, <2>2, <5>1
      <4>2. n = b + x /\ x \in Nat /\ x < B /\ l < B /\ b \in Nat /\ l \in Nat /\ B \in Nat /\ n \in Nat
        BY <1>1, <1>2
      <4>5. r = B - l /\ r <= x /\ r \in Int
        BY <4>1
      <4>3. B + r - x \in 1..B /\ n + (B + r - x) + l = b + B + B
        BY ONLY <4>2, <4>5
      <4> QED
        BY <1>1, <4>1, <4>3
    <3>3. h + 2 \in Nat /\ n + pad + l = B * (h + 2)
      <4>1. h + 2 \in Nat
        OBVIOUS
      <4> QED
        BY <3>1, <3>2, <4>1, Zenon
    <3>4. PICK s \in Nat : n + pad + l = B * s
      BY <3>3
    <3> QED
      BY <2>2, <3>2, <3>4
  <2> QED
    BY <2>1, <2>2
<1> DEFINE P == MdPadding(pad)
           L == MdLength(ctx.count)
<1>5. MdFinal(ctx) = MdUpdate(MdUpdate(ctx, P), L).state
  BY <1>3, <1>4, Zenon DEF MdFinal
<1>6. d \in Seq(T) /\ 0 \in T /\ 128 \in T /\ ctx.count \in T
  <2>1. \A i \in 1..Len(d) : d[i] \in T
    BY ElementOfSeq
  <2> HIDE DEF T
  <2>2. d \in Seq(T)
    BY <2>1
  <2> QED
    BY <2>2 DEF T
<1> HIDE DEF T, room
<1>7. P \in Seq(T) /\ Len(P) = pad /\ \A k \in 1..pad : P[k] = IF k = 1 THEN 128 ELSE 0
  <2>1. pad \in Nat /\ pad > 0
    OBVIOUS
  <2> QED
    BY <1>6, <2>1, MdFillers DEF MdPadding
<1>8. L \in Seq(T) /\ Len(L) = l /\ L[1] = ctx.count
  <2>1. l \in Nat /\ l > 0 /\ 1 \in 1..l /\ L = <<ctx.count>> \o [i \in 1..(l - 1) |-> 0]
    BY <1>1 DEF MdLength
  <2> QED
    BY <1>6, <2>1, MdFillers
<1> HIDE DEF P, L
<1>9. PICK h1 \in Nat, x1 \in 0..(CoBlock - 1) : MdHolds(MdUpdate(ctx, P), d \o P, h1, x1)
  BY <1>6, <1>7, MdUpdateHolds
<1>10. d \o P \in Seq(T) /\ Len(d \o P) = n + pad
  <2>1. d \o P \in Seq(T) /\ Len(d \o P) = Len(d) + Len(P)
    BY <1>6, <1>7, MdJoined
  <2> QED
    BY <1>2, <1>7, <2>1
<1>11. PICK g \in Nat, y \in 0..(CoBlock - 1) :
         MdHolds(MdUpdate(MdUpdate(ctx, P), L), (d \o P) \o L, g, y)
  BY <1>8, <1>9, <1>10, MdUpdateHolds
<1>12. PICK e : e = (d \o P) \o L
  OBVIOUS
<1>13. PICK c : c = d \o P
  OBVIOUS
<1>14. MdAfter(d, P, c, n, pad) /\ MdAfter(c, L, e, n + pad, l)
  <2>1. MdAfter(d, P, c, n, pad)
    BY <1>2, <1>6, <1>7, <1>13, MdAppends
  <2>2. MdAfter(c, L, e, n + pad, l)
    BY <1>8, <1>10, <1>12, <1>13, MdAppends
  <2> QED
    BY <2>1, <2>2
<1>15. Len(e) = n + pad + l /\ Len(e) = B * g + y
  BY <1>1, <1>11, <1>12, <1>14 DEF MdAfter, MdHolds
<1>16. y = 0 /\ B * g = n + pad + l
  <2>1. PICK a \in Nat : a = n + pad + l
    OBVIOUS
  <2>2. MdSplit(a, B, s, 0) /\ MdSplit(a, B, g, y)
    BY <1>1, <1>4, <1>15, <2>1 DEF MdSplit
  <2>3. a % B = 0 /\ a % B = y
    BY <2>2, MdSplits
  <2> QED
    BY <1>15, <2>1, <2>3
<1>17. PICK f : f = MdFinal(ctx) /\ f = [i \in 1..(n + pad + l) |-> e[i]]
  <2>1. MdUpdate(MdUpdate(ctx, P), L).state = [i \in 1..(CoBlock * g) |-> e[i]]
    BY <1>11, <1>12 DEF MdHolds
  <2> QED
    BY <1>1, <1>5, <1>16, <2>1
<1>18. e \in Seq(T)
  BY <1>8, <1>10, <1>12, ConcatProperties
<1>19. f \in Seq(T) /\ DOMAIN f = 1..(n + pad + l)
  <2>1. \A i \in 1..(n + pad + l) : e[i] \in T
    BY <1>15, <1>18, ElementOfSeq
  <2>2. n + pad + l \in Nat
    OBVIOUS
  <2> QED
    BY <1>17, <2>1, <2>2
<1>20. \A i \in 1..n : f[i] = d[i]
  <2> SUFFICES ASSUME NEW i \in 1..n PROVE f[i] = d[i]
    OBVIOUS
  <2>1. i \in 1..(n + pad) /\ i \in 1..(n + pad + l)
    OBVIOUS
  <2>2. e[i] = c[i] /\ c[i] = d[i]
    BY <1>14, <2>1 DEF MdAfter
  <2> QED
    BY <1>17, <2>1, <2>2
<1>21. \A k \in 1..pad : f[n + k] = IF k = 1 THEN 128 ELSE 0
  <2> SUFFICES ASSUME NEW k \in 1..pad PROVE f[n + k] = IF k = 1 THEN 128 ELSE 0
    OBVIOUS
  <2>1. n + k \in 1..(n + pad) /\ n + k \in 1..(n + pad + l)
    OBVIOUS
  <2>2. e[n + k] = c[n + k] /\ c[n + k] = P[k]
    BY <1>14, <2>1 DEF MdAfter
  <2>3. f[n + k] = e[n + k]
    BY <1>17, <2>1
  <2> QED
    BY <1>7, <2>2, <2>3
<1>22. f[n + pad + 1] = ctx.count
  <2>1. 1 \in 1..l /\ n + pad + 1 \in 1..(n + pad + l)
    BY <1>1
  <2>2. e[n + pad + 1] = L[1]
    BY <1>14, <2>1 DEF MdAfter
  <2> QED
    BY <1>8, <1>17, <2>1, <2>2
<1>23. MdEnds(f, d, n, ctx.count, pad, g)
  BY <1>1, <1>16, <1>19, <1>20, <1>21, <1>22 DEF T, MdEnds
<1> QED
  BY <1>1, <1>2, <1>17, <1>23

LEMMA MdWholeIs ==
  ASSUME coData \in Seq(0..255), NEW h \in Nat, NEW x \in 0..(CoBlock - 1), MdHolds(MdContext, coData, h, x)
  PROVE  MdWhole
<1>1. PICK n \in Nat, l \in Nat, B \in Nat \ {0} : n = Len(coData) /\ l = CoLength /\ B = CoBlock /\ 1 <= l
  <2>1. Len(coData) \in Nat
    OBVIOUS
  <2> QED
    BY <2>1, CodingsAssumption
<1>2. PICK pad \in 1..B, g \in Nat :
        /\ n + pad + l = B * g
        /\ DOMAIN MdFinal(MdContext) = 1..(B * g) /\ MdFinal(MdContext) \in Seq((0..255) \cup {MdContext.count})
        /\ \A i \in 1..n : MdFinal(MdContext)[i] = coData[i]
        /\ \A k \in 1..pad : MdFinal(MdContext)[n + k] = IF k = 1 THEN 128 ELSE 0
        /\ MdFinal(MdContext)[n + pad + 1] = MdContext.count
  <2>1. PICK pad \in 1..B, g \in Nat : MdEnds(MdFinal(MdContext), coData, n, MdContext.count, pad, g)
    BY <1>1, MdFinalIs
  <2> QED
    BY <1>1, <2>1 DEF MdEnds
<1>3. PICK blocks : blocks = MdFinal(MdContext)
  OBVIOUS
<1>4. Len(blocks) = n + pad + l /\ Len(blocks) % B = 0
  <2>1. PICK a \in Nat : a = n + pad + l /\ a = B * g
    BY <1>2
  <2>2. DOMAIN blocks = 1..a /\ blocks \in Seq((0..255) \cup {MdContext.count})
    BY <1>2, <1>3, <2>1
  <2>3. Len(blocks) = a
    <3>1. PICK T : T = (0..255) \cup {MdContext.count}
      OBVIOUS
    <3>2. blocks \in Seq(T)
      BY <2>2, <3>1
    <3>3. Len(blocks) \in Nat /\ DOMAIN blocks = 1..Len(blocks)
      BY <3>2
    <3> QED
      BY <2>2, <3>3
  <2>4. MdSplit(a, B, g, 0)
    BY <2>1 DEF MdSplit
  <2> QED
    BY <2>1, <2>3, <2>4, MdSplits
<1>5. Len(blocks) - n - l = pad
  BY <1>4
<1>6. SubSeq(blocks, 1, n) = coData
  <2>1. PICK T : T = (0..255) \cup {MdContext.count}
    OBVIOUS
  <2>2. blocks \in Seq(T) /\ n <= Len(blocks)
    BY <1>2, <1>3, <1>4, <2>1
  <2>3. SubSeq(blocks, 1, n) = [i \in 1..n |-> blocks[i]]
    BY <2>2
  <2>4. \A i \in 1..n : blocks[i] = coData[i]
    BY <1>2, <1>3
  <2>5. coData = [i \in 1..n |-> coData[i]]
    BY <1>1
  <2> QED
    BY <2>3, <2>4, <2>5
<1>7. \A i \in (n + 1)..(Len(blocks) - l) : blocks[i] = IF i = n + 1 THEN 128 ELSE 0
  <2> SUFFICES ASSUME NEW i \in (n + 1)..(Len(blocks) - l) PROVE blocks[i] = IF i = n + 1 THEN 128 ELSE 0
    OBVIOUS
  <2>1. PICK k \in 1..pad : k = i - n /\ i = n + k
    BY <1>4
  <2>2. blocks[n + k] = IF k = 1 THEN 128 ELSE 0
    BY <1>2, <1>3
  <2> QED
    BY <2>1, <2>2
<1>8. blocks[Len(blocks) - l + 1] = MdBits(n)
  <2>1. Len(blocks) - l + 1 = n + pad + 1
    BY <1>4
  <2>2. MdContext.count = MdBits(n)
    BY <1>1 DEF MdHolds
  <2> QED
    BY <1>2, <1>3, <2>1, <2>2
<1>9. Len(blocks) % CoBlock = 0 /\ Len(blocks) - n - CoLength \in 1..CoBlock
  BY <1>1, <1>4, <1>5
<1>10. /\ \A i \in (n + 1)..(Len(blocks) - CoLength) : blocks[i] = IF i = n + 1 THEN 128 ELSE 0
       /\ blocks[Len(blocks) - CoLength + 1] = <<(8 * n) % CoWord, ((8 * n) \div CoWord) % CoWord>>
  BY <1>1, <1>7, <1>8, Zenon DEF MdBits
<1> DEFINE bl == MdFinal(MdContext)
           nn == Len(coData)
<1>11. n = nn /\ blocks = bl
  BY <1>1, <1>3
<1>12. /\ Len(bl) % CoBlock = 0 /\ Len(bl) - nn - CoLength \in 1..CoBlock
       /\ SubSeq(bl, 1, nn) = coData
       /\ \A i \in (nn + 1)..(Len(bl) - CoLength) : bl[i] = IF i = nn + 1 THEN 128 ELSE 0
       /\ bl[Len(bl) - CoLength + 1] = <<(8 * nn) % CoWord, ((8 * nn) \div CoWord) % CoWord>>
  <2> HIDE DEF bl, nn
  <2>1. Len(bl) % CoBlock = 0 /\ Len(bl) - nn - CoLength \in 1..CoBlock
    BY ONLY <1>9, <1>11, Zenon
  <2>2. SubSeq(bl, 1, nn) = coData
    BY ONLY <1>6, <1>11, Zenon
  <2>3. /\ \A i \in (nn + 1)..(Len(bl) - CoLength) : bl[i] = IF i = nn + 1 THEN 128 ELSE 0
        /\ bl[Len(bl) - CoLength + 1] = <<(8 * nn) % CoWord, ((8 * nn) \div CoWord) % CoWord>>
    BY ONLY <1>10, <1>11, Zenon
  <2> QED
    BY ONLY <2>1, <2>2, <2>3, Zenon
<1> QED
  BY <1>12, Zenon DEF MdWhole

-----------------------------------------------------------------------------
(* Codings: MD5 was given the data, in whatever pieces.                      *)

CoInv ==
  /\ coData \in Seq(0..255)
  /\ \E h \in Nat, x \in 0..(CoBlock - 1) : MdHolds(MdContext, coData, h, x)

LEMMA CoInitInv == CoInit => CoInv
<1> SUFFICES ASSUME CoInit PROVE CoInv
  OBVIOUS
<1>1. coData = <<>> /\ mdCount = <<0, 0>> /\ mdState = <<>>
  BY DEF CoInit
<1>2. PICK z \in Nat, B \in Nat \ {0} : z = 0 /\ B = CoBlock /\ z \in 0..(B - 1)
  BY CodingsAssumption
<1>3. Len(coData) = B * z + z /\ B * z = 0 /\ 1..(B * z) = {} /\ 0..(z - 1) = {}
  BY <1>1, <1>2
<1>4. MdContext.count = MdBits(Len(coData))
  <2>1. PICK W \in Nat \ {0} : W = CoWord
    BY CodingsAssumption
  <2>2. MdSplit(0, W, 0, 0)
    BY DEF MdSplit
  <2>3. 0 % W = 0 /\ 0 \div W = 0
    BY <2>2, MdSplits
  <2>4. Len(coData) = 0 /\ 8 * 0 = 0
    BY <1>1
  <2> QED
    BY <1>1, <2>1, <2>3, <2>4 DEF MdBits, MdContext
<1>5. MdContext.state = [i \in 1..(B * z) |-> coData[i]]
  BY <1>1, <1>3 DEF MdContext
<1>6. MdHolds(MdContext, coData, z, z)
  BY <1>2, <1>3, <1>4, <1>5 DEF MdHolds
<1>7. coData \in Seq(0..255)
  BY <1>1
<1> QED
  BY <1>2, <1>6, <1>7 DEF CoInv

LEMMA CoStepInv == CoInv /\ [CoNext]_coVars => CoInv'
<1> SUFFICES ASSUME CoInv, [CoNext]_coVars PROVE CoInv'
  OBVIOUS
<1>1. CASE CoNext
  <2>0. PICK n \in 1..CoMaxLen : \E piece \in [1..n -> CoBytes] : CoPut(piece)
    BY <1>1 DEF CoNext
  <2>1. PICK piece \in [1..n -> CoBytes] : CoPut(piece)
    BY <2>0
  <2>2. piece \in Seq(0..255) /\ coData \in Seq(0..255)
    <3>1. n \in Nat /\ CoBytes \subseteq 0..255
      BY CodingsAssumption
    <3>2. PICK S : S = 0..255
      OBVIOUS
    <3>3. piece \in [1..n -> S]
      BY <3>1, <3>2
    <3>4. piece \in Seq(S)
      BY <3>1, <3>3
    <3> QED
      BY <3>2, <3>4 DEF CoInv
  <2>3. PICK h \in Nat, x \in 0..(CoBlock - 1) : MdHolds(MdContext, coData, h, x)
    BY DEF CoInv
  <2>4. PICK g \in Nat, y \in 0..(CoBlock - 1) : MdHolds(MdUpdate(MdContext, piece), coData \o piece, g, y)
    BY <2>2, <2>3, MdUpdateHolds
  <2>5. PICK c : c = MdUpdate(MdContext, piece)
    OBVIOUS
  <2>6. coData' = coData \o piece /\ mdCount' = c.count /\ mdState' = c.state /\ mdBuffer' = c.buffer
    BY <2>1, <2>5 DEF CoPut
  <2>7. MdContext' = [count |-> c.count, state |-> c.state, buffer |-> c.buffer]
    BY <2>6 DEF MdContext
  <2>8. PICK m : m = MdContext' /\ m.count = c.count /\ m.state = c.state /\ m.buffer = c.buffer
    <3>1. PICK m : m = MdContext'
      OBVIOUS
    <3>2. m.count = c.count /\ m.state = c.state /\ m.buffer = c.buffer
      BY <2>7, <3>1, MdFields, Zenon
    <3> QED
      BY <3>1, <3>2
  <2>9. MdHolds(m, coData', g, y)
    BY <2>4, <2>5, <2>6, <2>8 DEF MdHolds
  <2>10. coData' \in Seq(0..255)
    BY <2>2, <2>6, MdJoined
  <2>11. MdHolds(MdContext', coData', g, y)
    BY <2>8, <2>9
  <2> QED
    BY <2>10, <2>11 DEF CoInv
<1>2. CASE UNCHANGED coVars
  <2>1. coData' = coData /\ MdContext' = MdContext
    BY <1>2 DEF coVars, MdContext
  <2> QED
    BY <2>1 DEF CoInv
<1> QED
  BY <1>1, <1>2

(* What is encoded is decoded again within the room that was counted, in base64 and *)
(* with percent signs, and MD5 is fed every byte once, in whatever pieces they come *)
(* and though the number of bits wraps (Base64, PercentEncoding, MD5Update).        *)
THEOREM CodingsAreKept == CoSpec => []CodingsKept
<1>1. CoInit => CoInv
  BY CoInitInv
<1>2. CoInv /\ [CoNext]_coVars => CoInv'
  BY CoStepInv
<1>3. CoInv => CodingsKept
  <2> SUFFICES ASSUME CoInv PROVE CodingsKept
    OBVIOUS
  <2>1. coData \in Seq(0..255)
    BY DEF CoInv
  <2>2. PICK h \in Nat, x \in 0..(CoBlock - 1) : MdHolds(MdContext, coData, h, x)
    BY DEF CoInv
  <2>3. CoRoundTrip /\ CoFits
    BY <2>1, CoRoundTripIs, CoFitsIs
  <2>4. CoPercentKept
    BY <2>1, CoPercentKeptIs
  <2>5. MdWhole
    BY <2>1, <2>2, MdWholeIs
  <2> QED
    BY <2>3, <2>4, <2>5 DEF CodingsKept
<1> QED
  BY <1>1, <1>2, <1>3, PTL DEF CoSpec
=============================================================================
