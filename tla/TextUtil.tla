------------------------------ MODULE TextUtil -------------------------------
(* StringUtil (TStringUtil.h), the operations on texts that the programs       *)
(* parse paths, options and settings with. A text is a sequence of character   *)
(* codes; positions count from 1, and 0 is npos.                               *)
EXTENDS Integers, Sequences, SequencesExt, FiniteSets, FiniteSetsExt

CONSTANTS
  TxChars,       \* characters
  TxWords,       \* the texts that are looked for, inserted and replaced
  TxMaxLen       \* bound: length of a text

ASSUME TextAssumption == TxChars \subseteq Nat /\ <<>> \notin TxWords /\ TxMaxLen \in Nat

VARIABLE txStr   \* the text
txVars == <<txStr>>

TxNpos == 0
TxIsTrimChar(c) == c \in {9, 10, 13, 32}
TxLower(c) == IF c \in 65..90 THEN c + 32 ELSE c
TxUpper(c) == IF c \in 97..122 THEN c - 32 ELSE c
TxToLower(s) == [i \in DOMAIN s |-> TxLower(s[i])]
TxToUpper(s) == [i \in DOMAIN s |-> TxUpper(s[i])]

\* std::string's find and rfind.
TxAt(s, w, i) == i + Len(w) - 1 <= Len(s) /\ SubSeq(s, i, i + Len(w) - 1) = w
TxPlaces(s, w, from) == {i \in from..Len(s) : TxAt(s, w, i)}
TxFind(s, w, from) == IF TxPlaces(s, w, from) = {} THEN TxNpos ELSE Min(TxPlaces(s, w, from))
TxRfind(s, w) == IF TxPlaces(s, w, 1) = {} THEN TxNpos ELSE Max(TxPlaces(s, w, 1))
TxFrom(s, i) == SubSeq(s, i, Len(s))

TxLeft(s, n) == SubSeq(s, 1, IF n < Len(s) THEN n ELSE Len(s))
\* A faulty variant: a position behind the end is not cut off.
TxInsertAfter(s, i, w) == TxLeft(s, i) \o w \o TxFrom(s, i + 1)
TxInsert(s, i, w) == TxLeft(s, i - 1) \o w \o TxFrom(s, i)
TxRemove(s, i, n) == TxLeft(s, i - 1) \o TxFrom(s, i + n)
TxErase(s, c) == SelectSeq(s, LAMBDA x : x # c)
TxReplaceChar(s, old, new) == [i \in DOMAIN s |-> IF s[i] = old THEN new ELSE s[i]]

\* trim by a set of characters, of which isTrimChar is one. A text of blanks only is empty
\* after trimLeft; trimRight alone would read on before its beginning.
TxTrimLeft(s, blanks) ==
  LET kept == {i \in DOMAIN s : s[i] \notin blanks} IN IF kept = {} THEN <<>> ELSE TxFrom(s, Min(kept))
TxTrimRight(s, blanks) ==
  LET kept == {i \in DOMAIN s : s[i] \notin blanks} IN IF kept = {} THEN <<>> ELSE TxLeft(s, Max(kept))
TxTrim(s, blanks) == TxTrimRight(TxTrimLeft(s, blanks), blanks)

TxStartsWith(s, w) == Len(s) >= Len(w) /\ TxLeft(s, Len(w)) = w
TxEndsWith(s, w) == Len(s) >= Len(w) /\ TxFrom(s, Len(s) - Len(w) + 1) = w
TxEnsureStartsWith(s, w) == IF TxStartsWith(s, w) THEN s ELSE w \o s
\* A faulty variant: the whole text is compared.
TxEnsureEndsWithWhole(s, w) == IF s = w THEN s ELSE s \o w
TxEnsureEndsWith(s, w) == IF TxEndsWith(s, w) THEN s ELSE s \o w

TxGetHead(s, w) == IF TxFind(s, w, 1) = TxNpos THEN s ELSE TxLeft(s, TxFind(s, w, 1) - 1)
\* A faulty variant: of a separator only its first character is skipped.
TxGetTailOne(s, w) == IF TxFind(s, w, 1) = TxNpos THEN <<>> ELSE TxFrom(s, TxFind(s, w, 1) + 1)
TxGetTail(s, w) == IF TxFind(s, w, 1) = TxNpos THEN <<>> ELSE TxFrom(s, TxFind(s, w, 1) + Len(w))

\* split and rsplit into two: the tail begins one character after the place, however
\* long the separator is.
TxSplitAt(s, i) ==
  IF i = TxNpos THEN [found |-> FALSE, head |-> s, tail |-> <<>>]
  ELSE [found |-> TRUE, head |-> TxLeft(s, i - 1), tail |-> TxFrom(s, i + 1)]
TxSplit(s, w) == TxSplitAt(s, TxFind(s, w, 1))
TxRsplit(s, w) == TxSplitAt(s, TxRfind(s, w))

\* split into a container: what is behind the last separator counts when there is something.
TxSplitAll(s, w) ==
  LET parts[b \in 1..(Len(s) + 1)] ==
        LET i == TxFind(s, w, b)
        IN IF i # TxNpos THEN <<SubSeq(s, b, i - 1)>> \o parts[i + Len(w)]
           ELSE IF b <= Len(s) THEN <<TxFrom(s, b)>> ELSE <<>>
  IN parts[1]

\* A faulty variant: only the first is replaced.
TxReplaceFirst(s, old, new) ==
  LET i == TxFind(s, old, 1) IN IF i = TxNpos THEN s ELSE TxLeft(s, i - 1) \o new \o TxFrom(s, i + Len(old))

\* replace goes on behind what it put in.
TxReplace(s, old, new) ==
  LET rest[b \in 1..(Len(s) + 1)] ==
        LET i == TxFind(s, old, b)
        IN IF i = TxNpos THEN TxFrom(s, b) ELSE SubSeq(s, b, i - 1) \o new \o rest[i + Len(old)]
  IN rest[1]

\* A faulty variant: the length is counted from the first mark's beginning.
TxExtractLong(s, start, b, e, fullMatch) ==
  LET i == TxFind(s, b, start)
      j == TxFind(s, e, i + Len(b))
  IN IF i = TxNpos THEN <<>>
     ELSE IF j # TxNpos THEN SubSeq(s, i + Len(b), Min({j - 1 + Len(b), Len(s)}))
     ELSE IF fullMatch THEN <<>> ELSE TxFrom(s, i + Len(b))

TxExtract(s, start, b, e, fullMatch) ==
  LET i == TxFind(s, b, start)
      j == TxFind(s, e, i + Len(b))
  IN IF i = TxNpos THEN <<>>
     ELSE IF j # TxNpos THEN SubSeq(s, i + Len(b), j - 1)
     ELSE IF fullMatch THEN <<>> ELSE TxFrom(s, i + Len(b))

TxBecomes(s) == Len(s) <= TxMaxLen /\ txStr' = s

TxInit == txStr = <<>>
TxNext ==
  \/ \E i \in 1..(TxMaxLen + 1), c \in TxChars : TxBecomes(TxInsert(txStr, i, <<c>>))
  \/ \E i \in 1..(TxMaxLen + 1), n \in 0..TxMaxLen : TxBecomes(TxRemove(txStr, i, n))
  \/ \E c, d \in TxChars : TxBecomes(TxReplaceChar(txStr, c, d)) \/ TxBecomes(TxErase(txStr, c))
  \/ TxBecomes(TxToLower(txStr)) \/ TxBecomes(TxToUpper(txStr)) \/ TxBecomes(Reverse(txStr))
  \/ \E old, new \in TxWords : TxBecomes(TxReplace(txStr, old, new))

-----------------------------------------------------------------------------
(* Properties *)

TxJoin(parts, w) == FlattenSeq([i \in 1..(2 * Len(parts)) |-> IF i % 2 = 0 THEN w ELSE parts[(i + 1) \div 2]])

\* What splitting a text takes apart is all of it: into two at a character or by getHead
\* and getTail at any separator, into a container but for what an ending separator ends
\* (split, rsplit, getHead, getTail); and no part holds the separator.
TxTakenApart ==
  \A w \in TxWords :
    LET two == TxSplit(txStr, w)
        last == TxRsplit(txStr, w)
        parts == TxSplitAll(txStr, w)
    IN /\ Len(w) = 1 /\ two.found => two.head \o w \o two.tail = txStr /\ TxFind(two.head, w, 1) = TxNpos
       /\ Len(w) = 1 /\ last.found => last.head \o w \o last.tail = txStr /\ TxFind(last.tail, w, 1) = TxNpos
       /\ IF two.found THEN TxGetHead(txStr, w) \o w \o TxGetTail(txStr, w) = txStr ELSE TxGetHead(txStr, w) = txStr
       /\ TxJoin(parts, w) \in {txStr, txStr \o w}
       /\ \A i \in DOMAIN parts : TxFind(parts[i], w, 1) = TxNpos

\* Replacing leaves none of the old, and can be undone when the new was not there (replace).
TxReplaced ==
  \A old, new \in TxWords :
    ToSet(old) \cap ToSet(new) = {} =>
      LET s == TxReplace(txStr, old, new)
      IN /\ TxFind(s, old, 1) = TxNpos
         /\ ToSet(txStr) \cap ToSet(new) = {} => TxReplace(s, new, old) = txStr

\* What was inserted is removed at the same place, wherever that is; behind the end it was
\* appended (insert, remove, getIterator).
TxUndone ==
  \A i \in 1..(TxMaxLen + 1), w \in TxWords :
    LET j == IF i > Len(txStr) THEN Len(txStr) + 1 ELSE i
    IN TxAt(TxInsert(txStr, i, w), w, j) /\ TxRemove(TxInsert(txStr, i, w), j, Len(w)) = txStr

\* Trimming takes blanks only and leaves none at the ends; a text begins and ends with what
\* was ensured, once however often (trim, ensureStartsWith, ensureEndsWith).
TxFitted ==
  LET t == TxTrim(txStr, {c \in TxChars : TxIsTrimChar(c)})
  IN /\ \E i \in 1..(Len(txStr) + 1) : TxAt(txStr, t, i) /\ \A j \in DOMAIN txStr \ i..(i + Len(t) - 1) : TxIsTrimChar(txStr[j])
     /\ t # <<>> => ~TxIsTrimChar(t[1]) /\ ~TxIsTrimChar(t[Len(t)])
     /\ \A w \in TxWords :
          LET e == TxEnsureEndsWith(txStr, w)
              b == TxEnsureStartsWith(txStr, w)
          IN /\ TxEndsWith(e, w) /\ TxStartsWith(e, txStr) /\ TxEnsureEndsWith(e, w) = e
             /\ TxStartsWith(b, w) /\ TxEndsWith(b, txStr) /\ TxEnsureStartsWith(b, w) = b

\* What is extracted stands between the two marks and does not hold the second; without it,
\* to the end unless a full match was asked for (extract).
TxExtracted ==
  \A b, e \in TxWords, full \in BOOLEAN :
    LET x == TxExtract(txStr, 1, b, e, full)
        i == TxFind(txStr, b, 1)
    IN x # <<>> =>
         /\ i # TxNpos /\ TxFind(x, e, 1) = TxNpos
         /\ TxAt(txStr, b \o x \o e, i) \/ (~full /\ TxFrom(txStr, i) = b \o x)
=============================================================================
