------------------------------ MODULE CStrView -------------------------------
(* CStr (CStr.cpp): a view of a text that somebody else owns, and the          *)
(* tokenizers that move one along it. A view is the place of its first         *)
(* character in the text, and its length.                                      *)
EXTENDS TextUtil

VARIABLES
  csView,      \* m_src of a tokenizer
  csSep,       \* its separator, or <<>> when there is no tokenizer
  csWhole,     \* it is a StrToken, whose separator is a text, not a CharToken
  csTokens     \* the tokens it gave

csVars == <<txStr, csView, csSep, csWhole, csTokens>>

CsView(from, len) == [from |-> from, len |-> len]
CsEmpty == CsView(1, 0)
CsAll == CsView(1, Len(txStr))
CsText(v) == SubSeq(txStr, v.from, v.from + v.len - 1)

\* find and rfind of a character; both give a place in the view.
CsFindChar(v, c, from) == TxFind(CsText(v), <<c>>, from)
CsRfindChar(v, c) == TxRfind(CsText(v), <<c>>)

\* findStr stops one place early: an occurrence at the very end is not found.
CsFindStr(v, w, from) ==
  LET at == {i \in TxPlaces(CsText(v), w, from) : i + Len(w) <= v.len} IN IF at = {} THEN TxNpos ELSE Min(at)

\* A faulty variant: the length stays what it was.
CsAdvanceOnly(v, n) == IF n > v.len THEN v ELSE CsView(v.from + n, v.len)
CsAdvance(v, n) == IF n > v.len THEN v ELSE CsView(v.from + n, v.len - n)
\* A faulty variant: the length is not cut off.
CsSubstrWhole(v, i, n) == IF i > v.len THEN CsEmpty ELSE CsView(v.from + i - 1, n)
CsSubstr(v, i, n) == IF i > v.len THEN CsEmpty ELSE CsView(v.from + i - 1, IF n < v.len - i + 1 THEN n ELSE v.len - i + 1)
\* mid up to a position; an end behind the view becomes the last character, which is left out.
CsMid(v, i, e) == IF i > v.len THEN CsEmpty ELSE CsView(v.from + i - 1, (IF e > v.len + 1 THEN v.len ELSE e) - i)

CsSplitAt(v, i) ==
  IF v.len = 0 THEN [count |-> 0, head |-> CsEmpty, tail |-> CsEmpty]
  ELSE IF i = TxNpos THEN [count |-> 1, head |-> v, tail |-> CsEmpty]
  ELSE [count |-> 2, head |-> CsView(v.from, i - 1), tail |-> CsView(v.from + i, v.len - i)]
CsSplit(v, c) == CsSplitAt(v, CsFindChar(v, c, 1))
CsSplitStr(v, w) == CsSplitAt(v, CsFindStr(v, w, 1))

CsExtract(v, b, e) ==
  LET i == CsFindChar(v, b, 1)
      j == CsFindChar(v, e, i + 1)
  IN IF i = TxNpos \/ j = TxNpos THEN CsEmpty ELSE CsView(v.from + i, j - i - 1)

\* A faulty variant: texts one of which begins with the other are equal.
CsComparePrefix(s, t) ==
  LET differ == {i \in DOMAIN s \cap DOMAIN t : s[i] # t[i]}
  IN IF differ = {} THEN 0 ELSE IF s[Min(differ)] < t[Min(differ)] THEN -1 ELSE 1

\* compare of an empty text, and of others by characters and then by length.
CsCompare(s, t) ==
  LET differ == {i \in DOMAIN s \cap DOMAIN t : s[i] # t[i]}
  IN IF differ # {} THEN IF s[Min(differ)] < t[Min(differ)] THEN -1 ELSE 1
     ELSE IF Len(s) < Len(t) THEN -1 ELSE IF Len(s) > Len(t) THEN 1 ELSE 0

\* startWith compares the whole view with the text.
CsStartWith(v, w) == v.len >= Len(w) /\ CsCompare(CsText(v), w) = 0
CsEndWith(v, w) == v.len >= Len(w) /\ CsCompare(SubSeq(CsText(v), v.len - Len(w) + 1, v.len), w) = 0
CsIsNumber(v) == v.len > 0 /\ \A i \in 1..v.len : CsText(v)[i] \in 48..57

CsInit == TxInit /\ csView = CsEmpty /\ csSep = <<>> /\ csWhole = FALSE /\ csTokens = <<>>

\* CharToken and StrToken.
CsToken(w, whole) ==
  /\ csSep = <<>> /\ (whole \/ Len(w) = 1)
  /\ csView' = CsAll /\ csSep' = w /\ csWhole' = whole /\ csTokens' = <<>>
  /\ UNCHANGED txStr

\* A StrToken passes the length of its separator as the position to look from.
CsNextPlace ==
  IF csWhole THEN CsFindStr(csView, csSep, Len(csSep) + 1) ELSE CsFindChar(csView, csSep[1], 1)

\* A faulty variant: the separator stays in the view.
CsNextKept ==
  /\ csSep # <<>> /\ csView.len > 0
  /\ LET i == CsNextPlace
     IN IF i = TxNpos THEN csTokens' = Append(csTokens, csView) /\ csView' = CsEmpty
        ELSE /\ csTokens' = Append(csTokens, CsView(csView.from, i - 1))
             /\ csView' = CsAdvance(csView, IF i = 1 THEN 1 ELSE i - 1)
  /\ UNCHANGED <<txStr, csSep, csWhole>>

CsNext ==
  /\ csSep # <<>> /\ csView.len > 0
  /\ LET i == CsNextPlace
     IN IF i = TxNpos THEN csTokens' = Append(csTokens, csView) /\ csView' = CsEmpty
        ELSE /\ csTokens' = Append(csTokens, CsView(csView.from, i - 1))
             /\ csView' = CsAdvance(csView, i - 1 + Len(csSep))
  /\ UNCHANGED <<txStr, csSep, csWhole>>

\* The owner of the text changes it when no tokenizer looks at it.
CsChange ==
  /\ csSep = <<>> /\ TxNext
  /\ UNCHANGED <<csView, csSep, csWhole, csTokens>>

\* A tokenizer is done with, at its end or before.
CsDone ==
  /\ csSep # <<>>
  /\ csView' = CsEmpty /\ csSep' = <<>> /\ csWhole' = FALSE /\ csTokens' = <<>>
  /\ UNCHANGED txStr

CsSteps == (\E w \in TxWords, whole \in BOOLEAN : CsToken(w, whole)) \/ CsNext \/ CsChange \/ CsDone

-----------------------------------------------------------------------------
(* Properties *)

\* No view reaches out of its text: neither the tokenizer's nor a token nor any that is
\* made of them (advance, substr, mid up to a later position, split, extract).
CsWithin(v, w) == w.len >= 0 /\ (w.len = 0 \/ (w.from >= v.from /\ w.from + w.len <= v.from + v.len))
CsInside ==
  \A v \in {csView, CsAll} \cup ToSet(csTokens) :
    /\ CsWithin(CsAll, v)
    /\ \A n \in 1..(v.len + 1) :
         /\ CsWithin(v, CsAdvance(v, n))
         /\ \A m \in 0..(v.len + 2) : CsWithin(v, CsSubstr(v, n, m)) /\ (m >= n => CsWithin(v, CsMid(v, n, m)))
    /\ \A c, d \in TxChars : CsWithin(v, CsExtract(v, c, d)) /\ CsWithin(v, CsSplit(v, c).tail) /\ CsWithin(v, CsSplit(v, c).head)
    /\ \A w \in TxWords : CsWithin(v, CsSplitStr(v, w).tail) /\ CsWithin(v, CsSplitStr(v, w).head)

\* The tokens with the separator between them, and what is left, are the text, whichever
\* occurrences the tokenizer finds (CharToken::next, StrToken::next).
CsLossless ==
  csSep # <<>> =>
    LET given == TxJoin([i \in DOMAIN csTokens |-> CsText(csTokens[i])], csSep)
    IN txStr \in {given \o CsText(csView), SubSeq(given, 1, Len(given) - Len(csSep)) \o CsText(csView)}

\* At its end, a CharToken has given what StringUtil::split puts into a container.
CsSameAsSplit ==
  csSep # <<>> /\ ~csWhole /\ csView.len = 0 =>
    [i \in DOMAIN csTokens |-> CsText(csTokens[i])] = TxSplitAll(txStr, csSep)

\* compare orders the texts: equal ones are the same text and the order turns round, as
\* operator < and == need it; endWith is right, and startWith never is for a view that does
\* not start with the text (compare, startWith, endWith).
CsOrdered ==
  \A w \in TxWords \cup {CsText(t) : t \in ToSet(csTokens)} :
    /\ CsCompare(txStr, w) = 0 <=> txStr = w
    /\ CsCompare(txStr, w) = -CsCompare(w, txStr)
    /\ CsEndWith(CsAll, w) = TxEndsWith(txStr, w)
    /\ CsStartWith(CsAll, w) => TxStartsWith(txStr, w)
=============================================================================
