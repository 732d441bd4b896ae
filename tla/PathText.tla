------------------------------ MODULE PathText -------------------------------
(* The operations of Path.cpp on the text of a path, as they are built for     *)
(* Linux.                                                                      *)
EXTENDS TextUtil

PtSperator == 47    \* PATH_SPERATOR
PtDot == 46

PtRfind(p, c) == TxRfind(p, <<c>>)
\* rsplit: without a separator all is the directory.
PtRsplit(p, c) ==
  IF PtRfind(p, c) = TxNpos THEN [found |-> FALSE, dir |-> p, name |-> <<>>]
  ELSE [found |-> TRUE, dir |-> TxLeft(p, PtRfind(p, c) - 1), name |-> TxFrom(p, PtRfind(p, c) + 1)]

\* A faulty variant: without a separator there is no directory.
PtDirnameOfName(p) ==
  IF PtRfind(p, PtSperator) = TxNpos THEN <<>> ELSE TxLeft(p, PtRfind(p, PtSperator) - 1)
PtBasename(p) ==
  IF PtRfind(p, PtSperator) = TxNpos THEN <<>> ELSE TxFrom(p, PtRfind(p, PtSperator) + 1)
PtDirname(p) ==
  IF PtRfind(p, PtSperator) = TxNpos THEN p ELSE TxLeft(p, PtRfind(p, PtSperator) - 1)

\* A faulty variant: one is added to what ends with one.
PtAddSperatorAlways(p) == IF p = <<>> THEN p ELSE Append(p, PtSperator)
PtAddSperator(p) == IF p = <<>> \/ Last(p) = PtSperator THEN p ELSE Append(p, PtSperator)
PtEndWithSperator(p) == p # <<>> /\ Last(p) = PtSperator
PtJoin(dir, name) == PtAddSperator(dir) \o name

PtGetFileExt(p) == IF PtRfind(p, PtDot) = TxNpos THEN <<>> ELSE TxFrom(p, PtRfind(p, PtDot))
\* A faulty variant: the dot belongs to both.
PtGetFileTitleDot(p) == TxLeft(p, PtRfind(p, PtDot))
PtGetFileTitle(p) == IF PtRfind(p, PtDot) = TxNpos THEN <<>> ELSE TxLeft(p, PtRfind(p, PtDot) - 1)

\* toUnixSlash, which is convertSlash here.
PtToUnixSlash(p) == TxReplaceChar(p, 92, 47)

\* isabs: "~" and ".." are relative, any other beginning is not.
PtIsabs(p) ==
  /\ p # <<>> /\ p[1] \notin {PtDot, 126}
  /\ TxFind(p, <<PtDot, PtDot>>, 1) = TxNpos

-----------------------------------------------------------------------------
(* Properties *)

\* The directory and the name of a path make it again with one separator, the name has
\* none, and rsplit gives the same two (dirname, basename, rsplit).
PtRejoined ==
  LET two == PtRsplit(txStr, PtSperator)
  IN /\ two.dir = PtDirname(txStr) /\ two.name = PtBasename(txStr)
     /\ PtRfind(two.name, PtSperator) = TxNpos
     /\ txStr = two.dir \o (IF two.found THEN <<PtSperator>> ELSE <<>>) \o two.name

\* A name put into a directory is found there, whatever the directory ends with (join,
\* basename, dirname); into its own directory again, it is where it was.
PtJoined ==
  /\ \A dir \in TxWords :
       PtRfind(txStr, PtSperator) = TxNpos =>
         /\ PtBasename(PtJoin(dir, txStr)) = txStr
         /\ Append(PtDirname(PtJoin(dir, txStr)), PtSperator) =
              IF PtEndWithSperator(dir) THEN dir ELSE Append(dir, PtSperator)
  /\ LET dir == PtDirname(txStr)
     IN PtRfind(txStr, PtSperator) # TxNpos /\ dir # <<>> /\ ~PtEndWithSperator(dir) =>
          PtJoin(dir, PtBasename(txStr)) = txStr

\* Title and extension make the name, and the extension has the only dot of its own
\* (getFileTitle, getFileExt).
PtExtended ==
  PtRfind(txStr, PtDot) # TxNpos =>
    /\ PtGetFileTitle(txStr) \o PtGetFileExt(txStr) = txStr
    /\ Cardinality({i \in DOMAIN PtGetFileExt(txStr) : PtGetFileExt(txStr)[i] = PtDot}) = 1
=============================================================================
