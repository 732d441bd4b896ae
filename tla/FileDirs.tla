------------------------------- MODULE FileDirs -------------------------------
(* The directories above a file: ensureParentDir of the log (CLog.cpp), which   *)
(* every process calls before it opens its log file, and createDirectories of   *)
(* Path. Both look at a part of the path and then make it; processes that start *)
(* together do so for the same parts. One system call is one step. A path is    *)
(* the sequence of its names; nothing is removed.                               *)
EXTENDS Integers, Sequences, SequencesExt

CONSTANTS
  FdProcs,       \* processes
  FdPaths        \* paths of directories, with every prefix that is not empty

ASSUME FdAssumption ==
  \A p \in FdPaths : p \in Seq(STRING) /\ p # <<>> /\ Prefixes(p) \subseteq FdPaths \cup {<<>>}

VARIABLES
  fdTree,        \* what exists: path -> "dir" or "file"
  fdProc         \* the processes

fdVars == <<fdTree, fdProc>>

FdExists(p) == p \in DOMAIN fdTree
FdIsDir(p) == p = <<>> \/ (FdExists(p) /\ fdTree[p] = "dir")
FdIsFile(p) == FdExists(p) /\ ~FdIsDir(p)

\* Any tree, with files where directories are wanted too.
FdTrees ==
  {t \in UNION {[S -> {"dir", "file"}] : S \in SUBSET FdPaths} :
     \A p \in DOMAIN t : \A q \in Prefixes(p) \ {<<>>, p} : q \in DOMAIN t /\ t[q] = "dir"}

\* at: the parts that are looked at. kind: "log" or "path".
FdInit ==
  /\ fdTree \in FdTrees
  /\ fdProc = [p \in FdProcs |-> [kind |-> "log", path |-> <<>>, at |-> 1, step |-> "made"]]

FdPart(p) == SubSeq(fdProc[p].path, 1, fdProc[p].at)
FdGoes(p, step) == fdProc' = [fdProc EXCEPT ![p].step = step]

\* A faulty variant: the last part is left to the caller.
FdOnButLast(p) ==
  fdProc' = [fdProc EXCEPT ![p].at = @ + 1, ![p].step = IF fdProc[p].at >= Len(fdProc[p].path) - 1 THEN "made" ELSE "stat"]

\* The next part, until the path ends.
FdOn(p) ==
  IF fdProc[p].at = Len(fdProc[p].path) THEN FdGoes(p, "made")
  ELSE fdProc' = [fdProc EXCEPT ![p].at = @ + 1, ![p].step = "stat"]

\* A call; the log first looks whether the directory is there (existDir).
FdCall(p, kind, path) ==
  /\ fdProc[p].step \in {"made", "failed"}
  /\ fdProc' = [fdProc EXCEPT ![p] = [kind |-> kind, path |-> path, at |-> 1,
                                      step |-> IF kind = "log" /\ FdIsDir(path) THEN "made" ELSE "stat"]]
  /\ UNCHANGED fdTree

\* createIfNotExist looks: the log for a directory, Path for anything.
FdStat(p) ==
  /\ fdProc[p].step = "stat"
  /\ IF (IF fdProc[p].kind = "log" THEN FdIsDir(FdPart(p)) ELSE FdExists(FdPart(p)))
     THEN FdOn(p) ELSE FdGoes(p, "mkdir")
  /\ UNCHANGED fdTree

\* A faulty variant: what was made meanwhile is an error.
FdAcceptsNew(p) == FALSE

\* What mkdir finds there already is as good as made to the log (EEXIST), not to Path.
FdAccepts(p) == fdProc[p].kind = "log" /\ FdExists(FdPart(p))

\* and makes it, which needs a directory above.
FdMkdir(p) ==
  LET part == FdPart(p)
      makes == ~FdExists(part) /\ FdIsDir(Front(part))
  IN /\ fdProc[p].step = "mkdir"
     /\ fdTree' = IF makes THEN [q \in DOMAIN fdTree \cup {part} |-> IF q = part THEN "dir" ELSE fdTree[q]] ELSE fdTree
     /\ IF makes \/ FdAccepts(p) THEN FdOn(p) ELSE FdGoes(p, "failed")

FdNext ==
  \E p \in FdProcs :
    \/ \E kind \in {"log", "path"}, path \in FdPaths : FdCall(p, kind, path)
    \/ FdStat(p) \/ FdMkdir(p)

-----------------------------------------------------------------------------
(* Properties *)

\* A call that says it is done leaves the whole path there, and directories above its last
\* name, whoever made them (createDirectories).
FdMade ==
  \A p \in FdProcs :
    fdProc[p].step = "made" =>
      \A q \in Prefixes(fdProc[p].path) :
        IF q = fdProc[p].path THEN q = <<>> \/ FdExists(q) ELSE FdIsDir(q)

\* A process is denied its log directory only when a file is in the way, never because
\* another process made the directory between its look and its mkdir (createIfNotExist).
FdGranted ==
  \A p \in FdProcs :
    fdProc[p].kind = "log" /\ fdProc[p].step = "failed" => \E q \in Prefixes(fdProc[p].path) : FdIsFile(q)

\* Directories are there when a call says so, and a process is refused one only for a file
\* in the way.
FdSafe == FdMade /\ FdGranted
=============================================================================
