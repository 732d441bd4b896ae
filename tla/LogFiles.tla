------------------------------ MODULE LogFiles -------------------------------
(* The files of FileLogWriter (CLog.cpp): the log, and the backups it is       *)
(* renamed to when it has become too large.                                    *)
(*                                                                             *)
(* logFiles[0] is the log and logFiles[i] the backup path.i, as the sequence   *)
(* of the messages in it. An empty file and none are the same: only a log that *)
(* has reached its limit is renamed, so that no backup is ever empty.          *)
EXTENDS Integers, Sequences, FiniteSets, FiniteSetsExt

CONSTANTS
  LogSizes, LogCounts,               \* limits and numbers of backups a program sets
  LogDefaultSize, LogDefaultCount    \* DEFAULT_MAX_SIZE, DEFAULT_ROLL_COUNT

VARIABLES
  logFiles,     \* [index -> sequence of messages]
  logWriter,    \* the FileLogWriter, or LogNoWriter
  logRoll       \* what doRollOver does next: the backup to move up; -1 when it is not running

logFileVars == <<logFiles, logWriter, logRoll>>

LogMaxCount == Max(LogCounts \cup {LogDefaultCount})
LogIndices == 0..LogMaxCount

\* There are finitely many limits, each at least one.
LogLimits(limits) == limits \subseteq Nat \ {0} /\ \E n \in limits : \A m \in limits : m <= n

ASSUME LogFilesAssumption == LogLimits(LogSizes \cup {LogDefaultSize}) /\ LogLimits(LogCounts \cup {LogDefaultCount})

LogNoWriter == [path |-> "none", open |-> FALSE, max |-> 0, count |-> 0, size |-> 0]

\* A message is a number; odd ones are twice as long.
LogLength(m) == 1 + (m % 2)
LogFileSize(f) == Len(f) + Cardinality({n \in DOMAIN f : f[n] % 2 = 1})

\* A faulty variant: the size of what is there already is not asked for.
LogOpenedEmpty(w) == IF w.open \/ w.path = "" THEN w ELSE [w EXCEPT !.open = TRUE, !.size = 0]

\* openFile: "a+" creates or continues the file; an empty path cannot be opened.
LogOpened(w) ==
  IF w.open \/ w.path = "" THEN w
  ELSE [w EXCEPT !.open = TRUE, !.size = LogFileSize(logFiles[0])]

\* The constructor.
LogNewWriter(path) ==
  LogOpened([path |-> path, open |-> FALSE, max |-> LogDefaultSize, count |-> LogDefaultCount, size |-> 0])

\* setFile, setMaxSize and setRollCount, which ignore a limit of 0.
LogConfigured(w, path, size, count) ==
  [LogOpened([w EXCEPT !.path = path, !.open = FALSE])
     EXCEPT !.max = IF size < 1 THEN @ ELSE size, !.count = IF count < 1 THEN @ ELSE count]

\* write: a file that cannot be opened drops the message. Reaching the limit closes
\* the file and starts to roll.
LogWriteFile(m) ==
  LET w == LogOpened(logWriter)
      size == w.size + LogLength(m)
      full == size >= w.max
  IN IF ~w.open THEN UNCHANGED logFileVars
     ELSE /\ logFiles' = [logFiles EXCEPT ![0] = Append(@, m)]
          /\ logWriter' = [w EXCEPT !.size = size, !.open = ~full]
          /\ logRoll' = IF full THEN w.count ELSE -1

\* A faulty variant: the log is renamed to the last place at once.
LogRollOverLast ==
  /\ logRoll >= 0
  /\ logFiles' = IF logRoll # 0 THEN logFiles
                 ELSE [logFiles EXCEPT ![logWriter.count] = logFiles[0], ![0] = <<>>]
  /\ logRoll' = logRoll - 1
  /\ UNCHANGED logWriter

\* A faulty variant: the newest backup is moved first.
LogRollOverUpward ==
  /\ logRoll >= 0
  /\ LET i == logWriter.count - 1 - logRoll
     IN logFiles' =
          IF logRoll = logWriter.count THEN [logFiles EXCEPT ![logRoll] = <<>>]
          ELSE IF logFiles[i] = <<>> THEN logFiles
          ELSE [logFiles EXCEPT ![i + 1] = logFiles[i], ![i] = <<>>]
  /\ logRoll' = logRoll - 1
  /\ UNCHANGED logWriter

\* doRollOver, one file system call after the other: the last backup is removed, each
\* other one is renamed to the next, the log to the first.
LogRollOver ==
  /\ logRoll >= 0
  /\ logFiles' =
       IF logRoll = logWriter.count THEN [logFiles EXCEPT ![logRoll] = <<>>]
       ELSE IF logFiles[logRoll] = <<>> THEN logFiles
       ELSE [logFiles EXCEPT ![logRoll + 1] = logFiles[logRoll], ![logRoll] = <<>>]
  /\ logRoll' = logRoll - 1
  /\ UNCHANGED logWriter

LogFilesInit ==
  /\ logFiles = [i \in LogIndices |-> <<>>]
  /\ logWriter = LogNoWriter
  /\ logRoll = -1
=============================================================================
