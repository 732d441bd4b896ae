-------------------------------- MODULE CLog ---------------------------------
(* CLog: the table of loggers, its configuration by code and by file, and the  *)
(* logging of messages by other threads meanwhile. Of the types of loggers the *)
(* console stands for those without a state of their own.                      *)
EXTENDS LogFiles, Functions

CONSTANTS
  LogConfigs,    \* configuration files, see LogAssumption
  LogLevels,     \* levels of messages and loggers
  LogMaxMsgs, LogMaxStarts, LogMaxReloads    \* bounds

\* A configuration file: per section whether it says enabled ("on", "off", "absent"),
\* the level, and the limits, -1 for one that the file does not have.
ASSUME LogAssumption ==
  /\ LogLevels \subseteq Nat /\ 0 \in LogLevels
  /\ LogMaxMsgs \in Nat /\ LogMaxStarts \in Nat /\ LogMaxReloads \in Nat
  /\ \A cfg \in LogConfigs :
       cfg \in [console : {"on", "off", "absent"}, file : {"on", "off", "absent"}, level : LogLevels,
                size : LogSizes \cup {-1}, count : LogCounts \cup {-1}]

VARIABLES
  logPc,         \* what the thread that configures does: "down", "ready", or a step of reload
  logTable,      \* [type -> level, or -1 for no logger]
  logContext,    \* file name, size and count of s_context
  logLive,       \* [type -> writers that were made and not deleted]
  logConfig, logEnabled,    \* reload's file and its variable enabled
  logSeq,        \* messages logged
  logStarts, logReloads

logVars == <<logFiles, logWriter, logRoll, logPc, logTable, logContext, logLive, logConfig,
             logEnabled, logSeq, logStarts, logReloads>>

LogTypes == {"COUT", "FILE"}
LogNone == -1
LogAbsent == -1    \* a limit that the file does not have

LogNoConfig == [console |-> "off", file |-> "off", level |-> 0, size |-> LogAbsent, count |-> LogAbsent]

LogNoContext == [name |-> "", size |-> LogDefaultSize, count |-> LogDefaultCount]
LogNothing == [t \in LogTypes |-> LogNone]

LogConfigurer == <<logConfig, logEnabled, logStarts, logReloads>>

\* The lock of the context is free: a write that rolls holds it to the end.
LogUnlocked == logRoll = -1

LogInit ==
  /\ LogFilesInit
  /\ logPc = "down"
  /\ logTable = LogNothing
  /\ logContext = LogNoContext
  /\ logLive = [t \in LogTypes |-> 0]
  /\ logConfig = LogNoConfig
  /\ logEnabled = FALSE
  /\ logSeq = 0
  /\ logStarts = 0 /\ logReloads = 0

\* setLogger: the writer in the table before is forgotten, not deleted.
LogSetLogger(t, level) ==
  /\ logTable' = [logTable EXCEPT ![t] = level]
  /\ logLive' = [logLive EXCEPT ![t] = @ + 1]
  /\ IF t = "FILE" THEN logWriter' = LogNewWriter(logContext.name) ELSE UNCHANGED logWriter

\* setFileParam: what is missing takes its default; the writer takes it when there is one. It
\* multiplies a size in megabytes by 1024 * 1024 in an int, so the sizes of the model are those
\* below 2048 MB.
LogSetFileParam(name, size, count) ==
  LET c == [name |-> IF name = "" THEN "app.log" ELSE name,
            size |-> IF size <= 0 THEN LogDefaultSize ELSE size,
            count |-> IF count <= 0 THEN LogDefaultCount ELSE count]
  IN /\ logContext' = c
     /\ logWriter' = IF logTable["FILE"] = LogNone THEN logWriter
                     ELSE LogConfigured(logWriter, c.name, c.size, c.count)

\* The programs' setupLog: setLogger of both, then setFileParam.
LogSetup(size, count) ==
  /\ logPc = "down"
  /\ logStarts < LogMaxStarts
  /\ logStarts' = logStarts + 1
  /\ logPc' = "ready"
  /\ logTable' = [t \in LogTypes |-> 0]
  /\ logLive' = [t \in LogTypes |-> 1]
  /\ logContext' = [name |-> "app.log", size |-> size, count |-> count]
  /\ logWriter' = LogConfigured(LogNewWriter(""), "app.log", size, count)
  /\ UNCHANGED <<logFiles, logRoll, logConfig, logEnabled, logReloads, logSeq>>

\* startup with a file, in a program that does not configure by code.
LogStartup ==
  /\ logPc = "down"
  /\ logStarts < LogMaxStarts
  /\ logStarts' = logStarts + 1
  /\ logPc' = "ready"
  /\ UNCHANGED <<logFiles, logWriter, logRoll, logTable, logContext, logLive, logConfig,
                 logEnabled, logReloads, logSeq>>

LogAdjust(size, count) ==
  /\ logPc = "ready" /\ LogUnlocked
  /\ LogSetFileParam("app.log", size, count)
  /\ UNCHANGED <<logFiles, logRoll, logPc, logTable, logLive, LogConfigurer, logSeq>>

-----------------------------------------------------------------------------
(* reload: the lock is taken and released by every call it makes *)

LogReload(cfg) ==
  /\ logPc = "ready"
  /\ logReloads < LogMaxReloads
  /\ logReloads' = logReloads + 1
  /\ logConfig' = cfg
  /\ logEnabled' = FALSE
  /\ logPc' = "reset"
  /\ UNCHANGED <<logFiles, logWriter, logRoll, logTable, logContext, logLive, logStarts, logSeq>>

\* A faulty variant: the loggers that were are not deleted.
LogResetNot ==
  /\ logPc = "reset" /\ LogUnlocked
  /\ logPc' = "console"
  /\ UNCHANGED <<logFiles, logWriter, logRoll, logTable, logLive, logContext, LogConfigurer, logSeq>>

LogReset ==
  /\ logPc = "reset" /\ LogUnlocked
  /\ logPc' = "console"
  /\ logTable' = LogNothing
  /\ logLive' = [t \in LogTypes |-> IF logTable[t] = LogNone THEN logLive[t] ELSE logLive[t] - 1]
  /\ logWriter' = LogNoWriter
  /\ UNCHANGED <<logFiles, logRoll, logContext, LogConfigurer, logSeq>>

\* enabled keeps its value when the section does not have the key.
LogSection(key, t) ==
  /\ LogUnlocked
  /\ logEnabled' = IF key = "absent" THEN logEnabled ELSE key = "on"
  /\ IF logEnabled' THEN LogSetLogger(t, logConfig.level) ELSE UNCHANGED <<logTable, logLive, logWriter>>
  /\ UNCHANGED <<logFiles, logRoll, logContext, logConfig, logStarts, logReloads, logSeq>>

LogConsole == logPc = "console" /\ logPc' = "params" /\ LogSection(logConfig.console, "COUT")

LogParams ==
  /\ logPc = "params" /\ LogUnlocked
  /\ logPc' = "file"
  /\ LogSetFileParam(logContext.name,
                     IF logConfig.size = LogAbsent THEN logContext.size ELSE logConfig.size,
                     IF logConfig.count = LogAbsent THEN logContext.count ELSE logConfig.count)
  /\ UNCHANGED <<logFiles, logRoll, logTable, logLive, LogConfigurer, logSeq>>

LogFile == logPc = "file" /\ logPc' = "ready" /\ LogSection(logConfig.file, "FILE")

-----------------------------------------------------------------------------
(* Other threads, and the end of the process *)

\* writeLog, at any moment between two holders of the lock.
LogWrite(level) ==
  /\ logPc # "down" /\ LogUnlocked
  /\ logSeq < LogMaxMsgs
  /\ logSeq' = logSeq + 1
  /\ IF logTable["FILE"] # LogNone /\ logTable["FILE"] <= level
     THEN LogWriteFile(logSeq')
     ELSE UNCHANGED logFileVars
  /\ UNCHANGED <<logPc, logTable, logContext, logLive, LogConfigurer>>

LogRolling ==
  /\ LogRollOver
  /\ UNCHANGED <<logPc, logTable, logContext, logLive, LogConfigurer, logSeq>>

\* The process ends at any moment, between two calls of doRollOver too.
LogCrash ==
  /\ logPc # "down"
  /\ logPc' = "down"
  /\ logTable' = LogNothing
  /\ logContext' = LogNoContext
  /\ logLive' = [t \in LogTypes |-> 0]
  /\ logWriter' = LogNoWriter
  /\ logRoll' = -1
  /\ logConfig' = LogNoConfig
  /\ logEnabled' = FALSE
  /\ UNCHANGED <<logFiles, logStarts, logReloads, logSeq>>

LogNext ==
  \/ \E size \in LogSizes, count \in LogCounts : LogSetup(size, count) \/ LogAdjust(size, count)
  \/ LogStartup
  \/ \E cfg \in LogConfigs : LogReload(cfg)
  \/ LogReset \/ LogConsole \/ LogParams \/ LogFile
  \/ \E level \in LogLevels : LogWrite(level)
  \/ LogRolling \/ LogCrash

LogSpec == LogInit /\ [][LogNext]_logVars

-----------------------------------------------------------------------------
(* Properties *)

LogTypeOK ==
  /\ \A i \in LogIndices : \A n \in DOMAIN logFiles[i] : logFiles[i][n] \in 1..LogMaxMsgs
  /\ logTable \in [LogTypes -> LogLevels \cup {LogNone}]
  /\ logWriter.count \in LogIndices
  /\ logRoll \in -1..logWriter.count
  /\ logLive \in [LogTypes -> 0..1]

\* Read from the oldest backup to the log, the files hold messages in the order they
\* were logged in, none twice, through rolling, crashes within it, restarts and changes
\* of the number of backups (FileLogWriter::doRollOver).
LogInOrder ==
  \A i, j \in LogIndices : \A x \in DOMAIN logFiles[i], y \in DOMAIN logFiles[j] :
    i > j \/ (i = j /\ x < y) => logFiles[i][x] < logFiles[j][y]

\* A message is lost in one way only: it is in the oldest backup when that is removed,
\* and older than all that the log and the backups still hold. No other step of rolling,
\* no crash within it and no change of the limits loses one (doRollOver, openFile).
LogHeld(n) == UNION {Range(logFiles[i]) : i \in 0..n}
LogLosesOldest ==
  [][\A m \in LogHeld(LogMaxCount) \ LogHeld(LogMaxCount)' :
       /\ m \in Range(logFiles[logWriter.count])
       /\ \A n \in LogHeld(logWriter.count)' : m < n]_logVars

\* What the writer counts is the size of the file, so that a file becomes too long by a
\* crash before it is rolled only: for each one more message (write, openFile).
LogBounded ==
  /\ logWriter.open => logWriter.size = LogFileSize(logFiles[0])
  /\ \A i \in LogIndices : LogFileSize(logFiles[i]) < Max(LogSizes \cup {LogDefaultSize}) + 2 * logStarts

\* Every writer that was made is in the table or was deleted: reloading does not leak
\* open files (reload, resetLogger).
LogNoLeak == \A t \in LogTypes : logLive[t] = IF logTable[t] = LogNone THEN 0 ELSE 1

\* CLog.ini: after a reload, the log file has the limits of the configuration.
LogConfigApplies ==
  [][LogFile /\ logWriter'.open /\ logConfig.count # LogAbsent
       => logWriter'.count = logConfig.count]_logVars

\* The files hold what was logged, in order, up to the oldest; no writer leaks.
LogSafe == []LogTypeOK /\ []LogInOrder /\ []LogBounded /\ []LogNoLeak /\ LogLosesOldest
=============================================================================
