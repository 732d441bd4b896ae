# Verification of DgnssServer

TLA+ models of DgnssServer, the TLC runs that check them, and the theorems about
them that TLAPS proves. `PROJECT.json` is the index: components, runs, the source
lines each definition stands for, the hazards of the code with the properties that
cover them, findings and theorems.

## 1. The system

    receivers --TCP--> AgnssCapture --PUSH/PULL--> AgnssServer --PUB/SUB--> AgnssCaster --HTTP--> clients

Reference receivers send OEM4 binary range frames. AgnssCapture forwards their bytes,
AgnssServer decodes them and turns each epoch into an RTCM 3 correction (1005, 1074 for
GPS, 1124 for BeiDou), AgnssCaster keeps the last one and answers requests with it. The
C++ programs stand on the library comn.

### Inventory

**AgnssCapture** (`src/AgnssCapture`, C++ on libevent)
- *State*: `m_connMap` (descriptor -> connection, the only owner), per connection its
  descriptor and bufferevent, the ZeroMQ push socket with its high-water mark.
- *Operations*: `listenerCallback` (open, ONLINE, register), `onRead` (one data message),
  `onEvent` (close, OFFLINE, `internalClose`), start and interruption of the process.
- *Interaction*: all callbacks run in one event thread; a callback blocks in the push
  socket while the pipe is full; every message carries the same device name.
- *Hard*: a callback that closes the object it runs on; `internalClose` calling back into
  the server; map entries that outlive their connection while the kernel gives the
  descriptor out again; a stream that ends with unread bytes in front.
- *Correct when*: callbacks find a live connection; ONLINE, data, OFFLINE arrive once each,
  in order and completely.

**AgnssServer** (`src/AgnssServer`, C++ and C)
- *State*: `m_processorMap`; per device a processor with `m_cs` and a `raw_t`: the frame
  parser (`nbyte`, `len`, `buff`), the observation table, the bookkeeping of lock times and
  cycle offsets, the two encoders' buffers, the finished correction `dgnssDat`.
- *Operations*: `run`/`handleCaptureMessage` (find or create the processor, `input`),
  `onTimer` every 3 s (`forEach`, `getOutput`, publish), `input_oem4`, `decode_rangeb`,
  `raw2rtcm`, `gen_rtcm3`.
- *Interaction*: the main thread and the timer thread share the map and the processors,
  under one lock for the map and one per processor.
- *Hard*: `dgnss_flag` goes up before the data it announces; `forEach` holds the map's lock
  while it takes a processor's; bytes of several connections are one stream; table and
  offsets outlive the epoch and the lock they belong to; fields of 10 to 38 bits with
  values that mean "invalid"; weeks modulo 1024.
- *Correct when*: every published correction is made of one frame and one epoch, in order,
  once, eventually; the parser stays in its buffer and recovers; a rover reads from the
  bits what was measured, and is never given a phase that was not tracked.

**AgnssCaster** (`src/AgnssCaster`, Java on Vert.x)
- *State*: `dataMap` (device -> last message), `latestDataMap`, `dataUpdatedTime`, the SUB
  socket's queue; for the web classes the session store and the pool of database
  connections.
- *Operations*: a periodic handler takes one message a second, another drops what is out
  of date, `handleGetData` and `handleListDevice` answer; log-in, log-out and what needs a
  user (which no route of `App` reaches yet).
- *Hard*: one message a second against any number of devices; a timeout that counts from
  the taking of a message; two maps that must agree; answers that go back in time; chains
  of callbacks of which any may fail with a connection in its hand.

**comn** (`src/comn`)
- *Timer queue* (`CTimerQueue`): a list of tasks under a lock, a thread, an event. Adding,
  cancelling, clearing and stopping race with the thread that waits and runs.
- *Threads, events, semaphores* (`TThread.h`, `TEvent.h`, `TSemaphore.h`): members that are
  read without a lock, condition variables that wake for no reason or too late.
- *Log* (`CLog.cpp`): loggers that are replaced while other threads log; files that are
  rolled by renaming, which a crash may cut in two.
- *Containers and buffers* (`TMap.h`, `TDiscreteArray.h`, `NumGenerator.h`, `TIOBuffer.h`,
  `TByteBuffer.h`, `CharArray.h`): limits, growth, compaction, wrap-around.
- *Texts* (`TStringUtil.h`, `CStr.cpp`, `Path.cpp`, `IniFile.cpp`, `OptionParser.cpp`,
  `Base64.cpp`, `PercentEncoding.cpp`, `Md5.cpp`): what goes in must come out.

## 2. Modules

| Module | Models | State and actions in terms of the code |
|---|---|---|
| `AssistData` | the decoding of one frame, as operators | `Obsindex`, `DecodeRangeb`: the table and its epoch test; `GpsMessage`, `BdsMessage`: `raw2rtcm` and `gen_rtcm3`; `BothSystems`: the test before `dgnssDat` is filled. Operators return the set of possible tables where the order within a frame would matter (a full table). |
| `AgnssServer` (extends `AssistData`) | the two threads | `mainPc`, `timerPc` say between which lock operations a thread is; `SetFlag`, `CopyGps`, `CopyBds` are the copies into `dgnssDat` one by one; `LockOutput` ... `Publish` are `handleOutput`. |
| `CorrectionMailbox` | what the server promises | per device a mailbox of one correction: post replaces, take empties. `AgnssServer!Mailbox` is the refinement mapping. |
| `OemFramer` | `input_oem4`, byte by byte | `Search`, `Store` are the two halves of `input_oem4`; several connections feed one parser, are cut in the middle of frames, and noise arrives. |
| `CarrierLock` | one signal through `decode_rangeb` and `gen_msm_sig` | `lockt`, `halfc`, `tobs` and `cp`, `lltime` are the code's; the receiver loses, finds and resolves the signal; a frame holds it, holds others, or nothing usable. |
| `MsmLayout` | the messages 1005 and MSM4, bit by bit, and a rover that reads them | `MlPut` is `setbitu`; `gen_rtcm3`, `encode_msm_head`, `gen_msm_sat`, `gen_msm_sig` and the fields, with the widths as constants; `cp`, `lltime` kept between messages. |
| `GpsTime` | the calendar | `epoch2time`, `time2epoch` (with its loop over the days), leap seconds, `gpst2time` and `time2gpst` with the `int` of their weeks (`GtInt`), `adjgpsweek`. |
| `CTimerQueue` | the timer queue | each critical section and each event call is a step: `AddRemove`, `AddExpire`, `AddInsert`, `AddPost` are `add`; `Loop`, `Wake`, `CheckoutFront`, `RunTask`, `Reinsert` are the thread. |
| `TimerService` | what the queue promises | handlers run one at a time, none before one that expires earlier. `CTimerQueue!Service` is the mapping. |
| `TThread` | `Thread` on POSIX | each access of the unlocked members is a step: `m_handle` is read twice by `join`, and given up by the ending thread before it detaches itself. A `pthread_join` of -1 or of a detached thread is undefined: it returns (`ThUndefined`), takes the process with it (`ThCrashed`), or never returns. |
| `TEvent` / `EventFlag` | `ConditionEvent` / what it promises | the mutex, the condition variable with spurious wake-ups and timeouts, `reset` without the mutex; the promise is a flag that one wait takes. |
| `TSemaphore` | `SimulatedSemaphore`, `SemaphoreEvent` | count, waiters and condition variable; the event's look at the value and its post as two steps, and `reset` with its loop of looks and posts. |
| `LogFiles`, `CLog` | the log | `LogRoll...` are the renames of `doRollOver` one by one; `reload` step by step while other threads log; the process may end at any step. |
| `FileDirs` | directories above a file | two processes' `stat` and `mkdir` calls interleaved (`ensureParentDir`, `createDirectories`). |
| `Sessions` | log-in, sessions, database connections | each callback is a step, each asynchronous call may fail; `ssIdle` is the pool. A form comes with a session of a cookie or with none (`SsNoSession`). |
| `IniText`, `IniFile`, `LogIni` | ini files, twice in comn | an object of sections and entries, a file of lines; load, save, get, set, insert, remove. `LogIni` is CLog's copy with its own comparison of names, and reads each line from its text. |
| `TIOBuffer` / `ByteQueue` | `IOBuffer` / what it promises | block, read and write position, compaction and growth; the copy constructor, and `operator=` of a buffer of any size (`IoAssigning`); the promise is a queue of bytes, or what was just assigned. |
| `Buffers` | `ByteBuffer`, `CharArray` | a block and a length, with what is behind the end. |
| `Containers` | `Map`, `DiscreteArray`, `NumGenerator` | each operation is one critical section. |
| `TextUtil`, `CStrView`, `PathText` | texts, views with their tokenizers, paths | operators with the code's positions and ends; the tokenizers are steps. |
| `Codings` | Base64, percent-encoding, MD5's blocks | MD5's mixing of a block is opaque: the state is the list of blocks. |
| `Options` | `OptionParser` | declaring, parsing item by item (an empty list of arguments fails at once), asking. |
| `AgnssCapture` | the capture | a callback is a step; `pipe` is what ZeroMQ holds, `Receive` is AgnssServer taking a message. |
| `AgnssCaster` | the caster | a handler is a step, time in seconds, the server's timer publishes into `queue`. |
| `AgnssHandler` (extends `AgnssCaster`) | the two requests | `AhValid` are the checks, `AhParts` the choice of what is written. |
| `MC...` | instances for TLC | |
| `...Proofs` | theorems and their lemmas | |

How they fit together: the messages `AgnssCapture!Receive` takes are those
`AgnssServer!Receive` begins with; the bytes in them are what `OemFramer` cuts into the
frames `AgnssServer` chooses freely; `CarrierLock` follows one satellite through the same
frames, and `MsmLayout` writes the bits of what it keeps; what `AgnssServer!Publish` sends
is what `AgnssCaster!ServerTick` queues and `AgnssHandler` gives away. The timer queue is
what calls `Tick`; its thread is a `TThread`, its event a `TEvent`.

`MCField`, `MCDecoding`, `MCComnThreads` and `MCData` put parts into one instance that share
no state: a variable `part` that never changes says which of them moves, the others stay in
their first state. So each part is checked on all its behaviours, their numbers of states
add and do not multiply, and nothing is claimed of their interaction.

A property of a run is often the conjunction of named parts, one for each thing that can go
wrong (`CorrectionsInTurn` is `PublishedInOrder` and `ReadyLeavesTaken`, `LogSafe` has five
parts): the parts are stated, with their code, in the components' modules, and TLC's report
names the part that is broken.

Definitions that begin "A faulty variant" are plausible bugs. No specification uses them:
each part was seen to fail when the operator it is about is replaced by the variant above
that operator, so that a property that passes says something about the code. `PROJECT.json`
lists one for each property of a run.

## 3. Runs

| Run | Instance | What it shows |
|---|---|---|
| `server_safety` | 2 devices, 3 usable satellites and one that is skipped, table of 2, 2 epochs, 2 messages, 2 frames per device | no correction mixes frames or epochs (`PublishedWhole`); corrections leave in order, once, and through the timer alone (`CorrectionsInTurn`); the server implements the mailbox. `ServerInv` is the inductive invariant of the proofs and the size of the table. |
| `server_live` | 2 devices, 2 satellites | `ServerGoesOn`: a ready correction is published or replaced by a newer one, and no message waits for ever; the mailbox's fairness holds. |
| `server_sync` | 1 device | finding: the multiple-message bits are the wrong way round. |
| `decoding` | framer: 2 connections, 3 frames, 2 noise events, the longest body fills the buffer. Lock: 11 moments, tolerance 2, a frame at least every other moment apart | frames are neither invented nor, without noise, lost (`FramesKept`); the remembered lock time and the offset fit the lock (`LockInv`, the inductive invariant of the proofs); an uninterrupted frame is accepted whatever went before (`Recovers`); the buffer is never overrun (`Bounded`). No phase without a lock; slips restart the lock time, lost frames do not (`LockTimesTell`). |
| `data` | twelve parts, see Bounds | buffers are queues, containers find what was put, files, codings, texts and command lines come back as they went; a rover reads from the bits what the frame held (`MessageRead`); every second has a date and a week (`TimeKept`). |
| `timer` | 2 clients, 2 ids, intervals 0 and 2, 3 moments, 2 adds; or 1 id added 4 times at one moment | no wake-up is lost (`QueueInv`), the queue implements the service, adds that overlap double an id, but not without limit. |
| `timer_live` | 1 client, 2 ids | due timers are run, timers with interval 0 starve nobody, `stop` returns. |
| `timer_clear` | 1 client | finding: a timer that runs during `clear` comes back. |
| `field` | capture: 2 connections, 2 descriptors, 2 chunks, pipe of 2, one interruption. Caster: 3 devices, period 3, timeout 4, queue of 4, 10 seconds, 7 requests | targets of callbacks are alive, sessions and streams are kept (`CaptureInv`), OFFLINE follows. Answers are no staler than the timeout and the queue allow (`Timely`), never go back, both maps agree, live data are not dropped, refusals and parts of answers are as asked (`AnswersInv`). |
| `lock_loss` | as `decoding`'s lock | finding: a loss hidden by frames without the satellite is not indicated. |
| `comn_threads` | 2 callers and 2 starts of a thread; 3 waiters, 1 with a timeout; 4 posts, 2 threads that post and reset an event whose semaphore counts to 3; 5 messages, 2 starts, 2 reloads of the log; 2 processes, 4 directories; 3 requests, 1 connection | whoever joins finds the thread outside the derived class (`ThSafe`); the event is a flag (`EvSafe`); no token is lost, and a semaphore's event counts no more than the posts of its threads until it is reset (`SmSafe`); the log files are in order, lose the oldest only and do not leak (`LogSafe`); directories are made in spite of races (`FdSafe`); every request but a log-in form without a session is answered once, as its own user, and nobody who logged out is given the user again (`SsSafe`); callers of `stop` come back, unless a `pthread_join` was undefined, and every other request is answered in the end (`CallsEnd`). |
| `log_config` | the same | finding: the limits of a configuration file do not reach the writer. |

### Bounds, and why they are enough

- *Server.* Two devices are the fewest for which the walk over the map can be at one
  processor while the main thread is at another; two epochs and three satellites for a
  table of two give a full table, a table carried over, GPS only and BeiDou only. Two
  frames per device are needed to overwrite a correction that is being taken. Devices, and
  the GPS satellites, are interchangeable in the safety run (symmetry).
- *Framer.* A header of 4 bytes with the length last and a CRC of 1 keep every boundary of
  28, 10 and 4: `MAXRAWLEN` 7 is reached exactly by the longest body. The CRC (`MCCrc`) gives
  distinct values to distinct sequences, none of which is a byte that occurs elsewhere
  (`CrcAssumption`, which TLC evaluates): that CRC-32 does not detect every error is not the
  framer's affair. Of a CRC byte that stands where the length is, the low part is read.
- *Lock.* Eleven moments give an observation, a gap of up to four frames, and another one.
- *Message layout.* Three frames, so that a satellite appears, slips, leaves and comes back;
  the masks hold 4 satellites and the ranges a few bits, with measurements at 0, at the
  largest range, on both sides of the rough range and below it.
- *Calendar.* 1980 to 2034 in steps of 90000007 s (some three years less a bit, so that
  month, day and second vary) and around the leap seconds; clocks up to 511 weeks wrong.
  That the `int` of a week's seconds is full in 2048 is beyond the run and is proved (`WeeksRunOut`).
- *Timer queue.* Two adds of one id that overlap, one timer that runs, and a clock that moves
  between any two steps; interval 0 is always due. The model's clock stops at `MaxTime`;
  waits that would end later end there. `MCBound` is closed under everything but `add`.
- *Capture.* Two connections over two descriptors reach a descriptor that is used again.
  A pipe of two makes callbacks wait.
- *Caster.* As many devices as the server's period has seconds: the most for which `Prompt`
  can hold (the proof shows that it is enough). With more, the queue grows by design of the
  one-message-a-second handler. Ten seconds are three periods and more than one timeout.
- *Threads, events, semaphores.* Two threads stop and one joins twice; of three waiters one
  has a timeout, so that one can wake, one run out of time and one come late. A `SEM_VALUE_MAX`
  of 3 is above what two threads can post together, so that only a reset gets there.
- *Log.* Five messages and files of up to 4 with up to 2 backups roll over all of them; a
  crash can cut each rename; the limits may change at each of two reloads.
- *Directories.* Two processes on paths with common parts, and files in the way.
- *Sessions.* Three requests and one connection: one has it, one waits, one comes back; one
  cookie, so that the forms and pages come with its session or with none.
- *Data.* Texts of up to 3 characters with words of up to 2; up to 8 bytes in a buffer that
  grows by 1, and blocks of up to 3 bytes, smaller and larger than its own, assigned to it; blocks of MD5 of 4 bytes, with counters of 32
  numbers, which wrap at the fourth byte; two operations after loading any of five ini files,
  which hold every kind of line, sections that come twice and keys without values, and each
  line that is saved also as an editor of DOS leaves it, or indented; command
  lines of four items in all, with letters that are also long names.

Deadlock is checked except where the system, or the model's bounded part of it, may stop:
receivers and clients may fall silent for good, time and the number of operations end
(`decoding`, `field`, `data`, `comn_threads`, `log_config`).

### Fairness, and why the code justifies it

- *AgnssServer*: both threads go on by themselves, so each of their steps is weakly fair;
  the captures need not send. Acquiring a lock is strongly fair: the timer thread leaves the
  map alone for 3 s between ticks and the main thread leaves `input` at the end of a
  payload, so a waiter meets a free lock again and again, for long enough.
- *CTimerQueue*: the thread is scheduled, handlers return, time goes on, and a call of `add`
  or `stop` that has begun is carried through; nobody has to make a call.
- *AgnssCapture*: libevent serves every ready descriptor in each round, so the callbacks of
  a connection are strongly fair although they compete for room in the pipe; AgnssServer
  takes messages.
- *TThread*: a started thread is scheduled, and a call of `stop` or `join` that has begun is
  carried through; nobody has to make one.
- *Sessions*: the event loop runs each step that is ready, and store, pool and database
  answer or fail in the end.
- The safety runs assume none.

## 4. Findings

1. **Multiple-message bit** (`server_sync`). `gen_rtcm3` documents its argument as "sync flag
   (1:another message follows)" (`AssistData.c:2139`); `AssistData_Input` passes 0 for 1074,
   which 1124 follows, and 1 for 1124, the last one (2313, 2316).
2. **clear() and the running timer** (`timer_clear`). `TimerQueue.h:64` says "cancel all
   timer"; a repeating timer that runs at that moment is inserted again
   (`CTimerQueue.cpp:172`).
3. **Loss of lock over frames without the satellite** (`lock_loss`). `LLI` is the "loss of
   lock indicator" (`AssistData.h:224`); `decode_rangeb` compares the growth of the lock time
   since the satellite's last observation with the time since the last frame of any
   satellite (`AssistData.c:967`), so a lock lost and regained while frames lack the
   satellite is not indicated and its lock time goes on.
4. **Limits of the log file** (`log_config`). `CLog.ini` sets `MaxSize` and `RollCount`;
   `reload` hands them on before it makes the writer, which takes the defaults
   (`CLog.cpp:1969`).

Two more disagree with what the code says of itself. They have no run that fails; the
properties say what happens instead.

- **`SemaphoreEvent::reset`** is to "reset to nonsignal" (`TEvent.h:266`), but its loop posts
  while it finds the event signaled (274). It returns when waiters have taken the event to the
  last, or with the semaphore at `SEM_VALUE_MAX` and the event signaled (`SmResetEnds`, which is
  a theorem); the bound on the count holds only until then (`SmEventBounded`). No program of
  the repository makes such an event.
- **A log-in form without a session**: `UserFormLoginHandler.handle` goes on where there is
  "Either no session or no return url" (103), but `onLogin`, called before, puts the user into
  the session (142). With no session it throws after the user was authenticated and the
  query begun, inside a callback: nobody answers the request (`SsOnce`, `SsAnswered`: a form
  that throws is the only request that is done without an answer), while its connection is
  given back. `App` routes a `SessionHandler` before everything (`App.java:119`) and does not
  mount this handler.

Observed while modelling. The models do as the code does, and the properties are stated
around these; no text of the repository that contradicts them was found, or the inputs do
not occur in the programs.

- *Server.* `to_msm_lock` compares seconds with thresholds in milliseconds, so the lock
  indicator stays 0 for the first 32 s; C/N0 of 63.5 dBHz and more wraps to 0; a rough range
  of exactly 255 ms reads as invalid, and a residual of exactly 0 is written as invalid; when
  the table is full, an observation's LLI is dropped although its lock time was remembered;
  corrections of an epoch with one system only are never published; of several epochs
  between two ticks only the last is; the base64 text of a correction includes a terminating
  zero (`Application.cpp:370`).
- *Capture and caster.* `DeviceType` of `AgnssCapture.ini` never reaches a message
  (`CaptureTcpServer.cpp:27`); the caster answers with the newest message of any device and
  of all systems whatever the request names; "," is a valid list; its default port is not the
  one AgnssServer's configuration binds. A log-in whose query for the user fails still gets
  a session.
- *Threads.* `join` may give `pthread_join` the handle -1, or that of a thread that has just
  detached itself, both undefined: `ThSafe` and `CallsEnd` hold up to that call, and after it
  if it returns. A wait of `SimulatedSemaphore` that runs out of
  time may take a token with it; `createDirectory` compares `mkdir`'s result with `EEXIST`, so
  `Path::createDirectories` may lose a race that the log's own copy wins.
- *Buffers.* Assigning an `IOBuffer` to one in use copies the length of the target, beyond the
  end of a smaller source (`IoCopiesWithin` says when it cannot); `CharArray::assign` writes no
  zero, so that "hello" and then "hi" reads "hillo" (`ChTerminated` says only that the text
  ends in the block);
  `ByteBuffer::resize` and `trim` leave no zero behind the end; `CharArray::format` loses the
  last character of a text that fits exactly; `NumGenerator` wraps below its lower end when
  upper end plus step overflow; a full `DiscreteArray` refuses to replace.
- *Texts.* `split` at a text skips one character of the last separator; `CStr::findStr` misses
  an occurrence at the very end; `icompareChar` is never negative; `Path::split`,
  `removeSperator` and `basename` lose characters at the ends; a parser keeps the values of an
  earlier parse for options that the next line names without one (`OpValuesStay`), and does
  not refuse an option whose argument is missing at the end.
- *Numbers.* The seconds of a week number overflow their `int` from week 3551, in 2048
  (`AssistData.c:344`, and 385 in the other direction); a file size of 2048 MB and more
  overflows in `setFileParam` (`CLog.cpp:1842`), and the sizes of the model are below.

## 5. Proofs

For every value of the constants that satisfies the named assumptions of the modules
(finite, disjoint sets of satellites, `MAXOBS >= 1`, the layout of a frame, finite sets of
devices and threads, and so on):

| Theorem | Statement | Argument |
|---|---|---|
| `ServerInvariant`, `TypeCorrect` | `AgnssServer`: `[]ServerInv`, `[]TypeOK` | the types are inductive as they stand, given what `DecodeRangeb` and the encoders return (`DecodeType`, `MessageType`). |
| `PublishedIsWhole` | `[]PublishedWhole` | `WholeInv`: the locks are held where the program counters say (`LockInv`); the table has one epoch, that of entry 0; the encoders' pair, `dgnssDat` outside the copies, and the timer's copy after `TakeBds` are whole. `PublishedWhole` alone says nothing of what is still on its way. |
| `CorrectionsLeaveInTurn` | `CorrectionsInTurn`: `PublishedInOrder` and `ReadyLeavesTaken` | `OrderInv`: serial numbers grow from published over taken, stored and encoded to decoded ones, and a flag that is up means a newer correction than the one published. |
| `ObservationsFit` | `[]TableFits` | `ObsindexSize`: the cardinality of what `Obsindex` returns. |
| `ServerImplementsMailbox` | `Spec => Mailbox!Spec` | each step posts, takes or stutters, from the same invariant. |
| `FramerBounded` | `OemFramer`: `[]Bounded` | `FrameInv`: a length that was accepted leaves room for header and CRC, and is remembered in `len`. |
| `FramesRecover`, `CleanStreamIsKept` | `Recovers`, `[]LosslessWhenClean` | `ParserInv`: of a connection alone in the middle of its frame the parser holds what was sent of it, or has it in its window (`Follows`). The first byte cannot end an old window (`SyncAssumption`: the sync bytes differ), the length and the CRC are where the parser looks (`FrameFacts`), and the frame fits (`FramesFit`). Nothing is assumed of the CRC. |
| `FramesAreKept` | `[]FramesKept`: also `NothingInvented`, for any interleaving, loss and noise | `CreditInv`, an account of CRCs: for each body, the frames accepted, the connections that still owe its CRC (`Owing`) and the CRC in the buffer (`Held`, one at most) are together no more than the frames sent. A frame is accepted with the CRC that its own bytes determine, which spends it. Needs `CrcAssumption`: the CRC tells frames from everything else and from each other. CRC-32 does so but for one error in 2^32, so this is an idealisation, and the only theorem that uses it. |
| `CallbackTargetsAlive` | `AgnssCapture`: `[]TargetsAlive` | `MapInv`: each bufferevent's connection is in the map under its own descriptor, so no two share one, and -1, which `internalClose` passes on, is never a key. |
| `ConnectionsAreTold` | `[]CaptureInv`: `SessionProtocol` and `StreamIsKept`, of what AgnssServer took and what is in the pipe | `FlowInv`: nothing was told of a connection that is to be accepted; of one with callbacks, ONLINE and all that was read of it, and no OFFLINE; only of one that ended, OFFLINE. With `MapInv`, no callback comes after that. Messages are appended at the end and taken from the front of one stream (`Stream`), so taking changes nothing. |
| `LockInvariant`, `PhaseIsTracked`, `LockTimesAreTold` | `CarrierLock`: `[]LockInv`, `[]NoPhaseWithoutLock`, `LockTimesTell` (`SlipResets` and `LockIsKept`) | `LockInv`: the remembered lock time fits a lock that has lasted (`lockt = seenAt - since`), and the offset is zero whenever the last entry has no phase. It needs `Tolerance <= Gap`: frames closer than 0.05 s would break it. |
| `NoneWaits` | `AgnssCaster`: `[]Prompt`, if there are no more devices than the period has seconds | `HpTimely`: the message at place `i` of the socket will be taken before it is as old as there are devices (`HpWaits`). A tick keeps this because it finds at most the one message that the poll of its second takes (`AlmostEmpty`): messages were published by ticks, and two ticks are a period apart (`TicksApart`, from division with remainder). |
| `AnswersAreFresh`, `CasterIsTimely` | `[]NeverStale`, and both as `[]Timely`, under the same condition | `HpFresh`: a message was no older than `Prompt` allows when it was taken, and the check of each second has seen how long ago that was. |
| `FreshIsKept`, `ViewsAgree`, `AnswersNeverBack` | `KeptWhileFresh`, `[]OneView`, `NeverBack` | `HpCaster`, `HpInv`: times never decrease along what was given last, what is kept, and the socket; what is kept was published before it was taken. |
| `AnswersHold` | `AgnssHandler`: `[]AnswersInv`: types, `HoldsCorrection`, `OnlyKnown` | `HpTyped`: clock, jobs, socket and maps hold only devices, times and messages there are; what an answer carries follows from `handleGetData`'s checks and the maps it reads in one step. The devices of one tick are an ascending sequence (`Rounds`), as `forEach` walks a `std::map`. |
| `SessionsAreSafe` | `Sessions`: `[]SsSafe`, that is `SsTypeOK`, `SsOnce`, `SsOwnUser`, `SsLeftBehind` | `SsInv`: the step of a request determines whether it was answered and whose password was right, a form without a session never being (`SsPath`); connections in the pool and in the hands of requests add up (`SsPoolInv`); as many sessions were made as log-ins made one, so a new number is one that nobody had or left (`SsMadeInv`, `SsLeftInv`); a session that was left is gone from the store, or is nobody's. |
| `EventIsSafe` | `TEvent`: `EvSafe`, that is `[]EvTypeOK`, `[]EvNobodySleepsOver`, `EvIsFlag` | `EvInv`: the mutex has one holder, and who is about to return TRUE, or to sleep, has seen the flag with the mutex held. Steps between lock and release are stutters of `EventFlag`. |
| `ThreadIsSafe` | `TThread`: `ThSafe`, that is `[]ThTypeOK`, `ThJoinedIsOutside` | `ThInv`: the handle is that of the last start until its thread gives it up, and a thread without it does nothing more than detach itself: whatever an undefined `pthread_join` does with such a handle, the thread has left the derived class. |
| `SemaphoresAreSafe`, `ResetEnds` | `TSemaphore`: `SmSpec => SmSafe`, that is `[]SmTokens`, `[]SmNobodyForgotten`, `[]SmEventBounded` and `SmResetEnds` | inductive together: that a post finds waiters whenever somebody sleeps is `SmTokens`; the numbers change by the one waiter that moves (`MovedInCall`, `MovedWoken`). |
| `DirectoriesAreMade` | `FileDirs`: `[]FdSafe` | `FdInv`: above whatever exists there are directories, and a process that looks at a part has seen the one before it, or made it. What others make disturbs neither. A `mkdir` that fails for the log therefore has a file above it. |
| `QueueInvariant` | `CTimerQueue`: `[]QueueInv`, that is `TypeOK`, `Sorted`, `NoLostWakeup` | `TqInv`: the list is sorted and its serial numbers are unique; a serial number is of one task, wherever it is (`TqNumbers`); a task being run was due (`TqThread`); who has a new first timer to announce has yet to raise the event (`TqAwake`). Inserting and removing are described by positions (`InsertAtIsWith`, `RemoveAtIsWithout`). |
| `QueueImplementsService` | `ImplementsService` | each critical section is a step of `TimerService` or a stutter, from the same invariant: the head of a sorted list is a timer none precedes. |
| `DuplicatesAreBounded` | `[]DuplicatesBounded` | tasks of one id are counted by injections (`CountInserted`, `CountRemoved`): each client brings one at most, and the thread puts back one. |
| `LogIsSafe` | `CLog`: `LogSpec => LogSafe`, that is `[]LogTypeOK`, `[]LogBounded`, `[]LogNoLeak`, `[]LogInOrder`, `LogLosesOldest` | `LogInv`: what the files hold, read from the oldest backup to the file itself, is in order (`LogContent`), also between two renames, because each moves a file to a place that was just left (`LogRolls`); a file that is a message too long is about to be rolled by a writer that is under way, or its process ended, and each end of a process adds one message at most (`LogLong`); the writers that live are those in the table, step by step of `reload` (`LogTables`), and the one of the file knows its size (`LogWriting`). |
| `ContainersAreKept` | `Containers`: `CnSpec => ContainersKeep`, that is `[]MapFinds`, `[]ArrayCounts`, `ArrayKeeps`, `[]NumCycles` | Array: the places and the count are inductive (`CnArrayInv`); a search from the hint around the end meets every place (`CnRound`), so it finds an idle one whenever the count says there is one. Map: `removeAll` passes each key once, by the smallest set of keys for which the walk would differ from its closed form (`CnErasedIs`); the entry at a place is the one that so many come before (`CnRanked`). Generator: the numbers follow in a circle (`NumFollows`), and a walk on a circle comes back (`CnRoundExists`, `CnRoundReturns`). |
| `BufferIsQueue`, `BytesAreHeld`, `TextsEnd`, together `BuffersAreKept` | `TIOBuffer`: `[]IoTypeOK`, `[]IoWhole` and the refinement `IoIsQueue`; `Buffers`: `[]BbHolds`, `[]ChTerminated`; all as `BuffersHold`, with `IoCopiesWithin` | `moveData` copies in pieces no longer than the way they move, so that none is read after it was overwritten: each lands where the one before it ended (`IoPiecesAre`, on a closed form of what was brought so far). `BbInv`: the block agrees with the bytes up to the length, and has room for a zero behind them unless there is none; `internalEnsure` keeps both (`BbEnsuredIs`). `ChInv`: the last byte of the block is a zero, which no text reaches, and `format` puts one there when it fills the block. |
| `TimeIsKept`, `WeeksRunOut` | `GpsTime`: `GtSpec => []TimeKept`, that is `GtCalendar` (1980 to 2099) and `GtTimeFound` (to 2^31 s after the beginning of GPS time, in 2048); beyond, each second of week 3551 to 7100 is taken for one before 1980 | the leap seconds of a time by the smallest entry of the table that it has reached; the walk over the months in closed form (`GtLeft`: the days left when a month begins), which makes it the inverse of `epoch2time` from 1970 to 2099, where every fourth year is a leap year; a clock that is wrong by less than half of 1024 weeks rounds to the right multiple (`GtWeekFound`). |
| `OptionsAreTold` | `Options`: `OpSpec => OptionsTold`, that is `[]OpTold`, `[]OpArgsKept`, `[]OpRefused`, `[]OpFound` and `OpValuesStay` | `OpInv`: no two options have the same letter (`OpDistinct`), the option that waits for its argument is the one that the last item names (`OpAwaited`), an item is bad only where the line was refused (`OpJudged`), the options hold what the items taken so far say of them, and arguments stand in the order of their items, by their ranks (`OpFollowed`). A value changes only with an item that gives one (`OpKeepsValues`), so an option has the value given last by its line, or, if none was, that of the default or of a line before. |
| `CodingsAreKept` | `Codings`: `CoSpec => []CodingsKept`, that is `CoRoundTrip`, `CoFits`, `CoPercentKept`, `MdWhole` | `CoInv`. Base64: after each byte the digits are those of a closed form, in three cases by the place of the byte among three (`CoAddsNext`, `CoDigitsIs`), from which decoding takes each byte again (`CoBytesOfIs`). Percent encoding: what was written before a byte is where decoding that byte begins (`CoPercentIs`, `CoUnpercentIs`, `CoFromStep`). MD5: `MdHolds`, the state is the whole blocks of the data and the buffer holds the rest; the two words of the counter together are the bits modulo their width (`MdCountedIs`), the index is that of the rest (`MdIndexIs`), and padding and length end a block (`MdFinalIs`). |

`DecodingProofs` holds the theorems about `OemFramer`, `CarrierLock` and `GpsTime`, `ComnProofs`
those about threads, events, semaphores, directories, the log and the timer queue, `DataProofs`
those about containers and buffers, `CodingProofs` those about options and codings; the server,
the handler, the capture and the sessions have modules of their own.

What a loop computes is modelled by a recursive function, and the library's induction cannot
be instantiated by the installed provers. Such a function is proved here by a closed form of
it: that the closed form satisfies the recursive equation, and that two functions that do agree,
because there is no smallest argument on which they differ (`CnSmallest`, `GtSmallest`, from the
well-foundedness of `<` on the numbers).

Only model-checked:
- liveness (`ReadyIsPublished`, `MessageIsHandled`, `ImplementsFairMailbox`, `DueIsRun`,
  `StopReturns`, `OfflineFollows`, `CallsEnd`: `ThStopEnds` and `SsAnswered`), which with
  ENABLED is out of the prover's reach;
- `TextsKept`, `IniKept` and `MessageRead`: texts, ini files and the bits of a message are
  taken apart by searches and folds whose results depend on one another in ways that have no
  closed form as short as the code's.

## 6. Limits, and what is not modelled

- The reading of single fields of a range frame (`U4`, `R8`) and the variance of a
  measurement; the parity of RTCM messages is a value of its own, not a CRC-24.
- `MsmLayout` writes one signal a satellite, as the server does; `CarrierLock` follows one
  signal and leaves out a full table.
- The ephemeris decoders: unreachable, as `decode_oem4` calls `decode_rangeb` only.
- `CTimerQueue` has one clock; the code takes the wait from the wall clock and the expiry from
  another. The cast of a wait to `int` (2^31 ms) is left out.
- `AgnssCaster` takes the two periodic handlers to run once each in every second. A message
  without a device, which AgnssServer never sends, is not in the model.
- Hazards that no property covers: the number of observations times 44 in an `int`
  (`AssistData.c:933`); the wait of a timer cast to `int` (`CTimerQueue.cpp:241`) and taken from
  the wall clock (`TEvent.h:203`); the socket closed under a callback
  (`CCaptureSink.cpp:89`); a message without "device" (`App.java:233`).
- The event loop of AgnssCapture ends as a whole at an interruption: that `cancel` closes the
  socket under a running callback is undefined behaviour of ZeroMQ and not followed.
- Formats of numbers and lines (log lines, usage texts, hexadecimal dumps, answers), queries
  of the file system, sockets, dates and clocks: wrappers of the C library without state.
- SQL texts, JSON helpers and records of AgnssCaster that no route of `App` uses, and the
  vendored libraries, whose behaviour appears only where the code relies on it.
- The components are checked one by one. The end-to-end age of an answer follows from them
  by hand only: the server's period, `Prompt`, and `NeverStale`.

## 7. What is left

1. `DgnssSystem`: capture, server and caster composed, with end-to-end properties (age and
   order of an answer, what a client sees of a device that goes offline).
2. Proofs: `TextsKept`, `IniKept` and `MessageRead`, of which the views and the tokenizers of
   `CStrView` are the first worth proving: none reaches out of its text.
