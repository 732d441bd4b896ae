----------------------------- MODULE CTimerQueue -----------------------------
(***************************************************************************)
(* comn/CTimerQueue: timers kept in a list ordered by expiry, run by one   *)
(* thread, added and cancelled by any other (AgnssServer's main thread and *)
(* handlers alike: no lock is held while a handler runs, so that a handler *)
(* that calls the queue is one more client).                               *)
(*                                                                         *)
(* A critical section of m_cs is one step, and so is a call of m_event,    *)
(* the ConditionEvent of TEvent.h.  add is three of them, checkExpire too. *)
(* Time is a counter that may move between any two steps.                  *)
(***************************************************************************)
EXTENDS Integers, Sequences, SequencesExt, FiniteSets

CONSTANTS
  Clients,     \* threads that call addTimer, addElapse, cancel, clear
  Ids,         \* timer ids
  Intervals,   \* intervals, in units of time
  MaxInterval, \* bound: the longest of them
  DEVIATION,   \* how early a timer may run (10 ms)
  MaxTime,     \* bound: last moment
  MaxAdds      \* bound: calls of add

ASSUME ParametersAssumption ==
  /\ IsFiniteSet(Clients)
  /\ MaxInterval \in Nat /\ Intervals \subseteq 0..MaxInterval /\ DEVIATION \in Nat
  /\ MaxTime \in Nat /\ MaxAdds \in Nat

VARIABLES
  now,         \* getCurTime()
  tasks,       \* m_taskList
  signaled,    \* m_event.m_signaled
  canExit,     \* m_canExit
  pc,          \* where the queue's thread is
  cur,         \* the TimerTask on checkExpire's stack
  timeout,     \* the local of run and checkExpire: -1 for ever, 0 not at all
  checked,     \* when checkoutFront computed it
  deadline,    \* when the wait times out
  cpc,         \* cpc[c]: where client c is in add
  ctask,       \* ctask[c]: its task
  stopPc,      \* where the call of stop() is
  added,       \* calls of add so far; numbers the tasks
  cleared      \* clear was called while the present task ran

threadVars == <<pc, cur, timeout, checked, deadline>>
clientVars == <<cpc, ctask, added>>
vars == <<now, tasks, signaled, canExit, threadVars, clientVars, stopPc, cleared>>

(* A task that is run, and maybe repeated, expires at now + DEVIATION at the latest. *)
Times == 0..(MaxTime + DEVIATION + MaxInterval)
Tasks == [id : Ids, interval : Intervals, repeat : BOOLEAN, expire : Times,
          serial : 1..MaxAdds]
NoTask == [serial |-> 0, expire |-> 0]

Init ==
  /\ now = 0 /\ tasks = <<>> /\ signaled = FALSE /\ canExit = FALSE
  /\ pc = "done" /\ cur = NoTask /\ timeout = -1 /\ checked = 0 /\ deadline = 0
  /\ cpc = [c \in Clients |-> "idle"] /\ ctask = [c \in Clients |-> NoTask]
  /\ stopPc = "stopped" /\ added = 0 /\ cleared = FALSE

-----------------------------------------------------------------------------
(* Faulty variants: an add that leaves the old task of the id in place, an *)
(* insertion at the end of the list.                                       *)
RemovedNothing(ts, id) == {ts}
InsertedLast(ts, t) == {Append(ts, t)}

(* remove: the first task with that id, if there is one, is erased. *)
Removed(ts, id) ==
  LET firsts == {i \in DOMAIN ts : ts[i].id = id /\ \A j \in 1..(i - 1) : ts[j].id # id}
  IN IF firsts = {} THEN {ts} ELSE {RemoveAt(ts, i) : i \in firsts}

(* insertTask, findWithExpire: after the last task that does not expire later. *)
Inserted(ts, t) ==
  {InsertAt(ts, k + 1, t) :
     k \in {k \in 0..Len(ts) : /\ \A i \in 1..k : ts[i].expire <= t.expire
                               /\ \A i \in (k + 1)..Len(ts) : ts[i].expire > t.expire}}

-----------------------------------------------------------------------------
(* The clients. *)

(* A faulty variant: the new task is inserted and nobody is woken. *)
AddPostNot(c) ==
  /\ cpc[c] = "post"
  /\ cpc' = [cpc EXCEPT ![c] = "idle"]
  /\ ctask' = [ctask EXCEPT ![c] = NoTask]
  /\ UNCHANGED <<now, tasks, signaled, canExit, threadVars, added, stopPc, cleared>>

(* addTimer (repeat) and addElapse: add removes the older task of the id, *)
AddRemove(c, id, interval, repeat) ==
  /\ cpc[c] = "idle" /\ added < MaxAdds
  /\ tasks' \in Removed(tasks, id)
  /\ added' = added + 1
  /\ ctask' = [ctask EXCEPT ![c] = [id |-> id, interval |-> interval,
                 repeat |-> repeat, expire |-> interval, serial |-> added + 1]]
  /\ cpc' = [cpc EXCEPT ![c] = "expire"]
  /\ UNCHANGED <<now, signaled, canExit, threadVars, stopPc, cleared>>

(* reads the time, *)
AddExpire(c) ==
  /\ cpc[c] = "expire"
  /\ ctask' = [ctask EXCEPT ![c].expire = ctask[c].interval + now]
  /\ cpc' = [cpc EXCEPT ![c] = "insert"]
  /\ UNCHANGED <<now, tasks, signaled, canExit, threadVars, added, stopPc, cleared>>

(* inserts the new one, *)
AddInsert(c) ==
  /\ cpc[c] = "insert"
  /\ tasks' \in Inserted(tasks, ctask[c])
  /\ cpc' = [cpc EXCEPT ![c] = "post"]
  /\ UNCHANGED <<now, signaled, canExit, threadVars, ctask, added, stopPc, cleared>>

(* and wakes the thread. *)
AddPost(c) ==
  /\ cpc[c] = "post"
  /\ signaled' = TRUE
  /\ cpc' = [cpc EXCEPT ![c] = "idle"]
  /\ ctask' = [ctask EXCEPT ![c] = NoTask]
  /\ UNCHANGED <<now, tasks, canExit, threadVars, added, stopPc, cleared>>

Cancel(id) ==
  /\ tasks' \in Removed(tasks, id)
  /\ UNCHANGED <<now, signaled, canExit, threadVars, clientVars, stopPc, cleared>>

Clear ==
  /\ tasks' = <<>>
  /\ cleared' = (cur # NoTask)
  /\ UNCHANGED <<now, signaled, canExit, threadVars, clientVars, stopPc>>

(* create: nothing if the thread runs (isOpen), else Thread::start. *)
Create ==
  /\ stopPc = "stopped"
  /\ canExit' = FALSE /\ stopPc' = "running"
  /\ pc' = "loop" /\ timeout' = -1
  /\ UNCHANGED <<now, tasks, signaled, cur, checked, deadline, clientVars, cleared>>

(* destroy: Thread::stop sets m_canExit, *)
StopFlag ==
  /\ stopPc = "running"
  /\ canExit' = TRUE /\ stopPc' = "post"
  /\ UNCHANGED <<now, tasks, signaled, threadVars, clientVars, cleared>>

(* A faulty variant: doStop is not overridden and wakes nobody. *)
StopPostNot ==
  /\ stopPc = "post" /\ stopPc' = "join"
  /\ UNCHANGED <<now, tasks, signaled, canExit, threadVars, clientVars, cleared>>

(* calls doStop, *)
StopPost ==
  /\ stopPc = "post"
  /\ signaled' = TRUE /\ stopPc' = "join"
  /\ UNCHANGED <<now, tasks, canExit, threadVars, clientVars, cleared>>

(* joins the thread, and then the list is cleared. *)
StopJoin ==
  /\ stopPc = "join" /\ pc = "done"
  /\ stopPc' = "stopped" /\ tasks' = <<>>
  /\ UNCHANGED <<now, signaled, canExit, threadVars, clientVars, cleared>>

-----------------------------------------------------------------------------
(* The queue's thread. *)

(* A faulty variant: the event is reset before it is waited for. *)
LoopResets ==
  /\ pc = "loop" /\ ~canExit
  /\ pc' = IF timeout = 0 THEN "check" ELSE "wait"
  /\ deadline' = IF timeout > 0 THEN now + timeout ELSE 0
  /\ signaled' = FALSE
  /\ UNCHANGED <<now, tasks, canExit, cur, timeout, checked, clientVars, stopPc, cleared>>

(* run: the condition of the loop, and the call of timedwait. *)
Loop ==
  /\ pc = "loop" /\ ~canExit
  /\ pc' = IF timeout = 0 THEN "check" ELSE "wait"
  /\ deadline' = IF timeout > 0 THEN now + timeout ELSE 0
  /\ UNCHANGED <<now, tasks, signaled, canExit, cur, timeout, checked, clientVars,
                 stopPc, cleared>>

(* ConditionEvent::timedwait returns: signaled, or the time is over.  The  *)
(* clock of the model stops at MaxTime, the waits that would end later end *)
(* there.                                                                  *)
Wake ==
  /\ pc = "wait"
  /\ signaled \/ (timeout > 0 /\ (now >= deadline \/ now = MaxTime))
  /\ signaled' = FALSE
  /\ pc' = "check"
  /\ deadline' = 0 /\ checked' = 0
  /\ UNCHANGED <<now, tasks, canExit, cur, timeout, clientVars, stopPc, cleared>>

(* A spurious wake-up: timedwait waits again, for the whole time again. *)
WakeSpuriously ==
  /\ pc = "wait" /\ ~signaled /\ timeout > 0
  /\ deadline' = now + timeout
  /\ UNCHANGED <<now, tasks, signaled, canExit, pc, cur, timeout, checked, clientVars,
                 stopPc, cleared>>

Quit ==
  /\ pc \in {"loop", "check"} /\ canExit
  /\ pc' = "done"
  /\ UNCHANGED <<now, tasks, signaled, canExit, cur, timeout, checked, deadline,
                 clientVars, stopPc, cleared>>

(* checkoutFront finds a task that is due ... *)
CheckoutFront ==
  /\ pc = "check" /\ ~canExit
  /\ tasks # <<>> /\ Head(tasks).expire <= now + DEVIATION
  /\ cur' = Head(tasks) /\ tasks' = Tail(tasks)
  /\ timeout' = 0
  /\ pc' = "run"
  /\ UNCHANGED <<now, signaled, canExit, checked, deadline, clientVars,
                 stopPc, cleared>>

(* A faulty variant: the time that is left, with the wrong sign. *)
CheckoutNothingSwapped ==
  /\ pc = "check" /\ ~canExit
  /\ tasks # <<>> => Head(tasks).expire > now + DEVIATION
  /\ timeout' = IF tasks = <<>> THEN -1 ELSE now - Head(tasks).expire
  /\ checked' = now
  /\ pc' = "loop"
  /\ UNCHANGED <<now, tasks, signaled, canExit, cur, deadline, clientVars, stopPc, cleared>>

(* ... or none, and tells how long to wait. *)
CheckoutNothing ==
  /\ pc = "check" /\ ~canExit
  /\ tasks # <<>> => Head(tasks).expire > now + DEVIATION
  /\ timeout' = IF tasks = <<>> THEN -1 ELSE Head(tasks).expire - now
  /\ checked' = now
  /\ pc' = "loop"
  /\ UNCHANGED <<now, tasks, signaled, canExit, cur, deadline, clientVars, stopPc, cleared>>

(* runTask: the handler returns, with the interval it may have changed,    *)
(* and says whether to go on; then, if the timer repeats, its next expiry  *)
(* is one interval later, or one interval from now if that is past.        *)
RunTask(goOn, interval) ==
  /\ pc = "run"
  /\ IF goOn /\ cur.repeat
     THEN /\ LET e == cur.expire + interval
             IN cur' = [cur EXCEPT !.interval = interval,
                                   !.expire = IF e < now THEN now + interval ELSE e]
          /\ pc' = "insert"
          /\ UNCHANGED cleared
     ELSE cur' = NoTask /\ pc' = "loop" /\ cleared' = FALSE
  /\ UNCHANGED <<now, tasks, signaled, canExit, timeout, checked, deadline, clientVars,
                 stopPc>>

(* insertTask puts the repeated timer back. *)
Reinsert ==
  /\ pc = "insert"
  /\ tasks' \in Inserted(tasks, cur)
  /\ cur' = NoTask /\ pc' = "loop" /\ cleared' = FALSE
  /\ UNCHANGED <<now, signaled, canExit, timeout, checked, deadline, clientVars, stopPc>>

Tick ==
  /\ now < MaxTime
  /\ now' = now + 1
  /\ UNCHANGED <<tasks, signaled, canExit, threadVars, clientVars, stopPc, cleared>>

-----------------------------------------------------------------------------
Client(c) ==
  \/ \E id \in Ids, interval \in Intervals, repeat \in BOOLEAN :
       AddRemove(c, id, interval, repeat)
  \/ AddExpire(c) \/ AddInsert(c) \/ AddPost(c)

Thread == Loop \/ Wake \/ Quit \/ CheckoutFront \/ CheckoutNothing
            \/ (\E goOn \in BOOLEAN, interval \in Intervals : RunTask(goOn, interval)) \/ Reinsert

Next ==
  \/ \E c \in Clients : Client(c)
  \/ \E id \in Ids : Cancel(id)
  \/ Clear
  \/ Create \/ StopFlag \/ StopPost \/ StopJoin
  \/ Thread \/ WakeSpuriously \/ Tick

Spec == Init /\ [][Next]_vars

(***************************************************************************)
(* The thread is scheduled, its handlers return, time goes on, and a call  *)
(* that has begun is carried through; nobody has to make one.              *)
(***************************************************************************)
Fairness ==
  /\ WF_vars(Thread) /\ WF_vars(Tick)
  /\ WF_vars(StopPost) /\ WF_vars(StopJoin)
  /\ \A c \in Clients : WF_vars(AddExpire(c) \/ AddInsert(c) \/ AddPost(c))

FairSpec == Spec /\ Fairness
-----------------------------------------------------------------------------
(* The values the variables range over. *)
TypeOK ==
  /\ now \in 0..MaxTime /\ tasks \in Seq(Tasks)
  /\ signaled \in BOOLEAN /\ canExit \in BOOLEAN
  /\ pc \in {"loop", "wait", "check", "run", "insert", "done"}
  /\ cur \in Tasks \cup {NoTask} /\ (pc \in {"run", "insert"} <=> cur # NoTask)
  /\ timeout \in Nat \cup {-1} /\ checked \in 0..MaxTime /\ deadline \in Nat
  /\ cpc \in [Clients -> {"idle", "expire", "insert", "post"}]
  /\ ctask \in [Clients -> Tasks \cup {NoTask}]
  /\ \A c \in Clients : cpc[c] = "idle" <=> ctask[c] = NoTask
  /\ stopPc \in {"running", "post", "join", "stopped"}
  /\ added \in 0..MaxAdds /\ cleared \in BOOLEAN

(***************************************************************************)
(* No wake-up is lost: if the thread waits while a task is in the list, it *)
(* was woken, or somebody is about to wake it, or it does not wait longer  *)
(* than the first task allowed when it looked.  A task inserted between    *)
(* checkoutFront and timedwait is the case to fear; m_event remembers it.  *)
(***************************************************************************)
NoLostWakeup ==
  pc = "wait" /\ tasks # <<>> /\ ~signaled /\ (\A c \in Clients : cpc[c] # "post")
    => timeout > 0 /\ checked + timeout <= Head(tasks).expire

(***************************************************************************)
(* Adding a timer again and again does not fill the list: add removes one  *)
(* task of the id for each it inserts.  A task that is running meanwhile   *)
(* and adds that overlap can double an id, but no further.                 *)
(***************************************************************************)
Copies(id) ==
  Cardinality({i \in DOMAIN tasks : tasks[i].id = id})
    + (IF cur # NoTask /\ cur.id = id THEN 1 ELSE 0)
    + Cardinality({c \in Clients : cpc[c] \in {"expire", "insert"} /\ ctask[c].id = id})
DuplicatesBounded == \A id \in Ids : Copies(id) <= Cardinality(Clients) + 1

(* TimerQueue.h:64 says of clear: "cancel all timer".  The timer that ran  *)
(* at the time of the call does not come back into the list.               *)
ClearCancelsAll ==
  [][cleared => \A i \in DOMAIN tasks' : tasks'[i].serial # cur.serial]_vars

(***************************************************************************)
(* A task that is in the list when its time has come does not stay there:  *)
(* it is run, cancelled or cleared, unless the queue does not run.  Timers   *)
(* with interval 0 do not starve the others.                               *)
(***************************************************************************)
Listed(n) == \E i \in DOMAIN tasks : tasks[i].serial = n /\ tasks[i].expire <= MaxTime
DueIsRun == \A n \in 1..MaxAdds : Listed(n) ~> (~Listed(n) \/ stopPc # "running")

(* stop() returns: the thread leaves its wait and its loop (doStop, join). *)
StopReturns == (stopPc \in {"post", "join"}) ~> (stopPc = "stopped")

Service == INSTANCE TimerService WITH
  Serials <- 1..MaxAdds,
  Times <- Times,
  armed <- {[serial |-> tasks[i].serial, expire |-> tasks[i].expire] : i \in DOMAIN tasks},
  running <- IF pc \in {"run", "insert"} THEN {cur.serial} ELSE {}

(* The queue implements the service: handlers run one at a time, earliest  *)
(* first, although add and checkExpire insert tasks outside one section.   *)
ImplementsService == Service!Spec

(* findWithExpire searches the list with upper_bound, as if it were sorted. *)
Sorted(ts) == \A i, j \in DOMAIN ts : i < j => ts[i].expire <= ts[j].expire

(* The list is sorted whoever inserts into it, and the thread never sleeps *)
(* over a timer (add, checkoutFront, run).                                 *)
QueueInv == TypeOK /\ Sorted(tasks) /\ NoLostWakeup
=============================================================================
