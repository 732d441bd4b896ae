------------------------------- MODULE TEvent --------------------------------
(* comn::ConditionEvent, the Event of CTimerQueue: a flag, a mutex and a       *)
(* condition variable, used by threads that wait and by threads that post.     *)
EXTENDS FiniteSets

CONSTANTS
  EvWaiters,     \* threads that wait
  EvTimed        \* those of them that wait with a timeout

EvFree == "free"
ASSUME EventAssumption == EvTimed \subseteq EvWaiters /\ EvFree \notin EvWaiters

VARIABLES
  evSignaled,    \* m_signaled
  evMutex,       \* the waiter that holds m_mutex, or EvFree
  evPc,          \* [waiter -> its step]
  evReset,       \* history: waiters in whose call a reset came
  evTimedOut     \* waiters whose pthread_cond_timedwait returns ETIMEDOUT

evVars == <<evSignaled, evMutex, evPc, evTimedOut, evReset>>

EvStep(w, from, to) == evPc[w] = from /\ evPc' = [evPc EXCEPT ![w] = to]

EvInit ==
  /\ evSignaled = FALSE
  /\ evMutex = EvFree
  /\ evPc = [w \in EvWaiters |-> "idle"]
  /\ evTimedOut = {}
  /\ evReset = {}

\* A faulty variant: nobody is woken.
EvPostSilent ==
  /\ evMutex = EvFree
  /\ evSignaled' = TRUE
  /\ UNCHANGED <<evMutex, evPc, evTimedOut, evReset>>

\* post, which nobody sees before it releases the mutex: it wakes all that sleep.
EvPost ==
  /\ evMutex = EvFree
  /\ evSignaled' = TRUE
  /\ evPc' = [w \in EvWaiters |-> IF evPc[w] = "sleep" THEN "relock" ELSE evPc[w]]
  /\ UNCHANGED <<evMutex, evTimedOut, evReset>>

\* reset does not take the mutex.
EvReset ==
  /\ evSignaled' = FALSE
  /\ evReset' = {w \in EvWaiters : evPc[w] # "idle"}
  /\ UNCHANGED <<evMutex, evPc, evTimedOut>>

\* timedwait: the mutex, the loop, and what it returns.
EvCall(w) == EvStep(w, "idle", "lock") /\ UNCHANGED <<evSignaled, evMutex, evTimedOut, evReset>>

EvLock(w) ==
  /\ evMutex = EvFree
  /\ evMutex' = w
  /\ EvStep(w, "lock", "loop") \/ EvStep(w, "relock", IF w \in evTimedOut THEN "take" ELSE "loop")
  /\ UNCHANGED <<evSignaled, evTimedOut, evReset>>

\* A faulty variant: the mutex is kept while it sleeps.
EvLoopHolding(w) ==
  /\ EvStep(w, "loop", IF evSignaled THEN "take" ELSE "sleep")
  /\ UNCHANGED <<evSignaled, evMutex, evTimedOut, evReset>>

EvLoop(w) ==
  /\ IF evSignaled THEN EvStep(w, "loop", "take") /\ UNCHANGED evMutex
     ELSE EvStep(w, "loop", "sleep") /\ evMutex' = EvFree
  /\ UNCHANGED <<evSignaled, evTimedOut, evReset>>

\* The time is over, or the wait ends for no reason at all.
EvTimeout(w) ==
  /\ w \in EvTimed
  /\ EvStep(w, "sleep", "relock")
  /\ evTimedOut' = evTimedOut \cup {w}
  /\ UNCHANGED <<evSignaled, evMutex, evReset>>

EvSpurious(w) == EvStep(w, "sleep", "relock") /\ UNCHANGED <<evSignaled, evMutex, evTimedOut, evReset>>

\* A faulty variant: a timeout leaves the flag as it is.
EvTakeLate(w) ==
  /\ EvStep(w, "take", "idle")
  /\ evSignaled' = (evSignaled /\ w \in evTimedOut)
  /\ evMutex' = EvFree
  /\ evTimedOut' = evTimedOut \ {w}
  /\ evReset' = evReset \ {w}

\* The flag is returned and cleared: after a timeout too, when it is set by then.
EvTake(w) ==
  /\ EvStep(w, "take", "idle")
  /\ evSignaled' = FALSE
  /\ evMutex' = EvFree
  /\ evTimedOut' = evTimedOut \ {w}
  /\ evReset' = evReset \ {w}

EvWait(w) == EvLock(w) \/ EvLoop(w) \/ EvTake(w)
EvNext ==
  \/ EvPost
  \/ EvReset
  \/ \E w \in EvWaiters : EvCall(w) \/ EvWait(w) \/ EvTimeout(w) \/ EvSpurious(w)

EvSpec == EvInit /\ [][EvNext]_evVars

-----------------------------------------------------------------------------
(* Properties *)

\* The mutex has at most one holder, who is between its lock and its release; what a
\* waiter knows of a timeout it knows in its call only.
EvTypeOK ==
  /\ {w \in EvWaiters : evPc[w] \in {"loop", "take"}} = {evMutex} \ {EvFree}
  /\ \A w \in evTimedOut : evPc[w] \in {"relock", "take"}
  /\ evSignaled \in BOOLEAN

\* An event is a flag: no post is lost, one post ends one wait, and a wait without a
\* timeout ends by a post alone, through timeouts that race posts, waits that end for no
\* reason and resets that do not take the mutex (ConditionEvent).
EvCalls ==
  [w \in EvWaiters |-> IF evPc[w] = "idle" THEN "idle" ELSE IF w \in evReset THEN "reset" ELSE "waiting"]
EvFlag == INSTANCE EventFlag WITH Threads <- EvWaiters, Timed <- EvTimed, flag <- evSignaled, waits <- EvCalls
EvIsFlag == EvFlag!Spec

\* Nobody sleeps while the event is signaled: post wakes all, and who sleeps looked at
\* the flag with the mutex held (post, timedwait).
EvNobodySleepsOver == evSignaled => \A w \in EvWaiters : evPc[w] # "sleep"

\* A ConditionEvent is a flag over which nobody sleeps, and its mutex has one holder.
EvSafe == []EvTypeOK /\ []EvNobodySleepsOver /\ EvIsFlag
=============================================================================
