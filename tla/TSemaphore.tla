----------------------------- MODULE TSemaphore ------------------------------
(* The semaphores of comn: SimulatedSemaphore, a counter with a mutex and a    *)
(* condition variable, and SemaphoreEvent, an event made of a semaphore.       *)
(* What they do with the mutex held nobody sees before it is released: a step  *)
(* ends where the mutex is given up.                                           *)
EXTENDS Integers, FiniteSets

CONSTANTS
  SmWaiters,     \* threads that wait
  SmTimed,       \* those of them that wait with a timeout
  SmPosters,     \* threads that post the event and reset it
  SmValueMax,    \* SEM_VALUE_MAX
  SmMaxPosts     \* bound

ASSUME SemaphoreAssumption ==
  /\ SmTimed \subseteq SmWaiters /\ SmMaxPosts \in Nat /\ SmValueMax \in Nat \ {0}
  /\ IsFiniteSet(SmWaiters) /\ IsFiniteSet(SmPosters)

VARIABLES
  smCount,       \* m_count
  smWaiting,     \* m_waiters
  smPc,          \* [waiter -> "idle", "sleep", "signaled", "timedout"]
  smPosts,       \* history: posts
  smTaken,       \* history: waits that returned TRUE
  smWasted,      \* history: tokens taken by waits that returned FALSE
  smEvent,       \* the value of SemaphoreEvent's semaphore
  smDoing,       \* [poster -> "idle", "post", "reset", "look"]
  smRaised       \* history: a reset has posted

smVars == <<smCount, smWaiting, smPc, smPosts, smTaken, smWasted, smEvent, smDoing, smRaised>>

SmAsleep == {w \in SmWaiters : smPc[w] = "sleep"}
SmEvents == <<smEvent, smDoing, smRaised>>
SmSemaphore == <<smCount, smWaiting, smPc, smPosts, smTaken, smWasted>>

SmInit ==
  /\ smCount = 0 /\ smWaiting = 0
  /\ smPc = [w \in SmWaiters |-> "idle"]
  /\ smPosts = 0 /\ smTaken = 0 /\ smWasted = 0
  /\ smEvent = 0 /\ smDoing = [p \in SmPosters |-> "idle"] /\ smRaised = FALSE

-----------------------------------------------------------------------------
(* SimulatedSemaphore *)

\* A faulty variant: only the first token wakes a waiter.
SmPostFirst ==
  /\ smPosts < SmMaxPosts
  /\ smPosts' = smPosts + 1
  /\ smCount' = smCount + 1
  /\ IF smWaiting > 0 /\ smCount = 0 /\ SmAsleep # {}
     THEN \E w \in SmAsleep : smPc' = [smPc EXCEPT ![w] = "signaled"]
     ELSE UNCHANGED smPc
  /\ UNCHANGED <<smWaiting, smTaken, smWasted, SmEvents>>

\* post: one of those that sleep is told, when there are waiters.
SmPost ==
  /\ smPosts < SmMaxPosts
  /\ smPosts' = smPosts + 1
  /\ smCount' = smCount + 1
  /\ IF smWaiting > 0 /\ SmAsleep # {}
     THEN \E w \in SmAsleep : smPc' = [smPc EXCEPT ![w] = "signaled"]
     ELSE UNCHANGED smPc
  /\ UNCHANGED <<smWaiting, smTaken, smWasted, SmEvents>>

\* wait returns: a token is taken when there is one, whatever wait returns.
SmLeave(w, flag) ==
  /\ smPc' = [smPc EXCEPT ![w] = "idle"]
  /\ smCount' = IF smCount > 0 THEN smCount - 1 ELSE 0
  /\ smTaken' = IF flag THEN smTaken + 1 ELSE smTaken
  /\ smWasted' = IF ~flag /\ smCount > 0 THEN smWasted + 1 ELSE smWasted

SmWait(w) ==
  /\ smPc[w] = "idle"
  /\ IF smCount > 0 THEN SmLeave(w, TRUE) /\ UNCHANGED smWaiting
     ELSE /\ smPc' = [smPc EXCEPT ![w] = "sleep"]
          /\ smWaiting' = smWaiting + 1
          /\ UNCHANGED <<smCount, smTaken, smWasted>>
  /\ UNCHANGED <<smPosts, SmEvents>>

\* The condition variable ends a wait when it is signaled, when time is over, or for no
\* reason; the waiter then needs the mutex.
SmTimeout(w) ==
  /\ w \in SmTimed /\ smPc[w] \in {"sleep", "signaled"}
  /\ smPc' = [smPc EXCEPT ![w] = "timedout"]
  /\ UNCHANGED <<smCount, smWaiting, smPosts, smTaken, smWasted, SmEvents>>

SmSpurious(w) ==
  /\ smPc[w] = "sleep"
  /\ smPc' = [smPc EXCEPT ![w] = "signaled"]
  /\ UNCHANGED <<smCount, smWaiting, smPosts, smTaken, smWasted, SmEvents>>

\* A faulty variant: the wait is not repeated.
SmWakeOnce(w) ==
  /\ smPc[w] \in {"signaled", "timedout"}
  /\ smWaiting' = smWaiting - 1
  /\ SmLeave(w, smPc[w] = "signaled")
  /\ UNCHANGED <<smPosts, SmEvents>>

\* Without a timeout the wait is repeated while there is no token; with one it returns
\* FALSE when time is over or there is none.
SmWake(w) ==
  /\ smPc[w] \in {"signaled", "timedout"}
  /\ IF w \notin SmTimed /\ smCount = 0
     THEN smPc' = [smPc EXCEPT ![w] = "sleep"] /\ UNCHANGED <<smCount, smWaiting, smTaken, smWasted>>
     ELSE /\ smWaiting' = smWaiting - 1
          /\ SmLeave(w, smPc[w] = "signaled" /\ smCount > 0)
  /\ UNCHANGED <<smPosts, SmEvents>>

-----------------------------------------------------------------------------
(* SemaphoreEvent *)

SmDoes(p, from, to) == smDoing[p] = from /\ smDoing' = [smDoing EXCEPT ![p] = to]

\* sem_post fails when the value is the greatest there is.
SmRaise == smEvent' = IF smEvent < SmValueMax THEN smEvent + 1 ELSE smEvent

\* A faulty variant: the value is not looked at.
SmEventCheckNot(p) == SmDoes(p, "idle", "post") /\ UNCHANGED <<smEvent, smRaised, SmSemaphore>>

\* post: getValue, and sem_post when it was 0.
SmEventCheck(p) ==
  /\ smEvent <= 0
  /\ SmDoes(p, "idle", "post")
  /\ UNCHANGED <<smEvent, smRaised, SmSemaphore>>

SmEventPost(p) == SmDoes(p, "post", "idle") /\ SmRaise /\ UNCHANGED <<smRaised, SmSemaphore>>

\* wait, trywait, timedwait, when they return TRUE.
SmEventWait == smEvent > 0 /\ smEvent' = smEvent - 1 /\ UNCHANGED <<smDoing, smRaised, SmSemaphore>>

\* reset: getValue, and a loop while it is above 0; the loop posts, until that fails.
SmEventReset(p) ==
  /\ smEvent > 0
  /\ SmDoes(p, "idle", "reset")
  /\ UNCHANGED <<smEvent, smRaised, SmSemaphore>>

SmEventResetPost(p) ==
  /\ SmDoes(p, "reset", IF smEvent < SmValueMax THEN "look" ELSE "idle")
  /\ SmRaise /\ smRaised' = TRUE
  /\ UNCHANGED SmSemaphore

SmEventResetLook(p) ==
  /\ SmDoes(p, "look", IF smEvent > 0 THEN "reset" ELSE "idle")
  /\ UNCHANGED <<smEvent, smRaised, SmSemaphore>>

SmEventStep(p) ==
  \/ SmEventCheck(p) \/ SmEventPost(p)
  \/ SmEventReset(p) \/ SmEventResetPost(p) \/ SmEventResetLook(p)

\* Nothing of the one concerns the other.
SmSemaphoreNext == SmPost \/ \E w \in SmWaiters : SmWait(w) \/ SmTimeout(w) \/ SmSpurious(w) \/ SmWake(w)
SmEventNext == SmEventWait \/ \E p \in SmPosters : SmEventStep(p)
SmNext == SmSemaphoreNext \/ SmEventNext

SmSpec == SmInit /\ [][SmNext]_smVars

-----------------------------------------------------------------------------
(* Properties *)

\* m_waiters counts those in the condition variable. Each token is waiting or was taken
\* by one wait, which says so or ran out of time as it came; none returns TRUE without.
SmTokens ==
  /\ smWaiting = Cardinality({w \in SmWaiters : smPc[w] # "idle"})
  /\ smPosts = smCount + smTaken + smWasted

\* Nobody sleeps beside a token: of the waiters, as many as there are tokens have been
\* woken (SimulatedSemaphore::post signals on each post, not on the first only).
SmNobodyForgotten ==
  SmAsleep # {} => smCount <= Cardinality({w \in SmWaiters : smPc[w] \in {"signaled", "timedout"}})

\* The event made of a semaphore counts posts that come together, one for each thread that
\* posts, and no more (SemaphoreEvent::post) until a reset finds it signaled: reset posts in
\* its loop, and from then on nothing but SEM_VALUE_MAX bounds the count.
SmPosting == {p \in SmPosters : smDoing[p] = "post"}
SmEventBounded ==
  /\ smEvent <= SmValueMax
  /\ ~smRaised => smEvent + Cardinality(SmPosting) <= Cardinality(SmPosters)

\* "reset to nonsignal" (TEvent.h:266) is not what reset does: it returns when waiters have
\* taken the event to the last, or when it has raised the count to SEM_VALUE_MAX and leaves
\* the event signaled (SemaphoreEvent::reset).
SmResetEnds ==
  [][\A p \in SmPosters :
       smDoing[p] \in {"reset", "look"} /\ smDoing'[p] = "idle" => smEvent' \in {0, SmValueMax}]_smVars

\* No token is lost or made up, nobody sleeps beside one, and an event counts no more than
\* one post of each thread while nobody resets it, or up to the limit of its semaphore
\* (SimulatedSemaphore, SemaphoreEvent).
SmSafe == [](SmTokens /\ SmNobodyForgotten /\ SmEventBounded) /\ SmResetEnds
=============================================================================
