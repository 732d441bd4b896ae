----------------------------- MODULE ComnProofs ------------------------------
(* Proofs about the threads, events, semaphores and timers of comn, for any    *)
(* number of threads that use them: who joins a thread finds it outside the    *)
(* derived class; an event is the flag that EventFlag promises, and nobody     *)
(* sleeps while it is set; no token of a semaphore is lost or made up, and     *)
(* nobody sleeps beside one; a process finds its directories made, whoever     *)
(* made them; the log loses its oldest messages only, and is never out of      *)
(* order; the list of timers stays sorted, no wake-up is lost, and the queue   *)
(* implements TimerService.                                                    *)
EXTENDS TThread, TEvent, TSemaphore, FileDirs, CLog, CTimerQueue, TLAPS, FiniteSetTheorems,
        SequenceTheorems, WellFoundedInduction

-----------------------------------------------------------------------------
(* Thread (TThread)                                                         *)

ThPlaces == ThInside \cup {"none", "begin", "forget", "detach", "gone"}
ThCalls == {"idle", "doStop", "crashed"} \cup ThInJoin

(* What one knows of the variables by themselves. *)
ThValues ==
  /\ thStarts \in 0..ThMaxStarts
  /\ thHandle \in ThRounds \cup {ThUnused} /\ thArg \in ThRounds \cup {ThUnused}
  /\ thWork \in [ThRounds -> ThPlaces]
  /\ thCall \in [ThCallers -> ThCalls]

(* The handle is that of the last start, until its thread gives it up: a thread *)
(* without it does nothing more than detach itself, and one with it did not.    *)
ThOwned ==
  /\ thHandle # ThUnused => thHandle = thStarts
  /\ \A r \in ThRounds : r # thHandle => thWork[r] \in {"none", "detach", "gone"}
  /\ \A r \in ThRounds : r = thHandle => thWork[r] \in ThInside \cup {"begin", "forget"}

(* Nothing was started behind the last start. *)
ThFresh == \A r \in ThRounds : r > thStarts => thWork[r] = "none"

(* What is joined is the last start; the call is undefined only when it has     *)
(* given up its handle.                                                         *)
ThJoins ==
  /\ thCall[ThOwner] \in {"pthread_join", "joining"} => thArg = thStarts \/ thArg = ThUnused
  /\ thCall[ThOwner] = "joining" => thArg # ThUnused
  /\ thCall[ThOwner] = "pthread_join" /\ thArg = ThUnused => thHandle = ThUnused
  /\ thCall[ThOwner] = "undefined" => thHandle = ThUnused

(* The inductive invariant. *)
ThInv == ThValues /\ ThOwned /\ ThFresh /\ ThJoins

LEMMA ThInitInv == ThInit => ThInv
  BY ThreadAssumption DEF ThInit, ThInv, ThValues, ThOwned, ThFresh, ThJoins, ThPlaces, ThCalls, ThRounds, ThUnused

(* A step of a thread: it goes from one place to another, and gives up the *)
(* handle before it detaches itself.                                       *)
LEMMA ThThreadMoves ==
  ASSUME NEW r \in ThRounds, ThInv, ThThread(r)
  PROVE  /\ thWork[r] \notin {"none", "gone"}
         /\ thStarts' = thStarts /\ thCall' = thCall /\ thArg' = thArg
         /\ \E to \in ThPlaces \ {"none", "begin"} :
              /\ thWork' = [thWork EXCEPT ![r] = to]
              /\ \/ /\ thHandle' = thHandle
                    /\ \/ thWork[r] = "detach" /\ to = "gone"
                       \/ thWork[r] # "detach" /\ to \in ThInside \cup {"forget"}
                 \/ thHandle' = ThUnused /\ thWork[r] = "forget" /\ to = "detach"
<1> USE DEF ThInv, ThValues, ThMove, ThObject, ThCalling, ThPlaces, ThInside
<1>1. CASE ThBegin(r) \/ ThStartup(r)
  BY <1>1 DEF ThBegin, ThStartup
<1>2. CASE ThRun(r) \/ ThWake(r)
  BY <1>2 DEF ThRun, ThWake
<1>3. CASE ThCleanup(r) \/ ThForget(r) \/ ThDetach(r)
  BY <1>3 DEF ThCleanup, ThForget, ThDetach
<1>q. QED
  BY <1>1, <1>2, <1>3 DEF ThThread

LEMMA ThThreadInv ==
  ASSUME NEW r \in ThRounds, ThInv, ThThread(r)
  PROVE  ThInv'
<1>1. PICK to \in ThPlaces \ {"none", "begin"} :
        /\ thWork' = [thWork EXCEPT ![r] = to]
        /\ \/ /\ thHandle' = thHandle
              /\ \/ thWork[r] = "detach" /\ to = "gone"
                 \/ thWork[r] # "detach" /\ to \in ThInside \cup {"forget"}
           \/ thHandle' = ThUnused /\ thWork[r] = "forget" /\ to = "detach"
  BY ThThreadMoves
<1>2. thStarts' = thStarts /\ thCall' = thCall /\ thArg' = thArg /\ thWork[r] \notin {"none", "gone"}
  BY ThThreadMoves
<1>3. thHandle' \in {thHandle, ThUnused}
  BY <1>1
<1>4. ThValues'
  BY <1>1, <1>2, <1>3 DEF ThInv, ThValues
<1>5. ThOwned'
  <2>1. thHandle' # ThUnused => thHandle' = thStarts'
    BY <1>2, <1>3 DEF ThInv, ThOwned
  <2>2. ASSUME NEW q \in ThRounds
        PROVE  /\ q # thHandle' => thWork'[q] \in {"none", "detach", "gone"}
               /\ q = thHandle' => thWork'[q] \in ThInside \cup {"begin", "forget"}
    <3>1. CASE thHandle' = thHandle
      <4>1. CASE q = r
        BY <1>1, <1>2, <3>1, <4>1 DEF ThInv, ThValues, ThOwned, ThPlaces, ThInside, ThRounds, ThUnused
      <4>2. CASE q # r
        BY <1>1, <3>1, <4>2 DEF ThInv, ThValues, ThOwned
      <4>q. QED
        BY <4>1, <4>2
    <3>2. CASE thHandle' # thHandle
      <4>1. thHandle = r /\ thHandle' = ThUnused /\ to = "detach"
        BY <1>1, <3>2 DEF ThInv, ThOwned
      <4>2. q # thHandle'
        BY <4>1 DEF ThRounds, ThUnused
      <4>q. QED
        BY <1>1, <4>1, <4>2 DEF ThInv, ThValues, ThOwned
    <3>q. QED
      BY <3>1, <3>2
  <2>q. QED
    BY <2>1, <2>2 DEF ThOwned
<1>6. ThFresh'
  BY <1>1, <1>2 DEF ThInv, ThValues, ThFresh
<1>7. ThJoins'
  BY <1>2, <1>3 DEF ThInv, ThJoins
<1>q. QED
  BY <1>4, <1>5, <1>6, <1>7 DEF ThInv

LEMMA ThStartInv == ThInv /\ ThStart => ThInv'
<1> SUFFICES ASSUME ThInv, ThStart PROVE ThInv'
  OBVIOUS
<1>1. /\ thStarts' = thStarts + 1 /\ thHandle' = thStarts' /\ thCall' = thCall /\ thArg' = thArg
      /\ thStarts' \in ThRounds
      /\ thWork' = [thWork EXCEPT ![thStarts'] = "begin"]
  BY ThreadAssumption DEF ThStart, ThInv, ThValues, ThRounds
<1>2. ThValues'
  BY <1>1, ThreadAssumption DEF ThInv, ThValues, ThRounds, ThPlaces
<1>3. ThOwned'
  <2>1. \A q \in ThRounds : thWork[q] \in {"none", "detach", "gone"}
    BY DEF ThStart, ThInv, ThOwned, ThUnused, ThRounds
  <2>2. \A q \in ThRounds : q # thHandle' => thWork'[q] = thWork[q]
    BY <1>1 DEF ThInv, ThValues
  <2>3. thWork'[thHandle'] = "begin"
    BY <1>1 DEF ThInv, ThValues
  <2>q. QED
    BY <1>1, <2>1, <2>2, <2>3 DEF ThOwned
<1>4. ThFresh'
  BY <1>1, ThreadAssumption DEF ThInv, ThValues, ThFresh, ThRounds
<1>5. ThJoins'
  BY <1>1 DEF ThStart, ThJoins
<1>q. QED
  BY <1>2, <1>3, <1>4, <1>5 DEF ThInv

(* The other calls leave the thread alone. *)
LEMMA ThCallInv ==
  ASSUME ThInv,
         \/ \E c \in ThCallers : ThTryStop(c)
         \/ ThJoin \/ ThOwnerJoins \/ ThUndefined
  PROVE  ThInv'
<1> USE DEF ThOwnerJoins, ThJoinCheck, ThJoinArgument, ThPthreadJoin, ThJoinReturns, ThUndefined, ThBesideCalls
<1>1. thWork' = thWork /\ thHandle' = thHandle /\ thStarts' = thStarts /\ thArg' \in {thArg, thHandle}
  BY DEF ThTryStop, ThJoin
<1>2. \E c \in ThCallers, step \in ThCalls : thCall' = [thCall EXCEPT ![c] = step]
  <2>1. CASE \E c \in ThCallers : ThTryStop(c)
    BY <2>1 DEF ThTryStop, ThStep, ThCalls, ThInJoin
  <2>2. CASE ThJoin \/ ThUndefined
    BY <2>2, ThreadAssumption DEF ThJoin, ThStep, ThCalls, ThInJoin
  <2>3. CASE ThOwnerJoins
    BY <2>3, ThreadAssumption DEF ThStep, ThCalls, ThInJoin
  <2>q. QED
    BY <2>1, <2>2, <2>3
<1>3. thCall' \in [ThCallers -> ThCalls]
  BY <1>2 DEF ThInv, ThValues
<1>4. ThJoins'
  <2>1. CASE \E c \in ThCallers : ThTryStop(c)
    BY <1>1, <2>1, ThreadAssumption DEF ThTryStop, ThStep, ThInv, ThValues, ThJoins
  <2>2. CASE ThJoin \/ ThUndefined
    BY <1>1, <2>2, ThreadAssumption DEF ThJoin, ThStep, ThInv, ThValues, ThJoins
  <2>3. CASE ThJoinCheck \/ ThJoinReturns
    BY <1>1, <2>3, ThreadAssumption DEF ThStep, ThInv, ThValues, ThJoins
  <2>4. CASE ThJoinArgument
    BY <1>1, <2>4, ThreadAssumption DEF ThStep, ThInv, ThValues, ThOwned, ThJoins
  <2>5. CASE ThPthreadJoin
    <3>1. thCall'[ThOwner] = (IF ThNotJoinable THEN "undefined" ELSE "joining") /\ thCall[ThOwner] = "pthread_join" /\ thArg' = thArg
      BY <2>5, ThreadAssumption DEF ThStep, ThInv, ThValues
    <3>2. ThNotJoinable => thHandle = ThUnused
      BY <3>1 DEF ThNotJoinable, ThInv, ThValues, ThOwned, ThJoins, ThInside
    <3>q. QED
      BY <1>1, <3>1, <3>2 DEF ThInv, ThJoins, ThNotJoinable
  <2>q. QED
    BY <2>1, <2>2, <2>3, <2>4, <2>5
<1>q. QED
  BY <1>1, <1>3, <1>4 DEF ThInv, ThValues, ThOwned, ThFresh

LEMMA ThStepInv == ThInv /\ [ThNext]_thVars => ThInv'
<1> SUFFICES ASSUME ThInv, [ThNext]_thVars PROVE ThInv'
  OBVIOUS
<1>1. CASE UNCHANGED thVars
  BY <1>1 DEF ThInv, ThValues, ThOwned, ThFresh, ThJoins, thVars
<1>q. QED
  BY <1>1, ThThreadInv, ThStartInv, ThCallInv DEF ThNext

(* The invariant of every behaviour. *)
THEOREM ThreadInvariant == ThSpec => []ThInv
<1>1. ThInv /\ [ThNext]_thVars => ThInv'
  BY ThStepInv
<1>q. QED
  BY ThInitInv, <1>1, PTL DEF ThSpec

(* At most one thread of an object runs code of its class, whatever is started *)
(* and stopped (Thread::start, ThreadFunction).                                *)
THEOREM ThreadTyped == ThSpec => []ThTypeOK
<1>1. ASSUME ThInv PROVE ThTypeOK
  <2>1. {r \in ThRounds : thWork[r] \in ThInside} \subseteq {thHandle}
    BY <1>1 DEF ThInv, ThOwned, ThInside
  <2>2. IsFiniteSet({thHandle}) /\ Cardinality({thHandle}) = 1
    BY FS_Singleton
  <2>3. Cardinality({r \in ThRounds : thWork[r] \in ThInside}) <= 1
    BY <2>1, <2>2, FS_Subset
  <2>q. QED
    BY <1>1, <2>3 DEF ThInv, ThValues, ThTypeOK, ThPlaces
<1>q. QED
  BY ThreadInvariant, <1>1, PTL

(* When join or stop returns, and when its call of pthread_join is undefined, no  *)
(* thread that was started runs code of the derived class (Thread::join,          *)
(* ThreadFunction).                                                               *)
THEOREM JoinedIsOutside == ThSpec => ThJoinedIsOutside
<1> DEFINE Returns == \E c \in ThCallers :
             thCall[c] \in ThInJoin /\ thCall'[c] \in {"idle", "undefined", "crashed"} \ {thCall[c]}
           Outside == \A r \in ThRounds : thWork[r] \notin ThInside \cup {"begin"}
<1>1. ASSUME ThInv, ThNext, Returns PROVE Outside
  <2>1. PICK c \in ThCallers : thCall[c] \in ThInJoin /\ thCall'[c] \in {"idle", "undefined", "crashed"} \ {thCall[c]}
    BY <1>1
  <2>2. thHandle = ThUnused
    <3>1. CASE (\E r \in ThRounds : ThThread(r)) \/ ThStart
      BY <1>1, <2>1, <3>1, ThThreadMoves DEF ThStart
    <3>2. CASE \E d \in ThCallers : ThTryStop(d)
      BY <1>1, <2>1, <3>2 DEF ThTryStop, ThStep, ThInv, ThValues, ThInJoin
    <3>3. CASE ThJoin
      BY <1>1, <2>1, <3>3, ThreadAssumption DEF ThJoin, ThStep, ThInv, ThValues, ThInJoin
    <3>4. CASE ThJoinCheck \/ ThJoinArgument
      BY <1>1, <2>1, <3>4, ThreadAssumption DEF ThJoinCheck, ThJoinArgument, ThStep, ThInv, ThValues
    <3>5. CASE ThPthreadJoin
      <4>1. ThNotJoinable /\ thCall[ThOwner] = "pthread_join"
        BY <1>1, <2>1, <3>5, ThreadAssumption DEF ThPthreadJoin, ThStep, ThInv, ThValues
      <4>q. QED
        BY <1>1, <4>1 DEF ThNotJoinable, ThInv, ThValues, ThOwned, ThJoins, ThInside
    <3>6. CASE ThJoinReturns
      BY <1>1, <3>6, ThreadAssumption DEF ThJoinReturns, ThStep, ThInv, ThValues, ThOwned, ThJoins, ThInside
    <3>7. CASE ThUndefined
      BY <1>1, <3>7, ThreadAssumption DEF ThUndefined, ThStep, ThInv, ThJoins
    <3>q. QED
      BY <1>1, <3>1, <3>2, <3>3, <3>4, <3>5, <3>6, <3>7 DEF ThNext, ThOwnerJoins
  <2>q. QED
    BY <1>1, <2>2 DEF ThInv, ThOwned, ThInside, ThRounds, ThUnused
<1>2. ThInv /\ [ThNext]_thVars
        => [\A c \in ThCallers : thCall[c] \in ThInJoin /\ thCall'[c] \in {"idle", "undefined", "crashed"} \ {thCall[c]}
              => \A r \in ThRounds : thWork[r] \notin ThInside \cup {"begin"}]_thVars
  BY <1>1
<1>q. QED
  BY ThreadInvariant, <1>2, PTL DEF ThSpec, ThJoinedIsOutside

(* The thread's handle and places stay sound, and whoever joins the thread *)
(* finds it outside the derived class.                                     *)
THEOREM ThreadIsSafe == ThSpec => ThSafe
  BY ThreadTyped, JoinedIsOutside, PTL DEF ThSafe

-----------------------------------------------------------------------------
(* ConditionEvent (TEvent)                                                  *)

EvPlaces == {"idle", "lock", "loop", "sleep", "relock", "take"}

(* What one knows of the variables by themselves. *)
EvValues ==
  /\ evPc \in [EvWaiters -> EvPlaces]
  /\ evSignaled \in BOOLEAN
  /\ evMutex \in EvWaiters \cup {EvFree}
  /\ evTimedOut \subseteq EvTimed
  /\ evReset \subseteq EvWaiters

(* The mutex is held between its lock and its release. *)
EvHeld == \A w \in EvWaiters : evPc[w] \in {"loop", "take"} <=> evMutex = w

(* What a waiter knows of a timeout or a reset it knows in its call only. *)
EvInCall ==
  /\ \A w \in evTimedOut : evPc[w] \in {"relock", "take"}
  /\ \A w \in evReset : evPc[w] # "idle"

(* Who is about to return has seen the flag, and only a reset can have cleared *)
(* it since, or its time is over.                                              *)
EvSeen == \A w \in EvWaiters : evPc[w] = "take" => evSignaled \/ w \in evTimedOut \/ w \in evReset

(* The inductive invariant. *)
EvInv == EvValues /\ EvHeld /\ EvInCall /\ EvSeen /\ EvNobodySleepsOver

LEMMA EvInitInv == EvInit => EvInv
  BY EventAssumption DEF EvInit, EvInv, EvValues, EvPlaces, EvHeld, EvInCall, EvSeen, EvNobodySleepsOver, EvFree

LEMMA EvPostInv == EvInv /\ EvPost => EvInv'
<1> SUFFICES ASSUME EvInv, EvPost PROVE EvInv'
  OBVIOUS
<1> USE EventAssumption DEF EvInv, EvPost, EvPlaces, EvFree
<1>1. EvValues'
  BY DEF EvValues
<1>2. EvHeld' /\ EvInCall'
  BY DEF EvValues, EvHeld, EvInCall
<1>3. EvSeen' /\ EvNobodySleepsOver'
  BY DEF EvValues, EvSeen, EvNobodySleepsOver
<1>q. QED
  BY <1>1, <1>2, <1>3

LEMMA EvResetInv == EvInv /\ EvReset => EvInv'
<1> SUFFICES ASSUME EvInv, EvReset PROVE EvInv'
  OBVIOUS
<1> USE DEF EvInv, EvReset, EvPlaces
<1>1. EvValues' /\ EvHeld' /\ EvInCall'
  BY DEF EvValues, EvHeld, EvInCall
<1>2. EvSeen' /\ EvNobodySleepsOver'
  BY DEF EvValues, EvSeen, EvNobodySleepsOver
<1>q. QED
  BY <1>1, <1>2

LEMMA EvWaiterInv ==
  ASSUME NEW w \in EvWaiters, EvInv, EvCall(w) \/ EvWait(w) \/ EvTimeout(w) \/ EvSpurious(w)
  PROVE  EvInv'
<1> USE EventAssumption DEF EvInv, EvStep, EvPlaces, EvFree
<1>1. CASE EvCall(w)
  BY <1>1 DEF EvCall, EvValues, EvHeld, EvInCall, EvSeen, EvNobodySleepsOver
<1>2. CASE EvLock(w)
  <2>1. EvValues' /\ EvHeld'
    BY <1>2 DEF EvLock, EvValues, EvHeld
  <2>2. EvInCall' /\ EvSeen' /\ EvNobodySleepsOver'
    BY <1>2 DEF EvLock, EvValues, EvInCall, EvSeen, EvNobodySleepsOver
  <2>q. QED
    BY <2>1, <2>2
<1>3. CASE EvLoop(w)
  <2>1. EvValues' /\ EvHeld'
    BY <1>3 DEF EvLoop, EvValues, EvHeld
  <2>2. EvInCall' /\ EvSeen' /\ EvNobodySleepsOver'
    BY <1>3 DEF EvLoop, EvValues, EvHeld, EvInCall, EvSeen, EvNobodySleepsOver
  <2>q. QED
    BY <2>1, <2>2
<1>4. CASE EvTake(w)
  <2>1. EvValues' /\ EvHeld'
    BY <1>4 DEF EvTake, EvValues, EvHeld
  <2>2. EvInCall' /\ EvSeen' /\ EvNobodySleepsOver'
    BY <1>4 DEF EvTake, EvValues, EvHeld, EvInCall, EvSeen, EvNobodySleepsOver
  <2>q. QED
    BY <2>1, <2>2
<1>5. CASE EvTimeout(w)
  BY <1>5 DEF EvTimeout, EvValues, EvHeld, EvInCall, EvSeen, EvNobodySleepsOver
<1>6. CASE EvSpurious(w)
  BY <1>6 DEF EvSpurious, EvValues, EvHeld, EvInCall, EvSeen, EvNobodySleepsOver
<1>q. QED
  BY <1>1, <1>2, <1>3, <1>4, <1>5, <1>6 DEF EvWait

LEMMA EvStepInv == EvInv /\ [EvNext]_evVars => EvInv'
<1> SUFFICES ASSUME EvInv, [EvNext]_evVars PROVE EvInv'
  OBVIOUS
<1>1. CASE UNCHANGED evVars
  BY <1>1 DEF EvInv, EvValues, EvHeld, EvInCall, EvSeen, EvNobodySleepsOver, evVars
<1>2. CASE EvNext
  BY <1>2, EvPostInv, EvResetInv, EvWaiterInv DEF EvNext
<1>q. QED
  BY <1>1, <1>2

(* The invariant of every behaviour, whatever the waiters are. *)
THEOREM EventInvariant == EvSpec => []EvInv
<1>1. EvInv /\ [EvNext]_evVars => EvInv'
  BY EvStepInv
<1>q. QED
  BY EvInitInv, <1>1, PTL DEF EvSpec

(* The mutex has at most one holder, and what is known of a timeout is known in *)
(* the call only (timedwait).                                                   *)
THEOREM EventTyped == EvSpec => []EvTypeOK
<1>1. EvInv => EvTypeOK
  BY EventAssumption DEF EvInv, EvValues, EvHeld, EvInCall, EvTypeOK, EvFree
<1>q. QED
  BY EventInvariant, <1>1, PTL

(* Nobody sleeps while the event is signaled (post wakes all, and who sleeps *)
(* looked at the flag with the mutex held).                                  *)
THEOREM NobodySleepsOver == EvSpec => []EvNobodySleepsOver
<1>1. EvInv => EvNobodySleepsOver
  BY DEF EvInv
<1>q. QED
  BY EventInvariant, <1>1, PTL

-----------------------------------------------------------------------------
(* Calls of others, and the steps within a call, leave EvCalls as it is. *)
LEMMA EvSameCalls ==
  ASSUME \A w \in EvWaiters : (evPc[w] = "idle") = (evPc'[w] = "idle"), evReset' = evReset
  PROVE  EvCalls' = EvCalls
  BY DEF EvCalls

LEMMA EvWaiterIsFlag ==
  ASSUME NEW w \in EvWaiters, EvInv, EvCall(w) \/ EvWait(w) \/ EvTimeout(w) \/ EvSpurious(w)
  PROVE  EvFlag!Next \/ UNCHANGED <<evSignaled, EvCalls>>
<1> USE DEF EvStep
<1>0. evPc \in [EvWaiters -> EvPlaces] /\ evSignaled \in BOOLEAN
  BY DEF EvInv, EvValues
<1>1. CASE EvCall(w)
  <2>1. w \notin evReset /\ EvCalls[w] = "idle"
    BY <1>1 DEF EvCall, EvInv, EvInCall, EvCalls
  <2>2. EvCalls' = [EvCalls EXCEPT ![w] = "waiting"]
    BY <1>0, <1>1, <2>1 DEF EvCall, EvCalls
  <2>q. QED
    BY <1>1, <2>1, <2>2 DEF EvCall, EvFlag!Next, EvFlag!Wait
<1>2. CASE EvLock(w) \/ EvLoop(w) \/ EvTimeout(w) \/ EvSpurious(w)
  <2>1. \A v \in EvWaiters : (evPc[v] = "idle") = (evPc'[v] = "idle")
    BY <1>0, <1>2 DEF EvLock, EvLoop, EvTimeout, EvSpurious
  <2>2. evReset' = evReset /\ evSignaled' = evSignaled
    BY <1>2 DEF EvLock, EvLoop, EvTimeout, EvSpurious
  <2>q. QED
    BY <2>1, <2>2, EvSameCalls
<1>3. CASE EvTake(w)
  <2>1. EvCalls[w] # "idle" /\ (w \in evReset => EvCalls[w] = "reset")
    BY <1>3 DEF EvTake, EvCalls
  <2>2. EvCalls' = [EvCalls EXCEPT ![w] = "idle"]
    BY <1>0, <1>3 DEF EvTake, EvCalls
  <2>3. evSignaled \/ w \in EvTimed \/ w \in evReset
    BY <1>3 DEF EvTake, EvInv, EvSeen, EvValues
  <2>4. EvFlag!Return(w) /\ evSignaled' = FALSE
    BY <1>3, <2>1, <2>2 DEF EvTake, EvFlag!Return
  <2>5. EvFlag!ReturnTrue(w) \/ EvFlag!ReturnFalse(w)
    BY <1>0, <2>1, <2>3, <2>4 DEF EvFlag!ReturnTrue, EvFlag!ReturnFalse
  <2>q. QED
    BY <2>5 DEF EvFlag!Next
<1>q. QED
  BY <1>1, <1>2, <1>3 DEF EvWait

LEMMA EvStepIsFlag == EvInv /\ [EvNext]_evVars => [EvFlag!Next]_<<evSignaled, EvCalls>>
<1> SUFFICES ASSUME EvInv, [EvNext]_evVars
             PROVE  EvFlag!Next \/ UNCHANGED <<evSignaled, EvCalls>>
  OBVIOUS
<1>0. evPc \in [EvWaiters -> EvPlaces]
  BY DEF EvInv, EvValues
<1>1. CASE UNCHANGED evVars
  BY <1>1 DEF evVars, EvCalls
<1>2. CASE EvPost
  <2>1. \A v \in EvWaiters : (evPc[v] = "idle") = (evPc'[v] = "idle")
    BY <1>0, <1>2 DEF EvPost
  <2>2. EvCalls' = EvCalls
    BY <1>2, <2>1, EvSameCalls DEF EvPost
  <2>q. QED
    BY <1>2, <2>2 DEF EvPost, EvFlag!Next, EvFlag!Post
<1>3. CASE EvReset
  <2>1. EvCalls' = [t \in EvWaiters |-> IF EvCalls[t] = "idle" THEN "idle" ELSE "reset"]
    BY <1>3 DEF EvReset, EvCalls
  <2>q. QED
    BY <1>3, <2>1 DEF EvReset, EvFlag!Next, EvFlag!Reset
<1>q. QED
  BY <1>1, <1>2, <1>3, EvWaiterIsFlag DEF EvNext

(* The event implements the flag: no post is lost, one post ends one wait, and *)
(* a wait ends without one only for a timeout or a reset (ConditionEvent).     *)
THEOREM EventIsFlag == EvSpec => EvIsFlag
<1>1. EvInit => EvFlag!Init
  BY DEF EvInit, EvFlag!Init, EvCalls
<1>2. EvInv /\ [EvNext]_evVars => [EvFlag!Next]_<<evSignaled, EvCalls>>
  BY EvStepIsFlag
<1>q. QED
  BY <1>1, <1>2, EventInvariant, PTL DEF EvSpec, EvIsFlag, EvFlag!Spec
(* A ConditionEvent is a flag over which nobody sleeps. *)
THEOREM EventIsSafe == EvSpec => EvSafe
  BY EventTyped, NobodySleepsOver, EventIsFlag, PTL DEF EvSafe

-----------------------------------------------------------------------------
(* SimulatedSemaphore and SemaphoreEvent (TSemaphore)                       *)

SmPlaces == {"idle", "sleep", "signaled", "timedout"}

(* Those in the condition variable or on their way out of it, and those of them *)
(* that are on their way out.                                                   *)
SmInCall == {w \in SmWaiters : smPc[w] # "idle"}
SmWoken == {w \in SmWaiters : smPc[w] \in {"signaled", "timedout"}}

(* What one knows of the variables by themselves. *)
SmValues ==
  /\ smCount \in Nat /\ smWaiting \in Int
  /\ smPosts \in Nat /\ smTaken \in Nat /\ smWasted \in Nat
  /\ smPc \in [SmWaiters -> SmPlaces]

SmDoings == {"idle", "post", "reset", "look"}
SmEventValues == smEvent \in Nat /\ smDoing \in [SmPosters -> SmDoings] /\ smRaised \in BOOLEAN

(* The inductive invariants of the two classes, which share nothing. *)
SmInv == SmValues /\ SmTokens /\ SmNobodyForgotten
SmEventInv == SmEventValues /\ SmEventBounded

-----------------------------------------------------------------------------
(* How the two sets of waiters change when one waiter goes to a place. *)

(* Of a set of waiters picked by their places, the number changes by the one *)
(* that moves.                                                               *)
LEMMA MovedInCall ==
  ASSUME SmValues, NEW w \in SmWaiters, NEW to \in SmPlaces,
         smPc' = [smPc EXCEPT ![w] = to]
  PROVE  /\ smPc' \in [SmWaiters -> SmPlaces]
         /\ Cardinality(SmInCall) \in Nat
         /\ (smPc[w] = "idle" <=> to = "idle") => Cardinality(SmInCall') = Cardinality(SmInCall)
         /\ smPc[w] = "idle" /\ to # "idle" => Cardinality(SmInCall') = Cardinality(SmInCall) + 1
         /\ smPc[w] # "idle" /\ to = "idle" => Cardinality(SmInCall') = Cardinality(SmInCall) - 1
<1>1. IsFiniteSet(SmInCall)
  BY SemaphoreAssumption, FS_Subset DEF SmInCall
<1>2. smPc' \in [SmWaiters -> SmPlaces] /\ Cardinality(SmInCall) \in Nat
  BY <1>1, FS_CardinalityType DEF SmValues
<1>3. (smPc[w] = "idle" <=> to = "idle") => SmInCall' = SmInCall
  BY DEF SmValues, SmInCall
<1>4. smPc[w] = "idle" /\ to # "idle" => SmInCall' = SmInCall \cup {w} /\ w \notin SmInCall
  BY DEF SmValues, SmInCall
<1>5. smPc[w] # "idle" /\ to = "idle" => SmInCall' = SmInCall \ {w} /\ w \in SmInCall
  BY DEF SmValues, SmInCall
<1>q. QED
  BY <1>1, <1>2, <1>3, <1>4, <1>5, FS_AddElement, FS_RemoveElement

LEMMA MovedWoken ==
  ASSUME SmValues, NEW w \in SmWaiters, NEW to \in SmPlaces,
         smPc' = [smPc EXCEPT ![w] = to]
  PROVE  /\ Cardinality(SmWoken) \in Nat
         /\ smPc[w] \in {"signaled", "timedout"} /\ to \in {"signaled", "timedout"}
              => Cardinality(SmWoken') = Cardinality(SmWoken)
         /\ smPc[w] \notin {"signaled", "timedout"} /\ to \notin {"signaled", "timedout"}
              => Cardinality(SmWoken') = Cardinality(SmWoken)
         /\ smPc[w] \notin {"signaled", "timedout"} /\ to \in {"signaled", "timedout"}
              => Cardinality(SmWoken') = Cardinality(SmWoken) + 1
         /\ smPc[w] \in {"signaled", "timedout"} /\ to \notin {"signaled", "timedout"}
              => Cardinality(SmWoken') = Cardinality(SmWoken) - 1
         /\ Cardinality(SmWoken') \in Nat
<1>1. IsFiniteSet(SmWoken) /\ IsFiniteSet(SmWoken')
  <2>1. SmWoken \subseteq SmWaiters /\ SmWoken' \subseteq SmWaiters
    BY DEF SmWoken
  <2>q. QED
    BY <2>1, SemaphoreAssumption, FS_Subset
<1>2. Cardinality(SmWoken) \in Nat /\ Cardinality(SmWoken') \in Nat
  BY <1>1, FS_CardinalityType
<1>3. (smPc[w] \in {"signaled", "timedout"} <=> to \in {"signaled", "timedout"}) => SmWoken' = SmWoken
  BY DEF SmValues, SmWoken
<1>4. smPc[w] \notin {"signaled", "timedout"} /\ to \in {"signaled", "timedout"}
        => SmWoken' = SmWoken \cup {w} /\ w \notin SmWoken
  BY DEF SmValues, SmWoken
<1>5. smPc[w] \in {"signaled", "timedout"} /\ to \notin {"signaled", "timedout"}
        => SmWoken' = SmWoken \ {w} /\ w \in SmWoken
  BY DEF SmValues, SmWoken
<1>6. smPc[w] \notin {"signaled", "timedout"} /\ to \in {"signaled", "timedout"}
        => Cardinality(SmWoken') = Cardinality(SmWoken) + 1
  BY <1>1, <1>4, FS_AddElement
<1>7. smPc[w] \in {"signaled", "timedout"} /\ to \notin {"signaled", "timedout"}
        => Cardinality(SmWoken') = Cardinality(SmWoken) - 1
  BY <1>1, <1>5, FS_RemoveElement
<1>q. QED
  BY <1>2, <1>3, <1>6, <1>7

-----------------------------------------------------------------------------
(* SimulatedSemaphore *)

LEMMA SmInitInv == SmInit => SmInv
<1> SUFFICES ASSUME SmInit PROVE SmInv
  OBVIOUS
<1>1. {w \in SmWaiters : smPc[w] # "idle"} = {}
  BY DEF SmInit
<1>2. SmValues
  BY DEF SmInit, SmValues, SmPlaces
<1>3. SmTokens
  BY <1>1, FS_EmptySet DEF SmInit, SmTokens
<1>4. SmNobodyForgotten
  BY DEF SmInit, SmNobodyForgotten, SmAsleep
<1>q. QED
  BY <1>2, <1>3, <1>4 DEF SmInv

LEMMA SmPostInv == SmInv /\ SmPost => SmInv'
<1> SUFFICES ASSUME SmInv, SmPost PROVE SmInv'
  OBVIOUS
<1> USE DEF SmInv
<1>0. smWaiting > 0 \/ SmAsleep = {}
  <2>1. SUFFICES ASSUME NEW w \in SmAsleep PROVE smWaiting > 0
    OBVIOUS
  <2>2. w \in SmInCall /\ IsFiniteSet(SmInCall)
    BY <2>1, SemaphoreAssumption, FS_Subset DEF SmAsleep, SmInCall
  <2>3. Cardinality(SmInCall) # 0 /\ Cardinality(SmInCall) \in Nat
    BY <2>2, FS_EmptySet, FS_CardinalityType
  <2>q. QED
    BY <2>3 DEF SmTokens, SmInCall
<1>1. CASE SmAsleep # {}
  <2>1. PICK w \in SmAsleep : smPc' = [smPc EXCEPT ![w] = "signaled"]
    BY <1>0, <1>1 DEF SmPost
  <2>2. w \in SmWaiters /\ smPc[w] = "sleep" /\ "signaled" \in SmPlaces
    BY <2>1 DEF SmAsleep, SmPlaces
  <2>3. Cardinality(SmInCall') = Cardinality(SmInCall) /\ smPc' \in [SmWaiters -> SmPlaces]
    BY <2>1, <2>2, MovedInCall
  <2>4. Cardinality(SmWoken') = Cardinality(SmWoken) + 1 /\ Cardinality(SmWoken) \in Nat
    BY <2>1, <2>2, MovedWoken
  <2>5. smCount <= Cardinality(SmWoken)
    BY <1>1 DEF SmNobodyForgotten, SmWoken
  <2>6. smCount' = smCount + 1 /\ smPosts' = smPosts + 1
        /\ smWaiting' = smWaiting /\ smTaken' = smTaken /\ smWasted' = smWasted
    BY DEF SmPost
  <2>7. smCount' <= Cardinality(SmWoken')
    BY <2>4, <2>5, <2>6 DEF SmValues
  <2>8. SmValues' /\ SmTokens'
    BY <2>3, <2>6 DEF SmValues, SmTokens, SmInCall
  <2>q. QED
    BY <2>7, <2>8 DEF SmNobodyForgotten, SmWoken
<1>2. CASE SmAsleep = {}
  BY <1>2 DEF SmPost, SmValues, SmTokens, SmNobodyForgotten, SmAsleep
<1>q. QED
  BY <1>1, <1>2

LEMMA SmWaitInv == \A w \in SmWaiters : SmInv /\ SmWait(w) => SmInv'
<1> SUFFICES ASSUME NEW w \in SmWaiters, SmInv, SmWait(w) PROVE SmInv'
  OBVIOUS
<1> USE DEF SmInv
<1>1. CASE smCount > 0
  <2>1. smPc' = smPc /\ smWaiting' = smWaiting
    BY <1>1 DEF SmWait, SmLeave, SmValues
  <2>2. smCount' = smCount - 1 /\ smTaken' = smTaken + 1 /\ smWasted' = smWasted /\ smPosts' = smPosts
    BY <1>1 DEF SmWait, SmLeave
  <2>3. Cardinality(SmWoken) \in Nat
    BY <2>1, SemaphoreAssumption, FS_Subset, FS_CardinalityType DEF SmWoken
  <2>4. SmValues' /\ SmTokens'
    BY <1>1, <2>1, <2>2 DEF SmValues, SmTokens
  <2>5. SmNobodyForgotten'
    BY <1>1, <2>1, <2>2, <2>3 DEF SmValues, SmNobodyForgotten, SmAsleep, SmWoken
  <2>q. QED
    BY <2>4, <2>5
<1>2. CASE ~(smCount > 0)
  <2>1. /\ smPc' = [smPc EXCEPT ![w] = "sleep"] /\ smPc[w] = "idle" /\ "sleep" \in SmPlaces
        /\ smWaiting' = smWaiting + 1 /\ smCount' = 0
        /\ smTaken' = smTaken /\ smWasted' = smWasted /\ smPosts' = smPosts /\ smCount = 0
    BY <1>2 DEF SmWait, SmPlaces, SmValues
  <2>2. Cardinality(SmInCall') = Cardinality(SmInCall) + 1 /\ smPc' \in [SmWaiters -> SmPlaces]
    BY <2>1, MovedInCall
  <2>3. Cardinality(SmWoken') \in Nat
    BY <2>1, MovedWoken
  <2>4. SmValues' /\ SmTokens'
    BY <2>1, <2>2 DEF SmValues, SmTokens, SmInCall
  <2>5. SmNobodyForgotten'
    BY <2>1, <2>3 DEF SmNobodyForgotten, SmWoken
  <2>q. QED
    BY <2>4, <2>5
<1>q. QED
  BY <1>1, <1>2

(* A wait that is told, or told nothing, goes on to where it needs the mutex. *)
LEMMA SmToldInv ==
  ASSUME NEW w \in SmWaiters, SmInv, SmTimeout(w) \/ SmSpurious(w)
  PROVE  SmInv'
<1> USE DEF SmInv
<1>1. PICK to \in {"signaled", "timedout"} : smPc' = [smPc EXCEPT ![w] = to]
  BY DEF SmTimeout, SmSpurious
<1>2. smPc[w] \in {"sleep", "signaled"} /\ to \in SmPlaces /\ to # "idle"
      /\ UNCHANGED <<smCount, smWaiting, smPosts, smTaken, smWasted>>
  BY <1>1 DEF SmTimeout, SmSpurious, SmPlaces
<1>3. Cardinality(SmInCall') = Cardinality(SmInCall) /\ smPc' \in [SmWaiters -> SmPlaces]
  BY <1>1, <1>2, MovedInCall
<1>4. Cardinality(SmWoken') >= Cardinality(SmWoken) /\ Cardinality(SmWoken) \in Nat /\ Cardinality(SmWoken') \in Nat
  <2>1. SmValues /\ to \in SmPlaces
    BY <1>2
  <2>2. Cardinality(SmWoken) \in Nat /\ Cardinality(SmWoken') \in Nat
    BY <1>1, <2>1, MovedWoken
  <2>3. smPc[w] \in {"signaled", "timedout"} => Cardinality(SmWoken') = Cardinality(SmWoken)
    BY <1>1, <2>1, MovedWoken
  <2>4. smPc[w] \notin {"signaled", "timedout"} => Cardinality(SmWoken') = Cardinality(SmWoken) + 1
    BY <1>1, <2>1, MovedWoken
  <2>q. QED
    BY <2>2, <2>3, <2>4
<1>5. SmValues' /\ SmTokens'
  BY <1>2, <1>3 DEF SmValues, SmTokens, SmInCall
<1>6. SmAsleep' # {} => SmAsleep # {}
  BY <1>1, <1>2 DEF SmAsleep, SmValues
<1>7. SmNobodyForgotten'
  BY <1>2, <1>4, <1>6 DEF SmNobodyForgotten, SmWoken, SmValues
<1>q. QED
  BY <1>5, <1>7

LEMMA SmWakeInv == \A w \in SmWaiters : SmInv /\ SmWake(w) => SmInv'
<1> SUFFICES ASSUME NEW w \in SmWaiters, SmInv, SmWake(w) PROVE SmInv'
  OBVIOUS
<1> USE DEF SmInv
<1>0. smPc[w] \in {"signaled", "timedout"} /\ smPosts' = smPosts
  BY DEF SmWake
<1>1. CASE w \notin SmTimed /\ smCount = 0
  <2>1. smPc' = [smPc EXCEPT ![w] = "sleep"] /\ "sleep" \in SmPlaces
        /\ smCount' = smCount /\ smWaiting' = smWaiting /\ smTaken' = smTaken /\ smWasted' = smWasted
    BY <1>1 DEF SmWake, SmPlaces
  <2>2. Cardinality(SmInCall') = Cardinality(SmInCall) /\ smPc' \in [SmWaiters -> SmPlaces]
    BY <1>0, <2>1, MovedInCall
  <2>3. Cardinality(SmWoken') \in Nat
    BY <2>1, MovedWoken
  <2>4. SmValues' /\ SmTokens'
    BY <1>0, <2>1, <2>2 DEF SmValues, SmTokens, SmInCall
  <2>5. SmNobodyForgotten'
    BY <1>1, <2>1, <2>3 DEF SmNobodyForgotten, SmWoken
  <2>q. QED
    BY <2>4, <2>5
<1>2. CASE ~(w \notin SmTimed /\ smCount = 0)
  <2>1. smPc' = [smPc EXCEPT ![w] = "idle"] /\ "idle" \in SmPlaces /\ smWaiting' = smWaiting - 1
    BY <1>2 DEF SmWake, SmLeave, SmPlaces
  <2>2. Cardinality(SmInCall') = Cardinality(SmInCall) - 1 /\ smPc' \in [SmWaiters -> SmPlaces]
    BY <1>0, <2>1, MovedInCall
  <2>3. Cardinality(SmWoken') = Cardinality(SmWoken) - 1 /\ Cardinality(SmWoken) \in Nat /\ Cardinality(SmWoken') \in Nat
    BY <1>0, <2>1, MovedWoken
  <2>4. SmLeave(w, smPc[w] = "signaled" /\ smCount > 0)
    BY <1>2 DEF SmWake
  <2>5. \/ smCount > 0 /\ smCount' = smCount - 1 /\ smTaken' = smTaken + 1 /\ smWasted' = smWasted
        \/ smCount > 0 /\ smCount' = smCount - 1 /\ smTaken' = smTaken /\ smWasted' = smWasted + 1
        \/ smCount = 0 /\ smCount' = 0 /\ smTaken' = smTaken /\ smWasted' = smWasted
    <3>1. CASE smCount > 0
      BY <2>4, <3>1 DEF SmLeave, SmValues
    <3>2. CASE smCount = 0
      BY <2>4, <3>2 DEF SmLeave, SmValues
    <3>q. QED
      BY <3>1, <3>2 DEF SmValues
  <2>6. smTaken' \in Nat /\ smWasted' \in Nat /\ smCount' \in Nat
    BY <2>4 DEF SmLeave, SmValues
  <2>7. SmValues'
    BY <1>0, <2>1, <2>2, <2>6 DEF SmValues
  <2>8. SmTokens'
    <3>1. smWaiting' = Cardinality(SmInCall')
      BY <2>1, <2>2 DEF SmValues, SmTokens, SmInCall
    <3>2. smCount \in Nat /\ smTaken \in Nat /\ smWasted \in Nat /\ smPosts = smCount + smTaken + smWasted
      BY DEF SmValues, SmTokens
    <3>3. smPosts = smCount' + smTaken' + smWasted'
      BY <2>5, <3>2
    <3>q. QED
      BY <1>0, <3>1, <3>3 DEF SmTokens, SmInCall
  <2>9. SmAsleep' # {} => SmAsleep # {}
    BY <2>1 DEF SmAsleep, SmValues
  <2>10. SmNobodyForgotten'
    BY <2>3, <2>5, <2>9 DEF SmNobodyForgotten, SmWoken, SmValues
  <2>q. QED
    BY <2>7, <2>8, <2>10
<1>q. QED
  BY <1>1, <1>2

(* The event made of a semaphore is another object. *)
LEMMA SmElseInv == SmInv /\ UNCHANGED SmSemaphore => SmInv'
  BY DEF SmInv, SmValues, SmTokens, SmNobodyForgotten, SmAsleep, SmSemaphore

LEMMA SmNextInv == SmInv /\ [SmNext]_smVars => SmInv'
<1> SUFFICES ASSUME SmInv, [SmNext]_smVars PROVE SmInv'
  OBVIOUS
<1>1. CASE SmPost
  BY <1>1, SmPostInv
<1>2. ASSUME NEW w \in SmWaiters, SmWait(w) \/ SmWake(w) PROVE SmInv'
  BY <1>2, SmWaitInv, SmWakeInv
<1>3. ASSUME NEW w \in SmWaiters, SmTimeout(w) \/ SmSpurious(w) PROVE SmInv'
  BY <1>3, SmToldInv
<1>4. CASE SmEventNext
  BY <1>4, SmElseInv DEF SmEventNext, SmEventStep, SmEventWait, SmEventCheck, SmEventPost, SmEventReset,
                         SmEventResetPost, SmEventResetLook
<1>5. CASE UNCHANGED smVars
  BY <1>5, SmElseInv DEF smVars, SmSemaphore
<1>q. QED
  BY <1>1, <1>2, <1>3, <1>4, <1>5 DEF SmNext, SmSemaphoreNext

(* SimulatedSemaphore's inductive invariant holds whatever waits and posts do. *)
THEOREM SemaphoreInvariant == SmSpec => []SmInv
  BY SmInitInv, SmNextInv, PTL DEF SmSpec

(* SimulatedSemaphore: each token posted waits, or was taken by one wait; no *)
(* wait returned TRUE without one.                                           *)
THEOREM TokensAreKept == SmSpec => []SmTokens
<1>1. SmInv => SmTokens
  BY DEF SmInv
<1>q. QED
  BY <1>1, SemaphoreInvariant, PTL

(* SimulatedSemaphore: while somebody sleeps, as many have been woken as there *)
(* are tokens, however many posts come together.                               *)
THEOREM NobodyForgotten == SmSpec => []SmNobodyForgotten
<1>1. SmInv => SmNobodyForgotten
  BY DEF SmInv
<1>q. QED
  BY <1>1, SemaphoreInvariant, PTL

-----------------------------------------------------------------------------
(* SemaphoreEvent *)

LEMMA SmPostersFinite ==
  ASSUME NEW S \in SUBSET SmPosters
  PROVE  IsFiniteSet(S) /\ Cardinality(S) \in Nat /\ Cardinality(SmPosters) \in Nat
         /\ Cardinality(S) <= Cardinality(SmPosters)
  BY SemaphoreAssumption, FS_Subset, FS_CardinalityType

(* Steps of reset, and whatever does not post: nobody begins to post, nobody *)
(* raises the value but a reset.                                             *)
LEMMA SmNoPostInv ==
  ASSUME SmEventInv, smDoing' \in [SmPosters -> SmDoings], SmPosting' \subseteq SmPosting,
         smEvent' \in Nat, smEvent' <= SmValueMax, smRaised' \in BOOLEAN, smRaised => smRaised',
         smEvent' <= smEvent \/ smRaised'
  PROVE  SmEventInv'
<1> USE DEF SmEventInv, SmEventValues, SmEventBounded
<1>1. CASE smRaised'
  BY <1>1
<1>2. CASE ~smRaised'
  <2>1. SmPosting \in SUBSET SmPosters /\ SmPosting' \in SUBSET SmPosters
    BY DEF SmPosting
  <2>2. Cardinality(SmPosting') <= Cardinality(SmPosting)
    BY <2>1, SmPostersFinite, FS_Subset
  <2>3. Cardinality(SmPosting') \in Nat /\ Cardinality(SmPosting) \in Nat /\ Cardinality(SmPosters) \in Nat
    BY <2>1, SmPostersFinite
  <2>4. smEvent + Cardinality(SmPosting) <= Cardinality(SmPosters) /\ smEvent' <= smEvent
    BY <1>2
  <2>5. smEvent' + Cardinality(SmPosting') <= Cardinality(SmPosters)
    BY <2>2, <2>3, <2>4
  <2>q. QED
    BY <1>2, <2>5
<1>q. QED
  BY <1>1, <1>2

LEMMA SmEventStepInv ==
  ASSUME SmEventInv, NEW p \in SmPosters, SmEventStep(p)
  PROVE  SmEventInv'
<1> USE DEF SmEventInv, SmEventValues, SmDoings
<1>0. SmPosting \in SUBSET SmPosters /\ SmPosting' \in SUBSET SmPosters
  BY DEF SmPosting
<1>1. CASE SmEventCheck(p)
  <2>1. smEvent' = 0 /\ smRaised' = smRaised /\ smDoing' \in [SmPosters -> SmDoings]
    BY <1>1 DEF SmEventCheck, SmDoes
  <2>2. Cardinality(SmPosting') <= Cardinality(SmPosters) /\ Cardinality(SmPosting') \in Nat
    BY <1>0, SmPostersFinite
  <2>q. QED
    BY <2>1, <2>2, SemaphoreAssumption DEF SmEventBounded
<1>2. CASE SmEventPost(p)
  <2>1. /\ smRaised' = smRaised /\ smDoing' \in [SmPosters -> SmDoings]
        /\ smEvent' \in Nat /\ smEvent' <= smEvent + 1 /\ smEvent' <= SmValueMax
    BY <1>2, SemaphoreAssumption DEF SmEventPost, SmDoes, SmRaise, SmEventBounded
  <2>2. SmPosting' = SmPosting \ {p} /\ p \in SmPosting
    BY <1>2 DEF SmEventPost, SmDoes, SmPosting
  <2>3. Cardinality(SmPosting') = Cardinality(SmPosting) - 1
    BY <1>0, <2>2, SmPostersFinite, FS_RemoveElement
  <2>4. Cardinality(SmPosting') \in Nat /\ Cardinality(SmPosting) \in Nat /\ Cardinality(SmPosters) \in Nat
    BY <1>0, SmPostersFinite
  <2>5. ASSUME smEvent + Cardinality(SmPosting) <= Cardinality(SmPosters)
        PROVE  smEvent' + Cardinality(SmPosting') <= Cardinality(SmPosters)
    BY <2>1, <2>3, <2>4, <2>5
  <2>q. QED
    BY <2>1, <2>5 DEF SmEventBounded
<1>3. CASE SmEventReset(p) \/ SmEventResetLook(p)
  <2>1. /\ smRaised' = smRaised /\ smDoing' \in [SmPosters -> SmDoings] /\ smEvent' = smEvent
        /\ SmPosting' \subseteq SmPosting
    BY <1>3 DEF SmEventReset, SmEventResetLook, SmDoes, SmPosting
  <2>q. QED
    BY <2>1, SmNoPostInv DEF SmEventBounded
<1>4. CASE SmEventResetPost(p)
  <2>1. /\ smRaised' = TRUE /\ smDoing' \in [SmPosters -> SmDoings] /\ smEvent' \in Nat /\ smEvent' <= SmValueMax
        /\ SmPosting' \subseteq SmPosting
    BY <1>4, SemaphoreAssumption DEF SmEventResetPost, SmDoes, SmRaise, SmPosting, SmEventBounded
  <2>q. QED
    BY <2>1, SmNoPostInv
<1>q. QED
  BY <1>1, <1>2, <1>3, <1>4 DEF SmEventStep

LEMMA SmEventNextInv == SmEventInv /\ [SmNext]_smVars => SmEventInv'
<1> SUFFICES ASSUME SmEventInv, [SmNext]_smVars PROVE SmEventInv'
  OBVIOUS
<1>1. CASE SmEventWait
  <2>1. smEvent \in Nat /\ smEvent > 0 /\ smEvent' = smEvent - 1 /\ smEvent <= SmValueMax
    BY <1>1 DEF SmEventWait, SmEventInv, SmEventValues, SmEventBounded
  <2>2. smDoing' = smDoing /\ smRaised' = smRaised /\ SmPosting' = SmPosting
    BY <1>1 DEF SmEventWait, SmPosting
  <2>3. smEvent' \in Nat /\ smEvent' <= SmValueMax /\ smEvent' <= smEvent
    BY <2>1, SemaphoreAssumption
  <2>q. QED
    BY <2>2, <2>3, SmNoPostInv DEF SmEventInv, SmEventValues
<1>2. CASE UNCHANGED SmEvents
  BY <1>2 DEF SmEvents, SmEventInv, SmEventValues, SmEventBounded, SmPosting
<1>3. SmSemaphoreNext \/ UNCHANGED smVars => UNCHANGED SmEvents
  BY DEF SmSemaphoreNext, SmPost, SmWait, SmTimeout, SmSpurious, SmWake, SmEvents, smVars
<1>q. QED
  BY <1>1, <1>2, <1>3, SmEventStepInv DEF SmNext, SmEventNext

LEMMA SmEventInitInv == SmInit => SmEventInv
<1> SUFFICES ASSUME SmInit PROVE SmEventInv
  OBVIOUS
<1>1. Cardinality({}) = 0 /\ Cardinality(SmPosters) \in Nat
  BY SemaphoreAssumption, FS_EmptySet, FS_CardinalityType
<1>2. SmPosting = {} /\ smEvent = 0
  BY DEF SmInit, SmPosting
<1>3. SmEventBounded
  BY <1>1, <1>2, SemaphoreAssumption DEF SmEventBounded
<1>4. smDoing = [p \in SmPosters |-> "idle"] /\ smRaised = FALSE
  BY DEF SmInit
<1>5. smDoing \in [SmPosters -> {"idle", "post", "reset", "look"}]
  BY <1>4
<1>6. SmEventValues
  BY <1>2, <1>4, <1>5 DEF SmEventValues, SmDoings
<1>q. QED
  BY <1>3, <1>6 DEF SmEventInv

(* SemaphoreEvent: however many threads post at once, and saw the value before *)
(* the others did, the value exceeds their number never, until reset is called *)
(* of an event that is signaled; its posts end at the limit of the semaphore.  *)
THEOREM EventIsBounded == SmSpec => []SmEventBounded
<1>1. SmEventInv => SmEventBounded
  BY DEF SmEventInv
<1>q. QED
  BY <1>1, SmEventInitInv, SmEventNextInv, PTL DEF SmSpec

(* SemaphoreEvent::reset returns with the event taken to the last, or raised to *)
(* the limit.                                                                   *)
THEOREM ResetEnds == SmSpec => SmResetEnds
<1> DEFINE Ends == \A p \in SmPosters :
             smDoing[p] \in {"reset", "look"} /\ smDoing'[p] = "idle" => smEvent' \in {0, SmValueMax}
<1>1. ASSUME SmEventInv, SmNext, NEW p \in SmPosters, smDoing[p] \in {"reset", "look"}, smDoing'[p] = "idle"
      PROVE  smEvent' \in {0, SmValueMax}
  <2>1. ~SmSemaphoreNext /\ ~SmEventWait
    BY <1>1 DEF SmSemaphoreNext, SmPost, SmWait, SmTimeout, SmSpurious, SmWake, SmEventWait, SmEvents
  <2>2. PICK q \in SmPosters : SmEventStep(q)
    BY <1>1, <2>1 DEF SmNext, SmEventNext
  <2>3. q = p
    BY <1>1, <2>2 DEF SmEventInv, SmEventValues, SmEventStep, SmEventCheck, SmEventPost, SmEventReset,
                      SmEventResetPost, SmEventResetLook, SmDoes
  <2>4. SmEventResetPost(p) \/ SmEventResetLook(p)
    BY <1>1, <2>2, <2>3 DEF SmEventStep, SmEventCheck, SmEventPost, SmEventReset, SmDoes
  <2>5. CASE SmEventResetPost(p)
    <3>1. ~(smEvent < SmValueMax) /\ smEvent' = smEvent
      BY <1>1, <2>5 DEF SmEventResetPost, SmDoes, SmRaise, SmEventInv, SmEventValues
    <3>q. QED
      BY <1>1, <3>1, SemaphoreAssumption DEF SmEventInv, SmEventValues, SmEventBounded
  <2>6. CASE SmEventResetLook(p)
    BY <1>1, <2>6 DEF SmEventResetLook, SmDoes, SmEventInv, SmEventValues
  <2>q. QED
    BY <2>4, <2>5, <2>6
<1>2. SmEventInv /\ [SmNext]_smVars => [Ends]_smVars
  BY <1>1
<1>q. QED
  BY <1>2, SmEventInitInv, SmEventNextInv, PTL DEF SmSpec, SmResetEnds

(* Both semaphores keep their count, whatever waits, posts and resets do. *)
THEOREM SemaphoresAreSafe == SmSpec => SmSafe
<1>1. SmSpec => [](SmTokens /\ SmNobodyForgotten /\ SmEventBounded)
  BY TokensAreKept, NobodyForgotten, EventIsBounded, PTL
<1>q. QED
  BY <1>1, ResetEnds DEF SmSafe

-----------------------------------------------------------------------------
(* Directories (FileDirs)                                                   *)

(* The first k names of a path. *)
FdFirst(path, k) == SubSeq(path, 1, k)

LEMMA FdFirstFacts ==
  ASSUME NEW path \in Seq(STRING), NEW k \in 0..Len(path)
  PROVE  /\ FdFirst(path, k) \in Seq(STRING) /\ Len(FdFirst(path, k)) = k
         /\ FdFirst(path, k) \in Prefixes(path)
         /\ k = 0 <=> FdFirst(path, k) = <<>>
         /\ \A l \in 0..k : FdFirst(FdFirst(path, k), l) = FdFirst(path, l)
         /\ k > 0 => Front(FdFirst(path, k)) = FdFirst(path, k - 1)
         /\ Prefixes(FdFirst(path, k)) = {FdFirst(path, l) : l \in 0..k}
<1>0. Len(path) \in Nat /\ k \in Int /\ \A i \in 1..Len(path) : path[i] \in STRING
  BY LenProperties, ElementOfSeq
<1>1. /\ FdFirst(path, k) \in Seq(STRING) /\ Len(FdFirst(path, k)) = k
      /\ \A i \in 1..k : FdFirst(path, k)[i] = path[i]
  <2>1. \A i \in 1..k : path[i] \in STRING
    BY <1>0
  <2>2. /\ SubSeq(path, 1, k) \in Seq(STRING)
        /\ Len(SubSeq(path, 1, k)) = IF 1 <= k THEN k - 1 + 1 ELSE 0
        /\ \A i \in 1..(k - 1 + 1) : SubSeq(path, 1, k)[i] = path[1 + i - 1]
    BY <1>0, <2>1, SubSeqProperties
  <2>q. QED
    BY <1>0, <2>2 DEF FdFirst
<1>2. FdFirst(path, k) \in Prefixes(path)
  BY DEF Prefixes, FdFirst
<1>3. k = 0 <=> FdFirst(path, k) = <<>>
  BY <1>0, <1>1, EmptySeq
<1>4. ASSUME NEW l \in 0..k PROVE FdFirst(FdFirst(path, k), l) = FdFirst(path, l)
  <2>1. CASE l = 0
    BY <2>1, <1>0, SubSeqEmpty DEF FdFirst
  <2>2. CASE l > 0
    <3>1. 1 \in 1..Len(path) /\ k \in 1..Len(path) /\ 1 \in 1..(k - 1 + 1) /\ l \in 1..(k - 1 + 1)
      BY <1>0, <2>2
    <3>2. SubSeq(SubSeq(path, 1, k), 1, l) = SubSeq(path, 1 + 1 - 1, 1 + l - 1)
      BY <3>1, SubSeqOfSubSeq
    <3>q. QED
      BY <1>0, <3>2 DEF FdFirst
  <2>q. QED
    BY <1>0, <2>1, <2>2
<1>5. ASSUME k > 0 PROVE Front(FdFirst(path, k)) = FdFirst(path, k - 1)
  <2>1. Front(FdFirst(path, k)) = FdFirst(FdFirst(path, k), k - 1)
    BY <1>1, Zenon DEF Front, FdFirst
  <2>2. k - 1 \in 0..k
    BY <1>0, <1>5
  <2>q. QED
    BY <1>4, <2>1, <2>2
<1>6. Prefixes(FdFirst(path, k)) = {FdFirst(path, l) : l \in 0..k}
  <2>1. Prefixes(FdFirst(path, k)) = {FdFirst(FdFirst(path, k), l) : l \in 0..k}
    BY <1>1, Zenon DEF Prefixes, FdFirst
  <2>q. QED
    BY <1>4, <2>1
<1>q. QED
  BY <1>1, <1>2, <1>3, <1>4, <1>5, <1>6

LEMMA FdWholePath ==
  ASSUME NEW path \in Seq(STRING)
  PROVE  FdFirst(path, Len(path)) = path /\ path \in Prefixes(path)
         /\ Prefixes(path) = {FdFirst(path, l) : l \in 0..Len(path)}
<1>1. SubSeq(path, 1, Len(path)) = path /\ Len(path) \in 0..Len(path)
  BY SubSeqFull, LenProperties
<1>q. QED
  BY <1>1 DEF FdFirst, Prefixes

FdKinds == {"log", "path"}
FdCalls == [kind : FdKinds, path : FdPaths \cup {<<>>}, at : Nat \ {0},
            step : {"stat", "mkdir", "made", "failed"}]
FdValues ==
  /\ fdTree \in [DOMAIN fdTree -> {"dir", "file"}] /\ DOMAIN fdTree \subseteq FdPaths
  /\ fdProc \in [FdProcs -> FdCalls]

(* Above whatever exists there are directories. *)
FdSound == \A path \in DOMAIN fdTree : \A q \in Prefixes(path) : q # path => FdIsDir(q)

(* A process that looks at a part has seen the one before it, or made it. *)
FdBehind(p) ==
  fdProc[p].step \in {"stat", "mkdir"} =>
    /\ fdProc[p].path \in FdPaths /\ fdProc[p].at \in 1..Len(fdProc[p].path)
    /\ fdProc[p].at > 1 => FdExists(FdFirst(fdProc[p].path, fdProc[p].at - 1))
FdDone(p) == fdProc[p].step = "made" => fdProc[p].path = <<>> \/ FdExists(fdProc[p].path)
FdDenied(p) ==
  fdProc[p].kind = "log" /\ fdProc[p].step = "failed"
    => \E q \in Prefixes(fdProc[p].path) : FdIsFile(q)
FdKnows(p) == FdBehind(p) /\ FdDone(p) /\ FdDenied(p)

FdInv == FdValues /\ FdSound /\ \A p \in FdProcs : FdKnows(p)

LEMMA FdInitInv == FdInit => FdInv
<1> SUFFICES ASSUME FdInit PROVE FdInv
  OBVIOUS
<1>1. FdValues
  BY DEF FdInit, FdValues, FdTrees, FdCalls, FdKinds
<1>2. FdSound
  BY DEF FdInit, FdTrees, FdSound, FdIsDir, FdExists
<1>3. \A p \in FdProcs : FdKnows(p)
  BY DEF FdInit, FdKnows, FdBehind, FdDone, FdDenied
<1>q. QED
  BY <1>1, <1>2, <1>3 DEF FdInv

(* What another process makes does not disturb what one knows. *)
LEMMA FdOthersKnow ==
  ASSUME NEW p \in FdProcs, FdKnows(p), fdProc'[p] = fdProc[p],
         DOMAIN fdTree \subseteq DOMAIN fdTree', \A q \in DOMAIN fdTree : fdTree'[q] = fdTree[q]
  PROVE  FdKnows(p)'
<1>1. \A q : (FdExists(q) => FdExists(q)') /\ (FdIsFile(q) => FdIsFile(q)')
  BY DEF FdExists, FdIsFile, FdIsDir
<1>q. QED
  BY <1>1 DEF FdKnows, FdBehind, FdDone, FdDenied

LEMMA FdCallInv ==
  \A p \in FdProcs, kind \in FdKinds, path \in FdPaths :
    FdInv /\ FdCall(p, kind, path) => FdInv'
<1> SUFFICES ASSUME NEW p \in FdProcs, NEW kind \in FdKinds, NEW path \in FdPaths, FdInv,
                    FdCall(p, kind, path)
             PROVE  FdInv'
  OBVIOUS
<1> USE DEF FdInv
<1> DEFINE call == [kind |-> kind, path |-> path, at |-> 1,
                    step |-> IF kind = "log" /\ FdIsDir(path) THEN "made" ELSE "stat"]
<1>1. fdProc' = [fdProc EXCEPT ![p] = call] /\ fdTree' = fdTree
  BY DEF FdCall
<1>2. call \in FdCalls /\ call.at = 1 /\ call.path = path
      /\ call.step = IF kind = "log" /\ FdIsDir(path) THEN "made" ELSE "stat"
  BY DEF FdCalls, FdKinds
<1> HIDE DEF call
<1>3. FdValues'
  BY <1>1, <1>2 DEF FdValues
<1>4. FdSound'
  BY <1>1 DEF FdSound, FdIsDir, FdExists
<1>5. fdProc'[p] = call /\ \A o \in FdProcs : o # p => fdProc'[o] = fdProc[o]
  BY <1>1 DEF FdValues
<1>6. path # <<>> /\ 1 \in 1..Len(path)
  BY FdAssumption, EmptySeq
<1>7. FdKnows(p)'
  BY <1>1, <1>2, <1>5, <1>6 DEF FdKnows, FdBehind, FdDone, FdDenied, FdIsDir, FdExists
<1>8. \A o \in FdProcs : FdKnows(o)'
  BY <1>1, <1>5, <1>7, FdOthersKnow
<1>q. QED
  BY <1>3, <1>4, <1>8

(* Going on from a part that exists. *)
LEMMA FdOnKnows ==
  ASSUME NEW p \in FdProcs, FdInv, FdOn(p), fdProc[p].step \in {"stat", "mkdir"},
         FdPart(p) \in DOMAIN fdTree'
  PROVE  /\ fdProc' \in [FdProcs -> FdCalls] /\ FdKnows(p)'
         /\ \A o \in FdProcs : o # p => fdProc'[o] = fdProc[o]
<1> DEFINE path == fdProc[p].path
           at == fdProc[p].at
<1>1. /\ path \in FdPaths /\ path \in Seq(STRING) /\ at \in 1..Len(path) /\ at \in Nat \ {0}
      /\ Len(path) \in Nat /\ fdProc[p] \in FdCalls /\ fdProc \in [FdProcs -> FdCalls]
  BY FdAssumption, LenProperties DEF FdInv, FdValues, FdKnows, FdBehind
<1>2. FdFirst(path, at) = FdPart(p)
  BY DEF FdFirst, FdPart
<1>3. CASE at = Len(path)
  <2>1. fdProc' = [fdProc EXCEPT ![p].step = "made"]
    BY <1>3 DEF FdOn, FdGoes
  <2>2. fdProc'[p] = [fdProc[p] EXCEPT !.step = "made"]
    BY <1>1, <2>1
  <2>3. fdProc'[p] \in FdCalls /\ fdProc'[p].path = path /\ fdProc'[p].step = "made" /\ fdProc'[p].at = at
    BY <1>1, <2>2 DEF FdCalls
  <2>5. path \in DOMAIN fdTree'
    BY <1>1, <1>2, <1>3, FdWholePath
  <2>6. FdKnows(p)'
    BY <2>3, <2>5 DEF FdKnows, FdBehind, FdDone, FdDenied, FdExists
  <2>q. QED
    BY <1>1, <2>1, <2>3, <2>6
<1>4. CASE at # Len(path)
  <2>1. fdProc' = [fdProc EXCEPT ![p].at = @ + 1, ![p].step = "stat"]
    BY <1>4 DEF FdOn
  <2>2. PICK next : next = at + 1
    OBVIOUS
  <2>3. next \in 1..Len(path) /\ next - 1 = at /\ next \in Nat \ {0} /\ next \in Int
    BY <1>1, <1>4, <2>2
  <2>4. fdProc'[p] = [fdProc[p] EXCEPT !.at = next, !.step = "stat"]
    BY <1>1, <2>1, <2>2
  <2>5. /\ fdProc'[p] \in FdCalls /\ fdProc'[p].path = path /\ fdProc'[p].step = "stat"
        /\ fdProc'[p].at = next
    BY <1>1, <2>3, <2>4 DEF FdCalls
  <2>6. FdKnows(p)'
    <3>1. (FdDone(p) /\ FdDenied(p))'
      BY <2>5 DEF FdDone, FdDenied
    <3>2. FdFirst(fdProc[p].path, fdProc[p].at - 1)' = FdPart(p)
      BY <2>3, <2>5 DEF FdFirst, FdPart
    <3>3. FdExists(FdFirst(fdProc[p].path, fdProc[p].at - 1))'
      BY <3>2, Zenon DEF FdExists
    <3>4. FdBehind(p)'
      BY <1>1, <2>3, <2>5, <3>3, Zenon DEF FdBehind
    <3>q. QED
      BY <3>1, <3>4 DEF FdKnows
  <2>q. QED
    BY <1>1, <2>1, <2>5, <2>6
<1>q. QED
  BY <1>3, <1>4

LEMMA FdStatInv == \A p \in FdProcs : FdInv /\ FdStat(p) => FdInv'
<1> SUFFICES ASSUME NEW p \in FdProcs, FdInv, FdStat(p) PROVE FdInv'
  OBVIOUS
<1>1. fdTree' = fdTree /\ fdProc[p].step = "stat"
  BY DEF FdStat
<1>2. FdSound'
  BY <1>1 DEF FdInv, FdSound, FdIsDir, FdExists
<1>3. CASE IF fdProc[p].kind = "log" THEN FdIsDir(FdPart(p)) ELSE FdExists(FdPart(p))
  <2>1. FdOn(p)
    BY <1>3 DEF FdStat
  <2>2. FdPart(p) \in DOMAIN fdTree'
    <3>1. FdPart(p) # <<>>
      BY <1>1, FdAssumption, FdFirstFacts DEF FdInv, FdKnows, FdBehind, FdPart, FdFirst
    <3>q. QED
      BY <1>1, <1>3, <3>1 DEF FdIsDir, FdExists
  <2>3. /\ fdProc' \in [FdProcs -> FdCalls] /\ FdKnows(p)'
        /\ \A o \in FdProcs : o # p => fdProc'[o] = fdProc[o]
    BY <1>1, <2>1, <2>2, FdOnKnows
  <2>4. \A o \in FdProcs : FdKnows(o)'
    BY <1>1, <2>3, FdOthersKnow DEF FdInv
  <2>q. QED
    BY <1>1, <1>2, <2>3, <2>4 DEF FdInv, FdValues
<1>4. CASE ~(IF fdProc[p].kind = "log" THEN FdIsDir(FdPart(p)) ELSE FdExists(FdPart(p)))
  <2>1. fdProc' = [fdProc EXCEPT ![p].step = "mkdir"]
    BY <1>4 DEF FdStat, FdGoes
  <2>2. fdProc[p] \in FdCalls /\ fdProc \in [FdProcs -> FdCalls]
    BY DEF FdInv, FdValues
  <2>3. fdProc'[p] = [fdProc[p] EXCEPT !.step = "mkdir"] /\ \A o \in FdProcs : o # p => fdProc'[o] = fdProc[o]
    BY <2>1, <2>2
  <2>4. /\ fdProc'[p] \in FdCalls /\ fdProc'[p].step = "mkdir" /\ fdProc'[p].path = fdProc[p].path
        /\ fdProc'[p].at = fdProc[p].at
    BY <2>2, <2>3 DEF FdCalls
  <2>5. FdKnows(p)'
    BY <1>1, <2>4 DEF FdInv, FdKnows, FdBehind, FdDone, FdDenied, FdExists, FdFirst
  <2>6. \A o \in FdProcs : FdKnows(o)'
    BY <1>1, <2>3, <2>5, FdOthersKnow DEF FdInv
  <2>7. fdProc' \in [FdProcs -> FdCalls]
    BY <2>1, <2>2, <2>4, <2>3
  <2>q. QED
    BY <1>1, <1>2, <2>6, <2>7 DEF FdInv, FdValues
<1>q. QED
  BY <1>3, <1>4

(* mkdir: what it makes has directories above it; it fails only where a file is in the way. *)
LEMMA FdMkdirInv == \A p \in FdProcs : FdInv /\ FdMkdir(p) => FdInv'
<1> SUFFICES ASSUME NEW p \in FdProcs, FdInv, FdMkdir(p) PROVE FdInv'
  OBVIOUS
<1> DEFINE path == fdProc[p].path
           at == fdProc[p].at
           part == FdPart(p)
           makes == ~FdExists(part) /\ FdIsDir(Front(part))
<1>1. /\ fdProc[p].step = "mkdir"
      /\ fdTree' = IF makes THEN [q \in DOMAIN fdTree \cup {part} |-> IF q = part THEN "dir" ELSE fdTree[q]]
                   ELSE fdTree
      /\ IF makes \/ FdAccepts(p) THEN FdOn(p) ELSE FdGoes(p, "failed")
  BY DEF FdMkdir
<1>2. /\ path \in FdPaths /\ path \in Seq(STRING) /\ at \in 1..Len(path) /\ Len(path) \in Nat
      /\ at > 1 => FdExists(FdFirst(path, at - 1))
      /\ fdProc[p] \in FdCalls /\ fdProc \in [FdProcs -> FdCalls]
  BY <1>1, FdAssumption, LenProperties DEF FdInv, FdValues, FdKnows, FdBehind
<1>3. part = FdFirst(path, at)
  BY DEF FdFirst, FdPart
<1>4. /\ part \in Prefixes(path) /\ part # <<>> /\ Front(part) = FdFirst(path, at - 1)
      /\ Prefixes(part) = {FdFirst(path, l) : l \in 0..at}
      /\ at - 1 \in 0..Len(path) /\ at \in Int
      /\ Prefixes(FdFirst(path, at - 1)) = {FdFirst(path, l) : l \in 0..(at - 1)}
      /\ FdFirst(path, at - 1) \in Prefixes(path)
      /\ at = 1 => FdFirst(path, at - 1) = <<>>
  <2>1. at \in 0..Len(path) /\ at > 0 /\ at # 0 /\ at - 1 \in 0..Len(path) /\ at \in Int
        /\ (at = 1 => at - 1 = 0)
    BY <1>2
  <2>2. /\ part \in Prefixes(path) /\ part # <<>> /\ Front(part) = FdFirst(path, at - 1)
        /\ Prefixes(part) = {FdFirst(path, l) : l \in 0..at}
    BY <1>2, <1>3, <2>1, FdFirstFacts
  <2>3. /\ Prefixes(FdFirst(path, at - 1)) = {FdFirst(path, l) : l \in 0..(at - 1)}
        /\ FdFirst(path, at - 1) \in Prefixes(path)
        /\ at - 1 = 0 => FdFirst(path, at - 1) = <<>>
    BY <1>2, <2>1, FdFirstFacts
  <2>q. QED
    BY <2>1, <2>2, <2>3
<1>5. part \in FdPaths
  BY <1>2, <1>4, FdAssumption
<1> HIDE DEF path, at, part
<1>6. /\ DOMAIN fdTree \subseteq DOMAIN fdTree' /\ DOMAIN fdTree' \subseteq DOMAIN fdTree \cup {part}
      /\ \A q \in DOMAIN fdTree : fdTree'[q] = fdTree[q]
      /\ fdTree' \in [DOMAIN fdTree' -> {"dir", "file"}] /\ DOMAIN fdTree' \subseteq FdPaths
      /\ makes => part \in DOMAIN fdTree' /\ fdTree'[part] = "dir"
      /\ ~makes => fdTree' = fdTree
  <2>0. fdTree \in [DOMAIN fdTree -> {"dir", "file"}] /\ DOMAIN fdTree \subseteq FdPaths
    BY DEF FdInv, FdValues
  <2>1. CASE makes
    BY <1>1, <1>5, <2>0, <2>1 DEF FdExists
  <2>2. CASE ~makes
    BY <1>1, <2>0, <2>2
  <2>q. QED
    BY <2>1, <2>2
<1>7. \A q : FdIsDir(q) => FdIsDir(q)'
  BY <1>6 DEF FdIsDir, FdExists
<1>8. makes => \A q \in Prefixes(part) : q # part => FdIsDir(q)
  <2> SUFFICES ASSUME makes, NEW l \in 0..at, FdFirst(path, l) # part PROVE FdIsDir(FdFirst(path, l))
    BY <1>4
  <2>0. l \in Int /\ l # at
    BY <1>2, <1>3, <1>4
  <2>1. FdIsDir(FdFirst(path, at - 1))
    BY <1>4
  <2>2. CASE l = at - 1
    BY <2>1, <2>2
  <2>3. CASE l # at - 1
    <3>1. at # 1 /\ l \in 0..(at - 1) /\ at > 1
      BY <1>2, <1>4, <2>0, <2>3
    <3>2. FdFirst(path, at - 1) \in DOMAIN fdTree /\ FdFirst(path, l) \in Prefixes(FdFirst(path, at - 1))
      BY <1>2, <1>4, <3>1 DEF FdExists
    <3>3. FdFirst(path, l) # FdFirst(path, at - 1) => FdIsDir(FdFirst(path, l))
      BY <3>2 DEF FdInv, FdSound
    <3>q. QED
      BY <2>1, <3>3
  <2>q. QED
    BY <2>2, <2>3
<1>9. FdSound'
  <2> SUFFICES ASSUME NEW file \in DOMAIN fdTree', NEW q \in Prefixes(file), q # file
               PROVE  FdIsDir(q)'
    BY DEF FdSound
  <2>1. CASE file \in DOMAIN fdTree
    BY <1>7, <2>1 DEF FdInv, FdSound
  <2>2. CASE file \notin DOMAIN fdTree
    <3>1. makes /\ file = part
      BY <1>6, <2>2
    <3>2. FdIsDir(q)
      BY <1>8, <3>1
    <3>q. QED
      BY <1>7, <3>2
  <2>q. QED
    BY <2>1, <2>2
<1>10. CASE makes \/ FdAccepts(p)
  <2>1. FdOn(p)
    BY <1>1, <1>10
  <2>2. part \in DOMAIN fdTree'
    BY <1>6, <1>10 DEF FdAccepts, FdExists, part
  <2>3. /\ fdProc' \in [FdProcs -> FdCalls] /\ FdKnows(p)'
        /\ \A o \in FdProcs : o # p => fdProc'[o] = fdProc[o]
    BY <1>1, <2>1, <2>2, FdOnKnows DEF part
  <2>4. \A o \in FdProcs : FdKnows(o)'
    BY <1>6, <2>3, FdOthersKnow DEF FdInv
  <2>q. QED
    BY <1>6, <1>9, <2>3, <2>4 DEF FdInv, FdValues
<1>11. CASE ~(makes \/ FdAccepts(p))
  <2>1. fdProc' = [fdProc EXCEPT ![p].step = "failed"]
    BY <1>1, <1>11 DEF FdGoes
  <2>2. fdProc'[p] = [fdProc[p] EXCEPT !.step = "failed"] /\ \A o \in FdProcs : o # p => fdProc'[o] = fdProc[o]
    BY <1>2, <2>1
  <2>3. /\ fdProc'[p] \in FdCalls /\ fdProc'[p].step = "failed" /\ fdProc'[p].path = path
        /\ fdProc'[p].kind = fdProc[p].kind
    BY <1>2, <2>2 DEF FdCalls, path
  <2>4. ASSUME fdProc[p].kind = "log" PROVE \E q \in Prefixes(path) : FdIsFile(q)
    <3>1. ~FdExists(part) /\ ~FdIsDir(FdFirst(path, at - 1))
      BY <1>4, <1>11, <2>4 DEF FdAccepts, part
    <3>2. at > 1
      BY <1>2, <1>4, <3>1 DEF FdIsDir
    <3>3. FdIsFile(FdFirst(path, at - 1))
      BY <1>2, <3>1, <3>2 DEF FdIsFile
    <3>q. QED
      BY <1>4, <3>3
  <2>5. fdTree' = fdTree
    BY <1>1, <1>11
  <2>6. FdKnows(p)'
    BY <2>3, <2>4, <2>5 DEF FdKnows, FdBehind, FdDone, FdDenied, FdIsFile, FdIsDir, FdExists
  <2>7. \A o \in FdProcs : FdKnows(o)'
    BY <1>6, <2>2, <2>6, FdOthersKnow DEF FdInv
  <2>8. fdProc' \in [FdProcs -> FdCalls]
    BY <1>2, <2>1, <2>2, <2>3
  <2>q. QED
    BY <1>6, <1>9, <2>7, <2>8 DEF FdInv, FdValues
<1>q. QED
  BY <1>10, <1>11

LEMMA FdInvIsSafe == FdInv => FdSafe
<1> SUFFICES ASSUME FdInv PROVE FdSafe
  OBVIOUS
<1>1. FdMade
  <2> SUFFICES ASSUME NEW p \in FdProcs, fdProc[p].step = "made", NEW q \in Prefixes(fdProc[p].path)
               PROVE  IF q = fdProc[p].path THEN q = <<>> \/ FdExists(q) ELSE FdIsDir(q)
    BY DEF FdMade
  <2>1. fdProc[p].path = <<>> \/ fdProc[p].path \in DOMAIN fdTree
    BY DEF FdInv, FdKnows, FdDone, FdExists
  <2>2. CASE fdProc[p].path = <<>>
    <3>1. q = <<>>
      BY <2>2, FdWholePath, FdFirstFacts DEF Prefixes
    <3>q. QED
      BY <2>2, <3>1
  <2>3. CASE fdProc[p].path \in DOMAIN fdTree
    BY <2>3 DEF FdInv, FdSound, FdExists
  <2>q. QED
    BY <2>1, <2>2, <2>3
<1>2. FdGranted
  BY DEF FdInv, FdKnows, FdDenied, FdGranted
<1>q. QED
  BY <1>1, <1>2 DEF FdSafe

(* createDirectories, ensureParentDir: a call that says it is done leaves the whole path    *)
(* there, and a process is refused its log directory only for a file in the way, however    *)
(* many processes make whichever paths.                                                     *)
THEOREM DirectoriesAreMade == FdInit /\ [][FdNext]_fdVars => []FdSafe
<1>1. FdInv /\ [FdNext]_fdVars => FdInv'
  <2> SUFFICES ASSUME FdInv, [FdNext]_fdVars PROVE FdInv'
    OBVIOUS
  <2>1. CASE FdNext
    <3>1. ASSUME NEW p \in FdProcs, NEW kind \in FdKinds, NEW path \in FdPaths, FdCall(p, kind, path)
          PROVE  FdInv'
      BY <3>1, FdCallInv
    <3>2. ASSUME NEW p \in FdProcs, FdStat(p) \/ FdMkdir(p) PROVE FdInv'
      BY <3>2, FdStatInv, FdMkdirInv
    <3>q. QED
      BY <2>1, <3>1, <3>2 DEF FdNext, FdKinds
  <2>2. CASE UNCHANGED fdVars
    BY <2>2 DEF fdVars, FdInv, FdValues, FdSound, FdKnows, FdBehind, FdDone, FdDenied, FdIsFile,
       FdIsDir, FdExists
  <2>q. QED
    BY <2>1, <2>2
<1>q. QED
  BY <1>1, FdInitInv, FdInvIsSafe, PTL

-----------------------------------------------------------------------------
(* Log (CLog, LogFiles)                                                      *)

LogAllSizes == LogSizes \cup {LogDefaultSize}
LogAllCounts == LogCounts \cup {LogDefaultCount}
LogMaxSize == Max(LogAllSizes)
LogNames == {"", "app.log"}
LogWriters == [path : LogNames, open : BOOLEAN, max : LogAllSizes, count : LogAllCounts, size : Nat]

(* What one knows of the table and of the variables by themselves. *)
LogValues ==
  /\ logPc \in {"down", "ready", "reset", "console", "params", "file"}
  /\ logTable \in [LogTypes -> LogLevels \cup {LogNone}]
  /\ logContext \in [name : LogNames, size : LogAllSizes, count : LogAllCounts]
  /\ logConfig \in LogConfigs \cup {LogNoConfig}
  /\ logStarts \in Nat

(* Each step of reload finds the table as the steps before it leave it. *)
LogTables ==
  /\ logPc \in {"down", "console"} => logTable = LogNothing
  /\ logPc \in {"params", "file"} => logTable["FILE"] = LogNone
  /\ logLive = [t \in LogTypes |-> IF logTable[t] = LogNone THEN 0 ELSE 1]

(* The writer is that of the table, and knows the size of the file it has open. *)
LogWriting ==
  /\ IF logTable["FILE"] = LogNone THEN logWriter = LogNoWriter ELSE logWriter \in LogWriters
  /\ logWriter.open => logWriter.size = LogFileSize(logFiles[0])

(* A backup is moved to a place that was left before. *)
LogRolls ==
  /\ logRoll \in -1..logWriter.count
  /\ logRoll # -1 => logTable["FILE"] # LogNone /\ ~logWriter.open
  /\ logRoll # -1 /\ logRoll # logWriter.count => logFiles[logRoll + 1] = <<>>

(* The files hold messages that were logged, in their order. *)
LogContent ==
  /\ logSeq \in 0..LogMaxMsgs
  /\ logFiles \in [LogIndices -> Seq(1..LogMaxMsgs)]
  /\ \A i \in LogIndices : \A x \in DOMAIN logFiles[i] : logFiles[i][x] <= logSeq
  /\ LogInOrder

(* A log of one message too much is rolled, if the process lives. *)
LogLong ==
  /\ \A i \in LogIndices : LogFileSize(logFiles[i]) < LogMaxSize + 2 * logStarts
  /\ logPc # "down" =>
       /\ logStarts > 0
       /\ logRoll = -1 => LogFileSize(logFiles[0]) < LogMaxSize + 2 * (logStarts - 1)

(* The inductive invariant. *)
LogInv == LogValues /\ LogTables /\ LogWriting /\ LogRolls /\ LogContent /\ LogLong

LEMMA LogLimitsHold ==
  /\ LogMaxSize \in LogAllSizes /\ LogAllSizes \subseteq Nat \ {0} /\ \A s \in LogAllSizes : s <= LogMaxSize
  /\ LogMaxCount \in LogAllCounts /\ LogAllCounts \subseteq Nat \ {0} /\ \A c \in LogAllCounts : c <= LogMaxCount
<1>1. ASSUME NEW S, LogLimits(S)
      PROVE  Max(S) \in S /\ \A n \in S : n <= Max(S)
  <2>1. S \subseteq Nat /\ \E n \in S : \A m \in S : n >= m
    BY <1>1 DEF LogLimits
  <2> QED
    BY <2>1 DEF Max
<1> QED
  BY <1>1, LogFilesAssumption DEF LogLimits, LogMaxSize, LogMaxCount, LogAllSizes, LogAllCounts

(* LogFileSize: the empty file, and one message more.                        *)
LEMMA LogSizeOfNone == LogFileSize(<<>>) = 0
<1>1. {n \in DOMAIN <<>> : <<>>[n] % 2 = 1} = {}
  BY EmptySeq
<1> QED
  BY <1>1, FS_EmptySet DEF LogFileSize

LEMMA LogSizeIsNat ==
  ASSUME NEW f \in Seq(Nat)
  PROVE  LogFileSize(f) \in Nat /\ IsFiniteSet({n \in DOMAIN f : f[n] % 2 = 1})
<1>1. Len(f) \in Nat /\ DOMAIN f = 1..Len(f)
  BY LenProperties
<1>2. IsFiniteSet({n \in DOMAIN f : f[n] % 2 = 1})
  <2>1. IsFiniteSet(1..Len(f))
    BY <1>1, FS_Interval
  <2> QED
    BY <1>1, <2>1, FS_Subset
<1>3. Cardinality({n \in DOMAIN f : f[n] % 2 = 1}) \in Nat
  BY <1>2, FS_CardinalityType
<1> QED
  BY <1>1, <1>2, <1>3 DEF LogFileSize

LEMMA LogSizeOfMore ==
  ASSUME NEW f \in Seq(Nat), NEW m \in Nat
  PROVE  LogFileSize(Append(f, m)) = LogFileSize(f) + LogLength(m) /\ LogLength(m) \in 1..2
<1> DEFINE Odd(s) == {n \in DOMAIN s : s[n] % 2 = 1}
           g == Append(f, m)
<1>1. Len(f) \in Nat /\ DOMAIN f = 1..Len(f) /\ g \in Seq(Nat) /\ Len(g) = Len(f) + 1
      /\ DOMAIN g = 1..(Len(f) + 1) /\ (\A n \in 1..Len(f) : g[n] = f[n]) /\ g[Len(f) + 1] = m
  BY AppendProperties, LenProperties
<1>2. PICK r : r = m % 2
  OBVIOUS
<1>3. r \in {0, 1}
  BY <1>2
<1>4. IsFiniteSet(Odd(f)) /\ Len(f) + 1 \notin Odd(f) /\ Cardinality(Odd(f)) \in Nat
  <2>1. IsFiniteSet(Odd(f))
    BY LogSizeIsNat
  <2> QED
    BY <1>1, <2>1, FS_CardinalityType
<1>5. r = 1 => Odd(g) = Odd(f) \cup {Len(f) + 1}
  BY <1>1, <1>2
<1>6. r = 0 => Odd(g) = Odd(f)
  BY <1>1, <1>2
<1>7. /\ LogFileSize(g) = Len(g) + Cardinality(Odd(g))
      /\ LogFileSize(f) = Len(f) + Cardinality(Odd(f))
      /\ LogLength(m) = 1 + r
  BY <1>2 DEF LogFileSize, LogLength
<1> HIDE DEF Odd, g
<1>8. Cardinality(Odd(g)) = Cardinality(Odd(f)) + r
  BY <1>3, <1>4, <1>5, <1>6, FS_AddElement
<1>9. LogFileSize(g) = LogFileSize(f) + LogLength(m) /\ LogLength(m) \in 1..2
  BY <1>1, <1>3, <1>4, <1>7, <1>8
<1> QED
  BY <1>9 DEF g

LEMMA LogInitInv == LogInit => LogInv
<1> SUFFICES ASSUME LogInit PROVE LogInv
  OBVIOUS
<1>1. LogValues
  BY LogAssumption DEF LogInit, LogValues, LogNothing, LogNoContext, LogNone, LogTypes, LogNames,
     LogAllSizes, LogAllCounts
<1>2. LogTables
  BY DEF LogInit, LogTables, LogNothing, LogNone, LogTypes
<1>3. LogWriting /\ LogRolls
  BY DEF LogInit, LogFilesInit, LogWriting, LogRolls, LogNoWriter, LogNothing, LogNone, LogTypes
<1>4. \A i \in LogIndices : logFiles[i] = <<>> /\ DOMAIN logFiles[i] = {}
  BY EmptySeq DEF LogInit, LogFilesInit
<1>5. LogContent
  <2>1. <<>> \in Seq(1..LogMaxMsgs)
    BY EmptySeq
  <2> QED
    BY <1>4, <2>1, LogAssumption DEF LogInit, LogFilesInit, LogContent, LogInOrder
<1>6. LogLong
  BY <1>4, LogSizeOfNone, LogLimitsHold DEF LogInit, LogFilesInit, LogLong
<1> QED
  BY <1>1, <1>2, <1>3, <1>5, <1>6 DEF LogInv

-----------------------------------------------------------------------------
(* The writer alone.                                                         *)

LEMMA LogSizesAreNat ==
  ASSUME LogContent, NEW i \in LogIndices
  PROVE  logFiles[i] \in Seq(Nat) /\ LogFileSize(logFiles[i]) \in Nat
<1>1. logFiles[i] \in Seq(1..LogMaxMsgs)
  BY DEF LogContent
<1>2. logFiles[i] \in Seq(Nat)
  BY <1>1, LogAssumption
<1> QED
  BY <1>2, LogSizeIsNat

LEMMA LogSizeHere == LogContent => LogFileSize(logFiles[0]) \in Nat /\ 0 \in LogIndices
<1> SUFFICES ASSUME LogContent PROVE LogFileSize(logFiles[0]) \in Nat /\ 0 \in LogIndices
  OBVIOUS
<1>1. 0 \in LogIndices /\ LogMaxCount \in Nat
  BY LogLimitsHold DEF LogIndices
<1> QED
  BY <1>1, LogSizesAreNat

(* LogOpened: a writer opens its file and asks for the size.                 *)
LEMMA LogOpenedFits ==
  ASSUME LogContent, NEW w \in LogWriters, w.open => w.size = LogFileSize(logFiles[0])
  PROVE  /\ LogOpened(w) \in LogWriters
         /\ LogOpened(w).open => LogOpened(w).size = LogFileSize(logFiles[0])
         /\ LogOpened(w).count = w.count /\ LogOpened(w).max = w.max
<1>1. LogFileSize(logFiles[0]) \in Nat
  BY LogSizeHere
<1>2. CASE w.open \/ w.path = ""
  BY <1>2 DEF LogOpened
<1>3. CASE ~(w.open \/ w.path = "")
  <2>1. LogOpened(w) = [w EXCEPT !.open = TRUE, !.size = LogFileSize(logFiles[0])]
    BY <1>3 DEF LogOpened
  <2> QED
    BY <1>1, <2>1 DEF LogWriters
<1> QED
  BY <1>2, <1>3

LEMMA LogNewFits ==
  ASSUME LogContent, NEW path \in LogNames
  PROVE  /\ LogNewWriter(path) \in LogWriters
         /\ LogNewWriter(path).open => LogNewWriter(path).size = LogFileSize(logFiles[0])
<1> DEFINE w == [path |-> path, open |-> FALSE, max |-> LogDefaultSize, count |-> LogDefaultCount, size |-> 0]
<1>1. w \in LogWriters /\ ~w.open
  BY DEF LogWriters, LogAllSizes, LogAllCounts
<1>2. LogNewWriter(path) = LogOpened(w)
  BY DEF LogNewWriter
<1> HIDE DEF w
<1> QED
  BY <1>1, <1>2, LogOpenedFits

LEMMA LogConfiguredFits ==
  ASSUME LogContent, NEW w \in LogWriters, NEW path \in LogNames, NEW size \in LogAllSizes, NEW count \in LogAllCounts
  PROVE  /\ LogConfigured(w, path, size, count) \in LogWriters
         /\ LogConfigured(w, path, size, count).open
              => LogConfigured(w, path, size, count).size = LogFileSize(logFiles[0])
<1> DEFINE v == [w EXCEPT !.path = path, !.open = FALSE]
           o == LogOpened(v)
<1>1. v \in LogWriters /\ ~v.open
  BY DEF LogWriters
<1>2. o \in LogWriters /\ (o.open => o.size = LogFileSize(logFiles[0]))
  <2> HIDE DEF v
  <2> QED
    BY <1>1, LogOpenedFits
<1>3. ~(size < 1) /\ ~(count < 1)
  BY LogLimitsHold
<1> HIDE DEF v, o
<1>4. LogConfigured(w, path, size, count) = [o EXCEPT !.max = size, !.count = count]
  BY <1>3 DEF LogConfigured, o, v
<1> QED
  BY <1>2, <1>4 DEF LogWriters

-----------------------------------------------------------------------------
(* The thread that configures: the files are as they were.                   *)

LEMMA LogStays == LogContent /\ UNCHANGED <<logFiles, logSeq>> => LogContent'
  BY DEF LogContent, LogInOrder

LEMMA LogNoRoll == LogRolls /\ logTable["FILE"] = LogNone => logRoll = -1
  BY DEF LogRolls

(* Nothing is said of rolling while nobody rolls.                            *)
LEMMA LogIdle == LogWriting' /\ logRoll' = -1 => LogRolls'
<1> SUFFICES ASSUME LogWriting', logRoll' = -1 PROVE LogRolls'
  OBVIOUS
<1>1. logWriter'.count \in Nat
  <2>1. CASE logTable'["FILE"] = LogNone
    BY <2>1 DEF LogWriting, LogNoWriter
  <2>2. CASE logTable'["FILE"] # LogNone
    BY <2>2, LogLimitsHold DEF LogWriting, LogWriters
  <2> QED
    BY <2>1, <2>2
<1> QED
  BY <1>1 DEF LogRolls

(* A start makes room for one message more.                                 *)
LEMMA LogShort ==
  ASSUME LogContent, LogLong, logStarts \in Nat, logPc = "down", logStarts' = logStarts + 1, logFiles' = logFiles
  PROVE  LogLong'
<1>1. \A i \in LogIndices : LogFileSize(logFiles[i]) \in Nat
  BY LogSizesAreNat
<1>2. LogMaxSize \in Nat /\ 0 \in LogIndices
  BY LogLimitsHold, LogSizeHere
<1> QED
  BY <1>1, <1>2 DEF LogLong

LEMMA LogSetupInv ==
  ASSUME LogInv, NEW size \in LogSizes, NEW count \in LogCounts, LogSetup(size, count)
  PROVE  LogInv'
<1>1. LogContent' /\ LogContent
  BY LogStays DEF LogInv, LogSetup
<1>2. logRoll = -1
  BY LogNoRoll DEF LogInv, LogTables, LogNothing, LogTypes, LogSetup
<1>i. logTable' \in [LogTypes -> LogLevels \cup {LogNone}] /\ \A t \in LogTypes : logTable'[t] # LogNone
  <2>1. logTable' = [t \in LogTypes |-> 0]
    BY DEF LogSetup
  <2>2. 0 \in LogLevels \cup {LogNone} /\ 0 # LogNone
    BY LogAssumption DEF LogNone
  <2>3. \A t \in LogTypes : logTable'[t] = 0
    BY <2>1
  <2> QED
    BY <2>1, <2>2, <2>3
<1>3. LogValues'
  <2>1. logContext' \in [name : LogNames, size : LogAllSizes, count : LogAllCounts]
    BY DEF LogSetup, LogNames, LogAllSizes, LogAllCounts
  <2>2. logPc' = "ready" /\ logStarts' = logStarts + 1 /\ logConfig' = logConfig
    BY DEF LogSetup
  <2>3. LogValues
    BY DEF LogInv
  <2>4. logConfig \in LogConfigs \cup {LogNoConfig} /\ logStarts \in Nat
    BY <2>3 DEF LogValues
  <2> QED
    BY <1>i, <2>1, <2>2, <2>4 DEF LogValues
<1>4. LogTables'
  <2>1. logPc' = "ready" /\ logLive' = [t \in LogTypes |-> 1]
    BY DEF LogSetup
  <2> QED
    BY <1>i, <2>1 DEF LogTables
<1>5. LogNewWriter("") \in LogWriters
  BY <1>1, LogNewFits DEF LogNames
<1>6. logWriter' \in LogWriters /\ (logWriter'.open => logWriter'.size = LogFileSize(logFiles[0]))
  BY <1>1, <1>5, LogConfiguredFits DEF LogSetup, LogNames, LogAllSizes, LogAllCounts
<1>7. LogWriting'
  BY <1>i, <1>6 DEF LogSetup, LogWriting, LogTypes
<1>8. LogRolls'
  <2>1. logRoll' = -1
    BY <1>2 DEF LogSetup
  <2> QED
    BY <1>7, <2>1, LogIdle
<1>9. LogLong'
  BY <1>1, LogShort DEF LogInv, LogValues, LogSetup
<1> QED
  BY <1>1, <1>3, <1>4, <1>7, <1>8, <1>9 DEF LogInv

LEMMA LogStartupInv == LogInv /\ LogStartup => LogInv'
<1> SUFFICES ASSUME LogInv, LogStartup PROVE LogInv'
  OBVIOUS
<1>1. /\ UNCHANGED <<logFiles, logWriter, logRoll, logTable, logContext, logLive, logConfig, logSeq>>
      /\ logPc = "down" /\ logPc' = "ready" /\ logStarts' = logStarts + 1
  BY DEF LogStartup
<1>2. LogValues' /\ LogTables'
  BY <1>1 DEF LogInv, LogValues, LogTables
<1>3. LogWriting' /\ LogRolls'
  BY <1>1 DEF LogInv, LogWriting, LogRolls
<1>4. LogContent' /\ LogLong'
  BY <1>1, LogStays, LogShort DEF LogInv, LogValues
<1> QED
  BY <1>2, <1>3, <1>4 DEF LogInv

(* setFileParam: the writer that there is takes the limits.                  *)
LEMMA LogSetFileParamFits ==
  ASSUME LogContent, LogWriting, NEW name \in LogNames, NEW size \in LogAllSizes, NEW count \in LogAllCounts,
         LogSetFileParam(name, size, count)
  PROVE  /\ logContext' \in [name : LogNames, size : LogAllSizes, count : LogAllCounts]
         /\ IF logTable["FILE"] = LogNone THEN logWriter' = LogNoWriter ELSE logWriter' \in LogWriters
         /\ logWriter'.open => logWriter'.size = LogFileSize(logFiles[0])
<1> DEFINE c == [name |-> IF name = "" THEN "app.log" ELSE name,
                 size |-> IF size <= 0 THEN LogDefaultSize ELSE size,
                 count |-> IF count <= 0 THEN LogDefaultCount ELSE count]
<1>1. c.name \in LogNames /\ c.size \in LogAllSizes /\ c.count \in LogAllCounts
      /\ c \in [name : LogNames, size : LogAllSizes, count : LogAllCounts]
  BY DEF LogNames, LogAllSizes, LogAllCounts
<1>2. /\ logContext' = c
      /\ logWriter' = IF logTable["FILE"] = LogNone THEN logWriter
                      ELSE LogConfigured(logWriter, c.name, c.size, c.count)
  BY DEF LogSetFileParam
<1> HIDE DEF c
<1>3. CASE logTable["FILE"] = LogNone
  BY <1>1, <1>2, <1>3 DEF LogWriting
<1>4. CASE logTable["FILE"] # LogNone
  <2>1. logWriter \in LogWriters
    BY <1>4 DEF LogWriting
  <2>2. /\ LogConfigured(logWriter, c.name, c.size, c.count) \in LogWriters
        /\ LogConfigured(logWriter, c.name, c.size, c.count).open
             => LogConfigured(logWriter, c.name, c.size, c.count).size = LogFileSize(logFiles[0])
    BY <1>1, <2>1, LogConfiguredFits
  <2> QED
    BY <1>1, <1>2, <1>4, <2>2
<1> QED
  BY <1>3, <1>4

(* Steps of a living program that leave the files and the table alone.       *)
LEMMA LogParamsFit ==
  ASSUME LogInv, logPc # "down", LogUnlocked, NEW name \in LogNames, NEW size \in LogAllSizes, NEW count \in LogAllCounts,
         LogSetFileParam(name, size, count), UNCHANGED <<logFiles, logRoll, logTable, logLive, LogConfigurer, logSeq>>,
         logPc' \in {"ready", "file"}, logPc' = "file" => logTable["FILE"] = LogNone
  PROVE  LogInv'
<1>1. UNCHANGED <<logFiles, logRoll, logTable, logLive, logConfig, logStarts, logSeq>> /\ logRoll = -1
  BY DEF LogConfigurer, LogUnlocked
<1>2. /\ logContext' \in [name : LogNames, size : LogAllSizes, count : LogAllCounts]
      /\ IF logTable["FILE"] = LogNone THEN logWriter' = LogNoWriter ELSE logWriter' \in LogWriters
      /\ logWriter'.open => logWriter'.size = LogFileSize(logFiles[0])
  BY LogSetFileParamFits DEF LogInv
<1>3. LogValues' /\ LogTables'
  BY <1>1, <1>2 DEF LogInv, LogValues, LogTables
<1>4. LogWriting'
  BY <1>1, <1>2 DEF LogWriting
<1>5. LogRolls'
  BY <1>1, <1>4, LogIdle
<1>6. LogContent' /\ LogLong'
  BY <1>1, LogStays DEF LogInv, LogLong
<1> QED
  BY <1>3, <1>4, <1>5, <1>6 DEF LogInv

LEMMA LogAdjustInv ==
  ASSUME LogInv, NEW size \in LogSizes, NEW count \in LogCounts, LogAdjust(size, count)
  PROVE  LogInv'
<1>1. "app.log" \in LogNames /\ size \in LogAllSizes /\ count \in LogAllCounts
  BY DEF LogNames, LogAllSizes, LogAllCounts
<1>2. logPc = "ready" /\ logPc' = "ready" /\ LogUnlocked /\ LogSetFileParam("app.log", size, count)
      /\ UNCHANGED <<logFiles, logRoll, logTable, logLive, LogConfigurer, logSeq>>
  BY DEF LogAdjust
<1> QED
  BY <1>1, <1>2, LogParamsFit

LEMMA LogParamsInv == LogInv /\ LogParams => LogInv'
<1> SUFFICES ASSUME LogInv, LogParams PROVE LogInv'
  OBVIOUS
<1> DEFINE size == IF logConfig.size = LogAbsent THEN logContext.size ELSE logConfig.size
           count == IF logConfig.count = LogAbsent THEN logContext.count ELSE logConfig.count
<1>1. logContext.name \in LogNames /\ logContext.size \in LogAllSizes /\ logContext.count \in LogAllCounts
  BY DEF LogInv, LogValues
<1>2. logConfig.size \in LogSizes \cup {LogAbsent} /\ logConfig.count \in LogCounts \cup {LogAbsent}
  BY LogAssumption DEF LogInv, LogValues, LogNoConfig, LogAbsent
<1>3. size \in LogAllSizes /\ count \in LogAllCounts
  BY <1>1, <1>2 DEF LogAllSizes, LogAllCounts
<1>4. logPc = "params" /\ logPc' = "file" /\ LogUnlocked /\ LogSetFileParam(logContext.name, size, count)
      /\ UNCHANGED <<logFiles, logRoll, logTable, logLive, LogConfigurer, logSeq>>
  BY DEF LogParams
<1>5. logTable["FILE"] = LogNone
  BY <1>4 DEF LogInv, LogTables
<1> HIDE DEF size, count
<1> QED
  BY <1>1, <1>3, <1>4, <1>5, LogParamsFit

LEMMA LogReloadInv ==
  ASSUME LogInv, NEW cfg \in LogConfigs, LogReload(cfg)
  PROVE  LogInv'
<1>1. /\ UNCHANGED <<logFiles, logWriter, logRoll, logTable, logContext, logLive, logStarts, logSeq>>
      /\ logPc = "ready" /\ logPc' = "reset" /\ logConfig' = cfg
  BY DEF LogReload
<1>2. LogValues' /\ LogTables'
  BY <1>1 DEF LogInv, LogValues, LogTables
<1>3. LogWriting' /\ LogRolls'
  BY <1>1 DEF LogInv, LogWriting, LogRolls
<1>4. LogContent' /\ LogLong'
  BY <1>1, LogStays DEF LogInv, LogLong
<1> QED
  BY <1>2, <1>3, <1>4 DEF LogInv

(* resetLogger deletes the writers it takes from the table.                  *)
LEMMA LogResetInv == LogInv /\ LogReset => LogInv'
<1> SUFFICES ASSUME LogInv, LogReset PROVE LogInv'
  OBVIOUS
<1>1. /\ UNCHANGED <<logFiles, logRoll, logContext, logConfig, logStarts, logSeq>>
      /\ logPc = "reset" /\ logPc' = "console" /\ logTable' = LogNothing /\ logWriter' = LogNoWriter
      /\ logLive' = [t \in LogTypes |-> IF logTable[t] = LogNone THEN logLive[t] ELSE logLive[t] - 1]
      /\ logRoll = -1
  BY DEF LogReset, LogConfigurer, LogUnlocked
<1>2. LogNothing \in [LogTypes -> LogLevels \cup {LogNone}] /\ \A t \in LogTypes : LogNothing[t] = LogNone
  BY DEF LogNothing
<1>3. LogValues'
  BY <1>1, <1>2 DEF LogInv, LogValues
<1>4. LogTables'
  <2>1. logLive' = [t \in LogTypes |-> 0]
    BY <1>1 DEF LogInv, LogTables
  <2> QED
    BY <1>1, <1>2, <2>1 DEF LogTables
<1>5. LogWriting'
  BY <1>1, <1>2 DEF LogWriting, LogNoWriter, LogTypes
<1>6. LogRolls'
  BY <1>1, <1>5, LogIdle
<1>7. LogContent' /\ LogLong'
  BY <1>1, LogStays DEF LogInv, LogLong
<1> QED
  BY <1>3, <1>4, <1>5, <1>6, <1>7 DEF LogInv

(* A section makes a logger of a type that the table has none of.            *)
LEMMA LogSectionFits ==
  ASSUME LogInv, logPc # "down", NEW key, NEW t \in LogTypes, logTable[t] = LogNone, LogSection(key, t),
         logPc' \in {"params", "ready"}, logPc' = "params" => t = "COUT" /\ logTable["FILE"] = LogNone
  PROVE  LogInv'
<1>1. UNCHANGED <<logFiles, logRoll, logContext, logConfig, logStarts, logSeq>> /\ logRoll = -1
  BY DEF LogSection, LogUnlocked
<1>2. logConfig.level \in LogLevels
  BY LogAssumption DEF LogInv, LogValues, LogNoConfig
<1>3. CASE UNCHANGED <<logTable, logLive, logWriter>>
  <2>1. LogValues' /\ LogTables'
    BY <1>1, <1>3 DEF LogInv, LogValues, LogTables
  <2>2. LogWriting' /\ LogRolls'
    BY <1>1, <1>3 DEF LogInv, LogWriting, LogRolls
  <2>3. LogContent' /\ LogLong'
    BY <1>1, LogStays DEF LogInv, LogLong
  <2> QED
    BY <2>1, <2>2, <2>3 DEF LogInv
<1>4. CASE LogSetLogger(t, logConfig.level)
  <2>1. /\ logTable' = [logTable EXCEPT ![t] = logConfig.level]
        /\ logLive' = [logLive EXCEPT ![t] = @ + 1]
        /\ IF t = "FILE" THEN logWriter' = LogNewWriter(logContext.name) ELSE UNCHANGED logWriter
    BY <1>4 DEF LogSetLogger
  <2>2. logConfig.level # LogNone
    BY <1>2, LogAssumption DEF LogNone
  <2>3. logTable \in [LogTypes -> LogLevels \cup {LogNone}]
    BY DEF LogInv, LogValues
  <2>4. /\ logTable' \in [LogTypes -> LogLevels \cup {LogNone}]
        /\ \A u \in LogTypes : logTable'[u] = IF u = t THEN logConfig.level ELSE logTable[u]
    BY <1>2, <2>1, <2>3
  <2>5. LogValues'
    BY <1>1, <2>4 DEF LogInv, LogValues
  <2>6. LogTables'
    <3>1. logLive' = [u \in LogTypes |-> IF logTable'[u] = LogNone THEN 0 ELSE 1]
      BY <2>1, <2>2, <2>4 DEF LogInv, LogTables
    <3>2. logPc' = "params" => logTable'["FILE"] = LogNone
      BY <2>4 DEF LogTypes
    <3> QED
      BY <3>1, <3>2 DEF LogTables
  <2>7. LogWriting'
    <3>1. CASE t = "FILE"
      <4>1. LogNewWriter(logContext.name) \in LogWriters
            /\ (LogNewWriter(logContext.name).open
                  => LogNewWriter(logContext.name).size = LogFileSize(logFiles[0]))
        BY LogNewFits DEF LogInv, LogValues
      <4> QED
        BY <1>1, <2>1, <2>2, <2>4, <3>1, <4>1 DEF LogWriting
    <3>2. CASE t # "FILE"
      BY <1>1, <2>1, <2>4, <3>2 DEF LogInv, LogWriting, LogTypes
    <3> QED
      BY <3>1, <3>2
  <2>8. LogRolls'
    BY <1>1, <2>7, LogIdle
  <2>9. LogContent' /\ LogLong'
    BY <1>1, LogStays DEF LogInv, LogLong
  <2> QED
    BY <2>5, <2>6, <2>7, <2>8, <2>9 DEF LogInv
<1> QED
  BY <1>3, <1>4 DEF LogSection

LEMMA LogConsoleInv == LogInv /\ LogConsole => LogInv'
<1> SUFFICES ASSUME LogInv, LogConsole PROVE LogInv'
  OBVIOUS
<1>1. logPc = "console" /\ logPc' = "params" /\ LogSection(logConfig.console, "COUT")
  BY DEF LogConsole
<1>2. "COUT" \in LogTypes /\ logTable["COUT"] = LogNone /\ logTable["FILE"] = LogNone
  BY <1>1 DEF LogInv, LogTables, LogNothing, LogTypes
<1> QED
  BY <1>1, <1>2, LogSectionFits

LEMMA LogFileInv == LogInv /\ LogFile => LogInv'
<1> SUFFICES ASSUME LogInv, LogFile PROVE LogInv'
  OBVIOUS
<1>1. logPc = "file" /\ logPc' = "ready" /\ LogSection(logConfig.file, "FILE")
  BY DEF LogFile
<1>2. "FILE" \in LogTypes /\ logTable["FILE"] = LogNone
  BY <1>1 DEF LogInv, LogTables, LogTypes
<1> QED
  BY <1>1, <1>2, LogSectionFits

(* The process ends: a file it was rolling stays as it is.                   *)
LEMMA LogCrashInv == LogInv /\ LogCrash => LogInv'
<1> SUFFICES ASSUME LogInv, LogCrash PROVE LogInv'
  OBVIOUS
<1>1. /\ UNCHANGED <<logFiles, logStarts, logSeq>>
      /\ logPc' = "down" /\ logTable' = LogNothing /\ logContext' = LogNoContext /\ logConfig' = LogNoConfig
      /\ logLive' = [t \in LogTypes |-> 0] /\ logWriter' = LogNoWriter /\ logRoll' = -1
  BY DEF LogCrash
<1>2. LogNothing \in [LogTypes -> LogLevels \cup {LogNone}] /\ \A t \in LogTypes : LogNothing[t] = LogNone
  BY DEF LogNothing
<1>3. LogNoContext \in [name : LogNames, size : LogAllSizes, count : LogAllCounts]
  BY DEF LogNoContext, LogNames, LogAllSizes, LogAllCounts
<1>4. LogValues' /\ LogTables'
  BY <1>1, <1>2, <1>3 DEF LogInv, LogValues, LogTables
<1>5. LogWriting'
  BY <1>1, <1>2 DEF LogWriting, LogNoWriter, LogTypes
<1>6. LogRolls'
  BY <1>1, <1>5, LogIdle
<1>7. LogContent' /\ LogLong'
  BY <1>1, LogStays DEF LogInv, LogLong
<1> QED
  BY <1>4, <1>5, <1>6, <1>7 DEF LogInv

-----------------------------------------------------------------------------
(* A message is written, and a file is rolled.                               *)

LEMMA LogAppendInOrder ==
  ASSUME LogContent, logSeq < LogMaxMsgs, logSeq' = logSeq + 1,
         logFiles' = [logFiles EXCEPT ![0] = Append(@, logSeq')]
  PROVE  /\ LogContent'
         /\ \A i \in LogIndices : Range(logFiles[i]) \subseteq Range(logFiles'[i])
<1>1. 0 \in LogIndices /\ logSeq \in Nat /\ logSeq' \in 1..LogMaxMsgs /\ LogIndices \subseteq Nat
  BY LogSizeHere, LogAssumption, LogLimitsHold DEF LogContent, LogIndices
<1>2. PICK f : f = logFiles[0]
  OBVIOUS
<1>3. PICK g : g = Append(f, logSeq')
  OBVIOUS
<1>4. f \in Seq(1..LogMaxMsgs) /\ Len(f) \in Nat /\ DOMAIN f = 1..Len(f)
  BY <1>1, <1>2, LenProperties DEF LogContent
<1>5. /\ g \in Seq(1..LogMaxMsgs) /\ DOMAIN g = 1..(Len(f) + 1)
      /\ \A x \in 1..Len(f) : g[x] = f[x]
      /\ g[Len(f) + 1] = logSeq'
  BY <1>1, <1>3, <1>4, AppendProperties, LenProperties
<1>6. logFiles' = [i \in LogIndices |-> IF i = 0 THEN g ELSE logFiles[i]]
  BY <1>2, <1>3 DEF LogContent
<1>7. logFiles' \in [LogIndices -> Seq(1..LogMaxMsgs)]
  BY <1>5, <1>6 DEF LogContent
<1>8. \A i \in LogIndices : \A x : x \in DOMAIN logFiles'[i] =>
         \/ x \in DOMAIN logFiles[i] /\ logFiles'[i][x] = logFiles[i][x]
         \/ i = 0 /\ x = Len(f) + 1 /\ logFiles'[i][x] = logSeq'
  BY <1>2, <1>4, <1>5, <1>6
<1>9. \A i \in LogIndices : \A x \in DOMAIN logFiles[i] : logFiles[i][x] \in Nat /\ logFiles[i][x] <= logSeq
  <2> SUFFICES ASSUME NEW i \in LogIndices, NEW x \in DOMAIN logFiles[i]
               PROVE  logFiles[i][x] \in Nat /\ logFiles[i][x] <= logSeq
    OBVIOUS
  <2>1. logFiles[i] \in Seq(1..LogMaxMsgs)
    BY DEF LogContent
  <2>2. logFiles[i][x] \in 1..LogMaxMsgs
    BY <2>1, ElementOfSeq, LenProperties
  <2> QED
    BY <2>2, LogAssumption DEF LogContent
<1>10. \A i \in LogIndices : \A x \in DOMAIN logFiles'[i] : logFiles'[i][x] <= logSeq'
  BY <1>1, <1>8, <1>9
<1>11. LogInOrder'
  <2> SUFFICES ASSUME NEW i \in LogIndices, NEW j \in LogIndices,
                      NEW x \in DOMAIN logFiles'[i], NEW y \in DOMAIN logFiles'[j], i > j \/ (i = j /\ x < y)
               PROVE  logFiles'[i][x] < logFiles'[j][y]
    BY DEF LogInOrder
  <2>1. CASE y \in DOMAIN logFiles[j] /\ logFiles'[j][y] = logFiles[j][y]
    <3>1. x \in DOMAIN logFiles[i] /\ logFiles'[i][x] = logFiles[i][x]
      <4>1. ~(i = 0 /\ x = Len(f) + 1)
        BY <1>1, <1>2, <1>4, <2>1
      <4> QED
        BY <1>8, <4>1
    <3> QED
      BY <2>1, <3>1 DEF LogContent, LogInOrder
  <2>2. CASE j = 0 /\ y = Len(f) + 1 /\ logFiles'[j][y] = logSeq'
    <3>1. x \in DOMAIN logFiles[i] /\ logFiles'[i][x] = logFiles[i][x]
      BY <1>1, <1>4, <1>8, <2>2
    <3> QED
      BY <1>1, <1>9, <2>2, <3>1
  <2> QED
    BY <1>8, <2>1, <2>2
<1>12. \A i \in LogIndices : Range(logFiles[i]) \subseteq Range(logFiles'[i])
  <2> SUFFICES ASSUME NEW i \in LogIndices, NEW x \in DOMAIN logFiles[i]
               PROVE  \E y \in DOMAIN logFiles'[i] : logFiles'[i][y] = logFiles[i][x]
    BY DEF Range
  <2>1. x \in DOMAIN logFiles'[i] /\ logFiles'[i][x] = logFiles[i][x]
    BY <1>2, <1>4, <1>5, <1>6
  <2> QED
    BY <2>1
<1> QED
  BY <1>1, <1>7, <1>10, <1>11, <1>12 DEF LogContent

LEMMA LogWriteInv ==
  ASSUME LogInv, NEW level \in LogLevels, LogWrite(level)
  PROVE  /\ LogInv'
         /\ \A i \in LogIndices : Range(logFiles[i]) \subseteq Range(logFiles'[i])
<1>1. /\ UNCHANGED <<logPc, logTable, logContext, logLive, logConfig, logStarts>>
      /\ logPc # "down" /\ logRoll = -1 /\ logSeq < LogMaxMsgs /\ logSeq' = logSeq + 1
  BY DEF LogWrite, LogConfigurer, LogUnlocked
<1>2. LogValues' /\ LogTables'
  BY <1>1 DEF LogInv, LogValues, LogTables
<1>3. CASE UNCHANGED logFileVars
  <2>1. LogWriting' /\ LogRolls' /\ LogLong'
    BY <1>1, <1>3 DEF LogInv, LogWriting, LogRolls, LogLong, logFileVars
  <2>2. LogContent'
    <3>1. logSeq' \in 0..LogMaxMsgs /\ logFiles' = logFiles
      BY <1>1, <1>3, LogAssumption DEF LogInv, LogContent, logFileVars
    <3>2. \A i \in LogIndices : \A x \in DOMAIN logFiles[i] : logFiles[i][x] <= logSeq'
      <4> SUFFICES ASSUME NEW i \in LogIndices, NEW x \in DOMAIN logFiles[i] PROVE logFiles[i][x] <= logSeq'
        OBVIOUS
      <4>1. logFiles[i] \in Seq(1..LogMaxMsgs) /\ logFiles[i][x] <= logSeq /\ logSeq \in Nat
        BY LogAssumption DEF LogInv, LogContent
      <4>2. logFiles[i][x] \in 1..LogMaxMsgs
        BY <4>1, ElementOfSeq, LenProperties
      <4> QED
        BY <1>1, <4>1, <4>2, LogAssumption
    <3> QED
      BY <3>1, <3>2 DEF LogInv, LogContent, LogInOrder
  <2>3. logFiles' = logFiles
    BY <1>3 DEF logFileVars
  <2> QED
    BY <1>2, <2>1, <2>2, <2>3 DEF LogInv
<1>4. CASE ~UNCHANGED logFileVars
  <2> DEFINE w == LogOpened(logWriter)
             size == w.size + LogLength(logSeq')
  <2>1. logTable["FILE"] # LogNone /\ LogWriteFile(logSeq')
    BY <1>4 DEF LogWrite
  <2>2. w \in LogWriters /\ (w.open => w.size = LogFileSize(logFiles[0]))
    <3>1. logWriter \in LogWriters
      BY <2>1 DEF LogInv, LogWriting
    <3> QED
      BY <3>1, LogOpenedFits DEF LogInv, LogWriting
  <2>3. /\ w.open
        /\ logFiles' = [logFiles EXCEPT ![0] = Append(@, logSeq')]
        /\ logWriter' = [w EXCEPT !.size = size, !.open = ~(size >= w.max)]
        /\ logRoll' = IF size >= w.max THEN w.count ELSE -1
    BY <1>4, <2>1 DEF LogWriteFile
  <2> HIDE DEF w
  <2>4. LogContent' /\ \A i \in LogIndices : Range(logFiles[i]) \subseteq Range(logFiles'[i])
    BY <1>1, <2>3, LogAppendInOrder DEF LogInv
  <2>5. 0 \in LogIndices /\ LogFileSize(logFiles[0]) \in Nat /\ LogMaxSize \in Nat /\ logStarts \in Nat
    BY LogSizeHere, LogLimitsHold DEF LogInv, LogValues
  <2>6. /\ logFiles'[0] = Append(logFiles[0], logSeq')
        /\ \A i \in LogIndices \ {0} : logFiles'[i] = logFiles[i]
    BY <2>3, <2>5 DEF LogInv, LogContent
  <2>7. LogFileSize(logFiles'[0]) = size /\ size \in Nat /\ size <= LogFileSize(logFiles[0]) + 2
    <3>1. logFiles[0] \in Seq(Nat) /\ logSeq' \in Nat
      BY <1>1, <2>5, LogSizesAreNat, LogAssumption DEF LogInv, LogContent
    <3>2. LogFileSize(logFiles'[0]) = LogFileSize(logFiles[0]) + LogLength(logSeq') /\ LogLength(logSeq') \in 1..2
      BY <2>6, <3>1, LogSizeOfMore
    <3> QED
      BY <2>2, <2>3, <2>5, <3>2
  <2> HIDE DEF size
  <2>8. logWriter' \in LogWriters /\ logWriter'.size = size /\ logWriter'.open = ~(size >= w.max)
        /\ logWriter'.count = w.count /\ w.max \in LogAllSizes /\ w.count \in LogAllCounts
    BY <2>2, <2>3, <2>7 DEF LogWriters
  <2>9. LogWriting'
    BY <1>1, <2>1, <2>7, <2>8 DEF LogWriting
  <2>10. LogRolls'
    <3>1. w.count \in Nat
      BY <2>8, LogLimitsHold
    <3>2. logRoll' \in -1..logWriter'.count
      BY <2>3, <2>8, <3>1
    <3>3. logRoll' # -1 => ~logWriter'.open /\ logRoll' = logWriter'.count
      BY <2>3, <2>8
    <3> QED
      BY <1>1, <2>1, <3>2, <3>3 DEF LogRolls
  <2>11. LogLong'
    <3>1. logStarts > 0 /\ LogFileSize(logFiles[0]) < LogMaxSize + 2 * (logStarts - 1)
      BY <1>1 DEF LogInv, LogLong
    <3>2. size < LogMaxSize + 2 * logStarts
      BY <2>5, <2>7, <3>1
    <3>3. logRoll' = -1 => size < LogMaxSize + 2 * (logStarts - 1)
      <4>1. w.max \in Nat /\ w.max <= LogMaxSize /\ w.count \in Nat
        BY <2>8, LogLimitsHold
      <4> QED
        BY <2>3, <2>5, <2>7, <3>1, <4>1
    <3>4. \A i \in LogIndices : LogFileSize(logFiles'[i]) < LogMaxSize + 2 * logStarts
      BY <2>6, <2>7, <3>2 DEF LogInv, LogLong
    <3> QED
      BY <1>1, <2>7, <3>1, <3>3, <3>4 DEF LogLong
  <2> QED
    BY <1>2, <2>4, <2>9, <2>10, <2>11 DEF LogInv
<1> QED
  BY <1>3, <1>4

(* What one step of doRollOver does to the files: the last backup is removed, nothing at    *)
(* all happens, or a file is moved to the place behind it, where there is none.             *)
LEMMA LogRollCases ==
  ASSUME LogInv, LogRolling
  PROVE  /\ UNCHANGED <<logWriter, logPc, logTable, logContext, logLive, logConfig, logStarts, logSeq>>
         /\ logWriter \in LogWriters /\ ~logWriter.open /\ logTable["FILE"] # LogNone /\ logPc # "down"
         /\ logWriter.count \in 1..LogMaxCount /\ LogMaxCount \in Nat
         /\ logRoll \in 0..logWriter.count /\ logRoll' = logRoll - 1
         /\ \/ logRoll = logWriter.count /\ logFiles' = [logFiles EXCEPT ![logRoll] = <<>>]
            \/ logRoll < logWriter.count /\ logFiles[logRoll] = <<>> /\ logFiles' = logFiles
            \/ /\ logRoll < logWriter.count /\ logFiles[logRoll + 1] = <<>>
               /\ logFiles' = [logFiles EXCEPT ![logRoll + 1] = logFiles[logRoll], ![logRoll] = <<>>]
<1>1. /\ UNCHANGED <<logWriter, logPc, logTable, logContext, logLive, logConfig, logStarts, logSeq>>
      /\ logRoll >= 0 /\ logRoll' = logRoll - 1
      /\ logFiles' = IF logRoll = logWriter.count THEN [logFiles EXCEPT ![logRoll] = <<>>]
                     ELSE IF logFiles[logRoll] = <<>> THEN logFiles
                     ELSE [logFiles EXCEPT ![logRoll + 1] = logFiles[logRoll], ![logRoll] = <<>>]
  BY DEF LogRolling, LogRollOver, LogConfigurer
<1>2. logRoll \in -1..logWriter.count /\ logRoll # -1
  BY <1>1 DEF LogInv, LogRolls
<1>3. logTable["FILE"] # LogNone /\ ~logWriter.open /\ (logRoll # logWriter.count => logFiles[logRoll + 1] = <<>>)
  BY <1>2 DEF LogInv, LogRolls
<1>4. logWriter \in LogWriters
  BY <1>3 DEF LogInv, LogWriting
<1>5. logWriter.count \in LogAllCounts
  BY <1>4 DEF LogWriters
<1>6. logWriter.count \in 1..LogMaxCount /\ LogMaxCount \in Nat
  <2>1. LogMaxCount \in Nat /\ logWriter.count \in Nat /\ logWriter.count # 0 /\ logWriter.count <= LogMaxCount
    BY <1>5, LogLimitsHold
  <2> QED
    BY <2>1
<1>7. logPc # "down"
  <2>1. "FILE" \in LogTypes
    BY DEF LogTypes
  <2> QED
    BY <1>3, <2>1 DEF LogInv, LogTables, LogNothing
<1>8. logRoll \in 0..logWriter.count
  BY <1>2, <1>6
<1> QED
  BY <1>1, <1>3, <1>4, <1>6, <1>7, <1>8

(* What is in a file after such a step was in it before, or in the one that was moved to    *)
(* its place.                                                                               *)
LEMMA LogRollFrom ==
  ASSUME LogInv, LogRolling
  PROVE  \E moved \in BOOLEAN :
           /\ moved => logRoll < logWriter.count /\ logRoll \in LogIndices
           /\ \A i \in LogIndices :
                /\ logFiles'[i] # <<>> => /\ moved => i # logRoll
                                          /\ logFiles'[i] = logFiles[IF moved /\ i = logRoll + 1 THEN logRoll ELSE i]
                /\ logFiles[i] # logFiles'[i] => i = logRoll \/ (moved /\ i = logRoll + 1)
                /\ moved => logFiles[logRoll + 1] = <<>> /\ logRoll + 1 \in LogIndices
                            /\ logFiles'[logRoll + 1] = logFiles[logRoll]
<1>1. /\ logRoll \in LogIndices /\ LogIndices \subseteq Nat
      /\ logRoll < logWriter.count => logRoll + 1 \in LogIndices
  BY LogRollCases DEF LogIndices
<1>2. logFiles \in [LogIndices -> Seq(1..LogMaxMsgs)]
  BY DEF LogInv, LogContent
<1>3. CASE logRoll = logWriter.count /\ logFiles' = [logFiles EXCEPT ![logRoll] = <<>>]
  <2> WITNESS FALSE \in BOOLEAN
  <2> QED
    BY <1>1, <1>2, <1>3
<1>4. CASE logFiles' = logFiles
  <2> WITNESS FALSE \in BOOLEAN
  <2> QED
    BY <1>4
<1>5. CASE /\ logRoll < logWriter.count /\ logFiles[logRoll + 1] = <<>>
           /\ logFiles' = [logFiles EXCEPT ![logRoll + 1] = logFiles[logRoll], ![logRoll] = <<>>]
  <2>1. \A i \in LogIndices : logFiles'[i] = IF i = logRoll THEN <<>>
                                             ELSE IF i = logRoll + 1 THEN logFiles[logRoll] ELSE logFiles[i]
    BY <1>1, <1>2, <1>5
  <2> WITNESS TRUE \in BOOLEAN
  <2> QED
    BY <1>1, <1>5, <2>1
<1> QED
  BY <1>3, <1>4, <1>5, LogRollCases

LEMMA LogRollingInv == LogInv /\ LogRolling => LogInv'
<1> SUFFICES ASSUME LogInv, LogRolling PROVE LogInv'
  OBVIOUS
<1>1. /\ UNCHANGED <<logWriter, logPc, logTable, logContext, logLive, logConfig, logStarts, logSeq>>
      /\ logWriter \in LogWriters /\ ~logWriter.open /\ logTable["FILE"] # LogNone /\ logPc # "down"
      /\ logWriter.count \in 1..LogMaxCount /\ LogMaxCount \in Nat
      /\ logRoll \in 0..logWriter.count /\ logRoll' = logRoll - 1
  BY LogRollCases
<1>2. PICK moved \in BOOLEAN :
           /\ moved => logRoll < logWriter.count /\ logRoll \in LogIndices
           /\ \A i \in LogIndices :
                /\ logFiles'[i] # <<>> => /\ moved => i # logRoll
                                          /\ logFiles'[i] = logFiles[IF moved /\ i = logRoll + 1 THEN logRoll ELSE i]
                /\ logFiles[i] # logFiles'[i] => i = logRoll \/ (moved /\ i = logRoll + 1)
                /\ moved => logFiles[logRoll + 1] = <<>> /\ logRoll + 1 \in LogIndices
                            /\ logFiles'[logRoll + 1] = logFiles[logRoll]
  BY LogRollFrom
<1> DEFINE from(i) == IF moved /\ i = logRoll + 1 THEN logRoll ELSE i
<1>3. \A i \in LogIndices : from(i) \in LogIndices /\ from(i) \in Nat /\ i \in Nat
  BY <1>1, <1>2 DEF LogIndices
<1>4. \A i \in LogIndices : logFiles'[i] # <<>> => logFiles'[i] = logFiles[from(i)] /\ (moved => i # logRoll)
  BY <1>2
<1>5. \A i, j \in LogIndices : i > j /\ logFiles'[i] # <<>> /\ logFiles'[j] # <<>> => from(i) > from(j)
  <2> SUFFICES ASSUME NEW i \in LogIndices, NEW j \in LogIndices, i > j, logFiles'[i] # <<>>, logFiles'[j] # <<>>
               PROVE  from(i) > from(j)
    OBVIOUS
  <2>1. i \in Nat /\ j \in Nat /\ logRoll \in Nat /\ (moved => i # logRoll /\ j # logRoll)
    BY <1>1, <1>3, <1>4
  <2>2. CASE moved
    BY <2>1, <2>2
  <2>3. CASE ~moved
    BY <2>3
  <2> QED
    BY <2>2, <2>3
<1> HIDE DEF from
<1>6. \A i \in LogIndices : \A x : x \in DOMAIN logFiles'[i] => logFiles'[i] # <<>>
  BY EmptySeq
<1>7. LogContent'
  <2>1. LogContent
    BY DEF LogInv
  <2>2. logFiles' \in [LogIndices -> Seq(1..LogMaxMsgs)]
    <3>1. <<>> \in Seq(1..LogMaxMsgs)
      BY EmptySeq
    <3>2. logRoll \in LogIndices /\ logFiles[logRoll] \in Seq(1..LogMaxMsgs)
      BY <1>1, <2>1 DEF LogContent, LogIndices
    <3> QED
      BY <2>1, <3>1, <3>2, LogRollCases DEF LogContent
  <2>3. \A i \in LogIndices : \A x \in DOMAIN logFiles'[i] : logFiles'[i][x] <= logSeq
    BY <1>3, <1>4, <1>6, <2>1 DEF LogContent
  <2>4. LogInOrder'
    <3> SUFFICES ASSUME NEW i \in LogIndices, NEW j \in LogIndices,
                        NEW x \in DOMAIN logFiles'[i], NEW y \in DOMAIN logFiles'[j], i > j \/ (i = j /\ x < y)
                 PROVE  logFiles'[i][x] < logFiles'[j][y]
      BY DEF LogInOrder
    <3>1. logFiles'[i] = logFiles[from(i)] /\ logFiles'[j] = logFiles[from(j)] /\ from(i) \in LogIndices
          /\ from(j) \in LogIndices
      BY <1>3, <1>4, <1>6
    <3>2. from(i) > from(j) \/ (from(i) = from(j) /\ x < y)
      BY <1>5, <1>6
    <3> QED
      BY <2>1, <3>1, <3>2 DEF LogContent, LogInOrder
  <2> QED
    BY <1>1, <2>1, <2>2, <2>3, <2>4 DEF LogContent
<1>8. LogValues' /\ LogTables'
  BY <1>1 DEF LogInv, LogValues, LogTables
<1>9. LogWriting'
  BY <1>1 DEF LogWriting
<1>10. LogRolls'
  <2>1. logRoll' \in -1..logWriter.count
    BY <1>1
  <2>2. ASSUME logRoll' # -1, logRoll' # logWriter.count PROVE logFiles'[logRoll' + 1] = <<>>
    <3>1. logRoll' + 1 = logRoll /\ logRoll \in LogIndices
      BY <1>1 DEF LogIndices
    <3>2. logFiles'[logRoll] = <<>>
      BY <1>1, <3>1, LogRollCases DEF LogInv, LogContent
    <3> QED
      BY <3>1, <3>2
  <2> QED
    BY <1>1, <2>1, <2>2 DEF LogRolls
<1>11. LogLong'
  <2>1. LogMaxSize \in Nat \ {0} /\ logStarts \in Nat /\ logStarts > 0 /\ 0 \in LogIndices
    BY <1>1, LogLimitsHold, LogSizeHere DEF LogInv, LogLong, LogValues
  <2>2. \A i \in LogIndices : LogFileSize(logFiles'[i]) < LogMaxSize + 2 * logStarts
    <3> SUFFICES ASSUME NEW i \in LogIndices PROVE LogFileSize(logFiles'[i]) < LogMaxSize + 2 * logStarts
      OBVIOUS
    <3>1. CASE logFiles'[i] = <<>>
      BY <2>1, <3>1, LogSizeOfNone
    <3>2. CASE logFiles'[i] # <<>>
      BY <1>3, <1>4, <3>2 DEF LogInv, LogLong
    <3> QED
      BY <3>1, <3>2
  <2>3. ASSUME logRoll' = -1 PROVE LogFileSize(logFiles'[0]) < LogMaxSize + 2 * (logStarts - 1)
    <3>1. logRoll = 0
      BY <1>1, <2>3
    <3>2. logFiles'[0] = <<>>
      BY <1>1, <2>1, <3>1, LogRollCases DEF LogInv, LogContent
    <3> QED
      BY <2>1, <3>2, LogSizeOfNone
  <2> QED
    BY <1>1, <2>1, <2>2, <2>3 DEF LogLong
<1> QED
  BY <1>7, <1>8, <1>9, <1>10, <1>11 DEF LogInv

(* A step of rolling takes nothing but the oldest backup.                                   *)
LEMMA LogRollingLoses ==
  ASSUME LogInv, LogRolling, NEW m \in LogHeld(LogMaxCount), m \notin LogHeld(LogMaxCount)'
  PROVE  /\ m \in Range(logFiles[logWriter.count])
         /\ \A n \in LogHeld(logWriter.count)' : m < n
<1>1. PICK i \in LogIndices : m \in Range(logFiles[i])
  BY DEF LogHeld, LogIndices
<1>2. PICK x \in DOMAIN logFiles[i] : m = logFiles[i][x]
  BY <1>1 DEF Range
<1>3. \A j \in LogIndices : m \notin Range(logFiles'[j])
  BY DEF LogHeld, LogIndices
<1>4. /\ logWriter' = logWriter /\ logWriter.count \in 1..LogMaxCount /\ LogMaxCount \in Nat
      /\ logRoll \in 0..logWriter.count
  BY LogRollCases
<1>5. /\ logRoll = logWriter.count /\ i = logRoll
      /\ logFiles' = [logFiles EXCEPT ![logRoll] = <<>>]
  <2>1. logFiles[i] # logFiles'[i] /\ logFiles[i] # <<>>
    BY <1>1, <1>2, <1>3, EmptySeq
  <2>2. logRoll \in Nat /\ logFiles \in [LogIndices -> Seq(1..LogMaxMsgs)]
    BY <1>4 DEF LogInv, LogContent
  <2>3. CASE logRoll = logWriter.count /\ logFiles' = [logFiles EXCEPT ![logRoll] = <<>>]
    BY <2>1, <2>2, <2>3
  <2>4. CASE /\ logRoll < logWriter.count /\ logFiles[logRoll + 1] = <<>>
             /\ logFiles' = [logFiles EXCEPT ![logRoll + 1] = logFiles[logRoll], ![logRoll] = <<>>]
    <3>1. logRoll + 1 \in LogIndices /\ logRoll + 1 # logRoll
      BY <1>4, <2>4 DEF LogIndices
    <3>2. i = logRoll
      BY <2>1, <2>2, <2>4
    <3>3. logFiles'[logRoll + 1] = logFiles[i]
      BY <2>2, <2>4, <3>1, <3>2
    <3> QED
      BY <1>1, <1>3, <3>1, <3>3
  <2> QED
    BY <2>1, <2>3, <2>4, LogRollCases
<1>6. ASSUME NEW n \in LogHeld(logWriter.count)'
      PROVE  m < n
  <2>1. PICK j \in 0..logWriter.count : n \in Range(logFiles'[j])
    BY <1>4, <1>6 DEF LogHeld
  <2>2. PICK y \in DOMAIN logFiles'[j] : n = logFiles'[j][y]
    BY <2>1 DEF Range
  <2>3. j \in LogIndices /\ i \in LogIndices
    BY <1>4 DEF LogIndices
  <2>4. j # i
    BY <1>5, <2>2, <2>3, EmptySeq DEF LogInv, LogContent
  <2>5. logFiles'[j] = logFiles[j] /\ i > j
    BY <1>4, <1>5, <2>3, <2>4 DEF LogInv, LogContent
  <2> QED
    BY <1>2, <2>2, <2>3, <2>5 DEF LogInv, LogContent, LogInOrder
<1> QED
  BY <1>1, <1>5, <1>6

-----------------------------------------------------------------------------
(* Every step, and what the invariant says of the log.                       *)

LEMMA LogStepInv == LogInv /\ [LogNext]_logVars => LogInv'
<1> SUFFICES ASSUME LogInv, [LogNext]_logVars PROVE LogInv'
  OBVIOUS
<1>1. CASE \E size \in LogSizes, count \in LogCounts : LogSetup(size, count) \/ LogAdjust(size, count)
  BY <1>1, LogSetupInv, LogAdjustInv
<1>2. CASE LogStartup
  BY <1>2, LogStartupInv
<1>3. CASE \E cfg \in LogConfigs : LogReload(cfg)
  BY <1>3, LogReloadInv
<1>4. CASE LogReset \/ LogConsole \/ LogParams \/ LogFile
  BY <1>4, LogResetInv, LogConsoleInv, LogParamsInv, LogFileInv
<1>5. CASE \E level \in LogLevels : LogWrite(level)
  BY <1>5, LogWriteInv
<1>6. CASE LogRolling \/ LogCrash
  BY <1>6, LogRollingInv, LogCrashInv
<1>7. CASE UNCHANGED logVars
  BY <1>7 DEF logVars, LogInv, LogValues, LogTables, LogWriting, LogRolls, LogContent, LogInOrder, LogLong
<1> QED
  BY <1>1, <1>2, <1>3, <1>4, <1>5, <1>6, <1>7 DEF LogNext

LEMMA LogInvIsSafe == LogInv => LogTypeOK /\ LogInOrder /\ LogBounded /\ LogNoLeak
<1> SUFFICES ASSUME LogInv PROVE LogTypeOK /\ LogInOrder /\ LogBounded /\ LogNoLeak
  OBVIOUS
<1>1. logLive \in [LogTypes -> 0..1] /\ LogNoLeak
  BY DEF LogInv, LogTables, LogNoLeak
<1>2. logWriter.count \in LogIndices
  <2>1. LogMaxCount \in Nat
    BY LogLimitsHold
  <2>2. CASE logTable["FILE"] = LogNone
    BY <2>1, <2>2 DEF LogInv, LogWriting, LogNoWriter, LogIndices
  <2>3. CASE logTable["FILE"] # LogNone
    <3>1. logWriter.count \in LogAllCounts
      BY <2>3 DEF LogInv, LogWriting, LogWriters
    <3>2. logWriter.count \in Nat /\ logWriter.count <= LogMaxCount
      BY <3>1, LogLimitsHold
    <3> QED
      BY <2>1, <3>2 DEF LogIndices
  <2> QED
    BY <2>2, <2>3
<1>3. \A i \in LogIndices : \A n \in DOMAIN logFiles[i] : logFiles[i][n] \in 1..LogMaxMsgs
  <2> SUFFICES ASSUME NEW i \in LogIndices, NEW n \in DOMAIN logFiles[i] PROVE logFiles[i][n] \in 1..LogMaxMsgs
    OBVIOUS
  <2>1. logFiles[i] \in Seq(1..LogMaxMsgs)
    BY DEF LogInv, LogContent
  <2> QED
    BY <2>1, ElementOfSeq, LenProperties
<1>4. LogTypeOK
  BY <1>1, <1>2, <1>3 DEF LogTypeOK, LogInv, LogValues, LogRolls
<1>5. LogBounded
  BY DEF LogBounded, LogInv, LogWriting, LogLong, LogMaxSize, LogAllSizes
<1> QED
  BY <1>1, <1>4, <1>5 DEF LogInv, LogContent

(* A step but that of rolling loses no message.                                             *)
LEMMA LogStepLoses ==
  ASSUME LogInv, [LogNext]_logVars, NEW m \in LogHeld(LogMaxCount), m \notin LogHeld(LogMaxCount)'
  PROVE  /\ m \in Range(logFiles[logWriter.count])
         /\ \A n \in LogHeld(logWriter.count)' : m < n
<1>1. CASE logFiles' = logFiles
  BY <1>1 DEF LogHeld
<1>2. CASE \E level \in LogLevels : LogWrite(level)
  BY <1>2, LogWriteInv DEF LogHeld, LogIndices
<1>3. CASE LogRolling
  BY <1>3, LogRollingLoses
<1>4. ASSUME NEW size \in LogSizes, NEW count \in LogCounts, LogSetup(size, count) \/ LogAdjust(size, count)
      PROVE  logFiles' = logFiles
  BY <1>4 DEF LogSetup, LogAdjust
<1>5. ASSUME LogStartup \/ LogReset \/ LogConsole \/ LogParams \/ LogFile \/ LogCrash
      PROVE  logFiles' = logFiles
  BY <1>5 DEF LogStartup, LogReset, LogConsole, LogParams, LogFile, LogCrash, LogSection
<1>6. ASSUME NEW cfg \in LogConfigs, LogReload(cfg) PROVE logFiles' = logFiles
  BY <1>6 DEF LogReload
<1>7. ASSUME UNCHANGED logVars PROVE logFiles' = logFiles
  BY <1>7 DEF logVars
<1> QED
  BY <1>1, <1>2, <1>3, <1>4, <1>5, <1>6, <1>7 DEF LogNext

(* CLog: the messages in the log and its backups are in the order they were logged in, a    *)
(* message is lost with the oldest backup only, no file is longer than its limit by more    *)
(* than the crashes account for, and no writer leaks, whatever is configured and however    *)
(* often the process ends within doRollOver.                                                *)
THEOREM LogIsSafe == LogSpec => LogSafe
<1>1. LogInv /\ [LogNext]_logVars => LogInv'
  BY LogStepInv
<1>2. LogInv /\ [LogNext]_logVars =>
        [\A m \in LogHeld(LogMaxCount) \ LogHeld(LogMaxCount)' :
           /\ m \in Range(logFiles[logWriter.count])
           /\ \A n \in LogHeld(logWriter.count)' : m < n]_logVars
  BY LogStepLoses
<1> QED
  BY <1>1, <1>2, LogInitInv, LogInvIsSafe, PTL DEF LogSpec, LogSafe, LogLosesOldest

-----------------------------------------------------------------------------
(* The timer queue (CTimerQueue)                                             *)

(* The tasks of a list, and a list without two tasks of one serial number. *)
In(ts) == {ts[i] : i \in DOMAIN ts}
Unique(ts) == \A i, j \in DOMAIN ts : i # j => ts[i].serial # ts[j].serial

-----------------------------------------------------------------------------
(* What insertTask and remove do to a list. *)

(* us is ts with t as its element k + 1, ts without its element k. *)
With(ts, k, t, us) ==
  /\ us \in Seq(Tasks) /\ Len(us) = Len(ts) + 1
  /\ \A i \in 1..Len(us) :
       us[i] = IF i <= k THEN ts[i] ELSE IF i = k + 1 THEN t ELSE ts[i - 1]
Without(ts, k, us) ==
  /\ us \in Seq(Tasks) /\ Len(us) = Len(ts) - 1
  /\ \A i \in 1..Len(us) : us[i] = IF i < k THEN ts[i] ELSE ts[i + 1]

LEMMA InsertAtIsWith ==
  ASSUME NEW ts \in Seq(Tasks), NEW k \in 0..Len(ts), NEW t \in Tasks
  PROVE  With(ts, k, t, InsertAt(ts, k + 1, t))
<1> DEFINE a == SubSeq(ts, 1, k)
           b == SubSeq(ts, k + 1, Len(ts))
<1>0. Len(ts) \in Nat /\ k \in Int /\ \A i \in 1..Len(ts) : ts[i] \in Tasks
  BY LenProperties, ElementOfSeq
<1>1. a \in Seq(Tasks) /\ Len(a) = k /\ \A i \in 1..k : a[i] = ts[i]
  BY <1>0, SubSeqProperties
<1>2. /\ b \in Seq(Tasks) /\ Len(b) = Len(ts) - k
      /\ \A i \in 1..(Len(ts) - k) : b[i] = ts[k + i]
  <2>1. \A i \in (k + 1)..Len(ts) : ts[i] \in Tasks
    BY <1>0
  <2>2. /\ b \in Seq(Tasks)
        /\ Len(b) = IF k + 1 <= Len(ts) THEN Len(ts) - (k + 1) + 1 ELSE 0
        /\ \A i \in 1..(Len(ts) - (k + 1) + 1) : b[i] = ts[(k + 1) + i - 1]
    BY <1>0, <2>1, SubSeqProperties
  <2>q. QED
    BY <1>0, <2>2
<1>3. <<t>> \in Seq(Tasks) /\ Len(<<t>>) = 1 /\ <<t>>[1] = t
  OBVIOUS
<1>6. InsertAt(ts, k + 1, t) = (a \o <<t>>) \o b
  <2>1. (k + 1) - 1 = k
    BY <1>0
  <2>q. QED
    BY <2>1, Zenon DEF InsertAt
<1> DEFINE one == <<t>>
<1> DEFINE c == a \o one
<1> HIDE DEF a, b, one
<1>4. c \in Seq(Tasks) /\ Len(c) = k + 1 /\ \A i \in 1..(k + 1) : c[i] = IF i <= k THEN ts[i] ELSE t
  <2>0. one \in Seq(Tasks) /\ Len(one) = 1 /\ one[1] = t
    BY <1>3 DEF one
  <2>1. /\ c \in Seq(Tasks) /\ Len(c) = Len(a) + Len(one)
        /\ \A i \in 1..(Len(a) + Len(one)) : c[i] = IF i <= Len(a) THEN a[i] ELSE one[i - Len(a)]
    BY <1>1, <2>0, ConcatProperties
  <2> HIDE DEF c
  <2>2. ASSUME NEW i \in 1..(k + 1) PROVE c[i] = IF i <= k THEN ts[i] ELSE t
    <3>1. c[i] = IF i <= k THEN a[i] ELSE one[i - k]
      BY <1>0, <1>1, <2>0, <2>1
    <3>2. CASE i <= k
      BY <1>0, <1>1, <3>1, <3>2
    <3>3. CASE ~(i <= k)
      <4>1. i - k = 1
        BY <1>0, <3>3
      <4>q. QED
        BY <2>0, <3>1, <3>3, <4>1
    <3>q. QED
      BY <3>2, <3>3
  <2>q. QED
    BY <1>0, <1>1, <2>0, <2>1, <2>2
<1> DEFINE d == c \o b
<1>5. /\ d \in Seq(Tasks) /\ Len(d) = Len(c) + Len(b)
      /\ \A i \in 1..(Len(c) + Len(b)) : d[i] = IF i <= Len(c) THEN c[i] ELSE b[i - Len(c)]
  <2> HIDE DEF c
  <2>q. QED
    BY <1>2, <1>4, ConcatProperties
<1>7. InsertAt(ts, k + 1, t) = d
  BY <1>6 DEF one
<1> HIDE DEF c, d
<1>8. Len(d) = Len(ts) + 1
  BY <1>0, <1>2, <1>4, <1>5
<1>9. ASSUME NEW i \in 1..(Len(ts) + 1)
      PROVE  d[i] = IF i <= k THEN ts[i] ELSE IF i = k + 1 THEN t ELSE ts[i - 1]
  <2>0. d[i] = IF i <= k + 1 THEN c[i] ELSE b[i - (k + 1)]
    BY <1>0, <1>2, <1>4, <1>5
  <2>1. CASE i <= k + 1
    <3>1. i \in 1..(k + 1)
      BY <1>0, <2>1
    <3>2. c[i] = IF i <= k THEN ts[i] ELSE t
      BY <1>4, <3>1
    <3>q. QED
      BY <1>0, <2>0, <2>1, <3>2
  <2>3. CASE ~(i <= k + 1)
    <3>1. i - (k + 1) \in 1..(Len(ts) - k) /\ k + (i - (k + 1)) = i - 1 /\ ~(i <= k) /\ i # k + 1
      BY <1>0, <2>3
    <3>2. b[i - (k + 1)] = ts[k + (i - (k + 1))]
      BY <1>2, <3>1
    <3>q. QED
      BY <2>0, <2>3, <3>1, <3>2
  <2>q. QED
    BY <2>1, <2>3
<1>q. QED
  BY <1>5, <1>7, <1>8, <1>9 DEF With

LEMMA RemoveAtIsWithout ==
  ASSUME NEW ts \in Seq(Tasks), NEW k \in 1..Len(ts)
  PROVE  Without(ts, k, RemoveAt(ts, k))
<1> DEFINE a == SubSeq(ts, 1, k - 1)
           b == SubSeq(ts, k + 1, Len(ts))
<1>0. Len(ts) \in Nat /\ k \in Int /\ \A i \in 1..Len(ts) : ts[i] \in Tasks
  BY LenProperties, ElementOfSeq
<1>1. a \in Seq(Tasks) /\ Len(a) = k - 1 /\ \A i \in 1..(k - 1) : a[i] = ts[i]
  BY <1>0, SubSeqProperties
<1>2. /\ b \in Seq(Tasks) /\ Len(b) = Len(ts) - k
      /\ \A i \in 1..(Len(ts) - k) : b[i] = ts[k + i]
  <2>1. \A i \in (k + 1)..Len(ts) : ts[i] \in Tasks
    BY <1>0
  <2>2. /\ b \in Seq(Tasks)
        /\ Len(b) = IF k + 1 <= Len(ts) THEN Len(ts) - (k + 1) + 1 ELSE 0
        /\ \A i \in 1..(Len(ts) - (k + 1) + 1) : b[i] = ts[(k + 1) + i - 1]
    BY <1>0, <2>1, SubSeqProperties
  <2>q. QED
    BY <1>0, <2>2
<1>4. RemoveAt(ts, k) = a \o b
  BY DEF RemoveAt
<1> HIDE DEF a, b
<1> DEFINE d == a \o b
<1>6. /\ d \in Seq(Tasks) /\ Len(d) = Len(a) + Len(b)
      /\ \A i \in 1..(Len(a) + Len(b)) : d[i] = IF i <= Len(a) THEN a[i] ELSE b[i - Len(a)]
  BY <1>1, <1>2, ConcatProperties
<1>7. RemoveAt(ts, k) = d
  BY <1>4
<1> HIDE DEF d
<1>3. /\ d \in Seq(Tasks) /\ Len(d) = Len(ts) - 1
      /\ \A i \in 1..(Len(ts) - 1) :
           d[i] = IF i <= k - 1 THEN a[i] ELSE b[i - (k - 1)]
  <2>1. Len(a) + Len(b) = Len(ts) - 1
    BY <1>0, <1>1, <1>2
  <2>q. QED
    BY <1>1, <1>6, <2>1
<1>5. ASSUME NEW i \in 1..(Len(ts) - 1)
      PROVE  d[i] = IF i < k THEN ts[i] ELSE ts[i + 1]
  <2>0. i \in 1..Len(ts) /\ d[i] = IF i <= k - 1 THEN a[i] ELSE b[i - (k - 1)]
    BY <1>0, <1>3
  <2>1. CASE i < k
    <3>1. i \in 1..(k - 1) /\ i <= k - 1
      BY <1>0, <2>0, <2>1
    <3>2. d[i] = a[i]
      BY <2>0, <3>1
    <3>q. QED
      BY <1>1, <2>1, <3>1, <3>2
  <2>2. CASE ~(i < k)
    <3>1. i - (k - 1) \in 1..(Len(ts) - k) /\ k + (i - (k - 1)) = i + 1 /\ ~(i <= k - 1)
      BY <1>0, <2>2
    <3>2. d[i] = b[i - (k - 1)]
      BY <2>0, <3>1
    <3>3. b[i - (k - 1)] = ts[i + 1]
      BY <1>2, <3>1
    <3>q. QED
      BY <2>2, <3>2, <3>3
  <2>q. QED
    BY <2>1, <2>2
<1>q. QED
  BY <1>3, <1>7, <1>5 DEF Without

-----------------------------------------------------------------------------
(* What that means for the tasks of the list, their order and their numbers. *)

LEMMA SeqFacts ==
  ASSUME NEW ts \in Seq(Tasks)
  PROVE  Len(ts) \in Nat /\ DOMAIN ts = 1..Len(ts) /\ \A i \in 1..Len(ts) : ts[i] \in Tasks
  BY LenProperties, ElementOfSeq

LEMMA TaskFacts == \A t \in Tasks : /\ t.expire \in Times /\ t.expire \in Int
                                    /\ t.serial \in 1..MaxAdds /\ t.serial \in Int
                                    /\ t.interval \in Intervals /\ t # NoTask
  BY ParametersAssumption DEF Tasks, Times, NoTask

LEMMA InsertedKeeps ==
  ASSUME NEW ts \in Seq(Tasks), NEW t \in Tasks, NEW us \in Inserted(ts, t)
  PROVE  /\ us \in Seq(Tasks) /\ us # <<>>
         /\ In(us) = In(ts) \cup {t}
         /\ Sorted(ts) => Sorted(us)
         /\ Unique(ts) /\ (\A x \in In(ts) : x.serial # t.serial) => Unique(us)
<1>1. PICK k \in 0..Len(ts) :
        /\ \A i \in 1..k : ts[i].expire <= t.expire
        /\ \A i \in (k + 1)..Len(ts) : ts[i].expire > t.expire
        /\ us = InsertAt(ts, k + 1, t)
  BY DEF Inserted
<1>2. With(ts, k, t, us)
  BY <1>1, InsertAtIsWith
<1>3. /\ Len(ts) \in Nat /\ k \in Int /\ DOMAIN ts = 1..Len(ts)
      /\ \A i \in 1..Len(ts) : ts[i] \in Tasks /\ ts[i].expire \in Int /\ ts[i].serial \in Int
      /\ t.expire \in Int /\ t.serial \in Int
  BY SeqFacts, TaskFacts
<1>4. /\ us \in Seq(Tasks) /\ Len(us) = Len(ts) + 1 /\ DOMAIN us = 1..Len(us)
      /\ \A i \in 1..Len(us) :
           us[i] = IF i <= k THEN ts[i] ELSE IF i = k + 1 THEN t ELSE ts[i - 1]
  BY <1>2, SeqFacts DEF With
<1>5. us # <<>>
  BY <1>3, <1>4
<1>6. In(us) = In(ts) \cup {t}
  <2>1. ASSUME NEW i \in 1..Len(us) PROVE us[i] \in In(ts) \cup {t}
    <3>1. CASE i <= k
      <4>1. i \in 1..Len(ts) /\ us[i] = ts[i]
        BY <1>3, <1>4, <3>1
      <4>q. QED
        BY <1>3, <4>1 DEF In
    <3>2. CASE i = k + 1
      BY <1>3, <1>4, <3>2
    <3>3. CASE i > k + 1
      <4>1. i - 1 \in 1..Len(ts) /\ us[i] = ts[i - 1]
        BY <1>3, <1>4, <3>3
      <4>q. QED
        BY <1>3, <4>1 DEF In
    <3>q. QED
      BY <1>3, <3>1, <3>2, <3>3
  <2>2. ASSUME NEW i \in 1..Len(ts) PROVE ts[i] \in In(us)
    <3>1. CASE i <= k
      BY <1>3, <1>4, <3>1 DEF In
    <3>2. CASE i > k
      <4>1. i + 1 \in 1..Len(us) /\ us[i + 1] = ts[(i + 1) - 1] /\ (i + 1) - 1 = i
        BY <1>3, <1>4, <3>2
      <4>q. QED
        BY <1>4, <4>1 DEF In
    <3>q. QED
      BY <1>3, <3>1, <3>2
  <2>3. t \in In(us)
    <3>1. k + 1 \in 1..Len(us) /\ us[k + 1] = t
      BY <1>3, <1>4
    <3>q. QED
      BY <1>4, <3>1 DEF In
  <2>q. QED
    BY <1>3, <1>4, <2>1, <2>2, <2>3 DEF In
<1>7. ASSUME Sorted(ts) PROVE Sorted(us)
  <2>1. SUFFICES ASSUME NEW i \in 1..Len(us), NEW j \in 1..Len(us), i < j
                 PROVE  us[i].expire <= us[j].expire
    BY <1>4 DEF Sorted
  <2>2. CASE j <= k
    <3>1. i \in 1..Len(ts) /\ j \in 1..Len(ts) /\ us[i] = ts[i] /\ us[j] = ts[j]
      BY <1>3, <1>4, <2>1, <2>2
    <3>q. QED
      BY <1>3, <1>7, <2>1, <3>1 DEF Sorted
  <2>3. CASE j = k + 1
    <3>1. i \in 1..k /\ us[i] = ts[i] /\ us[j] = t
      <4>1. i \in 1..k /\ i <= k /\ ~(j <= k)
        BY <1>3, <2>1, <2>3
      <4>2. us[i] = ts[i]
        BY <1>4, <4>1
      <4>3. us[j] = t
        BY <1>4, <2>3, <4>1
      <4>q. QED
        BY <4>1, <4>2, <4>3
    <3>q. QED
      BY <1>1, <3>1
  <2>4. CASE j > k + 1
    <3>1. us[j] = ts[j - 1] /\ j - 1 \in (k + 1)..Len(ts) /\ j - 1 \in 1..Len(ts)
      BY <1>3, <1>4, <2>1, <2>4
    <3>2. CASE i <= k
      <4>1. i \in 1..k /\ i \in 1..Len(ts) /\ us[i] = ts[i] /\ i < j - 1
        BY <1>3, <1>4, <2>1, <2>4, <3>2
      <4>q. QED
        BY <1>3, <1>7, <3>1, <4>1 DEF Sorted
    <3>3. CASE i = k + 1
      <4>1. us[i] = t
        BY <1>3, <1>4, <3>3
      <4>q. QED
        BY <1>1, <1>3, <3>1, <4>1
    <3>4. CASE i > k + 1
      <4>1. us[i] = ts[i - 1] /\ i - 1 \in 1..Len(ts) /\ i - 1 < j - 1
        BY <1>3, <1>4, <2>1, <2>4, <3>4
      <4>q. QED
        BY <1>3, <1>7, <3>1, <4>1 DEF Sorted
    <3>q. QED
      BY <1>3, <3>2, <3>3, <3>4
  <2>q. QED
    BY <1>3, <2>2, <2>3, <2>4
<1>8. ASSUME Unique(ts), \A x \in In(ts) : x.serial # t.serial PROVE Unique(us)
  <2> DEFINE at(i) == IF i <= k THEN i ELSE i - 1
  <2>1. ASSUME NEW i \in 1..Len(us), i # k + 1
        PROVE  at(i) \in 1..Len(ts) /\ us[i] = ts[at(i)] /\ us[i] \in In(ts)
    <3>1. at(i) \in 1..Len(ts) /\ us[i] = ts[at(i)]
      BY <1>3, <1>4, <2>1
    <3> HIDE DEF at
    <3>q. QED
      BY <1>3, <3>1 DEF In
  <2>2. SUFFICES ASSUME NEW i \in 1..Len(us), NEW j \in 1..Len(us), i # j
                 PROVE  us[i].serial # us[j].serial
    BY <1>4 DEF Unique
  <2>3. CASE i # k + 1 /\ j # k + 1
    <3>1. at(i) # at(j)
      BY <1>3, <2>2, <2>3
    <3>2. /\ at(i) \in DOMAIN ts /\ us[i] = ts[at(i)]
          /\ at(j) \in DOMAIN ts /\ us[j] = ts[at(j)]
      BY <1>3, <2>1, <2>3, Zenon
    <3> HIDE DEF at
    <3>q. QED
      BY <1>8, <3>1, <3>2, Zenon DEF Unique
  <2>4. CASE i = k + 1
    <3>1. us[i] = t /\ us[j] \in In(ts)
      BY <1>3, <1>4, <2>1, <2>2, <2>4
    <3>q. QED
      BY <1>8, <3>1
  <2>5. CASE j = k + 1
    <3>1. us[j] = t /\ us[i] \in In(ts)
      BY <1>3, <1>4, <2>1, <2>2, <2>5
    <3>q. QED
      BY <1>8, <3>1
  <2>q. QED
    BY <2>3, <2>4, <2>5
<1>q. QED
  BY <1>4, <1>5, <1>6, <1>7, <1>8

(* us is a part of ts, in the same order. *)
PartOf(us, ts) ==
  /\ us \in Seq(Tasks) /\ In(us) \subseteq In(ts)
  /\ Sorted(ts) => Sorted(us)
  /\ Unique(ts) => Unique(us)

LEMMA WithoutIsPart ==
  ASSUME NEW ts \in Seq(Tasks), NEW k \in 1..Len(ts), NEW us, Without(ts, k, us)
  PROVE  PartOf(us, ts)
<1> DEFINE at(i) == IF i < k THEN i ELSE i + 1
<1>1. /\ Len(ts) \in Nat /\ k \in Int /\ DOMAIN ts = 1..Len(ts)
      /\ us \in Seq(Tasks) /\ Len(us) = Len(ts) - 1 /\ DOMAIN us = 1..Len(us)
  BY SeqFacts DEF Without
<1>2. ASSUME NEW i \in 1..Len(us) PROVE at(i) \in 1..Len(ts) /\ us[i] = ts[at(i)]
  BY <1>1 DEF Without
<1>3. \A i, j \in 1..Len(us) : /\ i # j => at(i) # at(j)
                               /\ i < j => at(i) < at(j)
  BY <1>1
<1> HIDE DEF at
<1>4. In(us) \subseteq In(ts)
  BY <1>1, <1>2 DEF In
<1>5. Sorted(ts) => Sorted(us)
  BY <1>1, <1>2, <1>3 DEF Sorted
<1>6. ASSUME Unique(ts) PROVE Unique(us)
  <2>1. SUFFICES ASSUME NEW i \in 1..Len(us), NEW j \in 1..Len(us), i # j
                 PROVE  us[i].serial # us[j].serial
    BY <1>1 DEF Unique
  <2>2. at(i) \in 1..Len(ts) /\ at(j) \in 1..Len(ts) /\ at(i) # at(j)
    BY <1>2, <1>3, <2>1
  <2>3. ts[at(i)].serial # ts[at(j)].serial
    BY <1>1, <1>6, <2>2 DEF Unique
  <2>q. QED
    BY <1>2, <2>3
<1>q. QED
  BY <1>1, <1>4, <1>5, <1>6 DEF PartOf

LEMMA RemovedIsPart ==
  ASSUME NEW ts \in Seq(Tasks), NEW id, NEW us \in Removed(ts, id)
  PROVE  PartOf(us, ts)
<1>1. us = ts \/ \E k \in DOMAIN ts : us = RemoveAt(ts, k)
  BY DEF Removed
<1>2. PartOf(ts, ts)
  BY DEF PartOf
<1>q. QED
  BY <1>1, <1>2, SeqFacts, RemoveAtIsWithout, WithoutIsPart

LEMMA EmptyIsPart ==
  ASSUME NEW ts \in Seq(Tasks)
  PROVE  PartOf(<<>>, ts)
  BY DEF PartOf, In, Sorted, Unique

(* The first task is due before the others, and is none of them. *)
LEMMA HeadAndTail ==
  ASSUME NEW ts \in Seq(Tasks), ts # <<>>, Sorted(ts), Unique(ts)
  PROVE  /\ PartOf(Tail(ts), ts) /\ Head(ts) \in Tasks
         /\ In(ts) = In(Tail(ts)) \cup {Head(ts)}
         /\ \A x \in In(ts) : Head(ts).expire <= x.expire
         /\ \A x \in In(Tail(ts)) : x.serial # Head(ts).serial
<1>1. /\ Len(ts) \in Nat \ {0} /\ DOMAIN ts = 1..Len(ts) /\ \A i \in 1..Len(ts) : ts[i] \in Tasks
      /\ Head(ts) = ts[1] /\ 1 \in 1..Len(ts)
  BY SeqFacts, EmptySeq
<1>2. /\ Tail(ts) \in Seq(Tasks) /\ Len(Tail(ts)) = Len(ts) - 1
      /\ \A i \in 1..(Len(ts) - 1) : Tail(ts)[i] = ts[i + 1]
  BY HeadTailProperties
<1> DEFINE us == Tail(ts)
<1>3. us \in Seq(Tasks) /\ Len(us) = Len(ts) - 1 /\ DOMAIN us = 1..Len(us)
      /\ \A i \in 1..Len(us) : us[i] = ts[i + 1] /\ i + 1 \in 1..Len(ts)
  BY <1>1, <1>2, SeqFacts
<1> HIDE DEF us
<1>4. Without(ts, 1, us)
  BY <1>1, <1>3 DEF Without
<1>5. PartOf(us, ts)
  BY <1>1, <1>4, WithoutIsPart
<1>6. ASSUME NEW x \in In(ts) PROVE x = ts[1] \/ x \in In(us)
  <2>1. PICK i \in 1..Len(ts) : x = ts[i]
    BY <1>1 DEF In
  <2>2. CASE i # 1
    <3>1. i - 1 \in 1..Len(us) /\ us[i - 1] = ts[(i - 1) + 1] /\ (i - 1) + 1 = i
      BY <1>1, <1>3, <2>2
    <3>q. QED
      BY <1>3, <2>1, <3>1 DEF In
  <2>q. QED
    BY <2>1, <2>2
<1>7. ts[1] \in In(ts)
  BY <1>1 DEF In
<1>8. In(ts) = In(us) \cup {ts[1]}
  BY <1>5, <1>6, <1>7 DEF PartOf
<1>9. \A x \in In(ts) : ts[1].expire <= x.expire
  <2>1. ts[1].expire <= ts[1].expire
    BY <1>1, TaskFacts
  <2>2. \A i \in 1..Len(ts) : ts[1].expire <= ts[i].expire
    BY <1>1, <2>1 DEF Sorted
  <2>q. QED
    BY <1>1, <2>2 DEF In
<1>10. \A x \in In(us) : x.serial # ts[1].serial
  <2>1. \A i \in 1..Len(us) : us[i].serial # ts[1].serial
    <3>1. \A i \in 1..Len(us) : i + 1 # 1
      BY <1>1, <1>3
    <3>q. QED
      BY <1>1, <1>3, <3>1 DEF Unique
  <2>q. QED
    BY <1>3, <2>1 DEF In
<1>q. QED
  BY <1>1, <1>5, <1>8, <1>9, <1>10 DEF us

-----------------------------------------------------------------------------
(* The inductive invariant. *)

(* The thread: it runs a task that is due, and does not wait afterwards. *)
TqThread ==
  /\ pc = "run" => cur.expire <= now + DEVIATION
  /\ pc \in {"run", "insert"} => timeout = 0
  /\ pc = "wait" => timeout # 0
  /\ stopPc = "stopped" => pc = "done"

(* A serial number is that of one task, wherever it is. *)
InAdd == {c \in Clients : cpc[c] \in {"expire", "insert"}}
TqNumbers ==
  /\ cur.serial <= added
  /\ \A x \in In(tasks) : x.serial <= added /\ x.serial # cur.serial
  /\ \A c \in InAdd :
       /\ ctask[c].serial <= added /\ ctask[c].serial # cur.serial
       /\ \A x \in In(tasks) : x.serial # ctask[c].serial
       /\ \A d \in InAdd : d # c => ctask[d].serial # ctask[c].serial

(* Unless somebody has woken the thread or is about to, it is out of its   *)
(* loop, will look at the list first, or waits for no task for too long;   *)
(* and there is no task if it is not started.                              *)
TqAwake ==
  ~signaled /\ (\A c \in Clients : cpc[c] # "post") =>
    \A x \in In(tasks) :
      /\ stopPc # "stopped"
      /\ pc \in {"loop", "wait"} => timeout = 0 \/ (timeout > 0 /\ checked + timeout <= x.expire)

TqInv == TypeOK /\ Sorted(tasks) /\ Unique(tasks) /\ TqThread /\ TqNumbers /\ TqAwake

LEMMA TqInitInv == Init => TqInv
<1> SUFFICES ASSUME Init PROVE TqInv
  OBVIOUS
<1>1. TypeOK
  <2>1. tasks \in Seq(Tasks)
    BY EmptySeq DEF Init
  <2>2. now \in 0..MaxTime /\ checked \in 0..MaxTime /\ added \in 0..MaxAdds
    BY ParametersAssumption DEF Init
  <2>3. /\ ctask \in [Clients -> Tasks \cup {NoTask}]
        /\ cpc \in [Clients -> {"idle", "expire", "insert", "post"}]
        /\ \A c \in Clients : cpc[c] = "idle" <=> ctask[c] = NoTask
    BY DEF Init
  <2>4. timeout \in Nat \cup {-1} /\ deadline \in Nat
    BY DEF Init
  <2>q. QED
    BY <2>1, <2>2, <2>3, <2>4 DEF Init, TypeOK
<1>2. In(tasks) = {} /\ Sorted(tasks) /\ Unique(tasks)
  BY DEF Init, In, Sorted, Unique
<1>3. TqThread /\ TqNumbers /\ TqAwake
  BY <1>2, ParametersAssumption DEF Init, TqThread, TqNumbers, TqAwake, InAdd, NoTask
<1>q. QED
  BY <1>1, <1>2, <1>3 DEF TqInv

(* A step that at most takes tasks out of the list. *)
LEMMA PartKeeps ==
  TqInv /\ PartOf(tasks', tasks) /\ cleared' \in BOOLEAN
  /\ UNCHANGED <<now, signaled, canExit, threadVars, clientVars, stopPc>> => TqInv'
<1> SUFFICES ASSUME TqInv, PartOf(tasks', tasks), cleared' \in BOOLEAN,
                    UNCHANGED <<now, signaled, canExit, threadVars, clientVars, stopPc>>
             PROVE  TqInv'
  OBVIOUS
<1> USE DEF TqInv, threadVars, clientVars
<1>1. TypeOK'
  BY DEF TypeOK, PartOf
<1>2. Sorted(tasks') /\ Unique(tasks') /\ In(tasks') \subseteq In(tasks)
  BY DEF PartOf
<1>3. TqThread' /\ TqNumbers' /\ TqAwake'
  BY <1>2 DEF TqThread, TqNumbers, TqAwake, InAdd
<1>q. QED
  BY <1>1, <1>2, <1>3

(* What the invariant says of the tasks on their way. *)
LEMMA TqFacts ==
  ASSUME TqInv
  PROVE  /\ tasks \in Seq(Tasks) /\ In(tasks) \subseteq Tasks
         /\ \A c \in InAdd : ctask[c] \in Tasks
         /\ added \in Nat /\ added <= MaxAdds /\ cur.serial \in Int
<1>1. tasks \in Seq(Tasks) /\ In(tasks) \subseteq Tasks
  BY SeqFacts DEF TqInv, TypeOK, In
<1>2. \A c \in InAdd : ctask[c] \in Tasks
  BY DEF TqInv, TypeOK, InAdd
<1>3. added \in Nat /\ added <= MaxAdds /\ cur.serial \in Int
  BY ParametersAssumption, TaskFacts DEF TqInv, TypeOK, NoTask
<1>q. QED
  BY <1>1, <1>2, <1>3

LEMMA AddRemoveInv ==
  \A c \in Clients, id \in Ids, interval \in Intervals, repeat \in BOOLEAN :
    TqInv /\ AddRemove(c, id, interval, repeat) => TqInv'
<1> SUFFICES ASSUME NEW c \in Clients, NEW id \in Ids, NEW interval \in Intervals,
                    NEW repeat \in BOOLEAN, TqInv, AddRemove(c, id, interval, repeat)
             PROVE  TqInv'
  OBVIOUS
<1> DEFINE t == [id |-> id, interval |-> interval, repeat |-> repeat, expire |-> interval,
                 serial |-> added + 1]
<1>1. PartOf(tasks', tasks)
  BY TqFacts, RemovedIsPart DEF AddRemove
<1>2. t \in Tasks /\ added + 1 \in 1..MaxAdds /\ t.serial = added + 1 /\ t # NoTask
  <2>1. added + 1 \in 1..MaxAdds
    BY TqFacts, ParametersAssumption DEF AddRemove
  <2>2. interval \in Times
    BY ParametersAssumption DEF Times
  <2>q. QED
    BY <2>1, <2>2, TaskFacts DEF Tasks
<1> HIDE DEF t
<1>3. /\ cpc[c] = "idle" /\ cpc' = [cpc EXCEPT ![c] = "expire"]
      /\ ctask' = [ctask EXCEPT ![c] = t] /\ added' = added + 1
      /\ UNCHANGED <<now, signaled, canExit, pc, cur, timeout, checked, deadline, stopPc, cleared>>
  BY DEF AddRemove, t, threadVars
<1>4. /\ cpc \in [Clients -> {"idle", "expire", "insert", "post"}]
      /\ ctask \in [Clients -> Tasks \cup {NoTask}]
  BY DEF TqInv, TypeOK
<1>5. TypeOK'
  BY <1>1, <1>2, <1>3 DEF TqInv, TypeOK, PartOf
<1>6. Sorted(tasks') /\ Unique(tasks') /\ In(tasks') \subseteq In(tasks)
  BY <1>1 DEF TqInv, PartOf
<1>7. TqThread' /\ TqAwake'
  BY <1>3, <1>4, <1>6 DEF TqInv, TqThread, TqAwake
<1>8. InAdd' = InAdd \cup {c} /\ c \notin InAdd /\ ctask'[c] = t /\ \A d \in InAdd : ctask'[d] = ctask[d]
  BY <1>3, <1>4 DEF InAdd
<1>9. TqNumbers'
  <2>1. cur'.serial <= added' /\ \A x \in In(tasks') : x.serial <= added' /\ x.serial # cur'.serial
    BY <1>3, <1>6, TqFacts, TaskFacts DEF TqInv, TqNumbers
  <2>2. ASSUME NEW d \in InAdd'
        PROVE  /\ ctask'[d].serial <= added' /\ ctask'[d].serial # cur'.serial
               /\ \A x \in In(tasks') : x.serial # ctask'[d].serial
               /\ \A e \in InAdd' : e # d => ctask'[e].serial # ctask'[d].serial
    <3>0. \A e \in InAdd : ctask[e].serial <= added /\ ctask[e].serial \in Int
      BY TqFacts, TaskFacts DEF TqInv, TqNumbers
    <3>1. CASE d = c
      <4>1. ctask'[d].serial = added + 1 /\ added + 1 <= added'
        BY <1>2, <1>3, <1>8, <3>1, TqFacts
      <4>2. added + 1 # cur'.serial
        BY <1>3, TqFacts DEF TqInv, TqNumbers
      <4>3. \A x \in In(tasks') : x.serial # added + 1
        BY <1>6, TqFacts, TaskFacts DEF TqInv, TqNumbers
      <4>4. \A e \in InAdd' : e # d => ctask'[e].serial # added + 1
        BY <1>8, <3>0, <3>1, TqFacts
      <4>q. QED
        BY <4>1, <4>2, <4>3, <4>4
    <3>2. CASE d # c
      <4>1. d \in InAdd /\ ctask'[d] = ctask[d]
        BY <1>8, <3>2
      <4>2. ctask[d].serial <= added' /\ ctask[d].serial # cur'.serial
        BY <1>3, <3>0, <4>1, TqFacts DEF TqInv, TqNumbers
      <4>3. \A x \in In(tasks') : x.serial # ctask[d].serial
        BY <1>6, <4>1 DEF TqInv, TqNumbers
      <4>4. added + 1 # ctask[d].serial
        BY <3>0, <4>1, TqFacts
      <4>5. \A e \in InAdd' : e # d => ctask'[e].serial # ctask[d].serial
        BY <1>2, <1>8, <4>1, <4>4 DEF TqInv, TqNumbers
      <4>q. QED
        BY <4>1, <4>2, <4>3, <4>5
    <3>q. QED
      BY <3>1, <3>2
  <2>q. QED
    BY <2>1, <2>2 DEF TqNumbers
<1>q. QED
  BY <1>5, <1>6, <1>7, <1>9 DEF TqInv

LEMMA AddExpireInv == \A c \in Clients : TqInv /\ AddExpire(c) => TqInv'
<1> SUFFICES ASSUME NEW c \in Clients, TqInv, AddExpire(c) PROVE TqInv'
  OBVIOUS
<1> USE DEF TqInv
<1>1. /\ cpc[c] = "expire" /\ cpc' = [cpc EXCEPT ![c] = "insert"]
      /\ ctask' = [ctask EXCEPT ![c].expire = ctask[c].interval + now]
      /\ UNCHANGED <<now, tasks, signaled, canExit, pc, cur, timeout, checked, deadline, added,
                     stopPc, cleared>>
  BY DEF AddExpire, threadVars
<1>2. /\ cpc \in [Clients -> {"idle", "expire", "insert", "post"}]
      /\ ctask \in [Clients -> Tasks \cup {NoTask}] /\ now \in 0..MaxTime
  BY DEF TypeOK
<1>3. ctask[c] \in Tasks /\ ctask[c].interval \in Intervals
  BY <1>1, <1>2, TqFacts, TaskFacts DEF InAdd
<1>4. ctask[c].interval + now \in Times
  <2>1. ctask[c].interval \in 0..MaxInterval
    BY <1>3, ParametersAssumption
  <2>q. QED
    BY <1>2, <2>1, ParametersAssumption DEF Times
<1>5. /\ ctask'[c] \in Tasks /\ ctask'[c].serial = ctask[c].serial
      /\ \A d \in Clients : d # c => ctask'[d] = ctask[d]
      /\ ctask' \in [Clients -> Tasks \cup {NoTask}]
  BY <1>1, <1>2, <1>3, <1>4 DEF Tasks
<1>6. \A d \in Clients : cpc'[d] = "idle" <=> ctask'[d] = NoTask
  BY <1>1, <1>2, <1>5, TaskFacts DEF TypeOK
<1>7. TypeOK'
  BY <1>1, <1>2, <1>5, <1>6 DEF TypeOK
<1>8. TqThread' /\ TqAwake'
  BY <1>1, <1>2 DEF TqThread, TqAwake
<1>9. InAdd' = InAdd /\ \A d \in InAdd : ctask'[d].serial = ctask[d].serial
  BY <1>1, <1>2, <1>5 DEF InAdd
<1>10. TqNumbers'
  BY <1>1, <1>9 DEF TqNumbers
<1>q. QED
  BY <1>1, <1>7, <1>8, <1>10

LEMMA AddInsertInv == \A c \in Clients : TqInv /\ AddInsert(c) => TqInv'
<1> SUFFICES ASSUME NEW c \in Clients, TqInv, AddInsert(c) PROVE TqInv'
  OBVIOUS
<1> USE DEF TqInv
<1>1. /\ cpc[c] = "insert" /\ cpc' = [cpc EXCEPT ![c] = "post"]
      /\ tasks' \in Inserted(tasks, ctask[c]) /\ c \in InAdd
      /\ UNCHANGED <<now, signaled, canExit, pc, cur, timeout, checked, deadline, ctask, added,
                     stopPc, cleared>>
  BY DEF AddInsert, threadVars, InAdd
<1>2. cpc \in [Clients -> {"idle", "expire", "insert", "post"}]
  BY DEF TypeOK
<1>3. ctask[c] \in Tasks /\ \A x \in In(tasks) : x.serial # ctask[c].serial
  BY <1>1, TqFacts DEF TqNumbers
<1>4. tasks' \in Seq(Tasks) /\ In(tasks') = In(tasks) \cup {ctask[c]} /\ Sorted(tasks') /\ Unique(tasks')
  BY <1>1, <1>3, TqFacts, InsertedKeeps
<1>5. TypeOK'
  BY <1>1, <1>2, <1>4 DEF TypeOK
<1>6. TqThread'
  BY <1>1 DEF TqThread
<1>7. TqAwake'
  BY <1>1, <1>2 DEF TqAwake
<1>8. InAdd' = InAdd \ {c}
  BY <1>1, <1>2 DEF InAdd
<1>9. TqNumbers'
  BY <1>1, <1>4, <1>8 DEF TqNumbers
<1>q. QED
  BY <1>4, <1>5, <1>6, <1>7, <1>9

LEMMA AddPostInv == \A c \in Clients : TqInv /\ AddPost(c) => TqInv'
<1> SUFFICES ASSUME NEW c \in Clients, TqInv, AddPost(c) PROVE TqInv'
  OBVIOUS
<1> USE DEF TqInv
<1>1. /\ cpc[c] = "post" /\ cpc' = [cpc EXCEPT ![c] = "idle"] /\ signaled' = TRUE
      /\ ctask' = [ctask EXCEPT ![c] = NoTask]
      /\ UNCHANGED <<now, tasks, canExit, pc, cur, timeout, checked, deadline, added,
                     stopPc, cleared>>
  BY DEF AddPost, threadVars
<1>2. /\ cpc \in [Clients -> {"idle", "expire", "insert", "post"}]
      /\ ctask \in [Clients -> Tasks \cup {NoTask}]
  BY DEF TypeOK
<1>3. TypeOK'
  BY <1>1, <1>2 DEF TypeOK
<1>4. TqThread' /\ TqAwake'
  BY <1>1 DEF TqThread, TqAwake
<1>5. InAdd' = InAdd /\ \A d \in InAdd : ctask'[d] = ctask[d]
  BY <1>1, <1>2 DEF InAdd
<1>6. TqNumbers'
  BY <1>1, <1>5 DEF TqNumbers
<1>q. QED
  BY <1>1, <1>3, <1>4, <1>6

LEMMA TakenAwayInv == \A id \in Ids : TqInv /\ (Cancel(id) \/ Clear) => TqInv'
<1> SUFFICES ASSUME NEW id \in Ids, TqInv, Cancel(id) \/ Clear PROVE TqInv'
  OBVIOUS
<1>1. cleared \in BOOLEAN
  BY DEF TqInv, TypeOK
<1>2. CASE Cancel(id)
  BY <1>1, <1>2, TqFacts, RemovedIsPart, PartKeeps DEF Cancel
<1>3. CASE Clear
  BY <1>3, TqFacts, EmptyIsPart, PartKeeps DEF Clear
<1>q. QED
  BY <1>2, <1>3

LEMMA StartStopInv == TqInv /\ (Create \/ StopFlag \/ StopPost \/ StopJoin) => TqInv'
<1> SUFFICES ASSUME TqInv, Create \/ StopFlag \/ StopPost \/ StopJoin PROVE TqInv'
  OBVIOUS
<1> USE DEF TqInv
<1>1. CASE Create
  <2>1. TypeOK'
    BY <1>1 DEF Create, TypeOK, TqThread, clientVars
  <2>2. TqThread' /\ TqAwake'
    BY <1>1 DEF Create, TqThread, TqAwake, clientVars
  <2>3. TqNumbers'
    BY <1>1 DEF Create, TqNumbers, InAdd, clientVars
  <2>q. QED
    BY <1>1, <2>1, <2>2, <2>3 DEF Create
<1>2. CASE StopFlag \/ StopPost
  <2>1. TypeOK'
    BY <1>2 DEF StopFlag, StopPost, TypeOK, threadVars, clientVars
  <2>2. TqThread' /\ TqAwake'
    BY <1>2 DEF StopFlag, StopPost, TqThread, TqAwake, threadVars, clientVars
  <2>3. TqNumbers'
    BY <1>2 DEF StopFlag, StopPost, TqNumbers, InAdd, threadVars, clientVars
  <2>q. QED
    BY <1>2, <2>1, <2>2, <2>3 DEF StopFlag, StopPost
<1>3. CASE StopJoin
  <2>0. tasks' = <<>> /\ In(tasks') = {} /\ Sorted(tasks') /\ Unique(tasks')
    BY <1>3 DEF StopJoin, In, Sorted, Unique
  <2>1. TypeOK'
    BY <1>3, <2>0, EmptySeq DEF StopJoin, TypeOK, threadVars, clientVars
  <2>2. TqThread' /\ TqAwake'
    BY <1>3, <2>0 DEF StopJoin, TqThread, TqAwake, threadVars, clientVars
  <2>3. TqNumbers'
    BY <1>3, <2>0 DEF StopJoin, TqNumbers, InAdd, threadVars, clientVars
  <2>q. QED
    BY <2>0, <2>1, <2>2, <2>3
<1>q. QED
  BY <1>1, <1>2, <1>3

LEMMA WaitInv == TqInv /\ (Loop \/ Wake \/ WakeSpuriously \/ Quit \/ Tick) => TqInv'
<1> SUFFICES ASSUME TqInv, Loop \/ Wake \/ WakeSpuriously \/ Quit \/ Tick PROVE TqInv'
  OBVIOUS
<1> USE DEF TqInv
<1>1. /\ UNCHANGED <<tasks, canExit, cur, timeout, clientVars, stopPc, cleared>>
      /\ now' \in {now, now + 1}
  BY DEF Loop, Wake, WakeSpuriously, Quit, Tick, threadVars
<1>2. TypeOK'
  <2>1. now' \in 0..MaxTime
    BY ParametersAssumption DEF TypeOK, Loop, Wake, WakeSpuriously, Quit, Tick
  <2>2. deadline' \in Nat /\ checked' \in 0..MaxTime /\ signaled' \in BOOLEAN
    <3>1. /\ now \in Nat /\ 0 \in 0..MaxTime /\ checked \in 0..MaxTime /\ deadline \in Nat
          /\ signaled \in BOOLEAN /\ timeout \in Int /\ 0 \in Nat
      BY ParametersAssumption DEF TypeOK
    <3>2. timeout > 0 => now + timeout \in Nat
      BY <3>1
    <3>3. CASE Loop
      BY <3>1, <3>2, <3>3 DEF Loop
    <3>4. CASE WakeSpuriously
      BY <3>1, <3>2, <3>4 DEF WakeSpuriously
    <3>5. CASE Wake \/ Quit \/ Tick
      BY <3>1, <3>5 DEF Wake, Quit, Tick, threadVars
    <3>q. QED
      BY <3>3, <3>4, <3>5
  <2>3. /\ pc' \in {"loop", "wait", "check", "run", "insert", "done"}
        /\ pc' \in {"run", "insert"} <=> cur # NoTask
    BY DEF TypeOK, Loop, Wake, WakeSpuriously, Quit, Tick, threadVars
  <2>q. QED
    BY <1>1, <2>1, <2>2, <2>3 DEF TypeOK, clientVars
<1>3. TqThread'
  BY TqFacts, TaskFacts, ParametersAssumption
     DEF TypeOK, TqThread, Loop, Wake, WakeSpuriously, Quit, Tick, threadVars
<1>4. TqNumbers'
  BY <1>1 DEF TqNumbers, InAdd, clientVars
<1>5. TqAwake'
  BY <1>1 DEF TypeOK, TqThread, TqAwake, clientVars, Loop, Wake, WakeSpuriously, Quit, Tick, threadVars
<1>q. QED
  BY <1>1, <1>2, <1>3, <1>4, <1>5

LEMMA CheckoutFrontInv == TqInv /\ CheckoutFront => TqInv'
<1> SUFFICES ASSUME TqInv, CheckoutFront PROVE TqInv'
  OBVIOUS
<1> USE DEF TqInv
<1>1. /\ pc = "check" /\ pc' = "run" /\ timeout' = 0
      /\ tasks # <<>> /\ Head(tasks).expire <= now + DEVIATION
      /\ cur' = Head(tasks) /\ tasks' = Tail(tasks)
      /\ UNCHANGED <<now, signaled, canExit, checked, deadline, cpc, ctask, added, stopPc, cleared>>
  BY DEF CheckoutFront, clientVars
<1>2. /\ PartOf(tasks', tasks) /\ cur' \in Tasks /\ cur' \in In(tasks)
      /\ \A x \in In(tasks') : x.serial # cur'.serial
  BY <1>1, TqFacts, HeadAndTail
<1>3. Sorted(tasks') /\ Unique(tasks') /\ In(tasks') \subseteq In(tasks) /\ tasks' \in Seq(Tasks)
  BY <1>2 DEF PartOf
<1>4. TypeOK'
  BY <1>1, <1>2, <1>3, TaskFacts DEF TypeOK
<1>5. TqThread' /\ TqAwake'
  BY <1>1, <1>3 DEF TqThread, TqAwake
<1>6. TqNumbers'
  BY <1>1, <1>2, <1>3 DEF TqNumbers, InAdd
<1>q. QED
  BY <1>3, <1>4, <1>5, <1>6

LEMMA CheckoutNothingInv == TqInv /\ CheckoutNothing => TqInv'
<1> SUFFICES ASSUME TqInv, CheckoutNothing PROVE TqInv'
  OBVIOUS
<1> USE DEF TqInv
<1>1. /\ pc = "check" /\ pc' = "loop" /\ checked' = now
      /\ tasks # <<>> => Head(tasks).expire > now + DEVIATION
      /\ timeout' = IF tasks = <<>> THEN -1 ELSE Head(tasks).expire - now
      /\ UNCHANGED <<now, tasks, signaled, canExit, cur, deadline, cpc, ctask, added, stopPc, cleared>>
  BY DEF CheckoutNothing, clientVars
<1>2. now \in 0..MaxTime /\ now \in Int /\ DEVIATION \in Nat
  BY ParametersAssumption DEF TypeOK
<1>3. tasks # <<>> =>
        /\ timeout' \in Nat /\ timeout' > 0
        /\ \A x \in In(tasks) : checked' + timeout' <= x.expire
  <2>1. SUFFICES ASSUME tasks # <<>>
                 PROVE  /\ timeout' \in Nat /\ timeout' > 0
                        /\ \A x \in In(tasks) : checked' + timeout' <= x.expire
    OBVIOUS
  <2>2. Head(tasks).expire \in Int /\ \A x \in In(tasks) : Head(tasks).expire <= x.expire
    BY <2>1, TqFacts, HeadAndTail, TaskFacts
  <2>3. checked' + timeout' = Head(tasks).expire /\ timeout' \in Nat /\ timeout' > 0
    BY <1>1, <1>2, <2>1, <2>2
  <2>q. QED
    BY <2>2, <2>3
<1>4. tasks = <<>> => In(tasks) = {} /\ timeout' = -1
  BY <1>1 DEF In
<1>5. TypeOK'
  BY <1>1, <1>2, <1>3, <1>4 DEF TypeOK
<1>6. TqThread'
  BY <1>1 DEF TqThread
<1>7. TqAwake'
  BY <1>1, <1>3, <1>4 DEF TqAwake, TqThread
<1>8. TqNumbers'
  BY <1>1 DEF TqNumbers, InAdd
<1>q. QED
  BY <1>1, <1>5, <1>6, <1>7, <1>8

LEMMA RunTaskInv ==
  \A goOn \in BOOLEAN, interval \in Intervals : TqInv /\ RunTask(goOn, interval) => TqInv'
<1> SUFFICES ASSUME NEW goOn \in BOOLEAN, NEW interval \in Intervals, TqInv,
                    RunTask(goOn, interval)
             PROVE  TqInv'
  OBVIOUS
<1> USE DEF TqInv
<1>0. /\ pc = "run" /\ timeout = 0 /\ cur.expire <= now + DEVIATION
      /\ UNCHANGED <<now, tasks, signaled, canExit, timeout, checked, deadline, cpc, ctask, added,
                     stopPc>>
  BY DEF RunTask, TqThread, clientVars
<1>1. CASE goOn /\ cur.repeat
  <2> DEFINE e == IF cur.expire + interval < now THEN now + interval ELSE cur.expire + interval
  <2>1. cur \in Tasks /\ now \in 0..MaxTime /\ cur.expire \in Times
    BY <1>0, TaskFacts DEF TypeOK
  <2>2. e \in Times
    <3>1. interval \in 0..MaxInterval /\ cur.expire \in Nat
      BY <2>1, ParametersAssumption DEF Times
    <3>q. QED
      BY <1>0, <2>1, <3>1, ParametersAssumption DEF Times
  <2>3. cur' = [cur EXCEPT !.interval = interval, !.expire = e] /\ pc' = "insert" /\ cleared' = cleared
    BY <1>1 DEF RunTask
  <2> HIDE DEF e
  <2>4. cur' \in Tasks /\ cur'.serial = cur.serial
    BY <2>1, <2>2, <2>3 DEF Tasks
  <2>5. TypeOK'
    BY <1>0, <2>3, <2>4, TaskFacts DEF TypeOK
  <2>6. TqThread' /\ TqAwake'
    BY <1>0, <2>3 DEF TqThread, TqAwake
  <2>7. TqNumbers'
    BY <1>0, <2>4 DEF TqNumbers, InAdd
  <2>q. QED
    BY <1>0, <2>5, <2>6, <2>7
<1>2. CASE ~(goOn /\ cur.repeat)
  <2>1. cur' = NoTask /\ pc' = "loop" /\ cleared' = FALSE
    BY <1>2 DEF RunTask
  <2>2. TypeOK'
    BY <1>0, <2>1 DEF TypeOK
  <2>3. TqThread' /\ TqAwake'
    BY <1>0, <2>1 DEF TqThread, TqAwake
  <2>4. TqNumbers'
    <3>1. NoTask.serial = 0
      BY DEF NoTask
    <3>q. QED
      BY <1>0, <2>1, <3>1, TqFacts, TaskFacts DEF TqNumbers, InAdd
  <2>q. QED
    BY <1>0, <2>2, <2>3, <2>4
<1>q. QED
  BY <1>1, <1>2

LEMMA ReinsertInv == TqInv /\ Reinsert => TqInv'
<1> SUFFICES ASSUME TqInv, Reinsert PROVE TqInv'
  OBVIOUS
<1> USE DEF TqInv
<1>0. /\ pc = "insert" /\ pc' = "loop" /\ timeout = 0 /\ cur' = NoTask /\ cleared' = FALSE
      /\ tasks' \in Inserted(tasks, cur)
      /\ UNCHANGED <<now, signaled, canExit, timeout, checked, deadline, cpc, ctask, added, stopPc>>
  BY DEF Reinsert, TqThread, clientVars
<1>1. cur \in Tasks /\ \A x \in In(tasks) : x.serial # cur.serial
  BY <1>0 DEF TypeOK, TqNumbers
<1>2. tasks' \in Seq(Tasks) /\ In(tasks') = In(tasks) \cup {cur} /\ Sorted(tasks') /\ Unique(tasks')
  BY <1>0, <1>1, TqFacts, InsertedKeeps
<1>3. TypeOK'
  BY <1>0, <1>2 DEF TypeOK
<1>4. TqThread'
  BY <1>0 DEF TqThread
<1>5. TqAwake'
  <2>1. stopPc # "stopped"
    BY <1>0 DEF TqThread
  <2>q. QED
    BY <1>0, <2>1 DEF TqAwake
<1>6. TqNumbers'
  <2>1. cur'.serial = 0
    BY <1>0 DEF NoTask
  <2>2. cur.serial <= added /\ \A x \in In(tasks) : x.serial <= added
    BY DEF TqNumbers
  <2>3. \A c \in InAdd : ctask[c].serial # 0 /\ ctask[c].serial # cur.serial
    BY TqFacts, TaskFacts DEF TqNumbers
  <2>4. \A x \in In(tasks') : x.serial # 0 /\ x.serial <= added
    BY <1>1, <1>2, <2>2, TqFacts, TaskFacts
  <2>5. 0 <= added'
    BY <1>0, TqFacts
  <2>q. QED
    BY <1>0, <1>2, <2>1, <2>3, <2>4, <2>5 DEF TqNumbers, InAdd
<1>q. QED
  BY <1>2, <1>3, <1>4, <1>5, <1>6

LEMMA TqNextInv == TqInv /\ [Next]_vars => TqInv'
<1> SUFFICES ASSUME TqInv, [Next]_vars PROVE TqInv'
  OBVIOUS
<1>1. ASSUME NEW c \in Clients, Client(c) PROVE TqInv'
  BY <1>1, AddRemoveInv, AddExpireInv, AddInsertInv, AddPostInv DEF Client
<1>2. ASSUME NEW id \in Ids, Cancel(id) PROVE TqInv'
  BY <1>2, TakenAwayInv
<1>3. CASE Clear
  <2>1. cleared' \in BOOLEAN
    BY <1>3 DEF Clear
  <2>q. QED
    BY <1>3, <2>1, TqFacts, EmptyIsPart, PartKeeps DEF Clear
<1>4. CASE Create \/ StopFlag \/ StopPost \/ StopJoin
  BY <1>4, StartStopInv
<1>5. CASE Thread
  BY <1>5, WaitInv, CheckoutFrontInv, CheckoutNothingInv, RunTaskInv, ReinsertInv DEF Thread
<1>6. CASE WakeSpuriously \/ Tick
  BY <1>6, WaitInv
<1>7. CASE UNCHANGED vars
  <2>1. TypeOK' /\ TqThread' /\ TqNumbers' /\ TqAwake' /\ Sorted(tasks') /\ Unique(tasks')
    BY <1>7 DEF TqInv, vars, threadVars, clientVars, TypeOK, TqThread, TqNumbers, TqAwake, InAdd
  <2>q. QED
    BY <2>1 DEF TqInv
<1>q. QED
  BY <1>1, <1>2, <1>3, <1>4, <1>5, <1>6, <1>7 DEF Next

LEMMA TqInvIsInvariant == Spec => []TqInv
  BY TqInitInv, TqNextInv, PTL DEF Spec

(***************************************************************************)
(* For any clients, timers, intervals and times: the list of CTimerQueue   *)
(* is sorted whoever inserts into it, and the thread never waits longer    *)
(* than the first timer allows unless somebody is about to wake it.        *)
(***************************************************************************)
THEOREM QueueInvariant == Spec => []QueueInv
<1>1. TqInv => QueueInv
  <2> SUFFICES ASSUME TqInv PROVE NoLostWakeup
    BY DEF TqInv, QueueInv
  <2>1. SUFFICES ASSUME pc = "wait", tasks # <<>>, ~signaled, \A c \in Clients : cpc[c] # "post"
                 PROVE  timeout > 0 /\ checked + timeout <= Head(tasks).expire
    BY DEF NoLostWakeup
  <2>2. Head(tasks) \in In(tasks)
    BY <2>1, TqFacts, HeadAndTail DEF TqInv
  <2>q. QED
    BY <2>1, <2>2 DEF TqInv, TqThread, TqAwake
<1>q. QED
  BY <1>1, TqInvIsInvariant, PTL

-----------------------------------------------------------------------------
(* The queue implements TimerService. *)

Armed == {[serial |-> x.serial, expire |-> x.expire] : x \in In(tasks)}
Running == IF pc \in {"run", "insert"} THEN {cur.serial} ELSE {}

LEMMA ArmedIs ==
  /\ {[serial |-> tasks[i].serial, expire |-> tasks[i].expire] : i \in DOMAIN tasks} = Armed
  /\ {[serial |-> tasks'[i].serial, expire |-> tasks'[i].expire] : i \in DOMAIN tasks'} = Armed'
  BY DEF Armed, In

LEMMA ServiceStutters == Armed' = Armed /\ Running' = Running => UNCHANGED Service!vars
  BY ArmedIs, Zenon DEF Service!vars, Running

LEMMA ServiceDisarms == Armed' \subseteq Armed /\ Running' = Running => Service!Next
<1> SUFFICES ASSUME Armed' \subseteq Armed, Running' = Running PROVE Service!Next
  OBVIOUS
<1>1. PICK T : T = Armed \ Armed'
  OBVIOUS
<1>2. T \in SUBSET Armed /\ Service!Disarm(T)
  <2>1. T \in SUBSET Armed /\ Armed' = Armed \ T
    BY <1>1
  <2>q. QED
    BY <2>1, ArmedIs DEF Service!Disarm, Running
<1>q. QED
  BY <1>2, ArmedIs DEF Service!Next

LEMMA ServiceArms ==
  ASSUME NEW x \in Tasks, Armed' = Armed \cup {[serial |-> x.serial, expire |-> x.expire]},
         Running' = Running
  PROVE  Service!Next
<1>1. [serial |-> x.serial, expire |-> x.expire] \in Service!Timers
  BY TaskFacts DEF Service!Timers
<1>2. Service!Arm([serial |-> x.serial, expire |-> x.expire])
  BY ArmedIs DEF Service!Arm, Running
<1>q. QED
  BY <1>1, <1>2 DEF Service!Next

LEMMA ServiceStarts == TqInv /\ CheckoutFront => Service!Next
<1> SUFFICES ASSUME TqInv, CheckoutFront PROVE Service!Next
  OBVIOUS
<1> DEFINE h == Head(tasks)
           t == [serial |-> h.serial, expire |-> h.expire]
<1>1. /\ Running = {} /\ Running' = {h.serial} /\ tasks' = Tail(tasks)
  BY DEF CheckoutFront, Running
<1>2. /\ h \in Tasks /\ In(tasks) = In(tasks') \cup {h}
      /\ \A x \in In(tasks) : h.expire <= x.expire
      /\ \A x \in In(tasks') : x.serial # h.serial
  BY TqFacts, HeadAndTail DEF TqInv, CheckoutFront
<1> HIDE DEF h
<1>3. t \in Service!Timers /\ t.serial = h.serial
  BY <1>2, TaskFacts DEF Service!Timers
<1>4. t \in Armed /\ \A u \in Armed : t.expire <= u.expire
  BY <1>2 DEF Armed
<1>5. Armed' = Armed \ {t}
  <2>1. Armed = Armed' \cup {t}
    BY <1>2 DEF Armed
  <2>2. t \notin Armed'
    BY <1>2 DEF Armed
  <2>q. QED
    BY <2>1, <2>2
<1> HIDE DEF t
<1>6. PICK u : u = t
  OBVIOUS
<1>7. u \in Service!Timers /\ Service!Start(u)
  BY <1>1, <1>3, <1>4, <1>5, <1>6, ArmedIs DEF Service!Start, Running
<1>q. QED
  BY <1>7 DEF Service!Next

LEMMA ServiceFinishes ==
  TqInv => /\ Reinsert => Service!Next
           /\ \A goOn \in BOOLEAN, interval \in Intervals :
                RunTask(goOn, interval) => Service!Next \/ UNCHANGED Service!vars
<1> SUFFICES ASSUME TqInv
             PROVE  /\ Reinsert => Service!Next
                    /\ \A goOn \in BOOLEAN, interval \in Intervals :
                         RunTask(goOn, interval) => Service!Next \/ UNCHANGED Service!vars
  OBVIOUS
<1>1. ASSUME Reinsert PROVE Service!Next
  <2>1. cur \in Tasks /\ \A x \in In(tasks) : x.serial # cur.serial
    BY <1>1 DEF TqInv, TypeOK, TqNumbers, Reinsert
  <2>2. In(tasks') = In(tasks) \cup {cur}
    BY <1>1, <2>1, TqFacts, InsertedKeeps DEF Reinsert
  <2>3. /\ Armed' = Armed \cup {[serial |-> cur.serial, expire |-> cur.expire]}
        /\ cur.expire \in Times /\ cur.serial \in 1..MaxAdds
    BY <2>1, <2>2, TaskFacts DEF Armed
  <2>4. Running = {cur.serial} /\ Running' = {}
    BY <1>1 DEF Running, Reinsert
  <2>5. PICK n : n = cur.serial
    OBVIOUS
  <2>6. n \in 1..MaxAdds /\ Service!Finish(n)
    BY <2>3, <2>4, <2>5, ArmedIs DEF Service!Finish, Running
  <2>q. QED
    BY <2>6 DEF Service!Next
<1>2. ASSUME NEW goOn \in BOOLEAN, NEW interval \in Intervals, RunTask(goOn, interval)
      PROVE  Service!Next \/ UNCHANGED Service!vars
  <2>1. Armed' = Armed /\ cur \in Tasks /\ Running = {cur.serial}
    BY <1>2 DEF RunTask, Armed, Running, TqInv, TypeOK
  <2>2. CASE goOn /\ cur.repeat
    <3>1. cur'.serial = cur.serial /\ pc' = "insert"
      BY <1>2, <2>1, <2>2 DEF RunTask, Tasks
    <3>2. Running' = Running
      BY <2>1, <3>1 DEF Running
    <3>q. QED
      BY <2>1, <3>2, ServiceStutters
  <2>3. CASE ~(goOn /\ cur.repeat)
    <3>1. Running' = {}
      BY <1>2, <2>3 DEF RunTask, Running
    <3>2. PICK n : n = cur.serial
      OBVIOUS
    <3>3. n \in 1..MaxAdds /\ Service!Finish(n)
      BY <2>1, <3>1, <3>2, ArmedIs, TaskFacts DEF Service!Finish, Running
    <3>q. QED
      BY <3>3 DEF Service!Next
  <2>q. QED
    BY <2>2, <2>3
<1>q. QED
  BY <1>1, <1>2

LEMMA ServiceStep == TqInv /\ [Next]_vars => [Service!Next]_Service!vars
<1> SUFFICES ASSUME TqInv, [Next]_vars PROVE Service!Next \/ UNCHANGED Service!vars
  OBVIOUS
<1>1. ASSUME NEW c \in Clients, Client(c) PROVE Service!Next \/ UNCHANGED Service!vars
  <2>1. Running' = Running
    BY <1>1 DEF Client, AddRemove, AddExpire, AddInsert, AddPost, Running, threadVars
  <2>2. ASSUME NEW id \in Ids, NEW interval \in Intervals, NEW repeat \in BOOLEAN,
               AddRemove(c, id, interval, repeat)
        PROVE  Service!Next
    <3>1. PartOf(tasks', tasks)
      BY <2>2, TqFacts, RemovedIsPart DEF AddRemove
    <3>2. Armed' \subseteq Armed
      BY <3>1 DEF PartOf, Armed
    <3>q. QED
      BY <2>1, <3>2, ServiceDisarms
  <2>3. CASE AddInsert(c)
    <3>1. c \in InAdd /\ ctask[c] \in Tasks
      BY <2>3, TqFacts DEF AddInsert, InAdd
    <3>2. In(tasks') = In(tasks) \cup {ctask[c]}
      BY <2>3, <3>1, TqFacts, InsertedKeeps DEF AddInsert
    <3>3. Armed' = Armed \cup {[serial |-> ctask[c].serial, expire |-> ctask[c].expire]}
      BY <3>2 DEF Armed
    <3>q. QED
      BY <2>1, <3>1, <3>3, ServiceArms
  <2>4. CASE AddExpire(c) \/ AddPost(c)
    <3>1. Armed' = Armed
      BY <2>4 DEF AddExpire, AddPost, Armed
    <3>q. QED
      BY <2>1, <3>1, ServiceStutters
  <2>q. QED
    BY <1>1, <2>2, <2>3, <2>4 DEF Client
<1>2. ASSUME NEW id \in Ids, Cancel(id) PROVE Service!Next
  <2>1. PartOf(tasks', tasks) /\ Running' = Running
    BY <1>2, TqFacts, RemovedIsPart DEF Cancel, Running, threadVars
  <2>q. QED
    BY <2>1, ServiceDisarms DEF PartOf, Armed
<1>3. CASE Clear \/ StopJoin
  <2>1. tasks' = <<>> /\ Running' = Running
    BY <1>3 DEF Clear, StopJoin, Running, threadVars
  <2>2. Armed' \subseteq Armed
    BY <2>1 DEF Armed, In
  <2>q. QED
    BY <2>1, <2>2, ServiceDisarms
<1>4. CASE Create \/ StopFlag \/ StopPost \/ Loop \/ Wake \/ Quit \/ CheckoutNothing
             \/ WakeSpuriously \/ Tick \/ UNCHANGED vars
  <2>1. Armed' = Armed
    BY <1>4 DEF Create, StopFlag, StopPost, Loop, Wake, Quit, CheckoutNothing, WakeSpuriously, Tick,
                Armed, vars
  <2>2. Running' = Running
    BY <1>4 DEF Create, StopFlag, StopPost, Loop, Wake, Quit, CheckoutNothing, WakeSpuriously, Tick,
                Running, vars, threadVars, TqInv, TqThread
  <2>q. QED
    BY <2>1, <2>2, ServiceStutters
<1>5. CASE CheckoutFront
  BY <1>5, ServiceStarts
<1>6. CASE Reinsert \/ \E goOn \in BOOLEAN, interval \in Intervals : RunTask(goOn, interval)
  BY <1>6, ServiceFinishes
<1>q. QED
  BY <1>1, <1>2, <1>3, <1>4, <1>5, <1>6 DEF Next, Thread

(***************************************************************************)
(* CTimerQueue implements TimerService, for any clients, timers, intervals *)
(* and times: handlers run one at a time, each of a timer that no other in *)
(* the list precedes, and a timer that ran comes back under its own number *)
(* or not at all.                                                          *)
(***************************************************************************)
THEOREM QueueImplementsService == Spec => ImplementsService
<1>1. Init => Service!Init
  BY DEF Init, Service!Init
<1>q. QED
  BY <1>1, TqInvIsInvariant, ServiceStep, PTL DEF Spec, ImplementsService, Service!Spec

-----------------------------------------------------------------------------
(* How often the list has an id. *)

Places(ts, id) == {i \in DOMAIN ts : ts[i].id = id}
Count(ts, id) == Cardinality(Places(ts, id))

LEMMA PlacesFinite ==
  ASSUME NEW ts \in Seq(Tasks), NEW id
  PROVE  IsFiniteSet(Places(ts, id)) /\ Count(ts, id) \in Nat
<1>1. Len(ts) \in Nat /\ DOMAIN ts = 1..Len(ts)
  BY SeqFacts
<1>2. IsFiniteSet(1..Len(ts)) /\ Places(ts, id) \in SUBSET (1..Len(ts))
  BY <1>1, FS_Interval DEF Places
<1>q. QED
  BY <1>2, FS_Subset, FS_CardinalityType DEF Count

LEMMA NotMore ==
  ASSUME NEW S, NEW T, IsFiniteSet(T), NEW f \in [S -> T], \A a, b \in S : f[a] = f[b] => a = b
  PROVE  IsFiniteSet(S) /\ Cardinality(S) <= Cardinality(T)
<1>1. f \in Injection(S, T)
  BY DEF Injection, IsInjective
<1>q. QED
  BY <1>1, FS_Injection

(* A task more, a place more; a task less, a place less. *)
LEMMA CountInserted ==
  ASSUME NEW ts \in Seq(Tasks), NEW t \in Tasks, NEW us \in Inserted(ts, t), NEW id
  PROVE  Count(us, id) <= Count(ts, id) + (IF t.id = id THEN 1 ELSE 0)
<1>1. PICK k \in 0..Len(ts) : us = InsertAt(ts, k + 1, t)
  BY DEF Inserted
<1>2. With(ts, k, t, us)
  BY <1>1, InsertAtIsWith
<1>3. /\ Len(ts) \in Nat /\ DOMAIN ts = 1..Len(ts) /\ k \in Int
      /\ us \in Seq(Tasks) /\ Len(us) = Len(ts) + 1 /\ DOMAIN us = 1..Len(us)
      /\ \A i \in 1..Len(us) :
           us[i] = IF i <= k THEN ts[i] ELSE IF i = k + 1 THEN t ELSE ts[i - 1]
  BY <1>2, SeqFacts DEF With
<1> DEFINE old == Places(us, id) \ {k + 1}
           f == [i \in old |-> IF i <= k THEN i ELSE i - 1]
<1>4. ASSUME NEW i \in old
      PROVE  f[i] \in Places(ts, id) /\ i \in Int /\ f[i] = (IF i <= k THEN i ELSE i - 1) /\ i # k + 1
  <2>1. i \in 1..Len(us) /\ i # k + 1 /\ us[i].id = id
    BY <1>3 DEF Places
  <2>2. f[i] = IF i <= k THEN i ELSE i - 1
    OBVIOUS
  <2> HIDE DEF f
  <2>3. f[i] \in 1..Len(ts) /\ us[i] = ts[f[i]]
    BY <1>3, <2>1, <2>2
  <2>q. QED
    BY <1>3, <2>1, <2>2, <2>3 DEF Places
<1>5. f \in [old -> Places(ts, id)]
  BY <1>4
<1> HIDE DEF f
<1>6. \A a, b \in old : f[a] = f[b] => a = b
  BY <1>3, <1>4
<1>7. IsFiniteSet(old) /\ Cardinality(old) <= Count(ts, id)
  BY <1>5, <1>6, NotMore, PlacesFinite DEF Count
<1>8. CASE t.id = id
  <2>1. Places(us, id) \subseteq old \cup {k + 1}
    OBVIOUS
  <2>2. Cardinality(old \cup {k + 1}) = Cardinality(old) + 1 /\ IsFiniteSet(old \cup {k + 1})
    BY <1>7, FS_AddElement
  <2>3. Count(us, id) <= Cardinality(old) + 1
    BY <2>1, <2>2, FS_Subset DEF Count
  <2>4. Cardinality(old) \in Nat
    BY <1>7, FS_CardinalityType
  <2>5. Count(us, id) \in Nat /\ Count(ts, id) \in Nat
    BY <1>3, PlacesFinite
  <2>q. QED
    BY <1>7, <1>8, <2>3, <2>4, <2>5
<1>9. CASE t.id # id
  <2>1. k + 1 \notin Places(us, id)
    BY <1>3, <1>9 DEF Places
  <2>2. Places(us, id) = old
    BY <2>1
  <2>3. Count(us, id) <= Count(ts, id)
    BY <1>7, <2>2, Zenon DEF Count
  <2>4. Count(us, id) \in Nat /\ Count(ts, id) \in Nat
    BY <1>3, PlacesFinite
  <2>q. QED
    BY <1>9, <2>3, <2>4
<1>q. QED
  BY <1>8, <1>9

LEMMA CountWithout ==
  ASSUME NEW ts \in Seq(Tasks), NEW k \in 1..Len(ts), NEW us, Without(ts, k, us), NEW id
  PROVE  Count(us, id) <= Count(ts, id) - (IF ts[k].id = id THEN 1 ELSE 0)
<1>1. /\ Len(ts) \in Nat /\ DOMAIN ts = 1..Len(ts) /\ k \in Int
      /\ us \in Seq(Tasks) /\ Len(us) = Len(ts) - 1 /\ DOMAIN us = 1..Len(us)
      /\ \A i \in 1..Len(us) : us[i] = IF i < k THEN ts[i] ELSE ts[i + 1]
  BY SeqFacts DEF Without
<1> DEFINE kept == Places(ts, id) \ {k}
           f == [i \in Places(us, id) |-> IF i < k THEN i ELSE i + 1]
<1>2. ASSUME NEW i \in Places(us, id)
      PROVE  f[i] \in kept /\ i \in Int /\ f[i] = (IF i < k THEN i ELSE i + 1)
  <2>1. i \in 1..Len(us) /\ us[i].id = id
    BY <1>1 DEF Places
  <2>2. f[i] = IF i < k THEN i ELSE i + 1
    OBVIOUS
  <2> HIDE DEF f
  <2>3. f[i] \in 1..Len(ts) /\ us[i] = ts[f[i]] /\ f[i] # k
    BY <1>1, <2>1, <2>2
  <2>q. QED
    BY <1>1, <2>1, <2>2, <2>3 DEF Places
<1>3. f \in [Places(us, id) -> kept]
  BY <1>2
<1> HIDE DEF f
<1>4. \A a, b \in Places(us, id) : f[a] = f[b] => a = b
  BY <1>1, <1>2
<1>5. /\ IsFiniteSet(kept)
      /\ Cardinality(kept) = IF k \in Places(ts, id) THEN Count(ts, id) - 1 ELSE Count(ts, id)
  BY PlacesFinite, FS_RemoveElement DEF Count
<1>6. Count(us, id) <= Cardinality(kept)
  BY <1>3, <1>4, <1>5, NotMore DEF Count
<1>7. k \in Places(ts, id) <=> ts[k].id = id
  BY <1>1 DEF Places
<1>q. QED
  BY <1>5, <1>6, <1>7, PlacesFinite

(* A set of naturals that is not empty has a least element. *)
LEMMA SmallestOfThem ==
  ASSUME NEW S \in SUBSET Nat, NEW n \in S
  PROVE  \E m \in S : \A j \in S : m <= j
<1>1. PICK m \in S : \A j \in S : ~(<<j, m>> \in OpToRel(<, Nat))
  BY NatLessThanWellFounded, WFMin
<1>2. ASSUME NEW j \in S PROVE m <= j
  <2>1. <<j, m>> \in Nat \X Nat /\ j \in Nat /\ m \in Nat
    OBVIOUS
  <2>2. ~(j < m)
    BY <1>1, <2>1 DEF OpToRel
  <2>q. QED
    BY <2>1, <2>2
<1>q. QED
  BY <1>2

LEMMA CountRemoved ==
  ASSUME NEW ts \in Seq(Tasks), NEW id, NEW us \in Removed(ts, id), NEW other
  PROVE  /\ Count(us, other) <= Count(ts, other)
         /\ other = id => Count(us, id) = 0 \/ Count(us, id) <= Count(ts, id) - 1
<1> DEFINE firsts == {i \in DOMAIN ts : ts[i].id = id /\ \A j \in 1..(i - 1) : ts[j].id # id}
<1>1. CASE \E k \in firsts : us = RemoveAt(ts, k)
  <2>1. PICK k \in firsts : us = RemoveAt(ts, k)
    BY <1>1
  <2>2. k \in 1..Len(ts) /\ ts[k].id = id
    BY <2>1, SeqFacts
  <2>3. Without(ts, k, us)
    BY <2>1, <2>2, RemoveAtIsWithout
  <2>4. /\ Count(us, other) <= Count(ts, other) - (IF ts[k].id = other THEN 1 ELSE 0)
        /\ Count(us, id) <= Count(ts, id) - (IF ts[k].id = id THEN 1 ELSE 0)
    BY <2>2, <2>3, CountWithout
  <2>5. us \in Seq(Tasks)
    BY <2>3 DEF Without
  <2>q. QED
    BY <2>2, <2>4, <2>5, PlacesFinite
<1>2. CASE us = ts /\ firsts = {}
  <2>1. ASSUME NEW n \in Places(ts, id) PROVE FALSE
    <3>1. /\ Places(ts, id) \subseteq Nat /\ DOMAIN ts = 1..Len(ts) /\ Len(ts) \in Nat
      BY SeqFacts DEF Places
    <3>2. PICK m \in Places(ts, id) : \A j \in Places(ts, id) : m <= j
      BY <2>1, <3>1, SmallestOfThem
    <3>3. m \in firsts
      BY <3>1, <3>2 DEF Places
    <3>q. QED
      BY <1>2, <3>3
  <2>2. Count(us, id) = 0
    BY <1>2, <2>1, FS_EmptySet DEF Count
  <2>3. Count(us, other) <= Count(ts, other)
    BY <1>2, PlacesFinite
  <2>q. QED
    BY <2>2, <2>3
<1>q. QED
  BY <1>1, <1>2 DEF Removed

-----------------------------------------------------------------------------
(* Where else a task of an id may be: with the thread, and in calls of add. *)

WithThread(id) == IF cur # NoTask /\ cur.id = id THEN 1 ELSE 0
Adding(id) == {c \in Clients : cpc[c] \in {"expire", "insert"} /\ ctask[c].id = id}

LEMMA CopiesAre ==
  \A id : /\ Copies(id) = Count(tasks, id) + WithThread(id) + Cardinality(Adding(id))
          /\ Copies(id)' = Count(tasks', id) + WithThread(id)' + Cardinality(Adding(id)')
  BY DEF Copies, Count, Places, WithThread, Adding

LEMMA AddingFinite ==
  \A id : /\ IsFiniteSet(Adding(id)) /\ IsFiniteSet(Adding(id)')
          /\ Cardinality(Adding(id)) \in 0..Cardinality(Clients)
          /\ Cardinality(Adding(id)') \in 0..Cardinality(Clients)
<1> TAKE id
<1>1. IsFiniteSet(Clients) /\ Cardinality(Clients) \in Nat
  BY ParametersAssumption, FS_CardinalityType
<1>2. Adding(id) \in SUBSET Clients /\ Adding(id)' \in SUBSET Clients
  BY DEF Adding
<1>q. QED
  BY <1>1, <1>2, FS_Subset, FS_CardinalityType

(* A step that gives the list no more tasks of the id, and none to anybody. *)
LEMMA FewerCopies ==
  ASSUME NEW id, TqInv, tasks' \in Seq(Tasks),
         Count(tasks', id) <= Count(tasks, id), WithThread(id)' <= WithThread(id),
         Adding(id)' = Adding(id), Copies(id) <= Cardinality(Clients) + 1
  PROVE  Copies(id)' <= Cardinality(Clients) + 1
<1>1. /\ Count(tasks, id) \in Nat /\ Count(tasks', id) \in Nat
      /\ Cardinality(Adding(id)) \in Nat /\ Cardinality(Adding(id)') = Cardinality(Adding(id))
      /\ WithThread(id) \in Nat /\ WithThread(id)' \in Nat /\ Cardinality(Clients) \in Nat
  BY TqFacts, PlacesFinite, AddingFinite, ParametersAssumption, FS_CardinalityType DEF WithThread
<1>q. QED
  BY <1>1, CopiesAre

LEMMA AddRemoveCopies ==
  \A c \in Clients, id \in Ids, interval \in Intervals, repeat \in BOOLEAN, other \in Ids :
    TqInv /\ AddRemove(c, id, interval, repeat) /\ Copies(other) <= Cardinality(Clients) + 1
      => Copies(other)' <= Cardinality(Clients) + 1
<1> SUFFICES ASSUME NEW c \in Clients, NEW id \in Ids, NEW interval \in Intervals,
                    NEW repeat \in BOOLEAN, NEW other \in Ids, TqInv,
                    AddRemove(c, id, interval, repeat), Copies(other) <= Cardinality(Clients) + 1
             PROVE  Copies(other)' <= Cardinality(Clients) + 1
  OBVIOUS
<1>1. /\ tasks' \in Seq(Tasks) /\ Count(tasks', other) <= Count(tasks, other)
      /\ other = id => Count(tasks', id) = 0 \/ Count(tasks', id) <= Count(tasks, id) - 1
  BY TqFacts, RemovedIsPart, CountRemoved DEF AddRemove, PartOf
<1>2. WithThread(other)' = WithThread(other)
  BY DEF AddRemove, threadVars, WithThread
<1>3. /\ cpc \in [Clients -> {"idle", "expire", "insert", "post"}]
      /\ ctask \in [Clients -> Tasks \cup {NoTask}]
      /\ cpc[c] = "idle" /\ cpc' = [cpc EXCEPT ![c] = "expire"]
      /\ ctask'[c].id = id /\ \A d \in Clients : d # c => ctask'[d] = ctask[d]
  BY DEF AddRemove, TqInv, TypeOK
<1>4. CASE other # id
  <2>1. Adding(other)' = Adding(other)
    BY <1>3, <1>4 DEF Adding
  <2>q. QED
    BY <1>1, <1>2, <2>1, FewerCopies DEF WithThread
<1>5. CASE other = id
  <2>1. Adding(id)' = Adding(id) \cup {c} /\ c \notin Adding(id)
    BY <1>3 DEF Adding
  <2>2. Cardinality(Adding(id)') = Cardinality(Adding(id)) + 1
    BY <2>1, AddingFinite, FS_AddElement
  <2>3. /\ Count(tasks, id) \in Nat /\ Count(tasks', id) \in Nat
        /\ Cardinality(Adding(id)) \in Nat /\ Cardinality(Adding(id)') <= Cardinality(Clients)
        /\ WithThread(id) \in {0, 1} /\ Cardinality(Clients) \in Nat
    BY <1>1, TqFacts, PlacesFinite, AddingFinite, ParametersAssumption, FS_CardinalityType
       DEF WithThread
  <2>q. QED
    BY <1>1, <1>2, <1>5, <2>2, <2>3, CopiesAre
<1>q. QED
  BY <1>4, <1>5

LEMMA AddInsertCopies ==
  \A c \in Clients, other \in Ids :
    TqInv /\ AddInsert(c) /\ Copies(other) <= Cardinality(Clients) + 1
      => Copies(other)' <= Cardinality(Clients) + 1
<1> SUFFICES ASSUME NEW c \in Clients, NEW other \in Ids, TqInv, AddInsert(c),
                    Copies(other) <= Cardinality(Clients) + 1
             PROVE  Copies(other)' <= Cardinality(Clients) + 1
  OBVIOUS
<1>1. c \in InAdd /\ ctask[c] \in Tasks
  BY TqFacts DEF AddInsert, InAdd
<1>2. /\ tasks' \in Seq(Tasks)
      /\ Count(tasks', other) <= Count(tasks, other) + (IF ctask[c].id = other THEN 1 ELSE 0)
  BY <1>1, TqFacts, InsertedKeeps, CountInserted DEF AddInsert
<1>3. WithThread(other)' = WithThread(other) /\ WithThread(other) \in {0, 1}
  BY DEF AddInsert, threadVars, WithThread
<1>4. /\ cpc \in [Clients -> {"idle", "expire", "insert", "post"}] /\ ctask' = ctask
      /\ cpc[c] = "insert" /\ cpc' = [cpc EXCEPT ![c] = "post"]
  BY DEF AddInsert, TqInv, TypeOK
<1>5. Adding(other)' = Adding(other) \ {c} /\ (c \in Adding(other) <=> ctask[c].id = other)
  BY <1>4 DEF Adding
<1>6. Cardinality(Adding(other)')
        = IF ctask[c].id = other THEN Cardinality(Adding(other)) - 1 ELSE Cardinality(Adding(other))
  BY <1>5, AddingFinite, FS_RemoveElement
<1>7. /\ Count(tasks, other) \in Nat /\ Count(tasks', other) \in Nat
      /\ Cardinality(Adding(other)) \in Nat /\ Cardinality(Adding(other)') \in Nat
      /\ Cardinality(Clients) \in Nat
  BY <1>2, TqFacts, PlacesFinite, AddingFinite, ParametersAssumption, FS_CardinalityType
<1>q. QED
  BY <1>2, <1>3, <1>6, <1>7, CopiesAre

LEMMA ThreadCopies ==
  \A other \in Ids :
    TqInv /\ (CheckoutFront \/ Reinsert) /\ Copies(other) <= Cardinality(Clients) + 1
      => Copies(other)' <= Cardinality(Clients) + 1
<1> SUFFICES ASSUME NEW other \in Ids, TqInv, CheckoutFront \/ Reinsert,
                    Copies(other) <= Cardinality(Clients) + 1
             PROVE  Copies(other)' <= Cardinality(Clients) + 1
  OBVIOUS
<1>1. Adding(other)' = Adding(other)
  BY DEF CheckoutFront, Reinsert, clientVars, Adding
<1>2. CASE CheckoutFront
  <2>1. cur = NoTask /\ cur' = tasks[1] /\ cur' \in Tasks /\ tasks' = Tail(tasks) /\ tasks # <<>>
    BY <1>2, TqFacts, HeadAndTail, SeqFacts DEF CheckoutFront, TqInv, TypeOK
  <2>2. Len(tasks) \in Nat \ {0} /\ 1 \in 1..Len(tasks)
    BY <2>1, TqFacts, SeqFacts, EmptySeq
  <2>3. /\ tasks' \in Seq(Tasks) /\ Len(tasks') = Len(tasks) - 1
        /\ \A i \in 1..Len(tasks') : tasks'[i] = tasks[i + 1]
    BY <2>1, TqFacts, HeadTailProperties
  <2>4. Without(tasks, 1, tasks')
    BY <2>2, <2>3 DEF Without
  <2>5. Count(tasks', other) <= Count(tasks, other) - (IF tasks[1].id = other THEN 1 ELSE 0)
    BY <2>2, <2>4, TqFacts, CountWithout
  <2>6. WithThread(other) = 0 /\ WithThread(other)' = IF tasks[1].id = other THEN 1 ELSE 0
    BY <2>1, TaskFacts DEF WithThread
  <2>7. Count(tasks, other) \in Nat /\ Count(tasks', other) \in Nat /\ Cardinality(Clients) \in Nat
        /\ Cardinality(Adding(other)) \in Nat
    BY <2>3, TqFacts, PlacesFinite, AddingFinite, ParametersAssumption, FS_CardinalityType
  <2>q. QED
    BY <1>1, <2>5, <2>6, <2>7, CopiesAre
<1>3. CASE Reinsert
  <2>1. cur \in Tasks /\ cur' = NoTask /\ tasks' \in Inserted(tasks, cur)
    BY <1>3 DEF Reinsert, TqInv, TypeOK
  <2>2. /\ tasks' \in Seq(Tasks)
        /\ Count(tasks', other) <= Count(tasks, other) + (IF cur.id = other THEN 1 ELSE 0)
    BY <2>1, TqFacts, InsertedKeeps, CountInserted
  <2>3. WithThread(other)' = 0 /\ WithThread(other) = IF cur.id = other THEN 1 ELSE 0
    BY <2>1, TaskFacts DEF WithThread
  <2>4. Count(tasks, other) \in Nat /\ Count(tasks', other) \in Nat /\ Cardinality(Clients) \in Nat
        /\ Cardinality(Adding(other)) \in Nat
    BY <2>2, TqFacts, PlacesFinite, AddingFinite, ParametersAssumption, FS_CardinalityType
  <2>q. QED
    BY <1>1, <2>2, <2>3, <2>4, CopiesAre
<1>q. QED
  BY <1>2, <1>3

LEMMA OtherCopies ==
  \A other \in Ids :
    /\ TqInv /\ Copies(other) <= Cardinality(Clients) + 1
    /\ \/ \E c \in Clients : AddExpire(c) \/ AddPost(c)
       \/ \E goOn \in BOOLEAN, interval \in Intervals : RunTask(goOn, interval)
       \/ (\E id \in Ids : Cancel(id)) \/ Clear \/ Create \/ StopFlag \/ StopPost \/ StopJoin
       \/ Loop \/ Wake \/ Quit \/ CheckoutNothing \/ WakeSpuriously \/ Tick \/ UNCHANGED vars
    => Copies(other)' <= Cardinality(Clients) + 1
<1> SUFFICES ASSUME NEW other \in Ids, TqInv, Copies(other) <= Cardinality(Clients) + 1,
                    \/ \E c \in Clients : AddExpire(c) \/ AddPost(c)
                    \/ \E goOn \in BOOLEAN, interval \in Intervals : RunTask(goOn, interval)
                    \/ (\E id \in Ids : Cancel(id)) \/ Clear \/ Create \/ StopFlag \/ StopPost
                    \/ StopJoin \/ Loop \/ Wake \/ Quit \/ CheckoutNothing \/ WakeSpuriously
                    \/ Tick \/ UNCHANGED vars
             PROVE  Copies(other)' <= Cardinality(Clients) + 1
  OBVIOUS
<1>0. /\ WithThread(other) \in {0, 1} /\ WithThread(other)' \in {0, 1} /\ tasks \in Seq(Tasks)
      /\ Count(tasks, other) \in Nat
  BY TqFacts, PlacesFinite DEF WithThread
<1>1. ASSUME NEW c \in Clients, AddExpire(c) \/ AddPost(c)
      PROVE  Copies(other)' <= Cardinality(Clients) + 1
  <2>1. tasks' = tasks /\ WithThread(other)' = WithThread(other)
    BY <1>1 DEF AddExpire, AddPost, threadVars, WithThread
  <2>2. cpc \in [Clients -> {"idle", "expire", "insert", "post"}]
        /\ ctask \in [Clients -> Tasks \cup {NoTask}]
    BY DEF TqInv, TypeOK
  <2>3. Adding(other)' = Adding(other)
    <3>1. CASE AddExpire(c)
      <4>1. ctask[c] \in Tasks
        BY <3>1, TqFacts DEF AddExpire, InAdd
      <4>2. ctask'[c].id = ctask[c].id /\ \A d \in Clients : d # c => ctask'[d] = ctask[d]
        BY <2>2, <3>1, <4>1 DEF AddExpire, Tasks
      <4>3. cpc[c] = "expire" /\ cpc' = [cpc EXCEPT ![c] = "insert"]
        BY <3>1 DEF AddExpire
      <4>q. QED
        BY <2>2, <4>2, <4>3 DEF Adding
    <3>2. CASE AddPost(c)
      BY <2>2, <3>2 DEF AddPost, Adding
    <3>q. QED
      BY <1>1, <3>1, <3>2
  <2>q. QED
    BY <1>0, <2>1, <2>3, FewerCopies
<1>2. ASSUME NEW goOn \in BOOLEAN, NEW interval \in Intervals, RunTask(goOn, interval)
      PROVE  Copies(other)' <= Cardinality(Clients) + 1
  <2>1. tasks' = tasks /\ Adding(other)' = Adding(other) /\ cur \in Tasks
    BY <1>2 DEF RunTask, clientVars, Adding, TqInv, TypeOK
  <2>2. cur' = NoTask \/ cur'.id = cur.id
    BY <1>2, <2>1 DEF RunTask, Tasks
  <2>3. WithThread(other)' <= WithThread(other)
    BY <1>0, <2>1, <2>2, TaskFacts DEF WithThread
  <2>q. QED
    BY <1>0, <2>1, <2>3, FewerCopies
<1>3. ASSUME NEW id \in Ids, Cancel(id) PROVE Copies(other)' <= Cardinality(Clients) + 1
  <2>1. tasks' \in Seq(Tasks) /\ Count(tasks', other) <= Count(tasks, other)
    BY <1>0, <1>3, RemovedIsPart, CountRemoved DEF Cancel, PartOf
  <2>2. WithThread(other)' = WithThread(other) /\ Adding(other)' = Adding(other)
    BY <1>3 DEF Cancel, threadVars, clientVars, WithThread, Adding
  <2>q. QED
    BY <1>0, <2>1, <2>2, FewerCopies
<1>4. CASE Clear \/ StopJoin
  <2>1. tasks' = <<>> /\ WithThread(other)' = WithThread(other) /\ Adding(other)' = Adding(other)
    BY <1>4 DEF Clear, StopJoin, threadVars, clientVars, WithThread, Adding
  <2>2. tasks' \in Seq(Tasks) /\ Places(tasks', other) = {}
    BY <2>1 DEF Places
  <2>3. Count(tasks', other) = 0
    BY <2>2, FS_EmptySet DEF Count
  <2>q. QED
    BY <1>0, <2>1, <2>2, <2>3, FewerCopies
<1>5. CASE Create \/ StopFlag \/ StopPost \/ Loop \/ Wake \/ Quit \/ CheckoutNothing
             \/ WakeSpuriously \/ Tick \/ UNCHANGED vars
  <2>1. UNCHANGED <<tasks, cur, cpc, ctask>>
    BY <1>5 DEF Create, StopFlag, StopPost, Loop, Wake, Quit, CheckoutNothing, WakeSpuriously, Tick,
                vars, threadVars, clientVars
  <2>2. tasks' = tasks /\ WithThread(other)' = WithThread(other) /\ Adding(other)' = Adding(other)
    BY <2>1 DEF WithThread, Adding
  <2>q. QED
    BY <1>0, <2>2, FewerCopies
<1>q. QED
  BY <1>1, <1>2, <1>3, <1>4, <1>5

(***************************************************************************)
(* However often the clients add the timer of an id, and whatever runs     *)
(* meanwhile: there are never more tasks of the id, in the list, on their  *)
(* way into it or running, than there are clients, and one.                *)
(***************************************************************************)
THEOREM DuplicatesAreBounded == Spec => []DuplicatesBounded
<1>1. Init => DuplicatesBounded
  <2> SUFFICES ASSUME Init, NEW id \in Ids PROVE Copies(id) <= Cardinality(Clients) + 1
    BY DEF DuplicatesBounded
  <2>1. Places(tasks, id) = {} /\ WithThread(id) = 0 /\ Adding(id) = {}
    BY DEF Init, Places, WithThread, Adding
  <2>2. Copies(id) = 0
    BY <2>1, CopiesAre, FS_EmptySet DEF Count
  <2>q. QED
    BY <2>2, ParametersAssumption, FS_CardinalityType
<1>2. TqInv /\ DuplicatesBounded /\ [Next]_vars => DuplicatesBounded'
  <2> SUFFICES ASSUME TqInv, DuplicatesBounded, [Next]_vars, NEW other \in Ids
               PROVE  Copies(other)' <= Cardinality(Clients) + 1
    BY DEF DuplicatesBounded
  <2>1. Copies(other) <= Cardinality(Clients) + 1
    BY DEF DuplicatesBounded
  <2>2. ASSUME NEW c \in Clients, Client(c) PROVE Copies(other)' <= Cardinality(Clients) + 1
    BY <2>1, <2>2, AddRemoveCopies, AddInsertCopies, OtherCopies DEF Client
  <2>3. CASE Thread
    BY <2>1, <2>3, ThreadCopies, OtherCopies DEF Thread
  <2>q. QED
    BY <2>1, <2>2, <2>3, OtherCopies DEF Next
<1>q. QED
  BY <1>1, <1>2, TqInvIsInvariant, PTL DEF Spec
=============================================================================
