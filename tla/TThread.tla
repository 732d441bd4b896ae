------------------------------- MODULE TThread -------------------------------
(* comn::Thread on POSIX: a thread object, the thread it starts, and the       *)
(* threads that stop and join it. TcpServer and CTimerQueue derive from it:    *)
(* their run waits in a loop for m_canExit, and their doStop wakes it by       *)
(* something that lasts, a posted event or a loop that is told to exit.        *)
EXTENDS Integers, FiniteSets

CONSTANTS
  ThCallers,     \* threads that use the object; only ThOwner may start it and join it
  ThOwner,
  ThMaxStarts    \* bound

ASSUME ThreadAssumption == ThOwner \in ThCallers /\ ThMaxStarts \in Nat

VARIABLES
  thHandle,      \* m_handle: the number of the start it belongs to, or -1
  thCanExit,     \* m_canExit
  thWork,        \* [start -> where its thread is]
  thWoken,       \* what doStop left for run
  thCall,        \* [caller -> the step of its call]
  thArg,         \* the handle that the owner passes to pthread_join
  thStarts       \* threads started

thVars == <<thHandle, thCanExit, thWork, thWoken, thCall, thArg, thStarts>>

ThRounds == 1..ThMaxStarts
ThUnused == -1
ThCalling == <<thCall, thArg, thStarts>>
ThObject == <<thHandle, thCanExit, thWoken, ThCalling>>

\* Where the thread runs code of the derived class.
ThInside == {"startup", "run", "wait", "cleanup"}

ThInit ==
  /\ thHandle = ThUnused
  /\ thCanExit = FALSE
  /\ thWork = [r \in ThRounds |-> "none"]
  /\ thWoken = FALSE
  /\ thCall = [c \in ThCallers |-> "idle"]
  /\ thArg = ThUnused
  /\ thStarts = 0

-----------------------------------------------------------------------------
(* The thread: ThreadFunction *)

ThMove(r, from, to) == thWork[r] = from /\ thWork' = [thWork EXCEPT ![r] = to]

ThBegin(r) ==
  /\ \/ thCanExit /\ ThMove(r, "begin", "forget")
     \/ ~thCanExit /\ ThMove(r, "begin", "startup")
  /\ UNCHANGED ThObject

\* startup may refuse to run.
ThStartup(r) ==
  /\ ThMove(r, "startup", "run") \/ ThMove(r, "startup", "cleanup")
  /\ UNCHANGED ThObject

\* The loop of run.
ThRun(r) ==
  /\ \/ thCanExit /\ ThMove(r, "run", "cleanup")
     \/ ~thCanExit /\ ThMove(r, "run", "wait")
  /\ UNCHANGED ThObject

ThWake(r) ==
  /\ thWoken
  /\ ThMove(r, "wait", "run")
  /\ thWoken' = FALSE
  /\ UNCHANGED <<thHandle, thCanExit, ThCalling>>

ThCleanup(r) == ThMove(r, "cleanup", "forget") /\ UNCHANGED ThObject

\* A faulty variant: the handle is given up when run ends.
ThForgetBeforeCleanup(r) ==
  /\ ThMove(r, "run", "cleanup") \/ ThMove(r, "forget", "detach")
  /\ thHandle' = ThUnused
  /\ UNCHANGED <<thCanExit, thWoken, ThCalling>>

\* m_handle = -1, and one step later the thread detaches itself.
ThForget(r) ==
  /\ ThMove(r, "forget", "detach")
  /\ thHandle' = ThUnused
  /\ UNCHANGED <<thCanExit, thWoken, ThCalling>>

ThDetach(r) == ThMove(r, "detach", "gone") /\ UNCHANGED ThObject

ThThread(r) == ThBegin(r) \/ ThStartup(r) \/ ThRun(r) \/ ThWake(r) \/ ThCleanup(r) \/ ThForget(r) \/ ThDetach(r)

-----------------------------------------------------------------------------
(* The callers *)

ThStep(c, from, to) == thCall[c] = from /\ thCall' = [thCall EXCEPT ![c] = to]

\* start, of an object whose thread is not running (TcpServer::start stops it first).
ThStart ==
  /\ thCall[ThOwner] = "idle" /\ thHandle = ThUnused
  /\ thStarts < ThMaxStarts
  /\ thStarts' = thStarts + 1
  /\ thCanExit' = FALSE
  /\ thHandle' = thStarts'
  /\ thWork' = [thWork EXCEPT ![thStarts'] = "begin"]
  /\ UNCHANGED <<thWoken, thCall, thArg>>

\* A faulty variant: run is woken before it is told to exit.
ThTryStopWakesFirst(c) ==
  /\ \/ ThStep(c, "idle", "doStop") /\ thWoken' = TRUE /\ UNCHANGED thCanExit
     \/ /\ ThStep(c, "doStop", IF c = ThOwner THEN "join" ELSE "idle")
        /\ thCanExit' = TRUE
        /\ UNCHANGED thWoken
  /\ UNCHANGED <<thHandle, thWork, thArg, thStarts>>

\* tryStop: m_canExit, then doStop. The owner's stop goes on to join.
ThTryStop(c) ==
  /\ \/ ThStep(c, "idle", "doStop") /\ thCanExit' = TRUE /\ UNCHANGED thWoken
     \/ /\ ThStep(c, "doStop", IF c = ThOwner THEN "join" ELSE "idle")
        /\ thWoken' = TRUE
        /\ UNCHANGED thCanExit
  /\ UNCHANGED <<thHandle, thWork, thArg, thStarts>>

ThBesideCalls == <<thHandle, thCanExit, thWork, thWoken, thStarts>>

\* join without stopping: main waits for the thread.
ThJoin == ThStep(ThOwner, "idle", "join") /\ UNCHANGED <<thArg, ThBesideCalls>>

\* The check of m_handle, and the argument of pthread_join, for which it is read again.
ThJoinCheck ==
  /\ ThStep(ThOwner, "join", IF thHandle = ThUnused THEN "idle" ELSE "argument")
  /\ UNCHANGED <<thArg, ThBesideCalls>>

ThJoinArgument ==
  /\ ThStep(ThOwner, "argument", "pthread_join")
  /\ thArg' = thHandle
  /\ UNCHANGED ThBesideCalls

\* A faulty variant: the thread is made detached, and pthread_join fails at once.
ThPthreadJoinAtOnce ==
  /\ ThStep(ThOwner, "pthread_join", "idle")
  /\ UNCHANGED <<thArg, ThBesideCalls>>

\* pthread_join, of -1 or of a thread that has detached itself, is undefined; of any other
\* thread it waits. A thread that is joined may still detach itself, which does nothing.
ThNotJoinable == thArg = ThUnused \/ thWork[thArg] = "gone"
ThPthreadJoin ==
  /\ ThStep(ThOwner, "pthread_join", IF ThNotJoinable THEN "undefined" ELSE "joining")
  /\ UNCHANGED <<thArg, ThBesideCalls>>

ThJoinReturns ==
  /\ ThStep(ThOwner, "joining", "idle")
  /\ thWork[thArg] = "gone"
  /\ UNCHANGED <<thArg, ThBesideCalls>>

\* The undefined call fails and join returns, or it takes the process with it (glibc looks
\* into the thread's descriptor), or it never returns.
ThUndefined ==
  /\ ThStep(ThOwner, "undefined", "idle") \/ ThStep(ThOwner, "undefined", "crashed")
  /\ UNCHANGED <<thArg, ThBesideCalls>>

ThCrashed == thCall[ThOwner] = "crashed"

ThOwnerJoins == ThJoinCheck \/ ThJoinArgument \/ ThPthreadJoin \/ ThJoinReturns

ThNext ==
  /\ ~ThCrashed
  /\ \/ \E r \in ThRounds : ThThread(r)
     \/ ThStart
     \/ \E c \in ThCallers : ThTryStop(c)
     \/ ThJoin \/ ThOwnerJoins \/ ThUndefined

ThSpec == ThInit /\ [][ThNext]_thVars

\* Threads run while the process does; a caller that entered stop goes on.
ThFairness ==
  /\ \A r \in ThRounds : WF_thVars(~ThCrashed /\ ThThread(r))
  /\ \A c \in ThCallers : WF_thVars(~ThCrashed /\ thCall[c] = "doStop" /\ ThTryStop(c))
  /\ WF_thVars(ThOwnerJoins)

-----------------------------------------------------------------------------
(* Properties *)

ThTypeOK ==
  /\ thHandle \in ThRounds \cup {ThUnused} /\ thArg \in ThRounds \cup {ThUnused}
  /\ thWork \in [ThRounds -> ThInside \cup {"none", "begin", "forget", "detach", "gone"}]
  /\ Cardinality({r \in ThRounds : thWork[r] \in ThInside}) <= 1

\* When join or stop returns, no thread that was started runs code of the derived class,
\* whose members the owner destroys next. That is so too when the thread ends between the
\* check of its handle and pthread_join, which is then called of no thread or of a detached
\* one: the call is undefined, it may crash, but it can do no harm to a thread that runs
\* (Thread::join, ThreadFunction).
ThInJoin == {"join", "argument", "pthread_join", "joining", "undefined"}
ThJoinedIsOutside ==
  [][\A c \in ThCallers : thCall[c] \in ThInJoin /\ thCall'[c] \in {"idle", "undefined", "crashed"} \ {thCall[c]}
       => \A r \in ThRounds : thWork[r] \notin ThInside \cup {"begin"}]_thVars

\* stop returns, wherever it finds the thread, between its check of m_canExit and its wait
\* too (tryStop sets m_canExit before doStop wakes it), or makes the undefined call: nothing
\* else keeps it.
ThStopEnds ==
  \A c \in ThCallers :
    thCall[c] = "doStop" ~> thCall[c] = "idle" \/ thCall[ThOwner] \in {"undefined", "crashed"}

\* The handle is given up in its place, and join returns with the thread outside the
\* derived class, an undefined pthread_join among its ends (join, stop, the end of the
\* thread).
ThSafe == []ThTypeOK /\ ThJoinedIsOutside
=============================================================================
