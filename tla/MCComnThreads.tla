---------------------------- MODULE MCComnThreads ----------------------------
(* The threads and events of comn, its log, the directories above its files   *)
(* and the caster's sessions for TLC, each in a part of the behaviours of its  *)
(* own: part says in which.                                                    *)
EXTENDS TThread, TEvent, TSemaphore, CLog, FileDirs, Sessions

MCLogConfigs ==
  {[console |-> "on", file |-> "absent", level |-> 0, size |-> 4, count |-> 1],
   [console |-> "absent", file |-> "on", level |-> 1, size |-> LogAbsent, count |-> 2]}
MCPaths == {<<"a">>, <<"a", "b">>, <<"a", "b", "c">>, <<"d">>}

VARIABLE part

Parts == {"thread", "event", "semaphore", "posts", "log", "dirs", "sessions"}
allVars == <<part, thVars, evVars, smVars, logVars, fdVars, ssVars>>

(* Only the part that moves begins with any of its states. *)
Init ==
  /\ part \in Parts
  /\ ThInit /\ EvInit /\ SmInit /\ LogInit /\ SsInit
  /\ FdInit /\ (part # "dirs" => DOMAIN fdTree = {})

Next ==
  /\ UNCHANGED part
  /\ \/ part = "thread" /\ ThNext /\ UNCHANGED <<evVars, smVars, logVars, fdVars, ssVars>>
     \/ part = "event" /\ EvNext /\ UNCHANGED <<thVars, smVars, logVars, fdVars, ssVars>>
     \/ part = "semaphore" /\ SmSemaphoreNext /\ UNCHANGED <<thVars, evVars, logVars, fdVars, ssVars>>
     \/ part = "posts" /\ SmEventNext /\ UNCHANGED <<thVars, evVars, logVars, fdVars, ssVars>>
     \/ part = "log" /\ LogNext /\ UNCHANGED <<thVars, evVars, smVars, fdVars, ssVars>>
     \/ part = "dirs" /\ FdNext /\ UNCHANGED <<thVars, evVars, smVars, logVars, ssVars>>
     \/ part = "sessions" /\ SsNext /\ UNCHANGED <<thVars, evVars, smVars, logVars, fdVars>>

Spec == Init /\ [][Next]_allVars
FairSpec == Spec /\ ThFairness /\ SsFairness

\* Who calls stop comes back, unless a pthread_join of a thread that is gone, which may do
\* anything, takes the process or never returns; and every request of the caster is answered,
\* with one connection for three of them, but for a form that logs in where there is no
\* session (TThread, Sessions).
CallsEnd == ThStopEnds /\ SsAnswered
=============================================================================
