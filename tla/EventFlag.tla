------------------------------ MODULE EventFlag ------------------------------
(* What an auto-reset event promises: a post sets a flag, one wait takes it,   *)
(* and a wait that returns FALSE had a timeout, or was passed by a reset, and  *)
(* found the flag clear as it returned.                                        *)
CONSTANTS Threads, Timed      \* Timed: the threads whose waits have a timeout
VARIABLES flag, waits         \* waits: [thread -> "idle", "waiting", "reset"]

Init == flag = FALSE /\ waits = [t \in Threads |-> "idle"]

Post == flag' = TRUE /\ UNCHANGED waits
Reset ==
  /\ flag' = FALSE
  /\ waits' = [t \in Threads |-> IF waits[t] = "idle" THEN "idle" ELSE "reset"]
Wait(t) == waits[t] = "idle" /\ waits' = [waits EXCEPT ![t] = "waiting"] /\ UNCHANGED flag
Return(t) == waits[t] # "idle" /\ waits' = [waits EXCEPT ![t] = "idle"]
ReturnTrue(t) == flag /\ flag' = FALSE /\ Return(t)
ReturnFalse(t) == ~flag /\ (t \in Timed \/ waits[t] = "reset") /\ UNCHANGED flag /\ Return(t)

Next == Post \/ Reset \/ \E t \in Threads : Wait(t) \/ ReturnTrue(t) \/ ReturnFalse(t)
Spec == Init /\ [][Next]_<<flag, waits>>
=============================================================================
