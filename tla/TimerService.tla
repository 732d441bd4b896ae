---------------------------- MODULE TimerService ----------------------------
(***************************************************************************)
(* What a timer queue promises its handlers: one timer runs at a time,     *)
(* always one that no armed timer precedes; a timer that ran may be armed  *)
(* again, under the same serial number.                                    *)
(***************************************************************************)
EXTENDS Integers

CONSTANTS
  Serials,          \* serial numbers of the timers
  Times             \* the times they may expire at

VARIABLES
  armed,            \* the timers waiting for their time
  running           \* the serial number of the timer whose handler runs, in a set

vars == <<armed, running>>

Timers == [serial : Serials, expire : Times]

Init == armed = {} /\ running = {}

Arm(t) == armed' = armed \cup {t} /\ UNCHANGED running

Disarm(T) == armed' = armed \ T /\ UNCHANGED running

Start(t) ==
  /\ running = {}
  /\ t \in armed /\ \A u \in armed : t.expire <= u.expire
  /\ armed' = armed \ {t}
  /\ running' = {t.serial}

Finish(n) ==
  /\ running = {n}
  /\ running' = {}
  /\ UNCHANGED armed \/ \E e \in Times : armed' = armed \cup {[serial |-> n, expire |-> e]}

Next ==
  \/ \E t \in Timers : Arm(t) \/ Start(t)
  \/ \E n \in Serials : Finish(n)
  \/ \E T \in SUBSET armed : Disarm(T)

Spec == Init /\ [][Next]_vars
=============================================================================
