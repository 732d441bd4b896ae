---------------------------- MODULE MCTimerQueue ----------------------------
(* Instances of CTimerQueue for TLC. *)
EXTENDS CTimerQueue, TLC

CONSTANTS c1, c2, t1, t2

Symmetry == Permutations(Clients) \cup Permutations(Ids)

(* Two additions of any timers at any time, or MaxAdds of one timer at one moment. *)
InUse == {tasks[i] : i \in DOMAIN tasks} \cup {ctask[c] : c \in {c \in Clients : cpc[c] # "idle"}}
MCBound ==
  \/ added <= 2
  \/ now = 0 /\ (\A t \in InUse : t.interval = 0) /\ Cardinality({t.id : t \in InUse}) <= 1

BoundedSpec == Init /\ [][Next /\ MCBound']_vars
=============================================================================
