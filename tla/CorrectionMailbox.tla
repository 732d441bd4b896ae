-------------------------- MODULE CorrectionMailbox --------------------------
(***************************************************************************)
(* What AgnssServer promises the subscribers of its PUB socket, per        *)
(* device: a mailbox that holds at most one correction.  Posting a newer   *)
(* correction replaces an older one that nobody has taken; taking empties  *)
(* the mailbox, so that no correction is taken twice and none is taken     *)
(* after a newer one.  A correction is known here by its serial number.    *)
(***************************************************************************)
EXTENDS Integers

CONSTANTS
  Devices,     \* device names
  MaxSerial    \* bound: last serial number

VARIABLES
  posted,      \* posted[d]: serial of the newest correction posted, 0 if none
  slot,        \* slot[d]: serial of the correction waiting, 0 if none
  taken        \* taken[d]: serial of the correction taken last, 0 if none

vars == <<posted, slot, taken>>

TypeOK ==
  /\ posted \in [Devices -> 0..MaxSerial]
  /\ slot \in [Devices -> 0..MaxSerial]
  /\ taken \in [Devices -> 0..MaxSerial]

Init ==
  /\ posted = [d \in Devices |-> 0]
  /\ slot = [d \in Devices |-> 0]
  /\ taken = [d \in Devices |-> 0]

Post(d) ==
  \E n \in (posted[d] + 1)..MaxSerial :
    /\ posted' = [posted EXCEPT ![d] = n]
    /\ slot' = [slot EXCEPT ![d] = n]
    /\ UNCHANGED taken

Take(d) ==
  /\ slot[d] # 0
  /\ taken' = [taken EXCEPT ![d] = slot[d]]
  /\ slot' = [slot EXCEPT ![d] = 0]
  /\ UNCHANGED posted

Next == \E d \in Devices : Post(d) \/ Take(d)

Spec == Init /\ [][Next]_vars

(* Whatever is posted is taken, unless a newer correction replaces it. *)
FairSpec == Spec /\ \A d \in Devices : WF_vars(Take(d))
=============================================================================
