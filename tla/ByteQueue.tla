------------------------------ MODULE ByteQueue ------------------------------
(* What a byte buffer promises: bytes leave it in the order they came, none is *)
(* lost, changed or made up; what it is given at once takes the place of all.  *)
EXTENDS Integers, Sequences

VARIABLES queue, given

Init == queue = <<>> /\ given = <<>>
Own ==
  \/ Len(queue') > Len(queue) /\ SubSeq(queue', 1, Len(queue)) = queue
  \/ \E n \in 0..Len(queue) : queue' = SubSeq(queue, n + 1, Len(queue))
Next == (Own /\ given' = <<>>) \/ queue' = given'
Spec == Init /\ [][Next]_<<queue, given>>
=============================================================================
