----------------------------- MODULE MCDecoding -----------------------------
(* What AssistData.c does with the bytes and the lock times it is given, for   *)
(* TLC, each in a part of the behaviours of its own: part says in which.       *)
EXTENDS OemFramer, CarrierLock

CONSTANTS c1, c2

(* A header of four bytes and a CRC of one. The CRC is the bytes as digits to    *)
(* the base 9; all CRCs are the digit 8, and none is in what a frame's covers.    *)
MCCrc(s) == FoldLeft(LAMBDA n, x : (9 * n) + (IF x < 8 THEN x ELSE 8), 8, s)
(* Of a CRC byte that stands where the length is, the low part is read. *)
MCLenOf(x) == x % 8
MCBodies == {<<>>, <<2>>, <<5, 6>>}

VARIABLE part

decodingVars == <<part, vars, lockVars>>

(* Only the part that moves begins with any of its states. *)
DecodingInit ==
  /\ part \in {"framer", "lock"}
  /\ Init
  /\ LockInit /\ (part # "lock" => far = FALSE)

DecodingNext ==
  /\ UNCHANGED part
  /\ \/ part = "framer" /\ Next /\ UNCHANGED lockVars
     \/ part = "lock" /\ LockNext /\ UNCHANGED vars

DecodingSpec == DecodingInit /\ [][DecodingNext]_decodingVars
=============================================================================
