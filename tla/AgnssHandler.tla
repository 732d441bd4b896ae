---------------------------- MODULE AgnssHandler ----------------------------
(***************************************************************************)
(* The caster's answers: AgnssHandler's two requests, handled on the event *)
(* loop between the steps of AgnssCaster.                                  *)
(*                                                                         *)
(* A request is whether it has all parameters, its protocol, and the items *)
(* of data_type and of gnss between the commas ("," has none).             *)
(***************************************************************************)
EXTENDS AgnssCaster

CONSTANT
  AhRequests     \* bound: the requests there are

ASSUME HandlerAssumption ==
  \A r \in AhRequests :
    r.complete \in BOOLEAN /\ r.protocol \in STRING /\ r.data_type \subseteq STRING /\ r.gnss \subseteq STRING

VARIABLES
  ahAnswer,      \* the last answer: status, parts of the text, and what was asked
  ahGiven        \* the message of the last answer that had one, in a set

ahVars == <<ahAnswer, ahGiven>>

(* What publish of AgnssServer writes of a correction, beside the numbers. *)
AhFields == {"aideph_gpsbds"}

AhRefusal(status) == [status |-> status, parts |-> {}, data_type |-> {}, gnss |-> {}]

AhInit == CaInit /\ ahAnswer = AhRefusal(0) /\ ahGiven = {}

(* A faulty variant: one good item is enough. *)
CheckCombineAny(value, valueList) == value \cap valueList # {}

CheckCombine(value, valueList) == value \subseteq valueList

DataTypes == {"eph", "alm"}
GnssList == {"gps", "bds", "glo"}

AhValid(r) ==
  /\ r.complete /\ r.protocol = "whmx"
  /\ CheckCombine(r.data_type, DataTypes) /\ CheckCombine(r.gnss, GnssList)

(* A faulty variant: the systems are those of the request. *)
AhSystemsAsked(r) == r.gnss

(* contains looks in the list of all systems, not in the request's. *)
AhSystems(r) == GnssList

(* The fields that are read of a message for the systems: both or either. *)
AhFieldsOf(systems) ==
  IF {"gps", "bds"} \subseteq systems THEN {"aidini_gpsbds", "aideph_gpsbds"}
  ELSE (IF "gps" \in systems THEN {"aidini_gps", "aideph_gps"} ELSE {})
         \cup (IF "bds" \in systems THEN {"aidini_bds", "aideph_bds"} ELSE {})

(* The parts of handleGetData's text: AIDINI, and what there is for the systems. *)
AhParts(r) == {"AIDINI"} \cup (AhFieldsOf(AhSystems(r)) \cap AhFields)

(* handleGetData: 400, 500 or 200. *)
HandleGetData(r) ==
  IF AhValid(r) /\ GetLatestData # {}
  THEN /\ ahAnswer' = [status |-> 200, parts |-> AhParts(r), data_type |-> r.data_type, gnss |-> r.gnss]
       /\ ahGiven' = GetLatestData
  ELSE ahAnswer' = AhRefusal(IF AhValid(r) THEN 500 ELSE 400) /\ UNCHANGED ahGiven

AhNext ==
  \/ CaNext /\ UNCHANGED ahVars
  \/ (\E r \in AhRequests : HandleGetData(r)) /\ UNCHANGED caVars

AhSpec == AhInit /\ [][AhNext]_<<caVars, ahVars>>

-----------------------------------------------------------------------------
(***************************************************************************)
(* The data of a client that asks again and again never go back in time,   *)
(* whichever device they are from, whether or not they were dropped and    *)
(* came again in between (handleGetData, handleAssistData).                *)
(***************************************************************************)
NeverBack ==
  [][\A m \in ahGiven, n \in ahGiven' : m.time <= n.time]_<<caVars, ahVars>>

(* Whoever is given data is given the correction, whatever of GPS and      *)
(* BeiDou the request names: the server writes it only for both together   *)
(* (publish, handleGetData).                                               *)
HoldsCorrection ==
  ahAnswer.status = 200 => "aideph_gpsbds" \in ahAnswer.parts

(* Data are given to nobody who names a type or a system that is unknown   *)
(* among others that are known (checkCombine).                             *)
OnlyKnown ==
  ahAnswer.status = 200 => ahAnswer.data_type \subseteq {"eph", "alm"} /\ ahAnswer.gnss \subseteq {"gps", "bds", "glo"}

(* An answer with data holds the correction, and what was asked for is     *)
(* known (handleGetData).                                                  *)
AnswersInv == CaTypeOK /\ HoldsCorrection /\ OnlyKnown
=============================================================================
