------------------------------ MODULE MCField ------------------------------
(* The two ends of the service for TLC: AgnssCapture, which the receivers      *)
(* connect to, and AgnssCaster, which the clients ask.  part says which moves. *)
EXTENDS AgnssCapture, AgnssHandler

CONSTANTS f1, f2

Request(complete, protocol, data_type, gnss) ==
  [complete |-> complete, protocol |-> protocol, data_type |-> data_type, gnss |-> gnss]
MCRequests ==
  {Request(TRUE, "whmx", {"eph", "alm"}, {"gps", "bds", "glo"}), Request(TRUE, "whmx", {"eph"}, {"gps"}),
   Request(TRUE, "whmx", {}, {"bds"}), Request(TRUE, "whmx", {"eph"}, {"gps", "gal"}),
   Request(TRUE, "whmx", {"eph", "gps"}, {"gps"}), Request(TRUE, "other", {"eph"}, {"gps"}),
   Request(FALSE, "whmx", {"eph"}, {"gps"})}

VARIABLE part

fieldVars == <<part, vars, caVars, ahVars>>

FieldInit ==
  /\ part \in {"capture", "caster"}
  /\ Init
  /\ AhInit /\ (part = "capture" => phase = 0)

FieldNext ==
  /\ UNCHANGED part
  /\ \/ part = "capture" /\ Next /\ UNCHANGED <<caVars, ahVars>>
     \/ part = "caster" /\ AhNext /\ UNCHANGED vars

FieldSpec == FieldInit /\ [][FieldNext]_fieldVars /\ Fairness
=============================================================================
