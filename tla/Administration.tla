--------------------------- MODULE Administration ---------------------------
(***************************************************************************)
(* The configuration with its exports, and the API keys.  They share no    *)
(* table, no file and no lock, so that what happens to one of them is told *)
(* by the behaviours in which the other one rests.                         *)
(***************************************************************************)
EXTENDS ConfigExport, ApiKeys

VARIABLE desk  \* the part that this behaviour is about

AdministrationVars == <<vars, keyVars, desk>>

AdministrationInit ==
  /\ desk \in {"configuration", "keys"}
  /\ Init /\ KeysInit

AdministrationNext ==
  \/ desk = "configuration" /\ Next /\ UNCHANGED <<keyVars, desk>>
  \/ desk = "keys" /\ KeysNext /\ UNCHANGED <<vars, desk>>

AdministrationSpec == AdministrationInit /\ [][AdministrationNext]_AdministrationVars
=============================================================================
