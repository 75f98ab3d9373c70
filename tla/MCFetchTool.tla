---------------------------- MODULE MCFetchTool ----------------------------
(***************************************************************************)
(* The two halves of imbhgo-fetch in one model: what it does to the file   *)
(* system, and the line it prints. They share no state, so a behaviour is  *)
(* one half's while the other stays at rest.                               *)
(***************************************************************************)
EXTENDS MCLibraryFetch, EnvLine

VARIABLE half

EnvAtRest == shell = "sh" /\ dir = <<"a">> /\ EnvInit

ToolInit ==
    /\ Init
    /\ \/ half = "fetch" /\ EnvAtRest
       \/ half = "env" /\ EnvInit

ToolNext ==
    /\ UNCHANGED half
    /\ \/ half = "fetch" /\ Next /\ UNCHANGED envVars
       \/ half = "env" /\ EnvNext /\ UNCHANGED vars

ToolSpec == ToolInit /\ [][ToolNext]_<<half, vars, envVars>>
=============================================================================
