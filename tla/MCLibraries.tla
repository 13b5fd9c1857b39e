---------------------------- MODULE MCLibraries -----------------------------
(* The instances of the two libraries that share no state with the rest: the  *)
(* map in shared memory of libcomm, and the packets of libprotocol.  A        *)
(* behaviour is one of one unit; the other stays as it began, so that the     *)
(* states of the two are not multiplied.                                      *)
EXTENDS MCDpClient, MCShmHashMap

VARIABLE unit   \* what is run: "map" or "codec"

LibInit ==
    /\ Init /\ MCInit
    /\ \/ unit = "map"
       \/ unit = "codec" /\ sem = "none" /\ seg = "none"

LibNext ==
    /\ UNCHANGED unit
    /\ \/ unit = "map" /\ MCNext /\ UNCHANGED vars
       \/ unit = "codec" /\ Next /\ UNCHANGED <<mapVars, stack>>

LibSpec == LibInit /\ [][LibNext]_<<unit, vars, mapVars, stack>>
=============================================================================
