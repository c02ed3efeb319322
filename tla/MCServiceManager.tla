---------------------------- MODULE MCServiceManager ----------------------------
(* The three services of chatterd: OSPF depends on the interface monitor and *)
(* gets it in Run, and the API server answers calls of RunningServices.      *)
EXTENDS ServiceManager

CONSTANTS api, mon, ospf

MCServices == {api, mon, ospf}
MCDeps == [s \in MCServices |-> IF s = ospf THEN {mon} ELSE {}]
MCConfigs == {{api}, MCServices}
MCFirst == {api}
MCSame == {MCServices}

================================================================================
