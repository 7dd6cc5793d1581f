----------------------------- MODULE MCDeviceLogin -----------------------------
(* Instances of DeviceLogin for TLC. *)
EXTENDS DeviceLogin

(* Three users: a plain one, one with a colon in the user_id and one whose *)
(* user_id ends in a colon.                                                *)
ColonUser == [r \in Requests |->
    CASE r = "r1" -> <<"alice">>
      [] r = "r2" -> <<"bob", "home">>
      [] r = "r3" -> <<"carol", "">>]

(* Every fault with an agent that may dawdle; a gateway and an agent as the *)
(* client expects them; and no fault, with the gateway as it is.           *)
AsTested == [code : {200}, status : {"pending", "expired", "denied"}]
NoStatus == [code : {200, 400}, status : {"none"}]
Adverse == [pending |-> AsTested \cup NoStatus, prompt |-> FALSE,
            faults |-> {"hang", "net", "redis", "stop", "cancel"}]
Smooth == [pending |-> {AskAgain}, prompt |-> TRUE, faults |-> {}]
AdverseOrSmooth == {Adverse, Smooth}

AsBuilt == {[pending |-> {Refused}, prompt |-> TRUE, faults |-> {}]}

PlainUsers == [r \in Requests |-> IF r = "r1" THEN <<"alice">> ELSE <<"bob">>]
================================================================================
