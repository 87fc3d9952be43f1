----------------------------- MODULE MCGateway -----------------------------
(* Instances of GatewayHistory for TLC.                                    *)
EXTENDS GatewayHistory

NoSubstitutes == [s \in {} |-> s]

(* Model values: two senders, and an id that both are given.               *)
CONSTANTS s1, s2, shared
MergeIds == [s \in {s1, s2} |-> shared]

Only(some) == [f \in Faults |-> IF f \in some THEN 1 ELSE 0]
NoFault   == {}
OneBreak  == {Only({"break"})}
RestartOrCrash == {Only({"restart"}), Only({"crash"})}
TwoFaults == {Only(Faults \ {f}) : f \in Faults}
BreakAndRestart == {Only({"break", "restart"})}

NoClockSteps == {}
=============================================================================
