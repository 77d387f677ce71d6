---------------------------- MODULE MCFleetRollout ----------------------------
(* Instances of FleetRollout for TLC.                                      *)
EXTENDS FleetRollout

MCDevices == 1..3
TwoDevices == 1..2

(* A device in step with its Spec, on the version before the rollout.      *)
InStep == [desired |-> "v1", paused |-> FALSE, current |-> "v1",
           synced |-> "True", dark |-> FALSE]

(* A device that failed another target before this rollout was created.    *)
Scarred == [InStep EXCEPT !.desired = "bad", !.synced = "Failed"]

Healthy == {InStep}
SomeScarred == {InStep, Scarred}
=============================================================================
