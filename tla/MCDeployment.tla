---------------------------- MODULE MCDeployment ----------------------------
(* Instances of Deployment for TLC.                                        *)
EXTENDS Deployment, TLC

CONSTANTS k1, k2, k3, c1, e1, e2, d1
OneParamSet == [k \in Keys |-> "bfv-257-depth12"]
OlderBuild == [k \in Keys |-> IF k = k1 THEN "bfv-257-depth10" ELSE "bfv-257-depth12"]
=============================================================================
