---------------------------- MODULE MCDeployment ----------------------------
(* Instances of Deployment for TLC.                                        *)
EXTENDS Deployment

CONSTANTS api, worker

MCProcesses == {api, worker}
=============================================================================
