---------------------------- MODULE MCPreparation ----------------------------
(***************************************************************************)
(* The clients of a BLE link, checked one at a time, for a process runs    *)
(* one of them: the preparation of a livestream, the requests of a normal  *)
(* session, and the monitor beside a livestream's window; and, as a fourth *)
(* part, the file the preparation takes its secrets from.                  *)
(***************************************************************************)
EXTENDS RtmpWorkflow, BleRequests, BleMonitor, SecretFile

VARIABLE part

allVars == <<frameVars, workflowVars, requestVars, monitorVars, secretVars, part>>

PreparationInit == /\ part \in {"workflow", "requests", "monitor", "secrets"}
                   /\ WorkflowInit
                   /\ RequestsInit
                   /\ MonitorInit
                   /\ SecretInit
                   /\ part # "requests" => ~withStop
                   /\ part # "secrets" => private /\ envFile.path = Gone

PreparationNext ==
    \/ /\ part = "workflow" /\ WorkflowNext
       /\ UNCHANGED <<requestVars, monitorVars, secretVars, part>>
    \/ /\ part = "requests" /\ RequestsNext
       /\ UNCHANGED <<frameVars, workflowVars, monitorVars, secretVars, part>>
    \/ /\ part = "monitor" /\ MonitorNext
       /\ UNCHANGED <<mode, ownVars, faults, past, workflowVars, requestVars, secretVars, part>>
    \/ /\ part = "secrets" /\ SecretNext
       /\ UNCHANGED <<frameVars, workflowVars, requestVars, monitorVars, part>>

PreparationSpec == PreparationInit /\ [][PreparationNext]_allVars

TypeOK == WorkflowTypeOK /\ RequestsTypeOK /\ MonitorTypeOK /\ SecretTypeOK
=============================================================================
