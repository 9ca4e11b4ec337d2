--------------------------- MODULE MCDeployments ---------------------------
(***************************************************************************)
(* What CloudFormation, Kubernetes and Glue make of a program's            *)
(* constructs.  A behaviour is about a network, a cluster or a workflow,   *)
(* which have no state in common.                                          *)
(*                                                                         *)
(* Networks: the controller's stack and a stack of another account in its  *)
(* region, each of which may hold the hub, and a stack of another region.  *)
(* Three networks and two VPNs show every order of the operations.         *)
(*                                                                         *)
(* Clusters: every choice of add-ons; two secrets of the cluster's own     *)
(* stack, of one that uses it, or of one that it uses.                     *)
(*                                                                         *)
(* Workflows: two triggers over two tasks, each of which fails or not,     *)
(* with two conditions in all; the operator OR is given to one type, since *)
(* Glue refuses it whatever the trigger is.                                *)
(***************************************************************************)
EXTENDS NetworkDeployment, ClusterDeployment, GlueWorkflow

MCAccount == [core |-> "home", app |-> "other", west |-> "home"]
MCRegion == [core |-> "east", app |-> "east", west |-> "west"]
MCOccupied == {<<"app", "b">>}

MCServiceOf == [password |-> "secrets-manager", url |-> "ssm", key |-> "ssm"]
MCStackOf == [password |-> "platform", url |-> "app", key |-> "network"]

MCOptions ==
    [type : Types, operator : {"default"}, start : Starts]
    \cup {[type |-> "CONDITIONAL", operator |-> o, start |-> "default"] : o \in {"AND", "OR"}}

VARIABLE subject   \* what the behaviour is about

AllInit ==
    /\ subject \in {"networks", "cluster", "workflow"}
    /\ DeployInit /\ ClusterInit /\ WorkflowInit
    /\ subject # "cluster" => enabled = {} /\ dnsNamespace = "dns" /\ ~opensNamespace

AllNext ==
    /\ UNCHANGED subject
    /\ \/ subject = "networks" /\ DeployNext /\ UNCHANGED <<clusterVars, workflow>>
       \/ subject = "cluster" /\ ClusterNext /\ UNCHANGED <<deployVars, workflow>>
       \/ subject = "workflow" /\ WorkflowNext /\ UNCHANGED <<deployVars, clusterVars>>

\* The fairness of FairDeploySpec, ClusterSpec and WorkflowSpec.
AllSpec ==
    /\ AllInit /\ [][AllNext]_<<subject, deployVars, clusterVars, workflow>>
    /\ WF_deployVars(\E c \in cidrs : CreateCidr(c))
    /\ WF_deployVars(\E n \in nets : CreateVpc(n))
    /\ WF_clusterVars(DeployCluster)
    /\ WF_workflow(RunWorkflow)
=============================================================================
