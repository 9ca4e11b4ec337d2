------------------------ MODULE MCDynamicReferences ------------------------
(***************************************************************************)
(* An app with one stack and two nested stages: network, with a stack in   *)
(* one environment, and workload, with a stack in the same environment and *)
(* one in another region.  A reference belongs to the network stack or to  *)
(* the app's own stack; an ARN put together of tokens is no resource        *)
(* attribute and cannot be exported.                                       *)
(***************************************************************************)
EXTENDS DynamicReferences

MCStages == {"app", "network", "workload"}
MCParent == [s \in MCStages |-> "app"]

MCStacks == {"shared", "hub", "spoke", "remote"}
MCStageOf == [shared |-> "app", hub |-> "network",
              spoke |-> "workload", remote |-> "workload"]
MCAccount == [shared |-> 1, hub |-> 1, spoke |-> 1, remote |-> 1]
MCRegion == [shared |-> 1, hub |-> 1, spoke |-> 1, remote |-> 2]

MCRefs == {"vpc", "zone", "arn"}
MCProducer == [vpc |-> "hub", zone |-> "shared", arn |-> "spoke"]
MCExportable == {"vpc", "zone"}

\* The late-code runs: a producer with a sibling stack in another account.
LateStacks == {"hub", "spoke", "remote"}
LateStageOf == [hub |-> "network", spoke |-> "workload", remote |-> "workload"]
LateAccount == [hub |-> 1, spoke |-> 1, remote |-> 2]
LateRegion == [hub |-> 1, spoke |-> 1, remote |-> 1]
LateRefs == {"vpc", "role"}
LateProducer == [vpc |-> "hub", role |-> "spoke"]
=============================================================================
