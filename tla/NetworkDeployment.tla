------------------------- MODULE NetworkDeployment -------------------------
(***************************************************************************)
(* CloudFormation creates what a network controller has constructed.  It   *)
(* creates the resources of a stack in any order that respects their       *)
(* dependencies, and a stack after the stacks whose values it uses.        *)
(*                                                                         *)
(* A VPC refers to the pool it draws from (ec2/lib/ip-addresses/           *)
(* tiered-subnets.ts 33-36) and not to the CIDR that was added to the pool *)
(* for it; a CIDR of an account's pool depends on the one of the region    *)
(* (ip-address-manager.ts 34-39).  An application that throws is not       *)
(* deployed, and one with VPN endpoints is constructed only.               *)
(***************************************************************************)
EXTENDS NetworkController

CONSTANTS
  ManagerStack, \* the stack of the network controller
  MaxNets,      \* bound: networks
  MaxVpns,      \* bound: VPNs
  MaxParts      \* bound: both together

ASSUME ManagerAssumption == ManagerStack \in Stacks

Small(N, V) == /\ Cardinality(N) <= MaxNets
               /\ Cardinality(V) <= MaxVpns
               /\ Cardinality(N) + Cardinality(V) <= MaxParts

VARIABLES
  synthesized, \* the constructs are final
  made,        \* CIDRs and VPCs that exist
  failed       \* VPCs that found no addresses

deployVars == <<vars, synthesized, made, failed>>

DeployInit == Init /\ synthesized = FALSE /\ made = {} /\ failed = {}

Construct ==
  /\ ~synthesized
  /\ Next
  /\ Small(nets', vpns')
  /\ UNCHANGED <<synthesized, made, failed>>

Synthesize ==
  /\ ~synthesized
  /\ ~threw
  /\ vpns = {}
  /\ synthesized' = TRUE
  /\ UNCHANGED <<vars, made, failed>>

CreateCidr(c) ==
  /\ synthesized
  /\ c \notin made
  /\ c.pool \in Ipam!AccountPools =>
       Ipam!ParentCidr(c.pool, c.name, c.conf) \in made
  /\ made' = made \cup {c}
  /\ UNCHANGED <<vars, synthesized, failed>>

\* A pool has addresses for a VPC when it holds more CIDRs of that size than
\* VPCs have been taken from it.
HasAddresses(p) ==
  Cardinality({n \in nets \cap made : n.pool = p}) <
  Cardinality({c \in cidrs \cap made : c.pool = p /\ c.conf = VpcMask})

CreateVpc(n) ==
  /\ synthesized
  /\ n \notin made \cup failed
  /\ n.stack # ManagerStack => cidrs \subseteq made
  /\ \A h \in HubsOf(n.hub) : h.stack # n.stack => h \in made
  /\ IF HasAddresses(n.pool)
     THEN made' = made \cup {n} /\ UNCHANGED failed
     ELSE failed' = failed \cup {n} /\ UNCHANGED made
  /\ UNCHANGED <<vars, synthesized>>

DeployNext ==
  \/ Construct
  \/ Synthesize
  \/ \E c \in cidrs : CreateCidr(c)
  \/ \E n \in nets : CreateVpc(n)

DeploySpec == DeployInit /\ [][DeployNext]_deployVars

FairDeploySpec ==
  /\ DeploySpec
  /\ WF_deployVars(\E c \in cidrs : CreateCidr(c))
  /\ WF_deployVars(\E n \in nets : CreateVpc(n))

-----------------------------------------------------------------------------

\* Nothing asked for a CIDR for this VPC.
TakesUnasked(n) ==
  \E d \in draws : d.user = n /\ d.mask = VpcMask /\ d.name = Unasked

\* A VPC finds no addresses in its pool only if it is in the stack of the
\* controller, where it may come before its CIDR, or if the application added
\* a spoke to the hub itself, which draws on what others asked for.
FailuresHaveACause ==
  \A n \in failed : \/ n.stack = ManagerStack
                    \/ \E m \in nets : m.pool = n.pool /\ TakesUnasked(m)

\* No VPC is waited for by anyone for ever: in a deployment without those two
\* causes all networks come into being.
NetworksDeploy ==
  (synthesized /\ \A n \in nets : n.stack # ManagerStack /\ ~TakesUnasked(n))
    ~> (nets \subseteq made)
=============================================================================
