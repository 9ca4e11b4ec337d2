------------------------- MODULE NetworkController -------------------------
(***************************************************************************)
(* A network controller (ec2-patterns/network-controller.ts) with the hub  *)
(* and spoke networks it makes in each region, the transit gateway of a    *)
(* hub, the resource share of that gateway and the isolated client VPN     *)
(* endpoints of hubs and spokes.  The address pools are those of module    *)
(* AddressPools.                                                           *)
(*                                                                         *)
(* An application calls the operations in any order and may go on after a  *)
(* call that throws; what such a call has done by then stays done.         *)
(***************************************************************************)
EXTENDS Sequences, Integers, FiniteSets

CONSTANTS
  Accounts, Regions, Home, None,
  HomeRegion, \* the region of the controller's stack
  Stacks,     \* the stacks of the application
  Account,    \* the account of a stack
  Region,     \* the region of a stack
  Ids,        \* construct ids
  Occupied    \* pairs of a stack and an id that the application itself uses

\* Names of CIDRs, from the operation that asks for one.
HubCidr(id) == [kind |-> "plain", id |-> id, at |-> None]
SpokeCidr(id, s) == [kind |-> "spoke", id |-> id, at |-> s]
VpnCidr(id) == [kind |-> "client-vpn-endpoint", id |-> id, at |-> None]
CidrNames == [kind : {"plain", "spoke", "client-vpn-endpoint"}, id : Ids,
              at : Stacks \cup {None}]
Unasked == [kind |-> "none", id |-> None, at |-> None] \* no CIDR was added

VpcMask == "vpc"          \* defaultVpcNetmask, 16
SubnetMask == "subnets"   \* 28 less the bits for the zones
ClientMask == "clients"   \* defaultClientVpnNetmask, 22
Masks == {VpcMask, SubnetMask, ClientMask}

VARIABLES
  pools, cidrs, threw, \* of the address manager, module AddressPools
  nets,       \* the hub and spoke networks
  gateways,   \* regions whose hub has a transit gateway
  principals, \* of each region: the principals of its hub's resource share
  vpns,       \* the isolated client VPN endpoints
  draws,      \* what VPCs and VPNs take from the pools
  registry    \* the accounts and regions registered with the controller

\* Blocks that are registered by hand do not matter to networks.
Ipam == INSTANCE AddressPools WITH Names <- CidrNames, Blocks <- {}

poolVars == <<pools, cidrs, threw>>
vars == <<poolVars, nets, gateways, principals, vpns, draws, registry>>

ASSUME ControllerAssumption ==
  /\ HomeRegion \in Regions
  /\ Account \in [Stacks -> Accounts]
  /\ Region \in [Stacks -> Regions]
  /\ Occupied \subseteq Stacks \X Ids
  /\ None \notin Stacks

Nets == [role : {"hub", "spoke"}, stack : Stacks, id : Ids,
         hub : Regions, pool : Ipam!Pools]

\* A VPN is in a network; it was made by the controller or by the network
\* itself, and the subnets it has may have routes to the gateway.
Vpns == [net : Nets, id : Ids, via : {"controller", "network"},
         routed : BOOLEAN]

\* What a VPC, the subnets of a VPN or its clients take out of a pool, and the
\* CIDR that was added to the pool for it, if one was.
Draw(pool, mask, name, user, id) ==
  [pool |-> pool, mask |-> mask, name |-> name, user |-> user, id |-> id]

Draws == [pool : Ipam!Pools, mask : Masks, name : CidrNames \cup {Unasked},
          user : Nets, id : Ids]

VpcPool(s) == Ipam!AccountPool("vpc", Account[s], Region[s])
VpnPool(s) == Ipam!AccountPool("vpn", Account[s], Region[s])

HubsOf(r) == {n \in nets : n.role = "hub" /\ n.hub = r}

\* The id is free among the constructs of the stack.
Free(s, id) ==
  /\ <<s, id>> \notin Occupied
  /\ \A n \in nets : n.stack # s \/ n.id # id

Opened(p) == {Ipam!TopPool(p.kind), Ipam!ParentPool(p), p}

-----------------------------------------------------------------------------

Init ==
  /\ Ipam!PoolsInit
  /\ nets = {}
  /\ gateways = {}
  /\ principals = [r \in Regions |-> <<>>]
  /\ vpns = {}
  /\ draws = {}
  /\ registry = [accounts |-> {}, regions |-> {}]

Throw == threw' = TRUE /\ UNCHANGED <<pools, cidrs, nets, gateways,
                                      principals, vpns, draws, registry>>

Register(s) ==
  registry' = [accounts |-> registry.accounts \cup ({Account[s]} \ {Home}),
               regions |-> registry.regions \cup ({Region[s]} \ {HomeRegion})]

\* Faulty variant: VPNs that were made before the gateway are forgotten.
WithGatewayOnly(r) == gateways' = gateways \cup {r} /\ UNCHANGED vpns

\* The gateway of a region is there from now on, and the VPNs that its hub
\* made before have their routes.
WithGateway(r) ==
  /\ gateways' = gateways \cup {r}
  /\ vpns' = IF r \in gateways THEN vpns ELSE
       {[v EXCEPT !.routed = @ \/ (v.via = "network" /\ v.net \in HubsOf(r))] :
          v \in vpns}

\* Faulty variant: accounts that have been added are not remembered.
SharedAgain(h, a) ==
  IF a = Account[h.stack] THEN principals
  ELSE [principals EXCEPT ![h.hub] = Append(@, a)]

\* The principals after the gateway of hub h has been shared with account a.
SharedWith(h, a) ==
  IF a = Account[h.stack] \/ \E i \in DOMAIN principals[h.hub] :
                                principals[h.hub][i] = a
  THEN principals
  ELSE [principals EXCEPT ![h.hub] = Append(@, a)]

(* NetworkController.addHub                                                *)
AddHub(s, id) ==
  LET p == VpcPool(s)
      hub == [role |-> "hub", stack |-> s, id |-> id, hub |-> Region[s],
              pool |-> p]
      provided == Ipam!CanAdd(p, HubCidr(id), VpcMask)
  IN /\ HubsOf(Region[s]) = {}
     /\ Register(s)
     /\ pools' = pools \cup Opened(p)
     /\ cidrs' = cidrs \cup Ipam!Added(p, HubCidr(id), VpcMask)
     /\ IF provided /\ Free(s, id)
        THEN /\ nets' = nets \cup {hub}
             /\ draws' = draws \cup {Draw(p, VpcMask, HubCidr(id), hub, id)}
             /\ threw' = threw
        ELSE threw' = TRUE /\ UNCHANGED <<nets, draws>>
     /\ UNCHANGED <<gateways, principals, vpns>>

AddHubAgain(s) == HubsOf(Region[s]) # {} /\ Throw

\* FourTierNetworkHub.addSpoke: the gateway and its share come first, then the
\* network, which may find its id in use.
HubSpoke(h, s, id, p, name) ==
  LET spoke == [role |-> "spoke", stack |-> s, id |-> id, hub |-> h.hub,
                pool |-> p]
  IN /\ WithGateway(h.hub)
     /\ principals' = SharedWith(h, Account[s])
     /\ IF Free(s, id)
        THEN /\ nets' = nets \cup {spoke}
             /\ draws' = draws \cup {Draw(p, VpcMask, name, spoke, id)}
             /\ threw' = threw
        ELSE threw' = TRUE /\ UNCHANGED <<nets, draws>>

\* Faulty variant: no CIDR is added to the pool for the spoke.
AddSpokeUnprovided(s, id) ==
  LET p == VpcPool(s) IN
  \E h \in HubsOf(Region[s]) :
    /\ Register(s)
    /\ pools' = pools \cup Opened(p)
    /\ HubSpoke(h, s, id, p, SpokeCidr(id, s))
    /\ UNCHANGED cidrs

(* NetworkController.addSpoke                                              *)
AddSpoke(s, id) ==
  LET p == VpcPool(s) name == SpokeCidr(id, s) IN
  \E h \in HubsOf(Region[s]) :
    /\ Register(s)
    /\ pools' = pools \cup Opened(p)
    /\ cidrs' = cidrs \cup Ipam!Added(p, name, VpcMask)
    /\ IF Ipam!CanAdd(p, name, VpcMask)
       THEN HubSpoke(h, s, id, p, name)
       ELSE threw' = TRUE
            /\ UNCHANGED <<nets, draws, gateways, principals, vpns>>

AddSpokeEarly(s) == HubsOf(Region[s]) = {} /\ Throw

(* FourTierNetworkHub.addSpoke called by the application without a CIDR:   *)
(* the spoke takes its addresses from the pool of the hub.                 *)
AddSpokeToHub(h, s, id) ==
  /\ h.role = "hub"
  /\ HubSpoke(h, s, id, h.pool, Unasked)
  /\ UNCHANGED <<pools, cidrs, registry>>

(* FourTierNetworkHub.enableTransitGateway                                 *)
EnableTransitGateway(h) ==
  /\ h.role = "hub"
  /\ h.hub \notin gateways
  /\ WithGateway(h.hub)
  /\ UNCHANGED <<poolVars, nets, principals, draws, registry>>

EnableTransitGatewayAgain(h) == h.role = "hub" /\ h.hub \in gateways /\ Throw

(* NetworkController.addClientVpnEndpoint: both CIDRs are added to pools   *)
(* of the hub, under the id alone.                                         *)
AddClientVpnEndpoint(r, id) ==
  \E h \in HubsOf(r) :
    LET p == VpcPool(h.stack) q == VpnPool(h.stack) name == HubCidr(id)
        first == Ipam!CanAdd(p, name, SubnetMask)
        second == Ipam!CanAdd(q, name, ClientMask)
    IN /\ pools' = pools \cup Opened(p) \cup (IF first THEN Opened(q) ELSE {})
       /\ cidrs' = cidrs \cup Ipam!Added(p, name, SubnetMask)
            \cup (IF first THEN Ipam!Added(q, name, ClientMask) ELSE {})
       /\ IF first /\ second
          THEN /\ vpns' = vpns \cup {[net |-> h, id |-> id,
                                      via |-> "controller", routed |-> FALSE]}
               /\ draws' = draws \cup {Draw(p, SubnetMask, name, h, id),
                                       Draw(q, ClientMask, name, h, id)}
               /\ threw' = threw
          ELSE threw' = TRUE /\ UNCHANGED <<vpns, draws>>
       /\ UNCHANGED <<nets, gateways, principals, registry>>

AddClientVpnEndpointEarly(r) == HubsOf(r) = {} /\ Throw

(* addIsolatedClientVpnEndpoint of a hub or a spoke: the subnets take from *)
(* the network's own pool, the clients get a CIDR of their own, and the    *)
(* routes are added if there is a gateway.                                 *)
AddIsolatedClientVpnEndpoint(n, id) ==
  LET q == VpnPool(n.stack) name == VpnCidr(id)
      provided == Ipam!CanAdd(q, name, ClientMask)
  IN /\ pools' = pools \cup Opened(q)
     /\ cidrs' = cidrs \cup Ipam!Added(q, name, ClientMask)
     /\ IF provided
        THEN /\ vpns' = vpns \cup {[net |-> n, id |-> id, via |-> "network",
                                    routed |-> n.hub \in gateways]}
             /\ draws' = draws \cup {Draw(n.pool, SubnetMask, Unasked, n, id),
                                     Draw(q, ClientMask, name, n, id)}
             /\ threw' = threw
        ELSE threw' = TRUE /\ UNCHANGED <<vpns, draws>>
     /\ UNCHANGED <<nets, gateways, principals, registry>>

Next ==
  \/ \E s \in Stacks, id \in Ids : AddHub(s, id) \/ AddSpoke(s, id)
  \/ \E s \in Stacks : AddHubAgain(s) \/ AddSpokeEarly(s)
  \/ \E h \in nets, s \in Stacks, id \in Ids : AddSpokeToHub(h, s, id)
  \/ \E h \in nets : EnableTransitGateway(h) \/ EnableTransitGatewayAgain(h)
  \/ \E r \in Regions : AddClientVpnEndpointEarly(r)
  \/ \E r \in Regions, id \in Ids : AddClientVpnEndpoint(r, id)
  \/ \E n \in nets, id \in Ids : AddIsolatedClientVpnEndpoint(n, id)

Spec == Init /\ [][Next]_vars

-----------------------------------------------------------------------------

TypeOK ==
  /\ Ipam!PoolsTypeOK
  /\ nets \subseteq Nets
  /\ gateways \subseteq Regions
  /\ principals \in [Regions -> Seq(Accounts)]
  /\ vpns \subseteq Vpns
  /\ draws \subseteq Draws
  /\ registry \in [accounts : SUBSET Accounts, regions : SUBSET Regions]

\* A VPN that a network made has routes to the gateway of its region exactly
\* when there is one, whichever of the two came first
\* (four-tier-network-hub.ts 131-140 and 221-223).
VpnsAreRouted ==
  \A v \in vpns : v.via = "network" => (v.routed <=> v.net.hub \in gateways)

\* Every spoke can attach to the gateway of its hub: there is one, and another
\* account is a principal of its share once (four-tier-network-hub.ts 107-155).
SpokesCanAttach ==
  \A n \in nets : n.role = "spoke" =>
    /\ n.hub \in gateways
    /\ \A h \in HubsOf(n.hub) : Account[n.stack] # Account[h.stack] =>
         \E i \in DOMAIN principals[n.hub] :
           /\ principals[n.hub][i] = Account[n.stack]
           /\ \A j \in DOMAIN principals[n.hub] :
                principals[n.hub][j] = Account[n.stack] => j = i

\* A gateway is shared with no account that has no spoke, unless a call threw.
SharesHaveSpokes ==
  \A r \in Regions : \A i \in DOMAIN principals[r] :
    threw \/ \E n \in nets : /\ n.role = "spoke" /\ n.hub = r
                             /\ Account[n.stack] = principals[r][i]

\* The accounts that a gateway is shared with are those of its spokes, as long as no
\* call threw, and each of them once.
SharesMatchSpokes == SpokesCanAttach /\ SharesHaveSpokes

\* What was asked for is there and is nobody else's: a CIDR of the pool has
\* the size that is drawn from it, and no two draws count on the same one.
DrawsAreProvisioned ==
  \A d \in draws : d.name # Unasked =>
    /\ Ipam!OwnCidr(d.pool, d.name, d.mask) \in cidrs
    /\ \A e \in draws : e.pool = d.pool /\ e.name = d.name => e = d
=============================================================================
