--------------------------- MODULE DeploymentProofs --------------------------
(***************************************************************************)
(* What is deployed, and what is run, comes after all that it needs.       *)
(*                                                                         *)
(* NetworkController and NetworkDeployment, for any stacks, accounts,      *)
(* regions and ids.  The invariant has two parts that the steps keep       *)
(* independently.  DrawInv relates what networks draw from the pools to    *)
(* the CIDRs that were added.  NetInv relates networks, gateways, shares   *)
(* and VPNs; it says more than the properties: a region has one hub, a     *)
(* spoke's region has one, the network of a VPN is one of the controller's *)
(* and no account is twice among the principals of a share.                *)
(*                                                                         *)
(* ClusterDeployment: the add-ons of a cluster form a chain: each waits    *)
(* for all resources of the one before it, and the logger is the first.    *)
(* So whatever an add-on has deployed, the configuration of the logs has   *)
(* come before it, however many add-ons lie in between and whichever were  *)
(* left out.                                                               *)
(*                                                                         *)
(* GlueWorkflow: what Glue has accepted joins the conditions of a trigger  *)
(* with AND, and a task that has ended stays as it ended.                  *)
(***************************************************************************)
EXTENDS NetworkDeployment, ClusterDeployment, GlueWorkflow, FiniteSetTheorems,
        WellFoundedInduction, TLAPS

-----------------------------------------------------------------------------
(***************************************************************************)
(* The network controller.                                                 *)
(***************************************************************************)

DrawTypes ==
  /\ pools \subseteq Ipam!Pools
  /\ cidrs \subseteq Ipam!Cidrs
  /\ threw \in BOOLEAN
  /\ draws \subseteq Draws
  /\ registry \in [accounts : SUBSET Accounts, regions : SUBSET Regions]

DrawInv == DrawTypes /\ DrawsAreProvisioned

NetTypes ==
  /\ nets \subseteq Nets
  /\ gateways \subseteq Regions
  /\ principals \in [Regions -> Seq(Accounts)]
  /\ vpns \subseteq Vpns

OneHub ==
  \A h, g \in nets : h.role = "hub" /\ g.role = "hub" /\ h.hub = g.hub => h = g

SpokesHaveGateway ==
  \A n \in nets : n.role = "spoke" => n.hub \in gateways /\ HubsOf(n.hub) # {}

SpokesArePrincipals ==
  \A n, h \in nets :
    /\ n.role = "spoke" /\ h.role = "hub" /\ h.hub = n.hub
    /\ Account[n.stack] # Account[h.stack]
    => \E i \in DOMAIN principals[n.hub] :
         principals[n.hub][i] = Account[n.stack]

PrincipalsOnce ==
  \A r \in Regions : \A i, j \in DOMAIN principals[r] :
    principals[r][i] = principals[r][j] => i = j

VpnsHaveNets == \A v \in vpns : v.net \in nets

NetInv ==
  /\ NetTypes
  /\ OneHub
  /\ SpokesHaveGateway
  /\ SpokesArePrincipals
  /\ PrincipalsOnce
  /\ VpnsHaveNets
  /\ VpnsAreRouted
  /\ SharesHaveSpokes

IInv == DrawInv /\ NetInv

-----------------------------------------------------------------------------
(* The pools.                                                              *)

\* The pools that stacks and networks use.
LEMMA PoolTypes ==
  ASSUME NEW s \in Stacks
  PROVE  /\ VpcPool(s) \in Ipam!Pools /\ VpnPool(s) \in Ipam!Pools
         /\ VpcPool(s) # VpnPool(s)
  BY ControllerAssumption
     DEF VpcPool, VpnPool, Ipam!AccountPool, Ipam!Pools, Ipam!Kinds

LEMMA NameTypes ==
  ASSUME NEW id \in Ids, NEW s \in Stacks
  PROVE  /\ {HubCidr(id), SpokeCidr(id, s), VpnCidr(id)} \subseteq CidrNames
         /\ Unasked \notin {HubCidr(id), SpokeCidr(id, s), VpnCidr(id)}
  BY DEF HubCidr, SpokeCidr, VpnCidr, CidrNames, Unasked

\* Adding a CIDR keeps pools and CIDRs well formed.
LEMMA AddedTypes ==
  ASSUME NEW p \in Ipam!Pools, NEW n \in CidrNames, NEW m \in Masks
  PROVE  /\ Ipam!Added(p, n, m) \subseteq Ipam!Cidrs
         /\ Opened(p) \subseteq Ipam!Pools
<1>1. Ipam!ParentPool(p) \in Ipam!Pools /\ Ipam!TopPool(p.kind) \in Ipam!Pools
  BY DEF Ipam!ParentPool, Ipam!RegionPool, Ipam!TopPool, Ipam!Pools
<1>2. Ipam!OwnCidr(p, n, m) \in Ipam!Cidrs
  BY DEF Ipam!OwnCidr, Ipam!Cidr, Ipam!Cidrs
<1>3. Ipam!ParentCidr(p, n, m) \in Ipam!Cidrs
  BY <1>1 DEF Ipam!ParentCidr, Ipam!Cidr, Ipam!Cidrs, Ipam!Pools
<1> QED BY <1>1, <1>2, <1>3 DEF Ipam!Added, Opened

\* A call that does not throw adds the CIDR, whose name the pool did not have.
LEMMA AddedFresh ==
  ASSUME NEW p, NEW n, NEW m, Ipam!CanAdd(p, n, m)
  PROVE  /\ Ipam!OwnCidr(p, n, m) \in Ipam!Added(p, n, m)
         /\ \A k : Ipam!OwnCidr(p, n, k) \notin cidrs
<1>1. ~Ipam!Taken(Ipam!OwnCidr(p, n, m))
  BY DEF Ipam!CanAdd
<1>2. \A k : Ipam!OwnCidr(p, n, k) \notin cidrs
  BY <1>1 DEF Ipam!Taken, Ipam!Inline, Ipam!OwnCidr, Ipam!Cidr
<1> QED BY <1>1, <1>2 DEF Ipam!Added

\* The CIDRs of the draws of D are added by this step, one for each.
NewlyProvided(D) ==
  \A d \in D : d.name # Unasked =>
    /\ Ipam!OwnCidr(d.pool, d.name, d.mask) \in cidrs'
    /\ \A k : Ipam!OwnCidr(d.pool, d.name, k) \notin cidrs
    /\ \A e \in D : e.pool = d.pool /\ e.name = d.name => e = d

\* Draws of CIDRs that are added for them are provided for.
LEMMA DrawsGrow ==
  ASSUME DrawsAreProvisioned, cidrs \subseteq cidrs',
         NEW D, NewlyProvided(D), draws' = draws \cup D
  PROVE  DrawsAreProvisioned'
<1> SUFFICES ASSUME NEW d \in draws', d.name # Unasked
             PROVE  /\ Ipam!OwnCidr(d.pool, d.name, d.mask) \in cidrs'
                    /\ \A e \in draws' :
                         e.pool = d.pool /\ e.name = d.name => e = d
  BY DEF DrawsAreProvisioned, Ipam!OwnCidr, Ipam!Cidr
<1> QED BY DEF DrawsAreProvisioned, NewlyProvided

LEMMA DrawFields ==
  ASSUME NEW p, NEW m, NEW n, NEW u, NEW id
  PROVE  LET d == Draw(p, m, n, u, id) IN
         d.pool = p /\ d.mask = m /\ d.name = n
  BY DEF Draw

LEMMA DrawType ==
  ASSUME NEW p \in Ipam!Pools, NEW m \in Masks,
         NEW n \in CidrNames \cup {Unasked}, NEW u \in Nets, NEW id \in Ids
  PROVE  Draw(p, m, n, u, id) \in Draws
  BY DEF Draw, Draws

LEMMA RegisterType ==
  ASSUME DrawTypes, NEW s \in Stacks, Register(s)
  PROVE  registry' \in [accounts : SUBSET Accounts, regions : SUBSET Regions]
  BY ControllerAssumption DEF DrawTypes, Register

-----------------------------------------------------------------------------
(* Networks, gateways, shares and VPNs.                                    *)

LEMMA RoutedFields ==
  ASSUME NEW v \in Vpns, NEW b \in BOOLEAN
  PROVE  LET w == [v EXCEPT !.routed = b] IN
         /\ w \in Vpns /\ w.net = v.net /\ w.via = v.via
         /\ w.routed <=> b
  BY DEF Vpns

\* A gateway that comes to a region gives routes to the VPNs of its hub; no
\* spoke has been there before it.
LEMMA GatewayComes ==
  ASSUME NetInv, NEW r \in Regions, WithGateway(r)
  PROVE  /\ gateways' \subseteq Regions
         /\ r \in gateways' /\ gateways \subseteq gateways'
         /\ vpns' \subseteq Vpns
         /\ VpnsAreRouted'
         /\ \A w \in vpns' : w.net \in nets
<1>1. gateways' = gateways \cup {r}
  BY DEF WithGateway
<1>2. CASE r \in gateways
  <2>1. vpns' = vpns /\ gateways' = gateways
    BY <1>1, <1>2 DEF WithGateway
  <2> QED BY <1>1, <2>1
          DEF NetInv, NetTypes, VpnsAreRouted, VpnsHaveNets
<1>3. CASE r \notin gateways
  <2> DEFINE Routes(v) ==
        v.routed \/ (v.via = "network" /\ v.net \in HubsOf(r))
  <2>1. vpns' = {[v EXCEPT !.routed = Routes(v)] : v \in vpns}
    BY <1>3 DEF WithGateway
  <2>2. ASSUME NEW w \in vpns'
        PROVE  /\ w \in Vpns /\ w.net \in nets
               /\ w.via = "network" => (w.routed <=> w.net.hub \in gateways')
    <3>1. PICK v \in vpns : w = [v EXCEPT !.routed = Routes(v)]
      BY <2>1
    <3>2. v \in Vpns /\ v.net \in nets /\ v.net \in Nets
      BY DEF NetInv, NetTypes, VpnsHaveNets
    <3>3. Routes(v) \in BOOLEAN
      BY <3>2 DEF Vpns
    <3>4. /\ w \in Vpns /\ w.net = v.net /\ w.via = v.via
          /\ w.routed <=> Routes(v)
      BY <3>1, <3>2, <3>3, RoutedFields
    <3>5. ASSUME v.via = "network"
          PROVE  Routes(v) <=> v.net.hub \in gateways'
      <4>1. v.routed <=> v.net.hub \in gateways
        BY <3>5 DEF NetInv, VpnsAreRouted
      <4>2. v.net.hub = r <=> v.net \in HubsOf(r)
        <5>1. v.net.hub = r => v.net.role = "hub"
          BY <3>2, <1>3 DEF NetInv, SpokesHaveGateway, Nets
        <5> QED BY <5>1, <3>2 DEF HubsOf
      <4> QED BY <4>1, <4>2, <3>5, <1>1
    <3> QED BY <3>2, <3>4, <3>5
  <2> QED BY <1>1, <2>2 DEF NetInv, NetTypes, VpnsAreRouted
<1> QED BY <1>2, <1>3

\* Sharing adds the account if it is another one than the hub's and is not
\* there yet, and nothing else.
LEMMA ShareGrows ==
  ASSUME NetInv, NEW h \in nets, NEW a \in Accounts,
         principals' = SharedWith(h, a)
  PROVE  /\ principals' \in [Regions -> Seq(Accounts)]
         /\ PrincipalsOnce'
         /\ a # Account[h.stack] =>
              \E i \in DOMAIN principals'[h.hub] : principals'[h.hub][i] = a
         /\ \A r \in Regions : \A i \in DOMAIN principals[r] :
              \E j \in DOMAIN principals'[r] :
                principals'[r][j] = principals[r][i]
         /\ \A r \in Regions : \A j \in DOMAIN principals'[r] :
              \/ \E i \in DOMAIN principals[r] :
                   principals[r][i] = principals'[r][j]
              \/ r = h.hub /\ principals'[r][j] = a
<1>1. CASE principals' = principals
  <2>1. a = Account[h.stack] \/ \E i \in DOMAIN principals[h.hub] :
                                  principals[h.hub][i] = a
    <3> SUFFICES ASSUME a # Account[h.stack],
                        \A i \in DOMAIN principals[h.hub] :
                          principals[h.hub][i] # a
                 PROVE  FALSE
      OBVIOUS
    <3>1. h.hub \in Regions /\ principals[h.hub] \in Seq(Accounts)
      BY DEF NetInv, NetTypes, Nets
    <3>2. principals'[h.hub] = Append(principals[h.hub], a)
      BY <3>1 DEF SharedWith, NetInv, NetTypes
    <3>3. Len(principals'[h.hub]) = Len(principals[h.hub]) + 1
      BY <3>1, <3>2
    <3> QED BY <3>1, <3>3, <1>1
  <2> QED BY <1>1, <2>1 DEF NetInv, NetTypes, PrincipalsOnce
<1>2. CASE principals' # principals
  <2>1. /\ \A i \in DOMAIN principals[h.hub] : principals[h.hub][i] # a
        /\ principals' = [principals EXCEPT ![h.hub] = Append(@, a)]
    BY <1>2 DEF SharedWith
  <2>2. h.hub \in Regions /\ principals[h.hub] \in Seq(Accounts)
    BY DEF NetInv, NetTypes, Nets
  <2> DEFINE old == principals[h.hub]
             new == principals'[h.hub]
  <2>3. new = Append(old, a) /\ principals' \in [Regions -> Seq(Accounts)]
    BY <2>1, <2>2 DEF NetInv, NetTypes
  <2>4. /\ DOMAIN old = 1..Len(old) /\ Len(old) \in Nat
        /\ DOMAIN new = 1..(Len(old) + 1)
        /\ \A i \in DOMAIN old : new[i] = old[i]
        /\ new[Len(old) + 1] = a
    BY <2>2, <2>3
  <2>5. \A r \in Regions : r # h.hub => principals'[r] = principals[r]
    BY <2>1, <2>2 DEF NetInv, NetTypes
  <2>6. \A i, j \in DOMAIN new : new[i] = new[j] => i = j
    <3>1. \A i, j \in DOMAIN old : old[i] = old[j] => i = j
      BY <2>2 DEF NetInv, PrincipalsOnce
    <3>2. \A i \in DOMAIN new : i \in DOMAIN old \/ i = Len(old) + 1
      BY <2>4
    <3> QED BY <3>1, <3>2, <2>1, <2>4
  <2>7. PrincipalsOnce'
    BY <2>5, <2>6 DEF NetInv, PrincipalsOnce
  <2>8. \E i \in DOMAIN new : new[i] = a
    BY <2>4
  <2>9. \A r \in Regions : \A i \in DOMAIN principals[r] :
          \E j \in DOMAIN principals'[r] :
            principals'[r][j] = principals[r][i]
    <3>1. \A i \in DOMAIN old : i \in DOMAIN new
      BY <2>4
    <3> QED BY <3>1, <2>4, <2>5
  <2>10. \A r \in Regions : \A j \in DOMAIN principals'[r] :
           \/ \E i \in DOMAIN principals[r] :
                principals[r][i] = principals'[r][j]
           \/ r = h.hub /\ principals'[r][j] = a
    <3>1. \A i \in DOMAIN new : i \in DOMAIN old \/ i = Len(old) + 1
      BY <2>4
    <3> QED BY <3>1, <2>4, <2>5
  <2> QED BY <2>3, <2>7, <2>8, <2>9, <2>10
<1> QED BY <1>1, <1>2

\* What the invariant says of spokes and shares stays true when networks and
\* principals are added, each spoke with its gateway and its account's share.
LEMMA SpokeComes ==
  ASSUME IInv, NEW h \in nets, NEW s \in Stacks, NEW id \in Ids,
         NEW p \in Ipam!Pools, NEW name, h.role = "hub",
         HubSpoke(h, s, id, p, name)
  PROVE  NetInv'
<1> DEFINE spoke == [role |-> "spoke", stack |-> s, id |-> id,
                     hub |-> h.hub, pool |-> p]
<1>1. /\ h \in Nets /\ h.hub \in Regions /\ h.stack \in Stacks
      /\ Account[s] \in Accounts
  BY ControllerAssumption DEF IInv, NetInv, NetTypes, Nets
<1>2. /\ WithGateway(h.hub)
      /\ principals' = SharedWith(h, Account[s])
      /\ \/ nets' = nets \cup {spoke} /\ threw' = threw
         \/ nets' = nets /\ threw' = TRUE
  BY DEF HubSpoke
<1>3. /\ spoke \in Nets /\ spoke.role = "spoke" /\ spoke.stack = s
      /\ spoke.hub = h.hub
  BY <1>1 DEF Nets
<1>4. /\ gateways' \subseteq Regions
      /\ h.hub \in gateways' /\ gateways \subseteq gateways'
      /\ vpns' \subseteq Vpns
      /\ VpnsAreRouted'
      /\ \A w \in vpns' : w.net \in nets
  BY <1>1, <1>2, GatewayComes DEF IInv
<1>5. NetTypes'
  BY <1>1, <1>2, <1>3, <1>4, ShareGrows DEF IInv, NetInv, NetTypes
<1>6. OneHub'
  BY <1>2, <1>3 DEF IInv, NetInv, OneHub
<1>7. SpokesHaveGateway'
  <2> SUFFICES ASSUME NEW n \in nets', n.role = "spoke"
               PROVE  n.hub \in gateways' /\ \E g \in nets' :
                        g.role = "hub" /\ g.hub = n.hub
    BY DEF SpokesHaveGateway, HubsOf
  <2>1. CASE n \in nets
    BY <2>1, <1>2, <1>4 DEF IInv, NetInv, SpokesHaveGateway, HubsOf
  <2>2. CASE n = spoke
    BY <2>2, <1>2, <1>3, <1>4
  <2> QED BY <2>1, <2>2, <1>2
<1>8. SpokesArePrincipals'
  <2> SUFFICES ASSUME NEW n \in nets', NEW g \in nets',
                      n.role = "spoke", g.role = "hub", g.hub = n.hub,
                      Account[n.stack] # Account[g.stack]
               PROVE  \E i \in DOMAIN principals'[n.hub] :
                        principals'[n.hub][i] = Account[n.stack]
    BY DEF SpokesArePrincipals
  <2>1. g \in nets
    BY <1>2, <1>3
  <2>2. CASE n \in nets
    <3>1. PICK i \in DOMAIN principals[n.hub] :
            principals[n.hub][i] = Account[n.stack]
      BY <2>1, <2>2 DEF IInv, NetInv, SpokesArePrincipals
    <3>2. n.hub \in Regions
      BY <2>2 DEF IInv, NetInv, NetTypes, Nets
    <3> QED BY <3>1, <3>2, <1>1, <1>2, ShareGrows DEF IInv
  <2>3. CASE n = spoke
    <3>1. g = h
      BY <2>1, <2>3, <1>3 DEF IInv, NetInv, OneHub
    <3> QED BY <3>1, <2>3, <1>1, <1>2, <1>3, ShareGrows DEF IInv
  <2> QED BY <2>2, <2>3, <1>2
<1>9. PrincipalsOnce'
  BY <1>1, <1>2, ShareGrows DEF IInv
<1>10. VpnsHaveNets'
  BY <1>2, <1>4 DEF VpnsHaveNets
<1>11. SharesHaveSpokes'
  <2> SUFFICES ASSUME NEW r \in Regions, NEW j \in DOMAIN principals'[r],
                      ~threw'
               PROVE  \E n \in nets' : /\ n.role = "spoke" /\ n.hub = r
                                       /\ Account[n.stack] = principals'[r][j]
    BY DEF SharesHaveSpokes
  <2>1. nets' = nets \cup {spoke} /\ threw' = threw
    BY <1>2
  <2>2. CASE \E i \in DOMAIN principals[r] :
               principals[r][i] = principals'[r][j]
    BY <2>1, <2>2 DEF IInv, NetInv, SharesHaveSpokes
  <2>3. CASE r = h.hub /\ principals'[r][j] = Account[s]
    BY <2>1, <2>3, <1>3
  <2> QED BY <2>2, <2>3, <1>1, <1>2, ShareGrows DEF IInv
<1> QED BY <1>4, <1>5, <1>6, <1>7, <1>8, <1>9, <1>10, <1>11 DEF NetInv

\* A spoke's draw is provided for if its CIDR was added, and counts on none
\* if it names none.
LEMMA SpokeDraws ==
  ASSUME IInv, NEW h \in nets, NEW s \in Stacks, NEW id \in Ids,
         NEW p \in Ipam!Pools, NEW name \in CidrNames \cup {Unasked},
         HubSpoke(h, s, id, p, name), cidrs \subseteq cidrs',
         name # Unasked =>
           /\ Ipam!OwnCidr(p, name, VpcMask) \in cidrs'
           /\ \A k : Ipam!OwnCidr(p, name, k) \notin cidrs
  PROVE  draws' \subseteq Draws /\ threw' \in BOOLEAN /\ DrawsAreProvisioned'
<1> DEFINE spoke == [role |-> "spoke", stack |-> s, id |-> id,
                     hub |-> h.hub, pool |-> p]
           d == Draw(p, VpcMask, name, spoke, id)
<1>1. /\ d.pool = p /\ d.mask = VpcMask /\ d.name = name
  BY DrawFields
<1>2. d \in Draws
  <2>1. spoke \in Nets
    BY DEF IInv, NetInv, NetTypes, Nets
  <2>2. VpcMask \in Masks
    BY DEF Masks
  <2> QED BY <2>1, <2>2, DrawType
<1>3. CASE draws' = draws \cup {d} /\ threw' = threw
  <2>1. NewlyProvided({d})
    BY <1>1 DEF NewlyProvided
  <2>2. DrawsAreProvisioned'
    BY <2>1, <1>3, DrawsGrow DEF IInv, DrawInv
  <2> QED BY <1>2, <1>3, <2>2 DEF IInv, DrawInv, DrawTypes
<1>4. CASE draws' = draws /\ threw' = TRUE
  <2>1. DrawsAreProvisioned'
    BY <1>4 DEF IInv, DrawInv, DrawsAreProvisioned, Ipam!OwnCidr, Ipam!Cidr
  <2> QED BY <1>4, <2>1 DEF IInv, DrawInv, DrawTypes
<1> QED BY <1>3, <1>4 DEF HubSpoke

\* A VPN, if one comes, is of a network and has routes if it needs them.
LEMMA VpnComes ==
  ASSUME NetInv, NEW v \in Vpns, v.net \in nets,
         v.via = "network" => (v.routed <=> v.net.hub \in gateways),
         vpns' \in {vpns, vpns \cup {v}}, threw => threw',
         UNCHANGED <<nets, gateways, principals>>
  PROVE  NetInv'
<1>1. NetTypes' /\ VpnsHaveNets' /\ VpnsAreRouted'
  BY DEF NetInv, NetTypes, VpnsHaveNets, VpnsAreRouted
<1>2. OneHub' /\ SpokesHaveGateway' /\ SpokesArePrincipals' /\ PrincipalsOnce'
  BY DEF NetInv, OneHub, SpokesHaveGateway, HubsOf, SpokesArePrincipals,
         PrincipalsOnce
<1>3. SharesHaveSpokes'
  BY DEF NetInv, SharesHaveSpokes
<1> QED BY <1>1, <1>2, <1>3 DEF NetInv

\* Nothing that the second part speaks of changes.
LEMMA NetStays ==
  ASSUME NetInv, UNCHANGED <<nets, gateways, principals, vpns>>,
         threw => threw'
  PROVE  NetInv'
<1>1. NetTypes' /\ VpnsHaveNets' /\ VpnsAreRouted'
  BY DEF NetInv, NetTypes, VpnsHaveNets, VpnsAreRouted
<1>2. OneHub' /\ SpokesHaveGateway' /\ SpokesArePrincipals' /\ PrincipalsOnce'
  BY DEF NetInv, OneHub, SpokesHaveGateway, HubsOf, SpokesArePrincipals,
         PrincipalsOnce
<1>3. SharesHaveSpokes'
  BY DEF NetInv, SharesHaveSpokes
<1> QED BY <1>1, <1>2, <1>3 DEF NetInv

\* Nothing that is drawn changes, and pools and CIDRs stay well formed.
LEMMA DrawsStay ==
  ASSUME DrawInv, UNCHANGED draws, cidrs \subseteq cidrs',
         pools' \subseteq Ipam!Pools, cidrs' \subseteq Ipam!Cidrs,
         threw' \in BOOLEAN,
         registry' \in [accounts : SUBSET Accounts, regions : SUBSET Regions]
  PROVE  DrawInv'
<1>1. DrawTypes'
  BY DEF DrawInv, DrawTypes
<1>2. DrawsAreProvisioned'
  BY DEF DrawInv, DrawsAreProvisioned, Ipam!OwnCidr, Ipam!Cidr
<1> QED BY <1>1, <1>2 DEF DrawInv

-----------------------------------------------------------------------------
(* The operations.                                                         *)

LEMMA AddHubKeeps ==
  ASSUME IInv, NEW s \in Stacks, NEW id \in Ids, AddHub(s, id)
  PROVE  IInv'
<1> DEFINE p == VpcPool(s)
           name == HubCidr(id)
           hub == [role |-> "hub", stack |-> s, id |-> id,
                   hub |-> Region[s], pool |-> p]
           d == Draw(p, VpcMask, name, hub, id)
<1>1. /\ HubsOf(Region[s]) = {}
      /\ Register(s)
      /\ pools' = pools \cup Opened(p)
      /\ cidrs' = cidrs \cup Ipam!Added(p, name, VpcMask)
      /\ UNCHANGED <<gateways, principals, vpns>>
      /\ \/ /\ Ipam!CanAdd(p, name, VpcMask)
            /\ nets' = nets \cup {hub} /\ draws' = draws \cup {d}
            /\ threw' = threw
         \/ threw' = TRUE /\ UNCHANGED <<nets, draws>>
  BY DEF AddHub
<1>2. p \in Ipam!Pools /\ name \in CidrNames /\ VpcMask \in Masks
  BY PoolTypes, NameTypes DEF Masks
<1>3. /\ hub \in Nets /\ hub.role = "hub" /\ hub.hub = Region[s]
  BY <1>2, ControllerAssumption DEF Nets
<1>4. /\ pools' \subseteq Ipam!Pools /\ cidrs' \subseteq Ipam!Cidrs
      /\ registry' \in [accounts : SUBSET Accounts, regions : SUBSET Regions]
  BY <1>1, <1>2, AddedTypes, RegisterType DEF IInv, DrawInv, DrawTypes
<1>5. CASE /\ Ipam!CanAdd(p, name, VpcMask)
           /\ nets' = nets \cup {hub} /\ draws' = draws \cup {d}
           /\ threw' = threw
  <2>1. NewlyProvided({d})
    BY <1>1, <1>5, AddedFresh, DrawFields DEF NewlyProvided
  <2>2. DrawsAreProvisioned'
    BY <2>1, <1>1, <1>5, DrawsGrow DEF IInv, DrawInv
  <2>3. d \in Draws
    BY <1>2, <1>3, DrawType
  <2>4. DrawInv'
    BY <1>4, <1>5, <2>2, <2>3 DEF IInv, DrawInv, DrawTypes
  <2>5. NetTypes' /\ VpnsHaveNets' /\ VpnsAreRouted'
    BY <1>1, <1>3, <1>5
       DEF IInv, NetInv, NetTypes, VpnsHaveNets, VpnsAreRouted
  <2>6. OneHub'
    BY <1>1, <1>3, <1>5 DEF IInv, NetInv, OneHub, HubsOf
  <2>7. SpokesHaveGateway'
    BY <1>1, <1>3, <1>5 DEF IInv, NetInv, SpokesHaveGateway, HubsOf
  <2>8. SpokesArePrincipals'
    <3> SUFFICES ASSUME NEW n \in nets', NEW h \in nets',
                        n.role = "spoke", h.role = "hub", h.hub = n.hub,
                        Account[n.stack] # Account[h.stack]
                 PROVE  \E i \in DOMAIN principals'[n.hub] :
                          principals'[n.hub][i] = Account[n.stack]
      BY DEF SpokesArePrincipals
    <3>1. n \in nets
      BY <1>3, <1>5
    <3>2. h \in nets
      BY <3>1, <1>1, <1>3, <1>5 DEF IInv, NetInv, SpokesHaveGateway
    <3> QED BY <3>1, <3>2, <1>1 DEF IInv, NetInv, SpokesArePrincipals
  <2>9. PrincipalsOnce' /\ SharesHaveSpokes'
    BY <1>1, <1>3, <1>5 DEF IInv, NetInv, PrincipalsOnce, SharesHaveSpokes
  <2> QED BY <2>4, <2>5, <2>6, <2>7, <2>8, <2>9 DEF IInv, NetInv
<1>6. CASE threw' = TRUE /\ UNCHANGED <<nets, draws>>
  <2>1. DrawInv'
    BY <1>1, <1>4, <1>6, DrawsStay DEF IInv
  <2>2. NetInv'
    BY <1>1, <1>6, NetStays DEF IInv
  <2> QED BY <2>1, <2>2 DEF IInv
<1> QED BY <1>1, <1>5, <1>6

LEMMA AddSpokeKeeps ==
  ASSUME IInv, NEW s \in Stacks, NEW id \in Ids, AddSpoke(s, id)
  PROVE  IInv'
<1> DEFINE p == VpcPool(s)
           name == SpokeCidr(id, s)
<1>1. PICK h \in HubsOf(Region[s]) :
        /\ Register(s)
        /\ pools' = pools \cup Opened(p)
        /\ cidrs' = cidrs \cup Ipam!Added(p, name, VpcMask)
        /\ IF Ipam!CanAdd(p, name, VpcMask)
           THEN HubSpoke(h, s, id, p, name)
           ELSE threw' = TRUE
                /\ UNCHANGED <<nets, draws, gateways, principals, vpns>>
  BY DEF AddSpoke
<1>2. /\ p \in Ipam!Pools /\ name \in CidrNames /\ VpcMask \in Masks
      /\ h \in nets /\ h.role = "hub"
  BY PoolTypes, NameTypes DEF Masks, HubsOf
<1>3. /\ pools' \subseteq Ipam!Pools /\ cidrs' \subseteq Ipam!Cidrs
      /\ registry' \in [accounts : SUBSET Accounts, regions : SUBSET Regions]
  BY <1>1, <1>2, AddedTypes, RegisterType DEF IInv, DrawInv, DrawTypes
<1>4. CASE Ipam!CanAdd(p, name, VpcMask)
  <2>1. HubSpoke(h, s, id, p, name)
    BY <1>1, <1>4
  <2>2. draws' \subseteq Draws /\ threw' \in BOOLEAN /\ DrawsAreProvisioned'
    BY <2>1, <1>1, <1>2, <1>4, SpokeDraws, AddedFresh
  <2>3. NetInv'
    BY <2>1, <1>2, SpokeComes
  <2> QED BY <2>2, <2>3, <1>3 DEF IInv, DrawInv, DrawTypes
<1>5. CASE ~Ipam!CanAdd(p, name, VpcMask)
  <2>1. DrawInv'
    BY <1>1, <1>3, <1>5, DrawsStay DEF IInv
  <2>2. NetInv'
    BY <1>1, <1>5, NetStays DEF IInv
  <2> QED BY <2>1, <2>2 DEF IInv
<1> QED BY <1>4, <1>5

LEMMA AddSpokeToHubKeeps ==
  ASSUME IInv, NEW h \in nets, NEW s \in Stacks, NEW id \in Ids,
         AddSpokeToHub(h, s, id)
  PROVE  IInv'
<1>1. /\ HubSpoke(h, s, id, h.pool, Unasked) /\ h.role = "hub"
      /\ UNCHANGED <<pools, cidrs, registry>>
  BY DEF AddSpokeToHub
<1>2. h.pool \in Ipam!Pools
  BY DEF IInv, NetInv, NetTypes, Nets
<1>3. NetInv'
  BY <1>1, <1>2, SpokeComes
<1>4. draws' \subseteq Draws /\ threw' \in BOOLEAN /\ DrawsAreProvisioned'
  BY <1>1, <1>2, SpokeDraws
<1> QED BY <1>1, <1>3, <1>4 DEF IInv, DrawInv, DrawTypes

LEMMA EnableKeeps ==
  ASSUME IInv, NEW h \in nets, EnableTransitGateway(h)
  PROVE  IInv'
<1>1. h.hub \in Regions
  BY DEF IInv, NetInv, NetTypes, Nets
<1>2. WithGateway(h.hub) /\ UNCHANGED <<poolVars, nets, principals, draws,
                                       registry>>
  BY DEF EnableTransitGateway
<1>3. /\ gateways' \subseteq Regions /\ gateways \subseteq gateways'
      /\ vpns' \subseteq Vpns /\ VpnsAreRouted'
      /\ \A w \in vpns' : w.net \in nets
  BY <1>1, <1>2, GatewayComes DEF IInv
<1>4. NetTypes' /\ VpnsHaveNets'
  BY <1>2, <1>3 DEF IInv, NetInv, NetTypes, VpnsHaveNets
<1>5. OneHub' /\ SpokesHaveGateway' /\ SpokesArePrincipals' /\ PrincipalsOnce'
  BY <1>2, <1>3 DEF IInv, NetInv, OneHub, SpokesHaveGateway, HubsOf,
                    SpokesArePrincipals, PrincipalsOnce
<1>6. SharesHaveSpokes'
  BY <1>2 DEF IInv, NetInv, SharesHaveSpokes, poolVars
<1>7. DrawInv'
  BY <1>2, DrawsStay DEF IInv, DrawInv, DrawTypes, poolVars
<1> QED BY <1>3, <1>4, <1>5, <1>6, <1>7 DEF IInv, NetInv

LEMMA ControllerVpnKeeps ==
  ASSUME IInv, NEW r \in Regions, NEW id \in Ids, AddClientVpnEndpoint(r, id)
  PROVE  IInv'
<1>1. PICK h \in HubsOf(r) :
        LET p == VpcPool(h.stack) q == VpnPool(h.stack) name == HubCidr(id)
            first == Ipam!CanAdd(p, name, SubnetMask)
            second == Ipam!CanAdd(q, name, ClientMask)
        IN /\ pools' = pools \cup Opened(p)
                         \cup (IF first THEN Opened(q) ELSE {})
           /\ cidrs' = cidrs \cup Ipam!Added(p, name, SubnetMask)
                \cup (IF first THEN Ipam!Added(q, name, ClientMask) ELSE {})
           /\ IF first /\ second
              THEN /\ vpns' = vpns \cup {[net |-> h, id |-> id,
                                  via |-> "controller", routed |-> FALSE]}
                   /\ draws' = draws \cup {Draw(p, SubnetMask, name, h, id),
                                           Draw(q, ClientMask, name, h, id)}
                   /\ threw' = threw
              ELSE threw' = TRUE /\ UNCHANGED <<vpns, draws>>
           /\ UNCHANGED <<nets, gateways, principals, registry>>
  BY DEF AddClientVpnEndpoint
<1> DEFINE p == VpcPool(h.stack)
           q == VpnPool(h.stack)
           name == HubCidr(id)
           vpn == [net |-> h, id |-> id, via |-> "controller",
                   routed |-> FALSE]
           d == Draw(p, SubnetMask, name, h, id)
           e == Draw(q, ClientMask, name, h, id)
<1>2. h \in nets /\ h \in Nets /\ h.stack \in Stacks
  BY DEF HubsOf, IInv, NetInv, NetTypes, Nets
<1>3. /\ p \in Ipam!Pools /\ q \in Ipam!Pools /\ p # q
      /\ name \in CidrNames /\ SubnetMask \in Masks /\ ClientMask \in Masks
  BY <1>2, PoolTypes, NameTypes DEF Masks
<1>4. /\ pools' \subseteq Ipam!Pools /\ cidrs' \subseteq Ipam!Cidrs
      /\ cidrs \subseteq cidrs'
  BY <1>1, <1>3, AddedTypes DEF IInv, DrawInv, DrawTypes
<1>5. registry' \in [accounts : SUBSET Accounts, regions : SUBSET Regions]
  BY <1>1 DEF IInv, DrawInv, DrawTypes
<1>6. vpn \in Vpns /\ vpn.net = h /\ vpn.via # "network"
  BY <1>2 DEF Vpns
<1>7. CASE /\ Ipam!CanAdd(p, name, SubnetMask)
           /\ Ipam!CanAdd(q, name, ClientMask)
  <2>1. /\ vpns' = vpns \cup {vpn} /\ threw' = threw
        /\ draws' = draws \cup {d, e}
        /\ cidrs' = cidrs \cup Ipam!Added(p, name, SubnetMask)
                          \cup Ipam!Added(q, name, ClientMask)
        /\ UNCHANGED <<nets, gateways, principals>>
    BY <1>1, <1>7
  <2>2. /\ Ipam!OwnCidr(p, name, SubnetMask) \in cidrs'
        /\ Ipam!OwnCidr(q, name, ClientMask) \in cidrs'
        /\ \A k : Ipam!OwnCidr(p, name, k) \notin cidrs
        /\ \A k : Ipam!OwnCidr(q, name, k) \notin cidrs
    BY <2>1, <1>7, AddedFresh
  <2>3. NewlyProvided({d, e})
    BY <2>2, <1>3, DrawFields DEF NewlyProvided
  <2>4. DrawsAreProvisioned'
    BY <2>1, <2>3, <1>4, DrawsGrow DEF IInv, DrawInv
  <2>5. d \in Draws /\ e \in Draws
    BY <1>2, <1>3, DrawType
  <2>6. DrawInv'
    BY <2>1, <2>4, <2>5, <1>4, <1>5 DEF IInv, DrawInv, DrawTypes
  <2>7. NetInv'
    BY <2>1, <1>2, <1>6, VpnComes DEF IInv
  <2> QED BY <2>6, <2>7 DEF IInv
<1>8. CASE ~(/\ Ipam!CanAdd(p, name, SubnetMask)
             /\ Ipam!CanAdd(q, name, ClientMask))
  <2>1. /\ threw' = TRUE
        /\ UNCHANGED <<vpns, draws, nets, gateways, principals>>
    BY <1>1, <1>8
  <2>2. DrawInv'
    BY <2>1, <1>4, <1>5, DrawsStay DEF IInv
  <2>3. NetInv'
    BY <2>1, NetStays DEF IInv
  <2> QED BY <2>2, <2>3 DEF IInv
<1> QED BY <1>7, <1>8

LEMMA NetworkVpnKeeps ==
  ASSUME IInv, NEW n \in nets, NEW id \in Ids,
         AddIsolatedClientVpnEndpoint(n, id)
  PROVE  IInv'
<1> DEFINE q == VpnPool(n.stack)
           name == VpnCidr(id)
           vpn == [net |-> n, id |-> id, via |-> "network",
                   routed |-> n.hub \in gateways]
           d == Draw(n.pool, SubnetMask, Unasked, n, id)
           e == Draw(q, ClientMask, name, n, id)
<1>1. /\ pools' = pools \cup Opened(q)
      /\ cidrs' = cidrs \cup Ipam!Added(q, name, ClientMask)
      /\ UNCHANGED <<nets, gateways, principals, registry>>
      /\ IF Ipam!CanAdd(q, name, ClientMask)
         THEN /\ vpns' = vpns \cup {vpn} /\ draws' = draws \cup {d, e}
              /\ threw' = threw
         ELSE threw' = TRUE /\ UNCHANGED <<vpns, draws>>
  BY DEF AddIsolatedClientVpnEndpoint
<1>2. n \in Nets /\ n.stack \in Stacks /\ n.pool \in Ipam!Pools
  BY DEF IInv, NetInv, NetTypes, Nets
<1>3. /\ q \in Ipam!Pools /\ name \in CidrNames /\ name # Unasked
      /\ SubnetMask \in Masks /\ ClientMask \in Masks
  BY <1>2, PoolTypes, NameTypes DEF Masks
<1>4. /\ pools' \subseteq Ipam!Pools /\ cidrs' \subseteq Ipam!Cidrs
      /\ cidrs \subseteq cidrs'
  BY <1>1, <1>3, AddedTypes DEF IInv, DrawInv, DrawTypes
<1>5. registry' \in [accounts : SUBSET Accounts, regions : SUBSET Regions]
  BY <1>1 DEF IInv, DrawInv, DrawTypes
<1>6. CASE Ipam!CanAdd(q, name, ClientMask)
  <2>1. vpn \in Vpns /\ vpn.net = n /\ (vpn.routed <=> n.hub \in gateways)
    <3>1. \A b \in BOOLEAN :
            [net |-> n, id |-> id, via |-> "network", routed |-> b] \in Vpns
      BY <1>2 DEF Vpns
    <3>2. (n.hub \in gateways) \in BOOLEAN
      OBVIOUS
    <3> QED BY <3>1, <3>2
  <2>2. NetInv'
    BY <2>1, <1>1, <1>6, VpnComes DEF IInv
  <2>3. d.name = Unasked /\ e.pool = q /\ e.mask = ClientMask /\ e.name = name
    BY DrawFields
  <2>4. NewlyProvided({d, e})
    BY <2>3, <1>1, <1>3, <1>6, AddedFresh DEF NewlyProvided
  <2>5. DrawsAreProvisioned'
    BY <2>4, <1>1, <1>4, <1>6, DrawsGrow DEF IInv, DrawInv
  <2>6. d \in Draws /\ e \in Draws
    BY <1>2, <1>3, DrawType
  <2>7. DrawInv'
    BY <2>5, <2>6, <1>1, <1>4, <1>5, <1>6 DEF IInv, DrawInv, DrawTypes
  <2> QED BY <2>2, <2>7 DEF IInv
<1>7. CASE ~Ipam!CanAdd(q, name, ClientMask)
  <2>1. /\ threw' = TRUE
        /\ UNCHANGED <<vpns, draws, nets, gateways, principals>>
    BY <1>1, <1>7
  <2>2. DrawInv'
    BY <2>1, <1>4, <1>5, DrawsStay DEF IInv
  <2>3. NetInv'
    BY <2>1, NetStays DEF IInv
  <2> QED BY <2>2, <2>3 DEF IInv
<1> QED BY <1>6, <1>7

LEMMA ThrowKeeps ==
  ASSUME IInv, Throw
  PROVE  IInv'
<1>1. /\ threw' = TRUE
      /\ UNCHANGED <<pools, cidrs, nets, gateways, principals, vpns, draws,
                     registry>>
  BY DEF Throw
<1>2. DrawInv'
  BY <1>1, DrawsStay DEF IInv, DrawInv, DrawTypes
<1>3. NetInv'
  BY <1>1, NetStays DEF IInv
<1> QED BY <1>2, <1>3 DEF IInv

LEMMA NothingKeeps ==
  ASSUME IInv, UNCHANGED vars
  PROVE  IInv'
<1>1. UNCHANGED <<pools, cidrs, threw, nets, gateways, principals, vpns,
                  draws, registry>>
  BY DEF vars, poolVars
<1>2. DrawInv'
  BY <1>1, DrawsStay DEF IInv, DrawInv, DrawTypes
<1>3. NetInv'
  BY <1>1, NetStays DEF IInv
<1> QED BY <1>2, <1>3 DEF IInv

-----------------------------------------------------------------------------

LEMMA Initially == Init => IInv
<1> SUFFICES ASSUME Init PROVE IInv
  OBVIOUS
<1>1. pools = {Ipam!TopPool("vpc")} /\ cidrs = {} /\ threw = FALSE
  BY DEF Init, Ipam!PoolsInit
<1>2. Ipam!TopPool("vpc") \in Ipam!Pools
  BY DEF Ipam!TopPool, Ipam!Pools, Ipam!Kinds
<1>3. DrawInv
  BY <1>1, <1>2 DEF Init, DrawInv, DrawTypes, DrawsAreProvisioned
<1>4. principals \in [Regions -> Seq(Accounts)]
  BY DEF Init
<1>5. NetTypes /\ PrincipalsOnce /\ SharesHaveSpokes
  BY <1>4 DEF Init, NetTypes, PrincipalsOnce, SharesHaveSpokes
<1>6. /\ OneHub /\ SpokesHaveGateway /\ SpokesArePrincipals /\ VpnsHaveNets
      /\ VpnsAreRouted
  BY DEF Init, OneHub, SpokesHaveGateway, SpokesArePrincipals, VpnsHaveNets,
         VpnsAreRouted
<1> QED BY <1>3, <1>5, <1>6 DEF IInv, NetInv

LEMMA Steps == IInv /\ [Next]_vars => IInv'
<1> SUFFICES ASSUME IInv, [Next]_vars PROVE IInv'
  OBVIOUS
<1>1. ASSUME NEW s \in Stacks, NEW id \in Ids, AddHub(s, id)
      PROVE  IInv'
  BY <1>1, AddHubKeeps
<1>2. ASSUME NEW s \in Stacks, NEW id \in Ids, AddSpoke(s, id)
      PROVE  IInv'
  BY <1>2, AddSpokeKeeps
<1>3. ASSUME NEW s \in Stacks, AddHubAgain(s) \/ AddSpokeEarly(s)
      PROVE  IInv'
  BY <1>3, ThrowKeeps DEF AddHubAgain, AddSpokeEarly
<1>4. ASSUME NEW h \in nets, NEW s \in Stacks, NEW id \in Ids,
             AddSpokeToHub(h, s, id)
      PROVE  IInv'
  BY <1>4, AddSpokeToHubKeeps
<1>5. ASSUME NEW h \in nets, EnableTransitGateway(h)
      PROVE  IInv'
  BY <1>5, EnableKeeps
<1>6. ASSUME NEW h \in nets, EnableTransitGatewayAgain(h)
      PROVE  IInv'
  BY <1>6, ThrowKeeps DEF EnableTransitGatewayAgain
<1>7. ASSUME NEW r \in Regions, AddClientVpnEndpointEarly(r)
      PROVE  IInv'
  BY <1>7, ThrowKeeps DEF AddClientVpnEndpointEarly
<1>8. ASSUME NEW r \in Regions, NEW id \in Ids, AddClientVpnEndpoint(r, id)
      PROVE  IInv'
  BY <1>8, ControllerVpnKeeps
<1>9. ASSUME NEW n \in nets, NEW id \in Ids,
             AddIsolatedClientVpnEndpoint(n, id)
      PROVE  IInv'
  BY <1>9, NetworkVpnKeeps
<1>10. CASE UNCHANGED vars
  BY <1>10, NothingKeeps
<1> QED BY <1>1, <1>2, <1>3, <1>4, <1>5, <1>6, <1>7, <1>8, <1>9, <1>10
       DEF Next

LEMMA Always == Spec => []IInv
  BY Initially, Steps, PTL DEF Spec

\* Networks, VPNs, shares and draws are well formed in every state.
THEOREM TypeCorrect == Spec => []TypeOK
<1>1. IInv => TypeOK
  BY DEF IInv, DrawInv, DrawTypes, NetInv, NetTypes, TypeOK,
         Ipam!PoolsTypeOK
<1> QED BY <1>1, Always, PTL

\* The VPNs of networks have routes to the gateway of their region exactly
\* when there is one, in whatever order VPNs, spokes and gateways come
\* (four-tier-network-hub.ts 131-140 and 221-223).
THEOREM AlwaysRouted == Spec => []VpnsAreRouted
<1>1. IInv => VpnsAreRouted
  BY DEF IInv, NetInv
<1> QED BY <1>1, Always, PTL

\* Every spoke has a gateway to attach to, and its account is a principal of
\* the gateway's share once (four-tier-network-hub.ts 107-155).
THEOREM AlwaysAttachable == Spec => []SpokesCanAttach
<1>1. IInv => SpokesCanAttach
  <2> SUFFICES ASSUME IInv, NEW n \in nets, n.role = "spoke"
               PROVE  /\ n.hub \in gateways
                      /\ \A h \in HubsOf(n.hub) :
                           Account[n.stack] # Account[h.stack] =>
                             \E i \in DOMAIN principals[n.hub] :
                               /\ principals[n.hub][i] = Account[n.stack]
                               /\ \A j \in DOMAIN principals[n.hub] :
                                    principals[n.hub][j] = Account[n.stack]
                                      => j = i
    BY DEF SpokesCanAttach
  <2>1. n.hub \in gateways /\ n.hub \in Regions
    BY DEF IInv, NetInv, NetTypes, Nets, SpokesHaveGateway
  <2>2. \A i, j \in DOMAIN principals[n.hub] :
          principals[n.hub][i] = principals[n.hub][j] => i = j
    BY <2>1 DEF IInv, NetInv, PrincipalsOnce
  <2>3. \A h \in HubsOf(n.hub) : Account[n.stack] # Account[h.stack] =>
          \E i \in DOMAIN principals[n.hub] :
            principals[n.hub][i] = Account[n.stack]
    BY DEF IInv, NetInv, SpokesArePrincipals, HubsOf
  <2> QED BY <2>1, <2>2, <2>3
<1> QED BY <1>1, Always, PTL

\* A gateway is shared with every account of its spokes once, and as long as no call
\* throws with no other account (four-tier-network-hub.ts 107-170).
THEOREM SharesAlwaysMatch == Spec => []SharesMatchSpokes
<1>1. IInv => SharesHaveSpokes
  BY DEF IInv, NetInv
<1>2. SpokesCanAttach /\ SharesHaveSpokes => SharesMatchSpokes
  BY DEF SharesMatchSpokes
<1> QED BY <1>1, <1>2, AlwaysAttachable, Always, PTL

\* What a VPC or a VPN takes after asking for it has been added to its pool in
\* the size it takes, for it alone (network-controller.ts 111-211).
THEOREM AlwaysProvisioned == Spec => []DrawsAreProvisioned
<1>1. IInv => DrawsAreProvisioned
  BY DEF IInv, DrawInv
<1> QED BY <1>1, Always, PTL

-----------------------------------------------------------------------------
(* The deployment.  The CIDRs are finitely many and every network takes    *)
(* the addresses of its VPC from its pool.                                 *)

NetsDraw ==
  \A n \in nets : \E d \in draws :
    d.user = n /\ d.mask = VpcMask /\ d.pool = n.pool

DeployIInv == IInv /\ IsFiniteSet(cidrs) /\ NetsDraw /\ FailuresHaveACause

VpcCidrs(p) == {c \in cidrs : c.pool = p /\ c.conf = VpcMask}

LEMMA AddedIsFinite ==
  ASSUME NEW p, NEW n, NEW m
  PROVE  IsFiniteSet(Ipam!Added(p, n, m))
<1> DEFINE own == {Ipam!OwnCidr(p, n, m)}
           parents == {Ipam!ParentCidr(p, n, m)}
<1>1. IsFiniteSet(own) /\ IsFiniteSet(parents)
  BY FS_Singleton
<1>2. IsFiniteSet(own \cup parents)
  BY <1>1, FS_Union
<1>3. Ipam!Added(p, n, m) \in SUBSET (own \cup parents)
  BY DEF Ipam!Added
<1> QED BY <1>2, <1>3, FS_Subset

LEMMA CidrsStayFinite ==
  ASSUME IsFiniteSet(cidrs), Next
  PROVE  IsFiniteSet(cidrs')
<1>1. SUFFICES \E A : IsFiniteSet(A) /\ cidrs' = cidrs \cup A
  BY <1>1, FS_Union
<1>2. ASSUME UNCHANGED cidrs
      PROVE  \E A : IsFiniteSet(A) /\ cidrs' = cidrs \cup A
  <2>1. IsFiniteSet({}) /\ cidrs' = cidrs \cup {}
    BY <1>2, FS_EmptySet
  <2> QED BY <2>1
<1>3. ASSUME NEW s \in Stacks, NEW id \in Ids, AddHub(s, id)
      PROVE  \E A : IsFiniteSet(A) /\ cidrs' = cidrs \cup A
  BY <1>3, AddedIsFinite DEF AddHub
<1>4. ASSUME NEW s \in Stacks, NEW id \in Ids, AddSpoke(s, id)
      PROVE  \E A : IsFiniteSet(A) /\ cidrs' = cidrs \cup A
  BY <1>4, AddedIsFinite DEF AddSpoke
<1>5. ASSUME NEW r \in Regions, NEW id \in Ids, AddClientVpnEndpoint(r, id)
      PROVE  \E A : IsFiniteSet(A) /\ cidrs' = cidrs \cup A
  <2>1. PICK h \in HubsOf(r) :
          cidrs' = cidrs
            \cup Ipam!Added(VpcPool(h.stack), HubCidr(id), SubnetMask)
            \cup (IF Ipam!CanAdd(VpcPool(h.stack), HubCidr(id), SubnetMask)
                  THEN Ipam!Added(VpnPool(h.stack), HubCidr(id), ClientMask)
                  ELSE {})
    BY <1>5 DEF AddClientVpnEndpoint
  <2> DEFINE A == Ipam!Added(VpcPool(h.stack), HubCidr(id), SubnetMask)
             B == IF Ipam!CanAdd(VpcPool(h.stack), HubCidr(id), SubnetMask)
                  THEN Ipam!Added(VpnPool(h.stack), HubCidr(id), ClientMask)
                  ELSE {}
  <2>2. IsFiniteSet(A) /\ IsFiniteSet(B)
    BY AddedIsFinite, FS_EmptySet
  <2>3. IsFiniteSet(A \cup B)
    BY <2>2, FS_Union
  <2>4. cidrs' = cidrs \cup (A \cup B)
    BY <2>1
  <2> QED BY <2>3, <2>4
<1>6. ASSUME NEW n \in nets, NEW id \in Ids,
             AddIsolatedClientVpnEndpoint(n, id)
      PROVE  \E A : IsFiniteSet(A) /\ cidrs' = cidrs \cup A
  BY <1>6, AddedIsFinite DEF AddIsolatedClientVpnEndpoint
<1> QED BY <1>2, <1>3, <1>4, <1>5, <1>6
       DEF Next, AddHubAgain, AddSpokeEarly, AddSpokeToHub,
           EnableTransitGateway, EnableTransitGatewayAgain,
           AddClientVpnEndpointEarly, Throw, poolVars

\* Networks and draws are never taken back, and a network comes with its draw.
LEMMA NetsKeepDraws ==
  ASSUME NetsDraw, Next
  PROVE  nets \subseteq nets' /\ draws \subseteq draws' /\ NetsDraw'
<1> DEFINE Comes(n) == \E d \in draws' :
             d.user = n /\ d.mask = VpcMask /\ d.pool = n.pool
<1>1. SUFFICES /\ draws \subseteq draws'
               /\ \/ nets' = nets
                  \/ \E n : nets' = nets \cup {n} /\ Comes(n)
  BY <1>1 DEF NetsDraw
<1>2. ASSUME NEW s \in Stacks, NEW id \in Ids, AddHub(s, id)
      PROVE  /\ draws \subseteq draws'
             /\ \/ nets' = nets
                \/ \E n : nets' = nets \cup {n} /\ Comes(n)
  <2> DEFINE hub == [role |-> "hub", stack |-> s, id |-> id,
                     hub |-> Region[s], pool |-> VpcPool(s)]
             d == Draw(VpcPool(s), VpcMask, HubCidr(id), hub, id)
  <2>1. d.user = hub /\ d.mask = VpcMask /\ d.pool = hub.pool
    BY DEF Draw
  <2>2. \/ UNCHANGED <<nets, draws>>
        \/ nets' = nets \cup {hub} /\ draws' = draws \cup {d}
    BY <1>2 DEF AddHub
  <2>3. CASE UNCHANGED <<nets, draws>>
    BY <2>3
  <2>4. CASE nets' = nets \cup {hub} /\ draws' = draws \cup {d}
    <3> HIDE DEF hub, d
    <3> QED BY <2>1, <2>4
  <2> QED BY <2>2, <2>3, <2>4
<1>3. ASSUME NEW h, NEW s, NEW id, NEW p, NEW name, HubSpoke(h, s, id, p, name)
      PROVE  /\ draws \subseteq draws'
             /\ \/ nets' = nets
                \/ \E n : nets' = nets \cup {n} /\ Comes(n)
  <2> DEFINE spoke == [role |-> "spoke", stack |-> s, id |-> id,
                       hub |-> h.hub, pool |-> p]
             d == Draw(p, VpcMask, name, spoke, id)
  <2>1. d.user = spoke /\ d.mask = VpcMask /\ d.pool = spoke.pool
    BY DEF Draw
  <2>2. \/ UNCHANGED <<nets, draws>>
        \/ nets' = nets \cup {spoke} /\ draws' = draws \cup {d}
    BY <1>3 DEF HubSpoke
  <2>3. CASE UNCHANGED <<nets, draws>>
    BY <2>3
  <2>4. CASE nets' = nets \cup {spoke} /\ draws' = draws \cup {d}
    <3> HIDE DEF spoke, d
    <3> QED BY <2>1, <2>4
  <2> QED BY <2>2, <2>3, <2>4
<1>4. ASSUME NEW s \in Stacks, NEW id \in Ids, AddSpoke(s, id)
      PROVE  /\ draws \subseteq draws'
             /\ \/ nets' = nets
                \/ \E n : nets' = nets \cup {n} /\ Comes(n)
  <2>1. PICK h \in HubsOf(Region[s]) :
          \/ HubSpoke(h, s, id, VpcPool(s), SpokeCidr(id, s))
          \/ UNCHANGED <<nets, draws>>
    BY <1>4 DEF AddSpoke
  <2> QED BY <2>1, <1>3
<1>5. ASSUME NEW h \in nets, NEW s \in Stacks, NEW id \in Ids,
             AddSpokeToHub(h, s, id)
      PROVE  /\ draws \subseteq draws'
             /\ \/ nets' = nets
                \/ \E n : nets' = nets \cup {n} /\ Comes(n)
  <2>1. HubSpoke(h, s, id, h.pool, Unasked)
    BY <1>5 DEF AddSpokeToHub
  <2> QED BY <2>1, <1>3
<1>6. ASSUME NEW r \in Regions, NEW id \in Ids, AddClientVpnEndpoint(r, id)
      PROVE  draws \subseteq draws' /\ nets' = nets
  BY <1>6 DEF AddClientVpnEndpoint
<1>7. ASSUME NEW n \in nets, NEW id \in Ids,
             AddIsolatedClientVpnEndpoint(n, id)
      PROVE  draws \subseteq draws' /\ nets' = nets
  BY <1>7 DEF AddIsolatedClientVpnEndpoint
<1>8. ASSUME UNCHANGED <<nets, draws>>
      PROVE  draws \subseteq draws' /\ nets' = nets
  BY <1>8
<1> QED BY <1>2, <1>4, <1>5, <1>6, <1>7, <1>8
       DEF Next, AddHubAgain, AddSpokeEarly, EnableTransitGateway,
           EnableTransitGatewayAgain, AddClientVpnEndpointEarly, Throw

\* When every CIDR exists and every network of a pool asked for the one its
\* VPC takes, a VPC that is not there yet finds addresses: the networks of the
\* pool are no more than its CIDRs of that size, and this one is still to come.
LEMMA EnoughAddresses ==
  ASSUME DeployIInv, cidrs \subseteq made, NEW n \in nets, n \notin made,
         \A m \in nets : m.pool = n.pool => ~TakesUnasked(m)
  PROVE  HasAddresses(n.pool)
<1> DEFINE p == n.pool
           N == {m \in nets : m.pool = p}
           IsDraw(m, d) == d.user = m /\ d.mask = VpcMask /\ d.pool = p
           DrawOf(m) == CHOOSE d \in draws : IsDraw(m, d)
           C == VpcCidrs(p)
           f == [m \in N |-> Ipam!OwnCidr(p, DrawOf(m).name, VpcMask)]
<1>1. ASSUME NEW m \in N
      PROVE  /\ DrawOf(m) \in draws /\ IsDraw(m, DrawOf(m))
             /\ DrawOf(m).name # Unasked
  <2>1. \E d \in draws : IsDraw(m, d)
    BY DEF DeployIInv, NetsDraw
  <2>2. DrawOf(m) \in draws /\ IsDraw(m, DrawOf(m))
    BY <2>1
  <2> QED BY <2>2 DEF TakesUnasked
<1> HIDE DEF DrawOf
<1>2. f \in [N -> C]
  <2> SUFFICES ASSUME NEW m \in N
               PROVE  Ipam!OwnCidr(p, DrawOf(m).name, VpcMask) \in C
    OBVIOUS
  <2>1. Ipam!OwnCidr(p, DrawOf(m).name, VpcMask) \in cidrs
    BY <1>1 DEF DeployIInv, IInv, DrawInv, DrawsAreProvisioned
  <2> QED BY <2>1 DEF VpcCidrs, Ipam!OwnCidr, Ipam!Cidr
<1>3. ASSUME NEW m \in N, NEW k \in N, f[m] = f[k]
      PROVE  m = k
  <2>1. DrawOf(m).name = DrawOf(k).name
    BY <1>3 DEF Ipam!OwnCidr, Ipam!Cidr
  <2>2. DrawOf(m) = DrawOf(k)
    BY <2>1, <1>1 DEF DeployIInv, IInv, DrawInv, DrawsAreProvisioned
  <2> QED BY <2>2, <1>1
<1>4. f \in Injection(N, C)
  BY <1>2, <1>3 DEF Injection, IsInjective
<1>5. IsFiniteSet(C)
  BY FS_Subset DEF DeployIInv, VpcCidrs
<1>6. IsFiniteSet(N) /\ Cardinality(N) <= Cardinality(C)
  BY <1>4, <1>5, FS_Injection
<1>7. n \in N
  OBVIOUS
<1>8. /\ IsFiniteSet(N \ {n})
      /\ Cardinality(N \ {n}) = Cardinality(N) - 1
  BY <1>6, <1>7, FS_RemoveElement
<1> DEFINE M == {m \in nets \cap made : m.pool = p}
<1>9. IsFiniteSet(M) /\ Cardinality(M) <= Cardinality(N \ {n})
  <2>1. M \in SUBSET (N \ {n})
    OBVIOUS
  <2> QED BY <2>1, <1>8, FS_Subset
<1>10. {c \in cidrs \cap made : c.pool = p /\ c.conf = VpcMask} = C
  BY DEF VpcCidrs
<1>11. /\ Cardinality(M) \in Nat /\ Cardinality(N) \in Nat
       /\ Cardinality(C) \in Nat
  BY <1>5, <1>6, <1>9, FS_CardinalityType
<1>12. Cardinality(M) < Cardinality(C)
  <2> HIDE DEF M, N, C
  <2> QED BY <1>6, <1>8, <1>9, <1>11
<1> QED BY <1>10, <1>12 DEF HasAddresses

LEMMA DeployInitially == DeployInit => DeployIInv
<1> SUFFICES ASSUME DeployInit PROVE DeployIInv
  OBVIOUS
<1>1. IInv
  BY Initially DEF DeployInit
<1>2. cidrs = {} /\ nets = {} /\ failed = {}
  BY DEF DeployInit, Init, Ipam!PoolsInit
<1>3. IsFiniteSet(cidrs)
  BY <1>2, FS_EmptySet
<1> QED BY <1>1, <1>2, <1>3 DEF DeployIInv, NetsDraw, FailuresHaveACause

\* The invariant speaks of the constructs and of failures only.
LEMMA ConstructsStay ==
  ASSUME DeployIInv, UNCHANGED <<vars, failed>>
  PROVE  DeployIInv'
<1>1. UNCHANGED <<cidrs, nets, draws, failed>>
  BY DEF vars, poolVars
<1>2. IInv'
  BY NothingKeeps DEF DeployIInv
<1>3. IsFiniteSet(cidrs')
  BY <1>1 DEF DeployIInv
<1> QED BY <1>1, <1>2, <1>3
       DEF DeployIInv, NetsDraw, FailuresHaveACause, TakesUnasked

LEMMA DeploySteps == DeployIInv /\ [DeployNext]_deployVars => DeployIInv'
<1> SUFFICES ASSUME DeployIInv, [DeployNext]_deployVars PROVE DeployIInv'
  OBVIOUS
<1>1. CASE Construct
  <2>1. Next /\ UNCHANGED failed
    BY <1>1 DEF Construct
  <2>2. IInv' /\ IsFiniteSet(cidrs')
    BY <2>1, Steps, CidrsStayFinite DEF DeployIInv
  <2>3. nets \subseteq nets' /\ draws \subseteq draws' /\ NetsDraw'
    BY <2>1, NetsKeepDraws DEF DeployIInv
  <2>4. FailuresHaveACause'
    BY <2>1, <2>3 DEF DeployIInv, FailuresHaveACause, TakesUnasked
  <2> QED BY <2>2, <2>3, <2>4 DEF DeployIInv
<1>2. CASE Synthesize
  BY <1>2, ConstructsStay DEF Synthesize
<1>3. ASSUME NEW c \in cidrs, CreateCidr(c)
      PROVE  DeployIInv'
  BY <1>3, ConstructsStay DEF CreateCidr
<1>4. ASSUME NEW n \in nets, CreateVpc(n)
      PROVE  DeployIInv'
  <2>1. CASE failed' = failed
    BY <2>1, <1>4, ConstructsStay DEF CreateVpc
  <2>2. CASE failed' # failed
    <3>1. /\ ~HasAddresses(n.pool) /\ failed' = failed \cup {n}
          /\ n \notin made /\ UNCHANGED vars
          /\ n.stack # ManagerStack => cidrs \subseteq made
      BY <1>4, <2>2 DEF CreateVpc
    <3>2. n.stack = ManagerStack
          \/ \E m \in nets : m.pool = n.pool /\ TakesUnasked(m)
      BY <3>1, EnoughAddresses
    <3>3. UNCHANGED <<cidrs, nets, draws>>
      BY <3>1 DEF vars, poolVars
    <3>4. FailuresHaveACause'
      BY <3>1, <3>2, <3>3 DEF DeployIInv, FailuresHaveACause, TakesUnasked
    <3>5. IInv'
      BY <3>1, NothingKeeps DEF DeployIInv
    <3>6. IsFiniteSet(cidrs') /\ NetsDraw'
      BY <3>3 DEF DeployIInv, NetsDraw
    <3> QED BY <3>4, <3>5, <3>6 DEF DeployIInv
  <2> QED BY <2>1, <2>2
<1>5. CASE UNCHANGED deployVars
  BY <1>5, ConstructsStay DEF deployVars
<1> QED BY <1>1, <1>2, <1>3, <1>4, <1>5 DEF DeployNext

\* A VPC finds no addresses only in the stack of the controller or beside a
\* spoke for which nothing was asked, whatever the order of the deployment
\* (tiered-subnets.ts 33-36 and four-tier-network-hub.ts 142-169).
THEOREM FailuresAlwaysCaused == DeploySpec => []FailuresHaveACause
<1>1. DeployIInv => FailuresHaveACause
  BY DEF DeployIInv
<1> QED BY <1>1, DeployInitially, DeploySteps, PTL DEF DeploySpec

-----------------------------------------------------------------------------
(***************************************************************************)
(* The add-ons of a cluster, and workflows.                                *)
(***************************************************************************)

LoggerFirst ==
    \A r \in deployed \cup installed :
        r[1] \in DOMAIN AddOnOf /\ "logger" \in enabled => <<"loggerManifest">> \in deployed

\* Beside what is claimed, a chart that is waited for is one of an add-on.
LogsInv ==
    /\ enabled \subseteq AddOns
    /\ LoggerFirst
    /\ LogsComeFirst

-----------------------------------------------------------------------------
LEMMA AddOnNames == AddOns = {"logger", "adot", "dns", "operator", "prometheus"}
BY DEF AddOns, Position

\* Every add-on but the first has one before it, if the logger is there.
LEMMA SomePrevious ==
    ASSUME enabled \subseteq AddOns, "logger" \in enabled, NEW a \in AddOns, a # "logger"
    PROVE  \E b \in enabled : b \in Previous(a)
<1> DEFINE before == {b \in enabled : Position[b] < Position[a]}
<1>1. "logger" \in before
  BY AddOnNames DEF Position
<1>2. before \subseteq AddOns
  OBVIOUS
<1>3. \E b \in before : \A c \in before : Position[c] <= Position[b]
  <2> HIDE DEF before
  <2>1. CASE "prometheus" \in before
    BY <1>2, <2>1, AddOnNames DEF Position
  <2>2. CASE "prometheus" \notin before /\ "operator" \in before
    BY <1>2, <2>2, AddOnNames DEF Position
  <2>3. CASE "prometheus" \notin before /\ "operator" \notin before /\ "dns" \in before
    BY <1>2, <2>3, AddOnNames DEF Position
  <2>4. CASE "prometheus" \notin before /\ "operator" \notin before /\ "dns" \notin before
             /\ "adot" \in before
    BY <1>2, <2>4, AddOnNames DEF Position
  <2>5. CASE /\ "prometheus" \notin before /\ "operator" \notin before
             /\ "dns" \notin before /\ "adot" \notin before
    BY <1>1, <1>2, <2>5, AddOnNames DEF Position
  <2> QED  BY <2>1, <2>2, <2>3, <2>4, <2>5
<1> QED  BY <1>3 DEF Previous, Last

\* Every add-on has a resource of its own.
LEMMA SomeResource ==
    ASSUME NEW b \in AddOns
    PROVE  \E kind \in DOMAIN AddOnOf \ {"storeAccount", "store"} :
              AddOnOf[kind] = b /\ <<kind>> \in ResourcesOf(b)
<1>1. \E kind \in DOMAIN AddOnOf \ {"storeAccount", "store"} : AddOnOf[kind] = b
  BY AddOnNames DEF AddOnOf
<1> QED  BY <1>1 DEF ResourcesOf

LEMMA AddOnOfKinds == \A kind \in DOMAIN AddOnOf : AddOnOf[kind] \in AddOns
BY AddOnNames DEF AddOnOf

\* The logger has one resource.
LEMMA LoggerKind == \A kind \in DOMAIN AddOnOf : AddOnOf[kind] = "logger" => kind = "loggerManifest"
BY DEF AddOnOf

\* What can be deployed of an add-on has the logger before it.
LEMMA LoggerBefore ==
    ASSUME LogsInv, NEW r, r[1] \in DOMAIN AddOnOf, AddOnOf[r[1]] # "logger",
           "logger" \in enabled, Deployable(r)
    PROVE  <<"loggerManifest">> \in deployed
<1>1. PICK b \in enabled : b \in Previous(AddOnOf[r[1]])
  BY SomePrevious, AddOnOfKinds DEF LogsInv
<1>2. PICK kind \in DOMAIN AddOnOf \ {"storeAccount", "store"} :
         AddOnOf[kind] = b /\ <<kind>> \in ResourcesOf(b)
  BY SomeResource DEF LogsInv
<1>3. r[1] # "externalSecret"
  BY DEF AddOnOf
<1>4. ResourcesOf(b) \subseteq Dependencies(r)
  BY <1>1, <1>3 DEF Dependencies
<1>5. <<kind>> \in deployed
  BY <1>2, <1>4 DEF Deployable
<1> QED  BY <1>2, <1>5 DEF LogsInv, LoggerFirst

-----------------------------------------------------------------------------
LEMMA LogsInit == ClusterInit => LogsInv
BY DEF ClusterInit, LogsInv, LoggerFirst, LogsComeFirst

LEMMA LogsStep == LogsInv /\ [ClusterNext]_clusterVars => LogsInv'
<1> SUFFICES ASSUME LogsInv, [ClusterNext]_clusterVars PROVE LogsInv'
  OBVIOUS
<1>1. ASSUME UNCHANGED <<enabled, deployed, installed, unlogged>> PROVE LogsInv'
  BY <1>1 DEF LogsInv, LoggerFirst, LogsComeFirst
<1>2. ASSUME NEW s \in Secrets, NEW id \in SecretIds, NEW n \in Targets, RegisterSecret(s, id, n)
      PROVE  LogsInv'
  BY <1>1, <1>2 DEF RegisterSecret
<1>3. ASSUME SynthesizeCluster PROVE LogsInv'
  BY <1>1, <1>3 DEF SynthesizeCluster
<1>4. ASSUME NEW r \in Resources, Apply(r) PROVE LogsInv'
  <2>1. deployed \subseteq deployed' /\ enabled' = enabled
    BY <1>4 DEF Apply
  <2>2. deployed' \cup installed' = deployed \cup installed \cup {r}
    BY <1>4 DEF Apply
  <2>3. ASSUME r[1] \in DOMAIN AddOnOf, "logger" \in enabled
        PROVE  <<"loggerManifest">> \in deployed'
    <3>1. CASE AddOnOf[r[1]] = "logger"
      <4>1. r[1] = "loggerManifest"
        BY <2>3, <3>1, LoggerKind
      <4>2. r = <<"loggerManifest">>
        <5>1. r \notin {<<"externalSecret", e>> : e \in registered}
          BY <4>1
        <5>2. PICK a \in enabled : r \in ResourcesOf(a)
          BY <5>1 DEF Resources
        <5>3. r \notin {<<kind, s>> : kind \in {"storeAccount", "store"}, s \in Stores}
          BY <4>1
        <5>4. PICK kind \in DOMAIN AddOnOf : r = <<kind>>
          BY <5>2, <5>3 DEF ResourcesOf
        <5> QED  BY <4>1, <5>4
      <4>3. ~IsChart(r)
        BY <4>1 DEF IsChart
      <4> QED  BY <1>4, <4>2, <4>3 DEF Apply
    <3>2. CASE AddOnOf[r[1]] # "logger"
      BY <1>4, <2>1, <2>3, <3>2, LoggerBefore DEF Apply
    <3> QED  BY <3>1, <3>2
  <2>4. LoggerFirst'
    BY <2>1, <2>2, <2>3 DEF LogsInv, LoggerFirst
  <2>5. LogsComeFirst'
    <3>1. ASSUME StartsPods(r), "logger" \in enabled PROVE <<"loggerManifest">> \in deployed
      <4>1. r[1] \in DOMAIN AddOnOf /\ AddOnOf[r[1]] # "logger"
        BY <3>1 DEF StartsPods, IsChart, AddOnOf
      <4> QED  BY <1>4, <3>1, <4>1, LoggerBefore DEF Apply
    <3> QED  BY <1>4, <3>1 DEF Apply, LogsInv, LogsComeFirst, LogsConfigured
  <2> QED  BY <2>1, <2>4, <2>5 DEF LogsInv
<1>5. ASSUME NEW r \in Resources, Refuse(r) PROVE LogsInv'
  BY <1>1, <1>5 DEF Refuse
<1>6. ASSUME NEW r \in installed, BecomeReady(r) PROVE LogsInv'
  BY <1>6 DEF BecomeReady, LogsInv, LoggerFirst, LogsComeFirst
<1>7. ASSUME NEW r \in installed, TimeOut(r) PROVE LogsInv'
  BY <1>7 DEF TimeOut, LogsInv, LoggerFirst, LogsComeFirst
<1>8. ASSUME NEW e \in registered, Sync(e) PROVE LogsInv'
  BY <1>1, <1>8 DEF Sync
<1>9. ASSUME UNCHANGED clusterVars PROVE LogsInv'
  BY <1>1, <1>9 DEF clusterVars
<1> QED
  BY <1>2, <1>3, <1>4, <1>5, <1>6, <1>7, <1>8, <1>9 DEF ClusterNext, DeployCluster

\* Whichever add-ons a cluster has (eks-patterns/aws-integrated-fargate-cluster.ts), in
\* every order in which CloudFormation may deploy their resources: none of them starts
\* pods before the configuration of the logs is there.
THEOREM LogsAlwaysFirst == ClusterSpec => []LogsComeFirst
<1>1. LogsInv => LogsComeFirst
  BY DEF LogsInv
<1> QED  BY LogsInit, LogsStep, <1>1, PTL DEF ClusterSpec

-----------------------------------------------------------------------------
(***************************************************************************)
(* Why a deployment fails.  The first resource that fails ends it, so that *)
(* what was missing then is still missing; and a store, without which no   *)
(* secret is deployed, waits for the operator itself.                      *)
(***************************************************************************)

Kinds == DOMAIN AddOnOf \cup {"externalSecret"}

FailureInv ==
    /\ dnsNamespace \in {"kube-system", "dns"}
    /\ {"default", "kube-system"} \subseteq namespaces
    /\ refused # {} => stage = "failed"
    /\ \A r \in installed : r \in {<<"dnsChart">>, <<"operatorChart">>, <<"prometheusChart">>}
    /\ \A r \in deployed : r[1] = "store" => <<"operatorChart">> \in deployed
    /\ FailuresAreRaces

-----------------------------------------------------------------------------
\* A resource is of a known kind, and is nothing but its kind unless it is a
\* store's or a secret.
LEMMA ResourceKinds ==
    ASSUME NEW r \in Resources
    PROVE  /\ r[1] \in Kinds
           /\ r[1] \notin {"storeAccount", "store", "externalSecret"} => r = <<r[1]>>
<1>1. CASE r \in {<<"externalSecret", e>> : e \in registered}
  BY <1>1 DEF Kinds
<1>2. CASE r \notin {<<"externalSecret", e>> : e \in registered}
  <2>1. PICK a \in enabled : r \in ResourcesOf(a)
    BY <1>2 DEF Resources
  <2>2. CASE r \in {<<kind, s>> : kind \in {"storeAccount", "store"}, s \in Stores}
    BY <2>2 DEF Kinds, AddOnOf
  <2>3. CASE r \in {<<kind>> : kind \in DOMAIN AddOnOf}
    BY <2>3 DEF Kinds
  <2> QED  BY <2>1, <2>2, <2>3 DEF ResourcesOf
<1> QED  BY <1>1, <1>2

\* Nothing is refused because the operator has not defined its kind yet.
LEMMA KindsAreKnown ==
    ASSUME FailureInv, NEW r \in Resources, Deployable(r)
    PROVE  KindKnown(r)
<1>1. CASE r[1] = "store"
  <2>1. <<"operatorChart">> \in Dependencies(r)
    BY <1>1 DEF Dependencies, StoreNeeds
  <2> QED  BY <2>1 DEF Deployable, KindKnown
<1>2. CASE r[1] = "externalSecret"
  <2>1. <<"store", Store(r[2])>> \in deployed
    BY <1>2 DEF Dependencies, Deployable
  <2> QED  BY <2>1 DEF FailureInv, KindKnown
<1> QED  BY <1>1, <1>2 DEF KindKnown

\* What is refused is refused for its namespace.
LEMMA RefusedForNamespace ==
    ASSUME FailureInv, NEW r \in Resources, Refuse(r)
    PROVE  /\ NamespaceOf(r) \notin namespaces /\ ~Opens(r)
           /\ \/ r[1] \in {"adotAccount", "dnsAccount", "prometheusAccount"}
              \/ r = <<"operatorChart">>
              \/ r[1] \in {"storeAccount", "store", "externalSecret"}
<1>1. NamespaceOf(r) \notin namespaces /\ ~Opens(r)
  BY KindsAreKnown DEF Refuse, Accepted
<1>2. r[1] \notin {"loggerManifest", "adotManifest", "dnsChart", "prometheusChart"}
  BY <1>1 DEF Opens
<1> QED  BY <1>1, <1>2, ResourceKinds DEF Kinds, AddOnOf

\* A chart's pods that do not run want their service account, or are those of DNS in a
\* namespace that no profile takes.
LEMMA WhyPodsWait ==
    ASSUME FailureInv, NEW r \in installed, ~PodsRun(r)
    PROVE  /\ IsChart(r)
           /\ ~(AccountFor(r) \subseteq deployed) \/ (r = <<"dnsChart">> /\ dnsNamespace = "dns")
<1>1. r \in {<<"dnsChart">>, <<"operatorChart">>, <<"prometheusChart">>}
  BY DEF FailureInv
<1>2. CASE r = <<"dnsChart">>
  <2>1. NamespaceOf(r) = dnsNamespace
    BY <1>2 DEF NamespaceOf
  <2> QED  BY <1>2, <2>1 DEF FailureInv, PodsRun, Taken, IsChart
<1>3. CASE r = <<"operatorChart">>
  <2>1. NamespaceOf(r) = "external-secrets"
    BY <1>3 DEF NamespaceOf
  <2> QED  BY <1>3, <2>1 DEF PodsRun, Taken, IsChart
<1>4. CASE r = <<"prometheusChart">>
  <2>1. NamespaceOf(r) = "prometheus"
    BY <1>4 DEF NamespaceOf
  <2> QED  BY <1>4, <2>1 DEF PodsRun, Taken, IsChart
<1> QED  BY <1>1, <1>2, <1>3, <1>4

-----------------------------------------------------------------------------
LEMMA FailureInit == ClusterInit => FailureInv
BY DEF ClusterInit, FailureInv, FailuresAreRaces

LEMMA FailureStep == FailureInv /\ [ClusterNext]_clusterVars => FailureInv'
<1> SUFFICES ASSUME FailureInv, [ClusterNext]_clusterVars PROVE FailureInv'
  OBVIOUS
\* Before anything has failed there is nothing to explain.
<1>1. ASSUME refused' = {} PROVE FailuresAreRaces'
  BY <1>1 DEF FailuresAreRaces
<1>2. ASSUME UNCHANGED <<dnsNamespace, opensNamespace, deployed, refused, namespaces>>
      PROVE  FailuresAreRaces'
  BY <1>2 DEF FailureInv, FailuresAreRaces, NamespaceOf
<1>3. ASSUME UNCHANGED <<dnsNamespace, opensNamespace, deployed, installed, refused, namespaces>>,
             refused = {} \/ stage' = stage
      PROVE  FailureInv'
  BY <1>2, <1>3 DEF FailureInv
<1>4. ASSUME NEW s \in Secrets, NEW id \in SecretIds, NEW n \in Targets, RegisterSecret(s, id, n)
      PROVE  FailureInv'
  BY <1>3, <1>4 DEF RegisterSecret, FailureInv
<1>5. ASSUME SynthesizeCluster PROVE FailureInv'
  BY <1>3, <1>5 DEF SynthesizeCluster, FailureInv
<1>6. ASSUME NEW r \in Resources, Apply(r) PROVE FailureInv'
  <2>1. stage = "deploying" /\ stage' = stage /\ refused = {} /\ refused' = {}
    BY <1>6 DEF Apply, Deployable, FailureInv
  <2>2. deployed \subseteq deployed' /\ deployed' \subseteq deployed \cup {r}
    BY <1>6 DEF Apply
  <2>3. r[1] = "store" => <<"operatorChart">> \in deployed
    BY <1>6 DEF Apply, Accepted, KindKnown
  <2>4. \A q \in installed' : q \in {<<"dnsChart">>, <<"operatorChart">>, <<"prometheusChart">>}
    <3>1. IsChart(r) => r \in {<<"dnsChart">>, <<"operatorChart">>, <<"prometheusChart">>}
      BY ResourceKinds DEF IsChart
    <3> QED  BY <1>6, <3>1 DEF Apply, FailureInv
  <2>5. /\ (dnsNamespace \in {"kube-system", "dns"})'
        /\ ({"default", "kube-system"} \subseteq namespaces)'
    BY <1>6 DEF Apply, FailureInv
  <2>6. \A q \in deployed' : q[1] = "store" => <<"operatorChart">> \in deployed'
    BY <2>2, <2>3 DEF FailureInv
  <2> QED  BY <1>1, <2>1, <2>4, <2>5, <2>6 DEF FailureInv
<1>7. ASSUME NEW r \in Resources, Refuse(r) PROVE FailureInv'
  <2>1. refused = {} /\ refused' = {r} /\ stage' = "failed"
    BY <1>7 DEF Refuse, Deployable, FailureInv
  <2>2. UNCHANGED <<dnsNamespace, opensNamespace, deployed, installed, namespaces>>
    BY <1>7 DEF Refuse
  <2>3. NamespaceOf(r)' = NamespaceOf(r)
    BY <2>2 DEF NamespaceOf
  <2>4. Missing(NamespaceOf(r))
    BY <1>7, RefusedForNamespace DEF FailureInv, Missing
  <2>5. r = <<"operatorChart">> => ~opensNamespace
    BY <1>7, RefusedForNamespace DEF Opens
  <2>6. FailuresAreRaces'
    BY <1>7, <2>1, <2>2, <2>3, <2>4, <2>5, RefusedForNamespace DEF FailuresAreRaces
  <2> QED  BY <2>1, <2>2, <2>6 DEF FailureInv
<1>8. ASSUME NEW r \in installed, BecomeReady(r) PROVE FailureInv'
  <2>1. refused' = {}
    BY <1>8 DEF BecomeReady, FailureInv
  <2>2. r[1] # "store"
    BY DEF FailureInv
  <2> QED  BY <1>1, <1>8, <2>1, <2>2 DEF BecomeReady, FailureInv
<1>9. ASSUME NEW r \in installed, TimeOut(r) PROVE FailureInv'
  <2>1. refused = {} /\ refused' = {r} /\ stage' = "failed"
    BY <1>9 DEF TimeOut, FailureInv
  <2>2. UNCHANGED <<dnsNamespace, opensNamespace, deployed, namespaces>> /\ installed' \subseteq installed
    BY <1>9 DEF TimeOut
  <2>3. IsChart(r) /\ (~(AccountFor(r) \subseteq deployed) \/ (r = <<"dnsChart">> /\ dnsNamespace = "dns"))
    BY <1>9, WhyPodsWait DEF TimeOut
  <2>4. FailuresAreRaces'
    BY <2>1, <2>2, <2>3 DEF FailuresAreRaces
  <2> QED  BY <2>1, <2>2, <2>4 DEF FailureInv
<1>10. ASSUME NEW e \in registered, Sync(e) PROVE FailureInv'
  BY <1>3, <1>10 DEF Sync
<1>11. ASSUME UNCHANGED clusterVars PROVE FailureInv'
  BY <1>3, <1>11 DEF clusterVars
<1> QED
  BY <1>4, <1>5, <1>6, <1>7, <1>8, <1>9, <1>10, <1>11 DEF ClusterNext, DeployCluster

\* Whatever secrets are registered for a cluster, and in whatever order CloudFormation
\* deploys it: a deployment fails only for what the program asked for, or because a
\* service account was created at the same time as the namespace that it is in or the
\* chart that needs it.
THEOREM FailuresAlwaysRaces == ClusterSpec => []FailuresAreRaces
<1>1. FailureInv => FailuresAreRaces
  BY DEF FailureInv
<1> QED  BY FailureInit, FailureStep, <1>1, PTL DEF ClusterSpec

-----------------------------------------------------------------------------
\* Triggers as an application may write them.
Triggers == [type : Types, operator : Operators, start : Starts,
             actions : SUBSET Tasks, conditions : Seq(Conditions)]

LEMMA ConditionsAreWellFormed ==
    ASSUME NEW t \in Triggers PROVE WaitsFor(t) \subseteq Conditions
BY DEF Triggers, WaitsFor

\* Nothing runs before the workflow is deployed, and what is deployed is known to Glue.
WorkflowIInv ==
    /\ triggers \in Seq(Triggers)
    /\ glue \in {"writing", "refused", "deployed"}
    /\ taskState \in [Tasks -> Outcomes \cup {"idle", "running"}]
    /\ fired \subseteq DOMAIN triggers
    /\ glue # "deployed" => fired = {}
    /\ glue = "deployed" => \A id \in DOMAIN triggers : Known(triggers[id])
    /\ StepsWait

LEMMA WorkflowInitially == WorkflowInit => WorkflowIInv
BY DEF WorkflowInit, WorkflowIInv, StepsWait

\* What an application writes keeps the triggers well formed.
LEMMA TriggersStayWellFormed ==
    ASSUME WorkflowIInv, NEW id \in DOMAIN triggers, NEW t \in Triggers
    PROVE  [triggers EXCEPT ![id] = t] \in Seq(Triggers)
BY DEF WorkflowIInv

\* The state of a task that is over is not changed.
LEMMA OutcomesStay ==
    ASSUME WorkflowIInv, RunWorkflow, NEW c \in Conditions, Holds(c)
    PROVE  Holds(c)'
<1>1. c[1] \in Tasks /\ c[2] \in Outcomes
  BY DEF Conditions
<1>2. taskState[c[1]] \notin {"idle", "running"}
  BY <1>1, OutcomesAssumption DEF Holds
<1>3. taskState'[c[1]] = taskState[c[1]]
  <2>1. CASE \E id \in DOMAIN triggers : Fire(id)
    BY <1>1, <1>2, <2>1 DEF Fire
  <2>2. CASE \E task \in Tasks : End(task)
    BY <1>1, <1>2, <2>2 DEF End, WorkflowIInv
  <2> QED  BY <2>1, <2>2 DEF RunWorkflow
<1> QED  BY <1>3 DEF Holds

\* A trigger that Glue knows and that may fire has all that it waits for.
LEMMA FiringWaits ==
    ASSUME NEW t \in Triggers, Known(t), MayFire(t), NEW c \in WaitsFor(t)
    PROVE  Holds(c)
<1>1. t.type = "CONDITIONAL"
  BY DEF Known
<1>2. t.operator \in {"default", "AND", "OR"}
  BY DEF Triggers, Operators
<1>3. Logical(t) \in {"AND", "none"}
  BY <1>2 DEF Known, Logical, Operator
<1>4. Met(t)
  BY <1>1 DEF MayFire
<1> QED  BY <1>3, <1>4 DEF Met

\* Each step keeps the invariant.
LEMMA WorkflowSteps == WorkflowIInv /\ [WorkflowNext]_workflow => WorkflowIInv'
<1> SUFFICES ASSUME WorkflowIInv, [WorkflowNext]_workflow PROVE WorkflowIInv'
  OBVIOUS
<1>1. ASSUME glue = "writing", triggers' \in Seq(Triggers), UNCHANGED <<glue, taskState, fired>>
      PROVE  WorkflowIInv'
  BY <1>1 DEF WorkflowIInv, StepsWait
<1>2. ASSUME NEW options \in Options, AddTrigger(options) PROVE WorkflowIInv'
  <2>1. [type |-> options.type, operator |-> options.operator, start |-> options.start,
         actions |-> {}, conditions |-> <<>>] \in Triggers
    BY OptionsAssumption DEF Triggers
  <2>2. triggers' \in Seq(Triggers)
    BY <1>2, <2>1 DEF AddTrigger, WorkflowIInv
  <2> QED  BY <1>1, <1>2, <2>2 DEF AddTrigger
<1>3. ASSUME NEW id \in DOMAIN triggers, NEW task \in Tasks, AddAction(id, task) PROVE WorkflowIInv'
  <2>1. triggers[id] \in Triggers
    BY DEF WorkflowIInv
  <2>2. [triggers[id] EXCEPT !.actions = @ \cup {task}] \in Triggers
    BY <2>1 DEF Triggers
  <2>3. triggers' = [triggers EXCEPT ![id] = [triggers[id] EXCEPT !.actions = @ \cup {task}]]
    BY <1>3 DEF AddAction
  <2>4. triggers' \in Seq(Triggers)
    BY <2>2, <2>3, TriggersStayWellFormed
  <2> QED  BY <1>1, <1>3, <2>4 DEF AddAction
<1>4. ASSUME NEW id \in DOMAIN triggers, NEW condition \in Conditions, AddPredicate(id, condition)
      PROVE  WorkflowIInv'
  <2>1. triggers[id] \in Triggers
    BY DEF WorkflowIInv
  <2>2. [triggers[id] EXCEPT !.conditions = Append(@, condition)] \in Triggers
    <3>1. triggers[id].conditions \in Seq(Conditions)
      BY <2>1 DEF Triggers
    <3>2. Append(triggers[id].conditions, condition) \in Seq(Conditions)
      BY <3>1
    <3> QED  BY <2>1, <3>2 DEF Triggers
  <2>3. triggers' = [triggers EXCEPT ![id] = [triggers[id] EXCEPT !.conditions = Append(@, condition)]]
    BY <1>4 DEF AddPredicate
  <2>4. triggers' \in Seq(Triggers)
    BY <2>2, <2>3, TriggersStayWellFormed
  <2> QED  BY <1>1, <1>4, <2>4 DEF AddPredicate
<1>5. ASSUME DeployWorkflow PROVE WorkflowIInv'
  <2>1. /\ UNCHANGED <<triggers, taskState, fired>> /\ glue = "writing"
        /\ glue' = "deployed" => \A id \in DOMAIN triggers : Known(triggers[id])
        /\ glue' \in {"deployed", "refused"}
    BY <1>5 DEF DeployWorkflow
  <2>2. fired = {}
    BY <2>1 DEF WorkflowIInv
  <2>3. (glue = "deployed" => \A id \in DOMAIN triggers : Known(triggers[id]))'
    BY <2>1
  <2> QED  BY <2>1, <2>2, <2>3 DEF WorkflowIInv, StepsWait
<1>6. ASSUME NEW id \in DOMAIN triggers, Fire(id) PROVE WorkflowIInv'
  <2>1. /\ glue = "deployed" /\ UNCHANGED <<triggers, glue>> /\ MayFire(triggers[id])
        /\ fired' = fired \cup {id}
    BY <1>6 DEF Fire
  <2>2. taskState' \in [Tasks -> Outcomes \cup {"idle", "running"}]
    BY <1>6 DEF Fire, WorkflowIInv
  <2>3. ASSUME NEW i \in fired', NEW c \in WaitsFor(triggers[i]) PROVE Holds(c)'
    <3>1. i \in DOMAIN triggers /\ triggers[i] \in Triggers /\ c \in Conditions
      <4>1. i \in DOMAIN triggers
        BY <2>1 DEF WorkflowIInv
      <4>2. triggers[i] \in Triggers
        BY <4>1 DEF WorkflowIInv
      <4> QED  BY <4>1, <4>2, ConditionsAreWellFormed
    <3>2. Holds(c)
      <4>1. CASE i = id
        BY <2>1, <3>1, <4>1, FiringWaits DEF WorkflowIInv
      <4>2. CASE i \in fired
        BY <4>2 DEF WorkflowIInv, StepsWait
      <4> QED  BY <2>1, <4>1, <4>2
    <3> QED  BY <1>6, <3>1, <3>2, OutcomesStay DEF RunWorkflow
  <2>4. StepsWait'
    BY <2>1, <2>3 DEF StepsWait
  <2>5. fired' \subseteq DOMAIN triggers
    BY <2>1 DEF WorkflowIInv
  <2> QED  BY <2>1, <2>2, <2>4, <2>5 DEF WorkflowIInv
<1>7. ASSUME NEW task \in Tasks, End(task) PROVE WorkflowIInv'
  <2>1. UNCHANGED <<triggers, glue, fired>>
    BY <1>7 DEF End
  <2>2. taskState' \in [Tasks -> Outcomes \cup {"idle", "running"}]
    BY <1>7 DEF End, WorkflowIInv
  <2>3. ASSUME NEW i \in fired, NEW c \in WaitsFor(triggers[i]) PROVE Holds(c)'
    <3>1. c \in Conditions /\ Holds(c)
      <4>1. triggers[i] \in Triggers
        BY DEF WorkflowIInv
      <4> QED  BY <4>1, ConditionsAreWellFormed DEF WorkflowIInv, StepsWait
    <3> QED  BY <1>7, <3>1, OutcomesStay DEF RunWorkflow
  <2>4. StepsWait'
    BY <2>1, <2>3 DEF StepsWait
  <2> QED  BY <2>1, <2>2, <2>4 DEF WorkflowIInv
<1>8. CASE UNCHANGED workflow
  BY <1>8 DEF workflow, WorkflowIInv, StepsWait, Holds
<1> QED  BY <1>2, <1>3, <1>4, <1>5, <1>6, <1>7, <1>8 DEF WorkflowNext, RunWorkflow

LEMMA WorkflowAlways == WorkflowSpec => []WorkflowIInv
BY WorkflowInitially, WorkflowSteps, PTL DEF WorkflowSpec

\* However triggers are written and whatever tasks do (glue/trigger.ts): a trigger has
\* fired only when all its conditions hold, and they go on to hold.
THEOREM StepsAlwaysWait == WorkflowSpec => []StepsWait
<1>1. WorkflowIInv => StepsWait
  BY DEF WorkflowIInv
<1> QED  BY <1>1, WorkflowAlways, PTL
=============================================================================
