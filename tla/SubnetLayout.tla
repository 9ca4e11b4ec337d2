---------------------------- MODULE SubnetLayout ----------------------------
(***************************************************************************)
(* How TieredSubnets (ec2/lib/ip-addresses/tiered-subnets.ts) divides the  *)
(* network of a VPC among tiers, and the network of a tier among zones.    *)
(* When the VPC's CIDR is known the division is computed (utils/           *)
(* networking.ts); when it comes from an address pool CloudFormation       *)
(* computes it, with Fn::Cidr, as the VPC is created.                      *)
(*                                                                         *)
(* An address has Width bits; the code's has 32.  A mask of 0 stands for   *)
(* one that is not given.                                                  *)
(***************************************************************************)
EXTENDS Integers, FiniteSets

CONSTANTS
  Width,    \* bits of an address
  Bases,    \* first addresses of the networks of VPCs
  VpcMasks, \* netmasks of VPCs
  MaxTiers, MaxZones,
  SubnetMasks \* netmasks asked for, for tiers and for subnets

\* Powers of two, as a function for the proofs.
Pow2[n \in Nat] == IF n = 0 THEN 1 ELSE 2 * Pow2[n - 1]

Size(mask) == Pow2[Width - mask]

ASSUME LayoutAssumption ==
  /\ Width \in Nat \ {0}
  /\ Bases \subseteq Nat
  /\ VpcMasks \subseteq 1..Width
  /\ \A a \in Bases, m \in VpcMasks : a + Size(m) <= Pow2[Width]
  /\ MaxTiers \in Nat \ {0} /\ MaxZones \in Nat \ {0}
  /\ SubnetMasks \subseteq 1..Width

VARIABLES
  request, \* what the VPC asks for
  tiers,   \* the networks of the tiers
  subnets, \* the subnets of the tiers divided so far
  layout

layoutVars == <<request, tiers, subnets, layout>>

\* Whether each tier has a mask of its own for its subnets is up to the
\* subnet configuration of the VPC.
Requests == UNION {
  [ipam : BOOLEAN, at : Bases, mask : VpcMasks,
   tierMask : SubnetMasks \cup {0}, tierCount : {t}, zones : 1..MaxZones,
   subnetMasks : [1..t -> SubnetMasks \cup {0}]] : t \in 1..MaxTiers}

-----------------------------------------------------------------------------

Network(at, mask) == [at |-> at, mask |-> mask]

\* Faulty variant: the logarithm is rounded down.
PartBitsDown(parts) ==
  CHOOSE b \in 0..parts : Pow2[b] <= parts /\ Pow2[b + 1] > parts

\* The bits that tell so many parts apart.
PartBits(parts) ==
  CHOOSE b \in 0..parts :
    Pow2[b] >= parts /\ \A c \in 0..(b - 1) : Pow2[c] < parts

GetBiggestMask(mask, parts) == mask + PartBits(parts)

Given(mask, default) == IF mask = 0 THEN default ELSE mask

\* Consecutive networks of the same mask; addresses wrap at the last one.
Consecutive(at, mask, parts) ==
  [i \in 1..parts |-> Network((at + Size(mask) * (i - 1)) % Pow2[Width], mask)]

\* Faulty variant: the tightest mask is refused.
CanDivideStrictly(net, parts, mask) ==
  mask > GetBiggestMask(net.mask, parts)

\* divideCidr
CanDivide(net, parts, mask) == mask >= GetBiggestMask(net.mask, parts)

\* Fn::Cidr: CloudFormation computes the networks if they fit.
CanSelect(net, parts, mask) == parts * Size(mask) <= Size(net.mask)

\* The guard of the path with a pool.
PoolAccepts(mask, biggest) == mask <= biggest

Vpc == Network(request.at, request.mask)
BiggestTier == GetBiggestMask(request.mask, request.tierCount)
TierMask == Given(request.tierMask, BiggestTier)
SubnetMask(t) ==
  Given(request.subnetMasks[t], GetBiggestMask(TierMask, request.zones))

-----------------------------------------------------------------------------

LayoutInit ==
  /\ request \in Requests
  \* A subnet has an address; of a longer mask the code computes fractions.
  /\ TierMask <= Width
  /\ \A t \in 1..request.tierCount : SubnetMask(t) <= Width
  /\ tiers = <<>>
  /\ subnets = <<>>
  /\ layout = "new"

Refuse(s) == layout' = s /\ UNCHANGED <<request, tiers, subnets>>

DivideVpc ==
  /\ layout = "new"
  /\ IF request.ipam
     THEN PoolAccepts(TierMask, BiggestTier)
     ELSE CanDivide(Vpc, request.tierCount, TierMask)
  /\ tiers' = Consecutive(request.at, TierMask, request.tierCount)
  /\ layout' = "dividing"
  /\ UNCHANGED <<request, subnets>>

RefuseTiers ==
  /\ layout = "new"
  /\ IF request.ipam
     THEN ~PoolAccepts(TierMask, BiggestTier)
     ELSE ~CanDivide(Vpc, request.tierCount, TierMask)
  /\ Refuse("refused")

NextTier == Cardinality(DOMAIN subnets) + 1

AcceptsSubnets(t) ==
  IF request.ipam
  THEN PoolAccepts(SubnetMask(t), GetBiggestMask(TierMask, request.zones))
  ELSE CanDivide(tiers[t], request.zones, SubnetMask(t))

DivideTier ==
  /\ layout = "dividing"
  /\ NextTier <= request.tierCount
  /\ AcceptsSubnets(NextTier)
  /\ subnets' = [t \in 1..NextTier |->
       IF t < NextTier THEN subnets[t]
       ELSE Consecutive(tiers[t].at, SubnetMask(t), request.zones)]
  /\ UNCHANGED <<request, tiers, layout>>

RefuseSubnets ==
  /\ layout = "dividing"
  /\ NextTier <= request.tierCount
  /\ ~AcceptsSubnets(NextTier)
  /\ Refuse("refused")

\* The template of the VPC is complete.
Finish ==
  /\ layout = "dividing"
  /\ NextTier > request.tierCount
  /\ Refuse("done")

\* CloudFormation creates the VPC, or cannot compute its subnets.
Fits ==
  /\ CanSelect(Vpc, request.tierCount, TierMask)
  /\ \A t \in 1..request.tierCount :
       CanSelect(tiers[t], request.zones, SubnetMask(t))

DeployVpc ==
  /\ layout = "done"
  /\ Refuse(IF request.ipam => Fits THEN "deployed" ELSE "failed")

LayoutNext == DivideVpc \/ RefuseTiers \/ DivideTier \/ RefuseSubnets \/ Finish
        \/ DeployVpc

LayoutSpec == LayoutInit /\ [][LayoutNext]_layoutVars

-----------------------------------------------------------------------------

Addresses(n) == n.at .. (n.at + Size(n.mask) - 1)

\* The subnets of a VPC that is deployed lie within its network and have no
\* address in common, whatever masks were asked for and whichever path laid
\* them out (utils/networking.ts 74-95).
SubnetsAreApart ==
  layout = "deployed" =>
    \A t, u \in DOMAIN subnets : \A y, z \in 1..request.zones :
      /\ Addresses(subnets[t][z]) \subseteq Addresses(Vpc)
      /\ <<t, z>> # <<u, y>> =>
           Addresses(subnets[t][z]) \cap Addresses(subnets[u][y]) = {}

\* "Subnets will be the largest size possible while staying within bounds of
\* the specified CIDR" (utils/networking.ts 66-67): with a mask shorter by one
\* bit the tiers, or the subnets of a tier, do not fit.
MasksAreTight ==
  layout = "deployed" =>
    /\ request.tierMask = 0 =>
         \/ request.tierCount = 1
         \/ ~CanSelect(Vpc, request.tierCount, TierMask - 1)
    /\ \A t \in DOMAIN subnets : request.subnetMasks[t] = 0 =>
         \/ request.zones = 1
         \/ ~CanSelect(tiers[t], request.zones, SubnetMask(t) - 1)

\* Subnets are as large as they can be without having an address in common.
SubnetsShareTheVpc == SubnetsAreApart /\ MasksAreTight

\* A known CIDR is refused only for masks with which it cannot be divided:
\* "The CIDR block is not big enough" (utils/networking.ts 84-87).
RefusalsAreRight ==
  layout = "refused" /\ ~request.ipam =>
    \/ ~CanSelect(Vpc, request.tierCount, TierMask)
    \/ \E t \in DOMAIN tiers :
         ~CanSelect(tiers[t], request.zones, SubnetMask(t))
=============================================================================
