---------------------------- MODULE AddressPools ----------------------------
(***************************************************************************)
(* The pools of an IP address manager (ec2-patterns/ip-address-manager.ts  *)
(* and ec2/ipam-pool.ts).  A request for a VPC or a client VPN network     *)
(* creates, on first use, the pool of the kind, its child for the region   *)
(* and the child of that for the account.  The CIDR asked for is added to  *)
(* the account's pool and cascades to the regional pool, which does not    *)
(* cascade any further.                                                    *)
(*                                                                         *)
(* A CIDR is given by a netmask, and is then a construct with a name under *)
(* the pool, or by a block that the pool keeps in a list of its own.  A    *)
(* block that holds a token is treated by the code like a netmask.  The    *)
(* name and the account of a listed block are kept for the properties.     *)
(***************************************************************************)
EXTENDS Naturals, FiniteSets

CONSTANTS
  Accounts, \* AWS accounts
  Regions,  \* AWS regions
  Names,    \* names given to CIDRs
  Masks,    \* netmasks asked for
  Blocks,   \* blocks registered by hand
  None      \* neither a region nor an account

ASSUME PoolsAssumption ==
  /\ None \notin Accounts \cup Regions
  /\ Masks \cap Blocks = {}

VARIABLES
  pools, \* the pools created
  cidrs, \* the CIDRs of each pool
  threw  \* whether a call has thrown so far

poolVars == <<pools, cidrs, threw>>

Kinds == {"vpc", "vpn"}

TopPool(kind) == [kind |-> kind, region |-> None, account |-> None]
RegionPool(kind, r) == [kind |-> kind, region |-> r, account |-> None]
AccountPool(kind, a, r) == [kind |-> kind, region |-> r, account |-> a]

Pools == [kind : Kinds, region : Regions \cup {None},
          account : Accounts \cup {None}]

AccountPools == {p \in Pools : p.region # None /\ p.account # None}

\* The pool that p takes its addresses from.
ParentPool(p) == RegionPool(p.kind, p.region)

Cidr(p, name, from, conf) ==
  [pool |-> p, name |-> name, from |-> from, conf |-> conf]

Cidrs == [pool : Pools, name : Names, from : Accounts \cup {None},
          conf : Masks \cup Blocks]

Inline(c) == c.conf \in Blocks

\* Faulty variants: a list of blocks for each caller; names are not checked.
TakenByCaller(c) ==
  \E x \in cidrs :
    /\ x.pool = c.pool /\ x.from = c.from
    /\ IF Inline(c) THEN x.conf = c.conf ELSE ~Inline(x) /\ x.name = c.name
TakenInline(c) ==
  Inline(c) /\ \E x \in cidrs : x.pool = c.pool /\ x.conf = c.conf

\* A block is listed once by a pool, and a construct's name is used once.
Taken(c) ==
  \E x \in cidrs :
    /\ x.pool = c.pool
    /\ IF Inline(c) THEN x.conf = c.conf
       ELSE ~Inline(x) /\ x.name = c.name /\ x.from = c.from

\* The pools on the way to the account's pool exist from now on.
OpenPools(kind, a, r) ==
  pools' = pools \cup {TopPool(kind), RegionPool(kind, r),
                       AccountPool(kind, a, r)}

-----------------------------------------------------------------------------

PoolsInit ==
  /\ pools = {TopPool("vpc")}
  /\ cidrs = {}
  /\ threw = FALSE

(* Adding a CIDR to an account's pool: the pool first, its parent next.    *)
OwnCidr(p, name, conf) == Cidr(p, name, None, conf)
ParentCidr(p, name, conf) == Cidr(ParentPool(p), name, p.account, conf)

CanAdd(p, name, conf) ==
  ~Taken(OwnCidr(p, name, conf)) /\ ~Taken(ParentCidr(p, name, conf))

\* Faulty variant: nothing cascades.
AddedToPool(p, name, conf) ==
  {c \in {OwnCidr(p, name, conf)} : ~Taken(c)}

\* What the call leaves in the pools: nothing if the account's pool throws,
\* the account's share alone if its parent does.
Added(p, name, conf) ==
  IF Taken(OwnCidr(p, name, conf)) THEN {}
  ELSE {OwnCidr(p, name, conf)}
       \cup {c \in {ParentCidr(p, name, conf)} : ~Taken(c)}

AddCidrToPool(p, name, conf) ==
  /\ cidrs' = cidrs \cup Added(p, name, conf)
  /\ threw' = (threw \/ ~CanAdd(p, name, conf))

Request(kind, a, r, name, conf) ==
  /\ OpenPools(kind, a, r)
  /\ AddCidrToPool(AccountPool(kind, a, r), name, conf)

GetVpcConfiguration(a, r, name, mask) == Request("vpc", a, r, name, mask)

GetClientVpnConfiguration(a, r, name, mask) == Request("vpn", a, r, name, mask)

RegisterCidr(a, r, name, block) == Request("vpc", a, r, name, block)

PoolsNext ==
  \E a \in Accounts, r \in Regions, n \in Names :
    \/ \E m \in Masks : GetVpcConfiguration(a, r, n, m)
    \/ \E m \in Masks : GetClientVpnConfiguration(a, r, n, m)
    \/ \E b \in Blocks : RegisterCidr(a, r, n, b)

PoolsSpec == PoolsInit /\ [][PoolsNext]_poolVars

-----------------------------------------------------------------------------

PoolsTypeOK ==
  /\ pools \subseteq Pools
  /\ cidrs \subseteq Cidrs
  /\ threw \in BOOLEAN

\* What an account's pool holds its regional pool holds too, so that there is
\* something to take it from: also after a call that threw half way
\* (ip-address-manager.ts 31-42).
CidrsAreBacked ==
  \A c \in cidrs : c.pool \in AccountPools =>
    \E x \in cidrs :
      /\ x.pool = ParentPool(c.pool)
      /\ x.conf = c.conf
      /\ Inline(c) \/ (x.name = c.name /\ x.from = c.pool.account)

\* No two accounts of a region hold the same block unless a call has thrown
\* and the application went on: the regional pool's list finds the duplicate
\* after the account's pool has taken it (ipam-pool.ts 260-267).
BlocksHaveOneHolder ==
  \A c, d \in cidrs :
    /\ {c.pool, d.pool} \subseteq AccountPools
    /\ Inline(c) /\ c.conf = d.conf
    /\ ParentPool(c.pool) = ParentPool(d.pool)
    => c.pool = d.pool \/ threw

\* Every CIDR that cascades to a regional pool is still in the account's pool
\* that asked for it.
RegionsHoldWhatIsAsked ==
  \A x \in cidrs : x.pool \notin AccountPools =>
    /\ x.from # None
    /\ OwnCidr(AccountPool(x.pool.kind, x.from, x.pool.region), x.name, x.conf)
         \in cidrs
=============================================================================
