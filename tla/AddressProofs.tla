---------------------------- MODULE AddressProofs ----------------------------
(***************************************************************************)
(* Proofs about the addresses of networks.                                 *)
(*                                                                         *)
(* AddressPools: for any accounts, regions, names and blocks, regional     *)
(* pools and accounts' pools hold the same CIDRs, also after calls that    *)
(* threw half way.  The four invariants that TLC checks are inductive      *)
(* together.  Whether a netmask is backed depends on                       *)
(* RegionsHoldWhatIsAsked: the name that the regional pool finds in use    *)
(* was used by the account's pool before, which would have thrown first.   *)
(* One holder for each block depends on CidrsAreBacked.                    *)
(*                                                                         *)
(* SubnetLayout: for addresses of any width, subnets share the network of  *)
(* their VPC.  Powers of two are a recursive function, so what is needed   *)
(* of them is proved first, by induction.  A mask is then long enough just *)
(* when the parts fit (DividesWhatFits), and parts that fit follow one     *)
(* another within their network (PartsAreApart), which is used twice: for  *)
(* tiers of a VPC and for subnets of a tier.                               *)
(***************************************************************************)
EXTENDS AddressPools, SubnetLayout, FiniteSetTheorems, WellFoundedInduction,
        TLAPS

PoolsIInv ==
  /\ PoolsTypeOK
  /\ CidrsAreBacked
  /\ BlocksHaveOneHolder
  /\ RegionsHoldWhatIsAsked

\* An account's pool is one of AccountPools and its parent is none.
LEMMA PoolFacts ==
  ASSUME NEW kind \in Kinds, NEW a \in Accounts, NEW r \in Regions
  PROVE  LET p == AccountPool(kind, a, r) IN
         /\ p \in AccountPools /\ p \in Pools
         /\ p.account = a /\ p.region = r /\ p.kind = kind
         /\ ParentPool(p) = RegionPool(kind, r)
         /\ ParentPool(p) \in Pools
         /\ ParentPool(p) \notin AccountPools
         /\ a # None
         /\ AccountPool(ParentPool(p).kind, a, ParentPool(p).region) = p
  BY PoolsAssumption
     DEF AccountPool, RegionPool, ParentPool, Pools, AccountPools, Kinds

\* A netmask whose name the regional pool has in use has been in the account's
\* pool before, so that the account's pool has the name in use too.
LEMMA NamesAgree ==
  ASSUME RegionsHoldWhatIsAsked,
         NEW kind \in Kinds, NEW a \in Accounts, NEW r \in Regions,
         NEW n \in Names, NEW conf \in Masks \cup Blocks, conf \notin Blocks,
         Taken(ParentCidr(AccountPool(kind, a, r), n, conf))
  PROVE  Taken(OwnCidr(AccountPool(kind, a, r), n, conf))
<1> DEFINE p == AccountPool(kind, a, r)
<1>1. PICK x \in cidrs : /\ x.pool = ParentPool(p)
                         /\ x.conf \notin Blocks
                         /\ x.name = n /\ x.from = a
  BY PoolFacts DEF Taken, ParentCidr, Cidr, Inline
<1>2. OwnCidr(p, n, x.conf) \in cidrs
  BY <1>1, PoolFacts DEF RegionsHoldWhatIsAsked
<1> QED BY <1>1, <1>2 DEF Taken, OwnCidr, Cidr, Inline

\* The steps are requests for the pool of an account.
LEMMA StepsAreRequests ==
  ASSUME PoolsNext
  PROVE  \E kind \in Kinds, a \in Accounts, r \in Regions, n \in Names,
            conf \in Masks \cup Blocks : Request(kind, a, r, n, conf)
  BY DEF PoolsNext, GetVpcConfiguration, GetClientVpnConfiguration,
         RegisterCidr, Kinds

LEMMA PoolsInitially == PoolsInit => PoolsIInv
<1> SUFFICES ASSUME PoolsInit PROVE PoolsIInv
  OBVIOUS
<1>1. TopPool("vpc") \in Pools
  BY DEF TopPool, Pools, Kinds
<1>2. PoolsTypeOK
  BY <1>1 DEF PoolsInit, PoolsTypeOK
<1>3. CidrsAreBacked /\ BlocksHaveOneHolder /\ RegionsHoldWhatIsAsked
  BY DEF PoolsInit, CidrsAreBacked, BlocksHaveOneHolder,
         RegionsHoldWhatIsAsked
<1> QED BY <1>2, <1>3 DEF PoolsIInv

LEMMA PoolsSteps == PoolsIInv /\ [PoolsNext]_poolVars => PoolsIInv'
<1> SUFFICES ASSUME PoolsIInv, PoolsNext PROVE PoolsIInv'
  BY DEF PoolsIInv, poolVars, PoolsTypeOK, CidrsAreBacked,
         BlocksHaveOneHolder, RegionsHoldWhatIsAsked
<1>1. PICK kind \in Kinds, a \in Accounts, r \in Regions, n \in Names,
           conf \in Masks \cup Blocks : Request(kind, a, r, n, conf)
  BY StepsAreRequests
<1> DEFINE p == AccountPool(kind, a, r)
           own == OwnCidr(p, n, conf)
           parent == ParentCidr(p, n, conf)
<1>2. /\ cidrs' = cidrs \cup Added(p, n, conf)
      /\ threw' = (threw \/ ~CanAdd(p, n, conf))
      /\ pools' = pools \cup {TopPool(kind), RegionPool(kind, r), p}
  BY <1>1 DEF Request, AddCidrToPool, OpenPools
<1>3. /\ own.pool = p /\ own.name = n /\ own.conf = conf
      /\ parent.pool = ParentPool(p) /\ parent.name = n
      /\ parent.from = a /\ parent.conf = conf
  BY PoolFacts DEF OwnCidr, ParentCidr, Cidr
<1>4. /\ Added(p, n, conf) \subseteq {own, parent}
      /\ parent \in Added(p, n, conf) => own \in Added(p, n, conf)
      /\ own \in Added(p, n, conf) => ~Taken(own)
      /\ Taken(parent) => ~CanAdd(p, n, conf)
  <2>1. own # parent
    BY <1>3, PoolFacts
  <2> QED BY <2>1 DEF Added, CanAdd
<1>5. own \in Added(p, n, conf) /\ ~Taken(parent) => parent \in cidrs'
  BY <1>2 DEF Added
<1>6. PoolsTypeOK'
  <2>1. own \in Cidrs /\ parent \in Cidrs
    BY PoolFacts DEF OwnCidr, ParentCidr, Cidr, Cidrs
  <2>2. TopPool(kind) \in Pools /\ RegionPool(kind, r) \in Pools /\ p \in Pools
    BY PoolFacts DEF TopPool, RegionPool, Pools
  <2>3. threw' \in BOOLEAN
    BY <1>2 DEF PoolsIInv, PoolsTypeOK
  <2> QED BY <1>2, <1>4, <2>1, <2>2, <2>3 DEF PoolsIInv, PoolsTypeOK
<1>7. CidrsAreBacked'
  <2> SUFFICES ASSUME NEW c \in cidrs', c.pool \in AccountPools
               PROVE  \E x \in cidrs' :
                        /\ x.pool = ParentPool(c.pool)
                        /\ x.conf = c.conf
                        /\ \/ c.conf \in Blocks
                           \/ x.name = c.name /\ x.from = c.pool.account
    BY DEF CidrsAreBacked, Inline
  <2>1. CASE c \in cidrs
    BY <2>1, <1>2 DEF PoolsIInv, CidrsAreBacked, Inline
  <2>2. CASE c \notin cidrs
    <3>1. c = own /\ own \in Added(p, n, conf)
      BY <2>2, <1>2, <1>3, <1>4, PoolFacts
    <3>2. CASE ~Taken(parent)
      BY <3>1, <3>2, <1>3, <1>5, PoolFacts
    <3>3. CASE Taken(parent)
      <4>1. conf \in Blocks
        BY <3>1, <3>3, <1>4, NamesAgree DEF PoolsIInv
      <4>2. \E x \in cidrs : x.pool = ParentPool(p) /\ x.conf = conf
        BY <3>3, <4>1, <1>3 DEF Taken, Inline
      <4> QED BY <4>1, <4>2, <3>1, <1>2, <1>3
    <3> QED BY <3>2, <3>3
  <2> QED BY <2>1, <2>2
<1>8. BlocksHaveOneHolder'
  <2> SUFFICES ASSUME NEW c \in cidrs', NEW d \in cidrs',
                      c.pool \in AccountPools, d.pool \in AccountPools,
                      c.conf \in Blocks, c.conf = d.conf,
                      ParentPool(c.pool) = ParentPool(d.pool),
                      c.pool # d.pool
               PROVE  threw'
    BY DEF BlocksHaveOneHolder, Inline
  <2>1. CASE c \in cidrs /\ d \in cidrs
    BY <2>1, <1>2 DEF PoolsIInv, BlocksHaveOneHolder, Inline
  <2>2. ASSUME NEW e \in cidrs, e.pool \in AccountPools, e.conf = conf,
               conf \in Blocks, ParentPool(e.pool) = ParentPool(p)
        PROVE  threw'
    <3>1. PICK x \in cidrs : x.pool = ParentPool(p) /\ x.conf = conf
      BY <2>2 DEF PoolsIInv, CidrsAreBacked
    <3>2. Taken(parent)
      BY <3>1, <2>2, <1>3 DEF Taken, Inline
    <3> QED BY <3>2, <1>2, <1>4
  <2>3. \A e \in cidrs' : e.pool \in AccountPools /\ e \notin cidrs => e = own
    BY <1>2, <1>3, <1>4, PoolFacts
  <2>4. CASE c \notin cidrs
    <3>1. c = own
      BY <2>3, <2>4
    <3>2. d \in cidrs
      BY <3>1, <2>3
    <3> QED BY <3>1, <3>2, <2>2, <1>3
  <2>5. CASE d \notin cidrs
    <3>1. d = own
      BY <2>3, <2>5
    <3>2. c \in cidrs
      BY <3>1, <2>3
    <3> QED BY <3>1, <3>2, <2>2, <1>3
  <2> QED BY <2>1, <2>4, <2>5
<1>9. RegionsHoldWhatIsAsked'
  <2> SUFFICES ASSUME NEW x \in cidrs', x.pool \notin AccountPools
               PROVE  /\ x.from # None
                      /\ OwnCidr(AccountPool(x.pool.kind, x.from,
                                   x.pool.region), x.name, x.conf) \in cidrs'
    BY DEF RegionsHoldWhatIsAsked
  <2>1. CASE x \in cidrs
    BY <2>1, <1>2 DEF PoolsIInv, RegionsHoldWhatIsAsked
  <2>2. CASE x \notin cidrs
    <3>1. x = parent /\ own \in cidrs'
      BY <2>2, <1>2, <1>3, <1>4, PoolFacts
    <3>2. AccountPool(x.pool.kind, x.from, x.pool.region) = p
      BY <3>1, <1>3, PoolFacts
    <3> QED BY <3>1, <3>2, <1>3, PoolFacts
  <2> QED BY <2>1, <2>2
<1> QED BY <1>6, <1>7, <1>8, <1>9 DEF PoolsIInv

LEMMA PoolsAlways == PoolsSpec => []PoolsIInv
  BY PoolsInitially, PoolsSteps, PTL DEF PoolsSpec

\* Pools and CIDRs are well formed after any sequence of requests
\* (ip-address-manager.ts 175-302).
THEOREM PoolsTypeCorrect == PoolsSpec => []PoolsTypeOK
<1>1. PoolsIInv => PoolsTypeOK
  BY DEF PoolsIInv
<1> QED BY <1>1, PoolsAlways, PTL

\* Whatever an account's pool holds can be taken from the regional pool, also
\* when a call threw half way (ip-address-manager.ts 31-42).
THEOREM AlwaysBacked == PoolsSpec => []CidrsAreBacked
<1>1. PoolsIInv => CidrsAreBacked
  BY DEF PoolsIInv
<1> QED BY <1>1, PoolsAlways, PTL

\* As long as no call has thrown, a block is in the pool of one account of a
\* region (ipam-pool.ts 260-267).
THEOREM OneHolder == PoolsSpec => []BlocksHaveOneHolder
<1>1. PoolsIInv => BlocksHaveOneHolder
  BY DEF PoolsIInv
<1> QED BY <1>1, PoolsAlways, PTL

\* A regional pool holds nothing that no account's pool asked for
\* (ip-address-manager.ts 31-42).
THEOREM NothingUnasked == PoolsSpec => []RegionsHoldWhatIsAsked
<1>1. PoolsIInv => RegionsHoldWhatIsAsked
  BY DEF PoolsIInv
<1> QED BY <1>1, PoolsAlways, PTL

-----------------------------------------------------------------------------

\* A set of naturals that is not empty has a least element.
LEMMA HasLeast ==
  ASSUME NEW T, T \subseteq Nat, T # {}
  PROVE  \E x \in T : \A y \in T : x <= y
<1>1. PICK x \in T : \A y \in T : <<y, x>> \notin OpToRel(<, Nat)
  BY NatLessThanWellFounded, WFMin
<1>2. \A y \in T : ~(y < x)
  BY <1>1 DEF OpToRel
<1> QED BY <1>2

\* Induction, over a set instead of a predicate.
LEMMA NatSetInduction ==
  ASSUME NEW S, 0 \in S, \A n \in Nat : n \in S => n + 1 \in S
  PROVE  Nat \subseteq S
<1> DEFINE T == Nat \ S
<1>1. SUFFICES ASSUME T # {} PROVE FALSE
  OBVIOUS
<1>2. PICK x \in T : \A y \in T : x <= y
  <2> T \subseteq Nat
    OBVIOUS
  <2> HIDE DEF T
  <2> QED BY <1>1, HasLeast
<1>3. x - 1 \in Nat /\ x - 1 \notin T /\ (x - 1) + 1 = x
  BY <1>2
<1> QED BY <1>3

\* The recursive definition has a solution: there is one up to every n, any two
\* agree, and together they are it.
LEMMA Pow2Defined ==
  Pow2 = [n \in Nat |-> IF n = 0 THEN 1 ELSE 2 * Pow2[n - 1]]
<1> DEFINE Begins(n, g) == /\ g \in [0..n -> Int] /\ g[0] = 1
                           /\ \A i \in 1..n : g[i] = 2 * g[i - 1]
           Start(n) == CHOOSE g : Begins(n, g)
           f == [n \in Nat |-> Start(n)[n]]
<1>1. ASSUME NEW n \in Nat PROVE Begins(n, Start(n))
  <2> DEFINE S == {k \in Nat : \E g : Begins(k, g)}
  <2>1. 0 \in S
    <3>1. Begins(0, [i \in 0..0 |-> 1])
      OBVIOUS
    <3> QED BY <3>1
  <2>2. ASSUME NEW k \in Nat, k \in S PROVE k + 1 \in S
    <3>1. PICK g : Begins(k, g)
      BY <2>2
    <3> DEFINE h == [i \in 0..(k + 1) |-> IF i = k + 1 THEN 2 * g[k] ELSE g[i]]
    <3>2. Begins(k + 1, h)
      BY <3>1
    <3> HIDE DEF Begins, h
    <3> QED BY <3>2
  <2>3. n \in S
    <3> HIDE DEF S
    <3> QED BY <2>1, <2>2, NatSetInduction
  <2>4. \E g : Begins(n, g)
    BY <2>3
  <2> HIDE DEF Begins
  <2> QED BY <2>4
<1> HIDE DEF Start
<1>2. ASSUME NEW m \in Nat, NEW n \in Nat, NEW g, NEW h,
             Begins(m, g), Begins(n, h)
      PROVE  \A i \in Nat : i <= m /\ i <= n => g[i] = h[i]
  <2> DEFINE S == {i \in Nat : i <= m /\ i <= n => g[i] = h[i]}
  <2>1. 0 \in S
    BY <1>2
  <2>2. ASSUME NEW k \in Nat, k \in S PROVE k + 1 \in S
    <3> SUFFICES ASSUME k + 1 <= m, k + 1 <= n PROVE g[k + 1] = h[k + 1]
      OBVIOUS
    <3>1. k + 1 \in 1..m /\ k + 1 \in 1..n /\ (k + 1) - 1 = k
      OBVIOUS
    <3>2. g[k] = h[k]
      BY <2>2
    <3> QED BY <1>2, <3>1, <3>2
  <2>3. Nat \subseteq S
    <3> HIDE DEF S
    <3> QED BY <2>1, <2>2, NatSetInduction
  <2> QED BY <2>3
<1>3. ASSUME NEW n \in Nat
      PROVE  f[n] = IF n = 0 THEN 1 ELSE 2 * f[n - 1]
  <2>1. CASE n = 0
    BY <1>1, <2>1
  <2>2. CASE n # 0
    <3>1. n - 1 \in Nat /\ n \in 1..n
      BY <2>2
    <3>2. Start(n)[n] = 2 * Start(n)[n - 1]
      BY <1>1, <3>1
    <3>3. Start(n)[n - 1] = Start(n - 1)[n - 1]
      <4>1. Begins(n, Start(n)) /\ Begins(n - 1, Start(n - 1))
        BY <1>1, <3>1
      <4> HIDE DEF Begins
      <4> QED BY <1>2, <3>1, <4>1
    <3> QED BY <2>2, <3>1, <3>2, <3>3
  <2> QED BY <2>1, <2>2
<1>4. f = [n \in Nat |-> IF n = 0 THEN 1 ELSE 2 * f[n - 1]]
  <2>1. DOMAIN f = Nat /\ f = [n \in Nat |-> f[n]]
    OBVIOUS
  <2> HIDE DEF f
  <2> QED BY <1>3, <2>1
<1> HIDE DEF f
<1> QED BY <1>4 DEF Pow2

\* Powers of two begin with one and double.
LEMMA Pow2Steps ==
  /\ Pow2[0] = 1
  /\ \A n \in Nat : Pow2[n] \in Nat \ {0} /\ Pow2[n + 1] = 2 * Pow2[n]
<1>1. Pow2[0] = 1
  BY Pow2Defined
<1>2. \A n \in Nat : Pow2[n + 1] = 2 * Pow2[n]
  <2> SUFFICES ASSUME NEW n \in Nat PROVE Pow2[n + 1] = 2 * Pow2[n]
    OBVIOUS
  <2>1. n + 1 \in Nat /\ n + 1 # 0 /\ (n + 1) - 1 = n
    OBVIOUS
  <2> QED BY <2>1, Pow2Defined
<1> DEFINE S == {n \in Nat : Pow2[n] \in Nat \ {0}}
<1>3. 0 \in S
  BY <1>1
<1>4. ASSUME NEW n \in Nat, n \in S PROVE n + 1 \in S
  BY <1>2, <1>4
<1>5. Nat \subseteq S
  <2> HIDE DEF S
  <2> QED BY <1>3, <1>4, NatSetInduction
<1> QED BY <1>1, <1>2, <1>5

\* The power of a sum is the product of the powers.
LEMMA Pow2Sum == \A a, b \in Nat : Pow2[a + b] = Pow2[a] * Pow2[b]
<1> SUFFICES ASSUME NEW a \in Nat PROVE \A b \in Nat : Pow2[a + b] = Pow2[a] * Pow2[b]
  OBVIOUS
<1> DEFINE S == {b \in Nat : Pow2[a + b] = Pow2[a] * Pow2[b]}
<1>1. 0 \in S
  BY Pow2Steps
<1>2. ASSUME NEW b \in Nat, b \in S PROVE b + 1 \in S
  <2>1. Pow2[a + (b + 1)] = 2 * Pow2[a + b]
    <3>1. a + b \in Nat /\ a + (b + 1) = (a + b) + 1
      OBVIOUS
    <3> QED BY <3>1, Pow2Steps
  <2>2. Pow2[b + 1] = 2 * Pow2[b] /\ Pow2[a] \in Nat /\ Pow2[b] \in Nat
    BY Pow2Steps
  <2>3. Pow2[a] * (2 * Pow2[b]) = 2 * (Pow2[a] * Pow2[b])
    BY <2>2
  <2> QED BY <1>2, <2>1, <2>2, <2>3
<1>3. Nat \subseteq S
  <2> HIDE DEF S
  <2> QED BY <1>1, <1>2, NatSetInduction
<1> QED BY <1>3

\* Products grow with their first factor.
LEMMA Products ==
  ASSUME NEW a \in Nat, NEW b \in Nat, NEW c \in Nat, a <= b
  PROVE  a * c <= b * c /\ (a < b /\ c > 0 => a * c < b * c)
<1> DEFINE d == b - a
<1>1. d \in Nat /\ b = a + d
  OBVIOUS
<1> HIDE DEF d
<1>2. b * c = a * c + d * c
  BY <1>1
<1>3. d * c \in Nat /\ (d > 0 /\ c > 0 => d * c > 0)
  BY <1>1
<1> QED BY <1>1, <1>2, <1>3

\* A number is its own rest below the modulus: nothing wraps.
LEMMA ModSmall ==
  ASSUME NEW a \in Nat, NEW m \in Nat, a < m
  PROVE  a % m = a
BY Z3

\* Powers grow with the exponent, and faster than it.
LEMMA Pow2Grows ==
  ASSUME NEW a \in Nat, NEW b \in Nat
  PROVE  /\ a <= b => Pow2[a] <= Pow2[b]
         /\ a < b => Pow2[a] < Pow2[b]
         /\ b < Pow2[b]
<1>1. ASSUME NEW d \in Nat PROVE d < Pow2[d]
  <2> DEFINE S == {n \in Nat : n < Pow2[n]}
  <2>1. 0 \in S
    BY Pow2Steps
  <2>2. ASSUME NEW n \in Nat, n \in S PROVE n + 1 \in S
    BY <2>2, Pow2Steps
  <2>3. Nat \subseteq S
    <3> HIDE DEF S
    <3> QED BY <2>1, <2>2, NatSetInduction
  <2> QED BY <2>3
<1>2. CASE a <= b
  <2> DEFINE d == b - a
  <2>1. d \in Nat /\ b = d + a /\ (a < b => d >= 1)
    BY <1>2
  <2> HIDE DEF d
  <2>2. Pow2[b] = Pow2[d] * Pow2[a]
    BY <2>1, Pow2Sum
  <2>3. /\ Pow2[d] \in Nat /\ Pow2[a] \in Nat /\ Pow2[a] > 0
        /\ 1 <= Pow2[d] /\ (a < b => 1 < Pow2[d])
    BY <2>1, <1>1, Pow2Steps
  <2>4. 1 * Pow2[a] <= Pow2[d] * Pow2[a] /\ (a < b => 1 * Pow2[a] < Pow2[d] * Pow2[a])
    BY <2>3, Products
  <2> QED BY <1>1, <2>2, <2>3, <2>4
<1>3. CASE ~(a <= b)
  BY <1>1, <1>3
<1> QED BY <1>2, <1>3

\* There are bits enough for any number of parts, and PartBits is the least.
LEMMA BitsOfParts ==
  ASSUME NEW parts \in Nat \ {0}
  PROVE  /\ PartBits(parts) \in Nat /\ Pow2[PartBits(parts)] >= parts
         /\ \A c \in 0..(PartBits(parts) - 1) : Pow2[c] < parts
<1> DEFINE T == {b \in Nat : Pow2[b] >= parts}
<1>1. parts \in T
  BY Pow2Grows, Pow2Steps
<1>2. PICK b \in T : \A c \in T : b <= c
  <2> T \subseteq Nat
    OBVIOUS
  <2> HIDE DEF T
  <2> QED BY <1>1, HasLeast
<1>3. b \in 0..parts /\ \A c \in 0..(b - 1) : Pow2[c] < parts
  <2>1. \A c \in 0..(b - 1) : c \in Nat /\ Pow2[c] \in Nat /\ c \notin T
    BY <1>2, Pow2Steps
  <2> QED BY <1>1, <1>2, <2>1
<1> QED BY <1>2, <1>3 DEF PartBits

\* The mask is long enough just when the parts fit.
LEMMA DividesWhatFits ==
  ASSUME NEW net, net.mask \in 0..Width, NEW parts \in Nat \ {0},
         NEW mask \in 0..Width
  PROVE  CanDivide(net, parts, mask) <=> CanSelect(net, parts, mask)
<1> DEFINE b == PartBits(parts)
           s == Size(mask)
           w == Width - mask
<1>1. /\ b \in Nat /\ Pow2[b] \in Nat /\ Pow2[b] >= parts
      /\ \A c \in 0..(b - 1) : Pow2[c] < parts
  BY BitsOfParts, Pow2Steps
<1>2. /\ w \in Nat /\ Width - net.mask \in Nat /\ Width \in Nat
      /\ s \in Nat /\ s > 0 /\ s = Pow2[w] /\ Size(net.mask) \in Nat
      /\ Size(net.mask) = Pow2[Width - net.mask]
  BY LayoutAssumption, Pow2Steps DEF Size
<1> HIDE DEF b, s
<1>3. CASE mask >= net.mask + b
  <2>1. b + w \in Nat /\ b + w <= Width - net.mask
    BY <1>1, <1>2, <1>3
  <2>2. Pow2[b + w] <= Size(net.mask)
    BY <1>2, <2>1, Pow2Grows
  <2>3. Pow2[b + w] = Pow2[b] * s
    BY <1>1, <1>2, Pow2Sum
  <2>4. parts * s <= Pow2[b] * s
    BY <1>1, <1>2, Products
  <2>5. parts * s \in Nat
    BY <1>2
  <2>6. parts * s <= Size(net.mask)
    <3> DEFINE x == parts * s
               y == Pow2[b] * s
    <3>1. y \in Nat
      BY <1>1, <1>2
    <3> HIDE DEF x, y
    <3>2. x \in Nat /\ x <= y /\ y <= Size(net.mask)
      BY <2>2, <2>3, <2>4, <2>5 DEF x, y
    <3>3. x <= Size(net.mask)
      BY <1>2, <3>1, <3>2
    <3> QED BY <3>3 DEF x
  <2> QED BY <1>3, <2>6 DEF CanDivide, CanSelect, GetBiggestMask, b, s
<1>4. CASE mask < net.mask + b /\ mask >= net.mask
  <2> DEFINE c == mask - net.mask
  <2>1. c \in 0..(b - 1) /\ c \in Nat /\ c + w = Width - net.mask
    BY <1>1, <1>2, <1>4
  <2>2. Pow2[c] < parts /\ Pow2[c] \in Nat
    BY <1>1, <2>1, Pow2Steps
  <2>3. Size(net.mask) = Pow2[c] * s
    BY <1>2, <2>1, Pow2Sum
  <2>4. Pow2[c] * s < parts * s
    BY <1>2, <2>2, Products
  <2>5. ~(parts * s <= Size(net.mask))
    <3>1. parts * s \in Nat
      BY <1>2
    <3> QED BY <1>2, <2>3, <2>4, <3>1
  <2> QED BY <1>1, <1>4, <2>5 DEF CanDivide, CanSelect, GetBiggestMask, b, s
<1>5. CASE mask < net.mask
  <2>1. Size(net.mask) < s
    BY <1>2, <1>5, Pow2Grows
  <2>2. 1 * s <= parts * s /\ 1 * s = s
    BY <1>2, Products
  <2>3. ~(parts * s <= Size(net.mask))
    <3>1. parts * s \in Nat
      BY <1>2
    <3> QED BY <1>2, <2>1, <2>2, <3>1
  <2> QED BY <1>1, <1>5, <2>3 DEF CanDivide, CanSelect, GetBiggestMask, b, s
<1> QED BY <1>1, <1>3, <1>4, <1>5

\* Parts that fit a network that ends before the last address: they follow
\* one another from its first address and stay within it.
LEMMA PartsAreApart ==
  ASSUME NEW net, net.at \in Nat, net.mask \in 0..Width,
         net.at + Size(net.mask) <= Pow2[Width],
         NEW parts \in Nat \ {0}, NEW mask \in 0..Width,
         CanSelect(net, parts, mask)
  PROVE  LET part == Consecutive(net.at, mask, parts) IN
         /\ DOMAIN part = 1..parts
         /\ \A i \in 1..parts :
              /\ part[i].mask = mask
              /\ part[i].at \in Nat /\ part[i].at >= net.at
              /\ part[i].at + Size(mask) <= net.at + Size(net.mask)
              /\ \A j \in 1..parts : i < j => part[i].at + Size(mask) <= part[j].at
<1> DEFINE part == Consecutive(net.at, mask, parts)
           s == Size(mask)
           end == Size(net.mask)
           limit == Pow2[Width]
<1>1. /\ Width \in Nat /\ s \in Nat /\ s > 0 /\ end \in Nat
      /\ limit \in Nat /\ limit > 0
  <2>1. Width \in Nat /\ Width - mask \in Nat /\ Width - net.mask \in Nat
    BY LayoutAssumption
  <2> QED BY <2>1, Pow2Steps DEF Size
<1>2. parts * s <= end /\ net.at + end <= limit
  BY DEF CanSelect
<1> HIDE DEF s, end, limit
<1>3. ASSUME NEW i \in 1..parts
      PROVE  /\ s * (i - 1) \in Nat /\ s * (i - 1) + s <= parts * s
             /\ \A j \in 1..parts : i < j => s * (i - 1) + s <= s * (j - 1)
  <2>1. s * (i - 1) \in Nat /\ s * (i - 1) + s = i * s /\ i * s <= parts * s
    BY <1>1, Products
  <2>2. ASSUME NEW j \in 1..parts, i < j PROVE i * s <= (j - 1) * s
    BY <1>1, <2>2, Products
  <2>3. \A j \in 1..parts : (j - 1) * s = s * (j - 1)
    BY <1>1
  <2> QED BY <2>1, <2>2, <2>3
<1>4. ASSUME NEW i \in 1..parts
      PROVE  part[i].mask = mask /\ part[i].at = net.at + s * (i - 1)
  <2>1. part[i] = Network((net.at + s * (i - 1)) % limit, mask)
    BY DEF Consecutive, s, limit
  <2>2. net.at + s * (i - 1) \in Nat /\ net.at + s * (i - 1) < limit
    <3>1. parts * s \in Nat
      BY <1>1
    <3> QED BY <1>1, <1>2, <1>3, <3>1
  <2>3. (net.at + s * (i - 1)) % limit = net.at + s * (i - 1)
    <3> DEFINE a == net.at + s * (i - 1)
    <3>1. a \in Nat /\ a < limit
      BY <2>2
    <3> HIDE DEF a
    <3>2. a % limit = a
      BY <1>1, <3>1, ModSmall
    <3> QED BY <3>2 DEF a
  <2> QED BY <2>1, <2>3 DEF Network
<1>5. DOMAIN part = 1..parts
  BY DEF Consecutive
<1> HIDE DEF part
<1>6. parts * s \in Nat
  BY <1>1
<1>7. \A i \in 1..parts :
        /\ part[i].mask = mask
        /\ part[i].at \in Nat /\ part[i].at >= net.at
        /\ part[i].at + s <= net.at + end
        /\ \A j \in 1..parts : i < j => part[i].at + s <= part[j].at
  <2> DEFINE off(i) == s * (i - 1)
  <2>1. \A i \in 1..parts :
          /\ off(i) \in Nat /\ off(i) + s <= parts * s
          /\ part[i].at = net.at + off(i) /\ part[i].mask = mask
          /\ \A j \in 1..parts : i < j => off(i) + s <= off(j)
    BY <1>3, <1>4
  <2> DEFINE most == parts * s
  <2> HIDE DEF off
  <2> QED BY <1>1, <1>2, <1>6, <2>1
<1> QED BY <1>5, <1>7 DEF part, s, end
-----------------------------------------------------------------------------

LaidOut == layout \in {"dividing", "done", "deployed"}

\* Requests that the code can lay out in whole addresses.
RequestIsPossible ==
  /\ request \in Requests
  /\ TierMask \in 1..Width
  /\ \A t \in 1..request.tierCount : SubnetMask(t) \in 1..Width

\* What has been divided is the division that was asked for, and was
\* checked to fit unless the network comes from a pool.
DivisionsAreChecked ==
  LaidOut =>
    /\ tiers = Consecutive(request.at, TierMask, request.tierCount)
    /\ ~request.ipam => CanSelect(Vpc, request.tierCount, TierMask)
    /\ \E k \in 0..request.tierCount :
         /\ DOMAIN subnets = 1..k
         /\ layout # "dividing" => k = request.tierCount
         /\ \A t \in 1..k :
              /\ subnets[t] =
                   Consecutive(tiers[t].at, SubnetMask(t), request.zones)
              /\ ~request.ipam =>
                   CanSelect(tiers[t], request.zones, SubnetMask(t))

LayoutIInv ==
  /\ RequestIsPossible
  /\ layout \in {"new", "dividing", "done", "deployed", "failed", "refused"}
  /\ layout = "new" => tiers = <<>> /\ subnets = <<>>
  /\ DivisionsAreChecked
  /\ layout = "deployed" => Fits
  /\ RefusalsAreRight

LEMMA RequestShape ==
  ASSUME request \in Requests
  PROVE  /\ request.ipam \in BOOLEAN /\ request.at \in Bases
         /\ request.mask \in VpcMasks /\ request.tierMask \in SubnetMasks \cup {0}
         /\ request.tierCount \in Nat \ {0} /\ request.zones \in Nat \ {0}
         /\ \A t \in 1..request.tierCount :
              request.subnetMasks[t] \in SubnetMasks \cup {0}
<1>1. PICK t \in 1..MaxTiers :
        request \in [ipam : BOOLEAN, at : Bases, mask : VpcMasks,
          tierMask : SubnetMasks \cup {0}, tierCount : {t}, zones : 1..MaxZones,
          subnetMasks : [1..t -> SubnetMasks \cup {0}]]
  BY DEF Requests
<1> QED BY <1>1, LayoutAssumption

LEMMA RequestStays ==
  ASSUME request' = request
  PROVE  /\ RequestIsPossible => RequestIsPossible'
         /\ Vpc' = Vpc /\ TierMask' = TierMask /\ BiggestTier' = BiggestTier
         /\ \A t : SubnetMask(t)' = SubnetMask(t)
<1>1. Vpc' = Vpc /\ BiggestTier' = BiggestTier
  BY DEF Vpc, BiggestTier, GetBiggestMask, Network
<1>2. TierMask' = TierMask
  BY <1>1 DEF TierMask, Given
<1>3. \A t : SubnetMask(t)' = SubnetMask(t)
  BY <1>2 DEF SubnetMask, Given, GetBiggestMask
<1> QED BY <1>1, <1>2, <1>3 DEF RequestIsPossible

LEMMA NetworksOfARequest ==
  ASSUME RequestIsPossible
  PROVE  /\ Vpc.at \in Nat /\ Vpc.mask \in 1..Width
         /\ Vpc.at + Size(Vpc.mask) <= Pow2[Width]
         /\ TierMask \in 0..Width
         /\ \A t \in 1..request.tierCount :
              LET tier == Consecutive(request.at, TierMask, request.tierCount)
              IN  /\ tier[t].mask = TierMask
                  /\ SubnetMask(t) \in 0..Width
<1>1. request.at \in Bases /\ request.mask \in VpcMasks
  BY RequestShape DEF RequestIsPossible
<1>2. request.at \in Nat /\ request.mask \in 1..Width
  BY <1>1, LayoutAssumption
<1>3. request.at + Size(request.mask) <= Pow2[Width]
  BY <1>1, LayoutAssumption
<1>4. /\ Width \in Nat /\ TierMask \in 0..Width
      /\ \A t \in 1..request.tierCount : SubnetMask(t) \in 0..Width
  BY LayoutAssumption DEF RequestIsPossible
<1>5. \A t \in 1..request.tierCount :
        Consecutive(request.at, TierMask, request.tierCount)[t].mask = TierMask
  BY DEF Consecutive, Network
<1> QED BY <1>2, <1>3, <1>4, <1>5 DEF Vpc, Network

LEMMA LayoutInitIInv == LayoutInit => LayoutIInv
<1> SUFFICES ASSUME LayoutInit PROVE LayoutIInv
  OBVIOUS
<1>1. /\ request \in Requests /\ TierMask <= Width
      /\ \A t \in 1..request.tierCount : SubnetMask(t) <= Width
      /\ tiers = <<>> /\ subnets = <<>> /\ layout = "new"
  BY DEF LayoutInit
<1>2. /\ PartBits(request.tierCount) \in Nat /\ PartBits(request.zones) \in Nat
      /\ Width \in Nat /\ VpcMasks \subseteq 1..Width /\ SubnetMasks \subseteq 1..Width
  BY <1>1, RequestShape, BitsOfParts, LayoutAssumption
<1>3. TierMask \in 1..Width
  <2>1. request.mask + PartBits(request.tierCount) \in Nat \ {0}
    <3>1. request.mask \in 1..Width
      BY <1>1, <1>2, RequestShape
    <3> QED BY <1>2, <3>1
  <2>2. request.tierMask = 0 \/ request.tierMask \in 1..Width
    BY <1>1, <1>2, RequestShape
  <2>3. TierMask \in Nat \ {0}
    BY <1>2, <2>1, <2>2 DEF TierMask, BiggestTier, Given, GetBiggestMask
  <2> QED BY <1>1, <1>2, <2>3
<1>4. ASSUME NEW t \in 1..request.tierCount PROVE SubnetMask(t) \in 1..Width
  <2>1. TierMask + PartBits(request.zones) \in Nat \ {0}
    BY <1>2, <1>3
  <2>2. request.subnetMasks[t] = 0 \/ request.subnetMasks[t] \in 1..Width
    BY <1>1, <1>2, RequestShape
  <2>3. SubnetMask(t) \in Nat \ {0}
    BY <1>2, <2>1, <2>2 DEF SubnetMask, Given, GetBiggestMask
  <2> QED BY <1>1, <1>2, <2>3
<1> QED BY <1>1, <1>3, <1>4
     DEF LayoutIInv, RequestIsPossible, DivisionsAreChecked, LaidOut, RefusalsAreRight

LEMMA LayoutStepKeepsIInv == LayoutIInv /\ [LayoutNext]_layoutVars => LayoutIInv'
<1> SUFFICES ASSUME LayoutIInv, [LayoutNext]_layoutVars PROVE LayoutIInv'
  OBVIOUS
<1>1. request' = request
  BY DEF LayoutNext, layoutVars, DivideVpc, RefuseTiers, DivideTier, RefuseSubnets,
         Finish, DeployVpc, Refuse
<1>2. RequestIsPossible /\ RequestIsPossible'
  BY <1>1, RequestStays DEF LayoutIInv
<1>3. /\ Vpc' = Vpc /\ TierMask' = TierMask /\ \A t : SubnetMask(t)' = SubnetMask(t)
  BY <1>1, RequestStays
<1>4. /\ request.tierCount \in Nat \ {0} /\ request.zones \in Nat \ {0}
      /\ request.ipam \in BOOLEAN
  BY <1>2, RequestShape DEF RequestIsPossible
<1>5. ASSUME NEW k \in Nat, DOMAIN subnets = 1..k PROVE NextTier = k + 1
  <2>1. Cardinality(1..k) = IF 1 > k THEN 0 ELSE k - 1 + 1
    BY FS_Interval
  <2>2. Cardinality(1..k) = k
    BY <2>1
  <2> QED BY <1>5, <2>2 DEF NextTier
<1>6. CASE DivideVpc
  <2>1. /\ layout = "new" /\ subnets = <<>> /\ subnets' = subnets /\ layout' = "dividing"
        /\ tiers' = Consecutive(request.at, TierMask, request.tierCount)
        /\ ~request.ipam => CanDivide(Vpc, request.tierCount, TierMask)
    BY <1>6 DEF DivideVpc, LayoutIInv
  <2>2. ~request.ipam => CanSelect(Vpc, request.tierCount, TierMask)
    BY <1>2, <1>4, <2>1, NetworksOfARequest, DividesWhatFits
  <2>3. DivisionsAreChecked'
    BY <1>1, <1>3, <1>4, <2>1, <2>2 DEF DivisionsAreChecked, CanSelect
  <2> QED BY <1>2, <2>1, <2>3 DEF LayoutIInv, RefusalsAreRight
<1>7. CASE RefuseTiers
  <2>1. /\ layout' = "refused" /\ tiers' = tiers
        /\ ~request.ipam => ~CanDivide(Vpc, request.tierCount, TierMask)
    BY <1>7 DEF RefuseTiers, Refuse
  <2>2. ~request.ipam => ~CanSelect(Vpc, request.tierCount, TierMask)
    BY <1>2, <1>4, <2>1, NetworksOfARequest, DividesWhatFits
  <2>3. RefusalsAreRight'
    BY <1>1, <1>3, <2>1, <2>2 DEF RefusalsAreRight, CanSelect
  <2> QED BY <1>2, <2>1, <2>3 DEF LayoutIInv, DivisionsAreChecked, LaidOut
<1>8. ASSUME layout = "dividing", NextTier <= request.tierCount
      PROVE  \E k \in 0..(request.tierCount - 1) :
               /\ DOMAIN subnets = 1..k /\ NextTier = k + 1
               /\ tiers = Consecutive(request.at, TierMask, request.tierCount)
               /\ tiers[k + 1].mask = TierMask
               /\ SubnetMask(k + 1) \in 0..Width
               /\ ~request.ipam => CanSelect(Vpc, request.tierCount, TierMask)
               /\ \A t \in 1..k :
                    /\ subnets[t] =
                         Consecutive(tiers[t].at, SubnetMask(t), request.zones)
                    /\ ~request.ipam =>
                         CanSelect(tiers[t], request.zones, SubnetMask(t))
  <2>1. PICK k \in 0..request.tierCount :
          /\ DOMAIN subnets = 1..k
          /\ \A t \in 1..k :
               /\ subnets[t] =
                    Consecutive(tiers[t].at, SubnetMask(t), request.zones)
               /\ ~request.ipam =>
                    CanSelect(tiers[t], request.zones, SubnetMask(t))
    BY <1>8 DEF LayoutIInv, DivisionsAreChecked, LaidOut
  <2>2. NextTier = k + 1 /\ k + 1 \in 1..request.tierCount
    BY <1>4, <1>5, <1>8, <2>1
  <2>3. /\ tiers = Consecutive(request.at, TierMask, request.tierCount)
        /\ ~request.ipam => CanSelect(Vpc, request.tierCount, TierMask)
    BY <1>8 DEF LayoutIInv, DivisionsAreChecked, LaidOut
  <2>4. tiers[k + 1].mask = TierMask /\ SubnetMask(k + 1) \in 0..Width
    BY <1>2, <2>2, <2>3, NetworksOfARequest
  <2>5. k \in 0..(request.tierCount - 1)
    BY <1>4, <2>2
  <2> QED BY <2>1, <2>2, <2>3, <2>4, <2>5
<1>9. CASE DivideTier
  <2>1. PICK k \in 0..(request.tierCount - 1) :
               /\ DOMAIN subnets = 1..k /\ NextTier = k + 1
               /\ tiers = Consecutive(request.at, TierMask, request.tierCount)
               /\ tiers[k + 1].mask = TierMask
               /\ SubnetMask(k + 1) \in 0..Width
               /\ ~request.ipam => CanSelect(Vpc, request.tierCount, TierMask)
               /\ \A t \in 1..k :
                    /\ subnets[t] =
                         Consecutive(tiers[t].at, SubnetMask(t), request.zones)
                    /\ ~request.ipam =>
                         CanSelect(tiers[t], request.zones, SubnetMask(t))
    BY <1>8, <1>9 DEF DivideTier
  <2>2. /\ layout' = "dividing" /\ layout = "dividing" /\ tiers' = tiers
        /\ AcceptsSubnets(k + 1)
        /\ subnets' = [t \in 1..(k + 1) |->
             IF t < k + 1 THEN subnets[t]
             ELSE Consecutive(tiers[t].at, SubnetMask(t), request.zones)]
    BY <1>9, <2>1 DEF DivideTier
  <2>3. ~request.ipam => CanSelect(tiers[k + 1], request.zones, SubnetMask(k + 1))
    <3>1. TierMask \in 0..Width
      BY <1>2, NetworksOfARequest
    <3> QED BY <1>4, <2>1, <2>2, <3>1, DividesWhatFits DEF AcceptsSubnets
  <2>4. ASSUME NEW t \in 1..(k + 1)
        PROVE  /\ subnets'[t] =
                    Consecutive(tiers[t].at, SubnetMask(t), request.zones)
               /\ ~request.ipam =>
                    CanSelect(tiers[t], request.zones, SubnetMask(t))
    <3>1. CASE t < k + 1
      <4>1. t \in 1..k
        BY <3>1
      <4> QED BY <2>1, <2>2, <3>1, <4>1
    <3>2. CASE ~(t < k + 1)
      <4>1. t = k + 1
        BY <3>2
      <4> QED BY <2>2, <2>3, <3>2, <4>1
    <3> QED BY <3>1, <3>2
  <2>5. DOMAIN subnets' = 1..(k + 1) /\ k + 1 \in 0..request.tierCount
    BY <1>4, <2>2
  <2>6. DivisionsAreChecked'
    BY <1>1, <1>3, <2>1, <2>2, <2>4, <2>5 DEF DivisionsAreChecked, CanSelect
  <2> QED BY <1>2, <2>2, <2>6 DEF LayoutIInv, RefusalsAreRight
<1>10. CASE RefuseSubnets
  <2>1. PICK k \in 0..(request.tierCount - 1) :
               /\ NextTier = k + 1
               /\ tiers = Consecutive(request.at, TierMask, request.tierCount)
               /\ tiers[k + 1].mask = TierMask
               /\ SubnetMask(k + 1) \in 0..Width
    BY <1>8, <1>10 DEF RefuseSubnets
  <2>2. /\ layout' = "refused" /\ tiers' = tiers
        /\ ~AcceptsSubnets(k + 1)
    BY <1>10, <2>1 DEF RefuseSubnets, Refuse
  <2>3. ~request.ipam => ~CanSelect(tiers[k + 1], request.zones, SubnetMask(k + 1))
    <3>1. TierMask \in 0..Width
      BY <1>2, NetworksOfARequest
    <3> QED BY <1>4, <2>1, <2>2, <3>1, DividesWhatFits DEF AcceptsSubnets
  <2>4. k + 1 \in DOMAIN tiers
    BY <1>4, <2>1 DEF Consecutive
  <2>5. RefusalsAreRight'
    BY <1>1, <1>3, <2>2, <2>3, <2>4 DEF RefusalsAreRight, CanSelect
  <2> QED BY <1>2, <2>2, <2>5 DEF LayoutIInv, DivisionsAreChecked, LaidOut
<1>11. CASE Finish
  <2>1. /\ layout = "dividing" /\ layout' = "done" /\ NextTier > request.tierCount
        /\ tiers' = tiers /\ subnets' = subnets
    BY <1>11 DEF Finish, Refuse
  <2>2. PICK k \in 0..request.tierCount :
          /\ DOMAIN subnets = 1..k
          /\ \A t \in 1..k :
               /\ subnets[t] =
                    Consecutive(tiers[t].at, SubnetMask(t), request.zones)
               /\ ~request.ipam =>
                    CanSelect(tiers[t], request.zones, SubnetMask(t))
    BY <2>1 DEF LayoutIInv, DivisionsAreChecked, LaidOut
  <2>3. k = request.tierCount
    BY <1>4, <1>5, <2>1, <2>2
  <2>4. DivisionsAreChecked'
    BY <1>1, <1>3, <2>1, <2>2, <2>3
       DEF DivisionsAreChecked, LaidOut, LayoutIInv, CanSelect
  <2> QED BY <1>2, <2>1, <2>4 DEF LayoutIInv, RefusalsAreRight
<1>12. CASE DeployVpc
  <2>1. /\ layout = "done" /\ layout' = IF request.ipam => Fits THEN "deployed" ELSE "failed"
        /\ tiers' = tiers /\ subnets' = subnets
    BY <1>12 DEF DeployVpc, Refuse
  <2>2. ~request.ipam => Fits
    BY <2>1, <1>4 DEF LayoutIInv, DivisionsAreChecked, LaidOut, Fits
  <2>3. Fits' <=> Fits
    BY <1>1, <1>3, <2>1 DEF Fits, CanSelect
  <2>4. DivisionsAreChecked'
    BY <1>1, <1>3, <2>1 DEF DivisionsAreChecked, LaidOut, LayoutIInv, CanSelect
  <2> QED BY <1>2, <1>4, <2>1, <2>2, <2>3, <2>4 DEF LayoutIInv, RefusalsAreRight
<1>13. CASE UNCHANGED layoutVars
  <2>1. layout' = layout /\ tiers' = tiers /\ subnets' = subnets
    BY <1>13 DEF layoutVars
  <2>2. DivisionsAreChecked' /\ RefusalsAreRight' /\ (Fits' <=> Fits)
    BY <1>1, <1>3, <2>1
       DEF DivisionsAreChecked, RefusalsAreRight, LaidOut, LayoutIInv, Fits, CanSelect
  <2> QED BY <1>2, <2>1, <2>2 DEF LayoutIInv
<1> QED BY <1>6, <1>7, <1>9, <1>10, <1>11, <1>12, <1>13 DEF LayoutNext

\* What is deployed was divided in parts that fit, twice.
LEMMA DeployedFits ==
  ASSUME LayoutIInv, layout = "deployed"
  PROVE  /\ RequestIsPossible
         /\ request.tierCount \in Nat \ {0} /\ request.zones \in Nat \ {0}
         /\ tiers = Consecutive(request.at, TierMask, request.tierCount)
         /\ CanSelect(Vpc, request.tierCount, TierMask)
         /\ DOMAIN subnets = 1..request.tierCount
         /\ \A t \in 1..request.tierCount :
              /\ subnets[t] = Consecutive(tiers[t].at, SubnetMask(t), request.zones)
              /\ CanSelect(tiers[t], request.zones, SubnetMask(t))
<1>1. RequestIsPossible /\ Fits
  BY DEF LayoutIInv
<1>2. request.tierCount \in Nat \ {0} /\ request.zones \in Nat \ {0}
  BY <1>1, RequestShape DEF RequestIsPossible
<1> QED BY <1>1, <1>2 DEF LayoutIInv, DivisionsAreChecked, LaidOut, Fits

LEMMA DeployedIsApart == LayoutIInv => SubnetsAreApart
<1> SUFFICES ASSUME LayoutIInv, layout = "deployed",
                    NEW t \in DOMAIN subnets, NEW u \in DOMAIN subnets,
                    NEW y \in 1..request.zones, NEW z \in 1..request.zones
             PROVE  /\ Addresses(subnets[t][z]) \subseteq Addresses(Vpc)
                    /\ <<t, z>> # <<u, y>> =>
                         Addresses(subnets[t][z]) \cap Addresses(subnets[u][y]) = {}
  BY DEF SubnetsAreApart
<1> DEFINE count == request.tierCount
           s == Size(TierMask)
<1>1. /\ RequestIsPossible /\ count \in Nat \ {0} /\ request.zones \in Nat \ {0}
      /\ tiers = Consecutive(request.at, TierMask, count)
      /\ CanSelect(Vpc, count, TierMask)
      /\ DOMAIN subnets = 1..count
      /\ \A i \in 1..count :
           /\ subnets[i] = Consecutive(tiers[i].at, SubnetMask(i), request.zones)
           /\ CanSelect(tiers[i], request.zones, SubnetMask(i))
  BY DeployedFits
<1>2. /\ Vpc.at \in Nat /\ Vpc.at = request.at /\ Vpc.mask \in 0..Width
      /\ Vpc.at + Size(Vpc.mask) <= Pow2[Width]
      /\ TierMask \in 0..Width
      /\ \A i \in 1..count : tiers[i].mask = TierMask /\ SubnetMask(i) \in 0..Width
  <2>1. Vpc.at = request.at
    BY DEF Vpc, Network
  <2> QED BY <1>1, <2>1, NetworksOfARequest
<1>3. \A m \in 0..Width : Size(m) \in Nat \ {0}
  <2>1. \A m \in 0..Width : Width - m \in Nat
    BY LayoutAssumption
  <2> QED BY <2>1, Pow2Steps DEF Size
<1>4. \A i \in 1..count :
        /\ tiers[i].at \in Nat /\ tiers[i].at >= Vpc.at
        /\ tiers[i].at + s <= Vpc.at + Size(Vpc.mask)
        /\ \A j \in 1..count : i < j => tiers[i].at + s <= tiers[j].at
  BY <1>1, <1>2, PartsAreApart
<1>5. ASSUME NEW i \in 1..count
      PROVE  \A k \in 1..request.zones :
               /\ subnets[i][k].mask = SubnetMask(i)
               /\ subnets[i][k].at \in Nat /\ subnets[i][k].at >= tiers[i].at
               /\ subnets[i][k].at + Size(SubnetMask(i)) <= tiers[i].at + s
               /\ \A l \in 1..request.zones : k < l =>
                    subnets[i][k].at + Size(SubnetMask(i)) <= subnets[i][l].at
  <2>1. tiers[i].at + s <= Pow2[Width]
    <3>1. Pow2[Width] \in Nat
      BY LayoutAssumption, Pow2Steps
    <3> QED BY <1>2, <1>3, <1>4, <3>1
  <2>2. /\ tiers[i].mask = TierMask /\ SubnetMask(i) \in 0..Width
        /\ tiers[i].at \in Nat /\ CanSelect(tiers[i], request.zones, SubnetMask(i))
        /\ subnets[i] = Consecutive(tiers[i].at, SubnetMask(i), request.zones)
    BY <1>1, <1>2, <1>4
  <2> DEFINE tier == tiers[i]
             long == SubnetMask(i)
  <2>3. /\ tier.at \in Nat /\ tier.mask \in 0..Width /\ long \in 0..Width
        /\ tier.at + Size(tier.mask) <= Pow2[Width]
        /\ CanSelect(tier, request.zones, long)
        /\ subnets[i] = Consecutive(tier.at, long, request.zones)
        /\ Size(tier.mask) = s
    BY <1>2, <2>1, <2>2
  <2> HIDE DEF tier, long, s
  <2>4. \A k \in 1..request.zones :
               /\ subnets[i][k].mask = long
               /\ subnets[i][k].at \in Nat /\ subnets[i][k].at >= tier.at
               /\ subnets[i][k].at + Size(long) <= tier.at + s
               /\ \A l \in 1..request.zones : k < l =>
                    subnets[i][k].at + Size(long) <= subnets[i][l].at
    BY <1>1, <2>3, PartsAreApart
  <2> QED BY <2>4 DEF tier, long
<1> DEFINE a == subnets[t][z].at
           b == subnets[u][y].at
           m == Size(SubnetMask(t))
           n == Size(SubnetMask(u))
<1>6. t \in 1..count /\ u \in 1..count
  BY <1>1
<1>7. Addresses(subnets[t][z]) = a .. (a + m - 1)
  BY <1>5, <1>6 DEF Addresses
<1>8. Addresses(subnets[u][y]) = b .. (b + n - 1)
  BY <1>5, <1>6 DEF Addresses
<1>9. /\ a \in Nat /\ a >= tiers[t].at /\ a + m <= tiers[t].at + s
      /\ b \in Nat /\ b >= tiers[u].at /\ b + n <= tiers[u].at + s
      /\ m \in Nat \ {0} /\ n \in Nat \ {0} /\ s \in Nat
  BY <1>2, <1>3, <1>5, <1>6
<1>10. Addresses(subnets[t][z]) \subseteq Addresses(Vpc)
  <2>1. /\ tiers[t].at \in Nat /\ tiers[t].at >= Vpc.at /\ Size(Vpc.mask) \in Nat
        /\ tiers[t].at + s <= Vpc.at + Size(Vpc.mask)
    BY <1>2, <1>3, <1>4, <1>6
  <2> DEFINE v == Vpc.at
             e == Size(Vpc.mask)
             o == tiers[t].at
  <2>2. Addresses(Vpc) = v .. (v + e - 1)
    BY DEF Addresses
  <2>3. v \in Nat /\ e \in Nat /\ o \in Nat /\ o >= v /\ o + s <= v + e
    BY <1>2, <2>1
  <2>4. a \in Nat /\ a >= o /\ a + m <= o + s /\ m \in Nat /\ s \in Nat
    BY <1>9
  <2> HIDE DEF a, m, s, v, e, o
  <2>5. (a .. (a + m - 1)) \subseteq (v .. (v + e - 1))
    BY <2>3, <2>4
  <2> QED BY <1>7, <2>2, <2>5
<1>11. ASSUME <<t, z>> # <<u, y>> PROVE a + m <= b \/ b + n <= a
  <2>1. CASE t = u
    <3>1. z < y \/ y < z
      BY <1>1, <1>11, <2>1
    <3> QED BY <1>5, <1>6, <2>1, <3>1
  <2>2. CASE t < u
    <3>1. tiers[t].at + s <= tiers[u].at /\ tiers[t].at \in Nat /\ tiers[u].at \in Nat
      BY <1>4, <1>6, <2>2
    <3> HIDE DEF a, b, m, n, s
    <3> QED BY <1>9, <3>1
  <2>3. CASE u < t
    <3>1. tiers[u].at + s <= tiers[t].at /\ tiers[t].at \in Nat /\ tiers[u].at \in Nat
      BY <1>4, <1>6, <2>3
    <3> HIDE DEF a, b, m, n, s
    <3> QED BY <1>9, <3>1
  <2> QED BY <1>1, <1>6, <2>1, <2>2, <2>3
<1>12. ASSUME <<t, z>> # <<u, y>>
       PROVE  Addresses(subnets[t][z]) \cap Addresses(subnets[u][y]) = {}
  <2>1. a + m <= b \/ b + n <= a
    BY <1>11, <1>12
  <2> HIDE DEF a, b, m, n
  <2>2. (a .. (a + m - 1)) \cap (b .. (b + n - 1)) = {}
    BY <1>9, <2>1
  <2> QED BY <1>7, <1>8, <2>2
<1> QED BY <1>10, <1>12

\* The biggest mask for more than one part leaves no room for a shorter one.
LEMMA BiggestIsTight ==
  ASSUME NEW net, net.mask \in 0..Width, NEW parts \in Nat \ {0}, parts # 1,
         GetBiggestMask(net.mask, parts) \in 1..Width
  PROVE  ~CanSelect(net, parts, GetBiggestMask(net.mask, parts) - 1)
<1> DEFINE mask == GetBiggestMask(net.mask, parts)
<1>1. mask - 1 \in 0..Width /\ mask \in Nat
  BY LayoutAssumption
<1>2. ~(mask - 1 >= mask)
  BY <1>1
<1>3. ~CanDivide(net, parts, mask - 1)
  BY <1>2 DEF CanDivide
<1> HIDE DEF mask
<1>4. ~CanSelect(net, parts, mask - 1)
  BY <1>1, <1>3, DividesWhatFits
<1> QED BY <1>4 DEF mask

LEMMA DeployedIsTight == LayoutIInv => MasksAreTight
<1> SUFFICES ASSUME LayoutIInv, layout = "deployed" PROVE MasksAreTight
  BY DEF MasksAreTight
<1>1. /\ RequestIsPossible
      /\ request.tierCount \in Nat \ {0} /\ request.zones \in Nat \ {0}
      /\ tiers = Consecutive(request.at, TierMask, request.tierCount)
      /\ DOMAIN subnets = 1..request.tierCount
  BY DeployedFits
<1>2. ASSUME request.tierMask = 0, request.tierCount # 1
      PROVE  ~CanSelect(Vpc, request.tierCount, TierMask - 1)
  <2>1. TierMask = GetBiggestMask(Vpc.mask, request.tierCount)
    BY <1>2 DEF TierMask, Given, BiggestTier, Vpc, Network
  <2>2. TierMask \in 1..Width /\ Vpc.mask \in 0..Width
    BY <1>1, NetworksOfARequest DEF RequestIsPossible
  <2> QED BY <1>1, <1>2, <2>1, <2>2, BiggestIsTight
<1>3. ASSUME NEW t \in DOMAIN subnets, request.subnetMasks[t] = 0,
             request.zones # 1
      PROVE  ~CanSelect(tiers[t], request.zones, SubnetMask(t) - 1)
  <2>1. tiers[t].mask = TierMask /\ TierMask \in 0..Width
    BY <1>1, NetworksOfARequest
  <2>2. SubnetMask(t) = GetBiggestMask(tiers[t].mask, request.zones)
    BY <1>3, <2>1 DEF SubnetMask, Given
  <2>3. SubnetMask(t) \in 1..Width
    BY <1>1 DEF RequestIsPossible
  <2> QED BY <1>1, <1>3, <2>1, <2>2, <2>3, BiggestIsTight
<1> QED BY <1>2, <1>3 DEF MasksAreTight

LEMMA LayoutInvariant == LayoutSpec => []LayoutIInv
<1> QED BY LayoutInitIInv, LayoutStepKeepsIInv, PTL DEF LayoutSpec

\* In every deployed VPC the subnets lie within its network, have no address
\* in common and are as large as that allows, for addresses of any width,
\* any masks and any numbers of tiers and zones.
THEOREM SubnetsAlwaysShare == LayoutSpec => []SubnetsShareTheVpc
<1>1. LayoutIInv => SubnetsShareTheVpc
  BY DeployedIsApart, DeployedIsTight DEF SubnetsShareTheVpc
<1> QED BY <1>1, LayoutInvariant, PTL

\* A VPC whose CIDR is known is refused only when its tiers, or the subnets
\* of a tier, do not fit.
THEOREM RefusalsAlwaysRight == LayoutSpec => []RefusalsAreRight
<1>1. LayoutIInv => RefusalsAreRight
  BY DEF LayoutIInv
<1> QED BY <1>1, LayoutInvariant, PTL
=============================================================================
