--------------------------- MODULE SeverityProofs ---------------------------
(***************************************************************************)
(* However often the arrays of levels have been reversed, parsers of one   *)
(* class rate alike: a chain has its levels in ascending or in descending  *)
(* order, and no finding meets the conditions of two levels, unless its    *)
(* label and its score contradict each other.  Then only these two levels  *)
(* hold, and a parser gives the severity of one of them.                   *)
(***************************************************************************)
EXTENDS SeverityRatings, TLAPS

Orders(levels) == {levels, Reverse(levels)}

\* The chain of a parser is one of the two orders of its class's levels, and
\* its triggers are sets of these levels.
ChainInv ==
    /\ hubOrder \in Orders(HubLevels)
    /\ guardOrder \in Orders(GuardLevels)
    /\ kind \in [Parsers -> Kinds \cup {"none"}]
    /\ DOMAIN chain = Parsers
    /\ DOMAIN triggers = Parsers
    /\ \A p \in Parsers :
        /\ kind[p] = "none" => chain[p] = <<>> /\ triggers[p] = {}
        /\ kind[p] = "SecurityHubFinding" => chain[p] \in Orders(HubLevels)
        /\ kind[p] = "GuardDutyFinding" => chain[p] \in Orders(GuardLevels)
        /\ kind[p] = "EcrScanFinding" => chain[p] = EcrLevels
        /\ triggers[p] \subseteq SUBSET LevelsOf(kind[p])
    /\ synthesized \in BOOLEAN

-----------------------------------------------------------------------------
\* A reversed sequence has the same elements, and reversing it again restores it.
LEMMA ReverseHub ==
    /\ Reverse(HubLevels) = <<HubLevels[5], HubLevels[4], HubLevels[3], HubLevels[2], HubLevels[1]>>
    /\ Reverse(Reverse(HubLevels)) = HubLevels
BY DEF Reverse, HubLevels

LEMMA ReverseGuard ==
    /\ Reverse(GuardLevels) = <<GuardLevels[5], GuardLevels[4], GuardLevels[3], GuardLevels[2], GuardLevels[1]>>
    /\ Reverse(Reverse(GuardLevels)) = GuardLevels
BY DEF Reverse, GuardLevels

\* Where some level of a chain holds, the rating is the severity of one that does.
LEMMA SomeHit ==
    ASSUME NEW levels, NEW hits, hits \subseteq {1, 2, 3, 4, 5}, hits # {}
    PROVE  \E i \in hits : FirstOf(levels, hits) = levels[i].severity
<1>1. PICK i \in hits : \A j \in hits : i <= j
  <2>1. CASE 1 \in hits  BY <2>1
  <2>2. CASE 1 \notin hits /\ 2 \in hits  BY <2>2
  <2>3. CASE 1 \notin hits /\ 2 \notin hits /\ 3 \in hits  BY <2>3
  <2>4. CASE 1 \notin hits /\ 2 \notin hits /\ 3 \notin hits /\ 4 \in hits  BY <2>4
  <2>5. CASE 1 \notin hits /\ 2 \notin hits /\ 3 \notin hits /\ 4 \notin hits
    <3>1. \A i \in hits : i = 5  BY <2>5
    <3>2. 5 \in hits  BY <3>1
    <3> QED  BY <3>1, <3>2
  <2> QED  BY <2>1, <2>2, <2>3, <2>4, <2>5
<1>2. \E k \in hits : \A j \in hits : k <= j
  BY <1>1
<1> QED  BY <1>2 DEF FirstOf

\* If the levels that hold have the same severity, the order does not matter.
LEMMA AnyHit ==
    ASSUME NEW levels, NEW s, NEW hits, hits \subseteq {1, 2, 3, 4, 5}, hits # {},
           \A i \in hits : levels[i].severity = s
    PROVE  FirstOf(levels, hits) = s
BY SomeHit

-----------------------------------------------------------------------------
(***************************************************************************)
(* Security Hub.                                                           *)
(***************************************************************************)

\* Both orders have the five levels.
LEMMA HubChains ==
    ASSUME NEW c \in Orders(HubLevels)
    PROVE  DOMAIN c = {1, 2, 3, 4, 5} /\ Elements(c) = Elements(HubLevels)
<1>1. CASE c = HubLevels  BY <1>1 DEF HubLevels
<1>2. CASE c = Reverse(HubLevels)
  <2>1. c = <<HubLevels[5], HubLevels[4], HubLevels[3], HubLevels[2], HubLevels[1]>>
    BY <1>2, ReverseHub
  <2>2. DOMAIN c = {1, 2, 3, 4, 5} /\ DOMAIN HubLevels = {1, 2, 3, 4, 5}
    BY <2>1 DEF HubLevels
  <2>3. /\ c[1] = HubLevels[5] /\ c[2] = HubLevels[4] /\ c[3] = HubLevels[3]
        /\ c[4] = HubLevels[2] /\ c[5] = HubLevels[1]
    BY <2>1
  <2>4. Elements(c) = Elements(HubLevels)
    BY <2>2, <2>3 DEF Elements
  <2> QED  BY <2>2, <2>4
<1> QED  BY <1>1, <1>2 DEF Orders

\* No consistent finding meets the conditions of two levels.
LEMMA OneHubLevel ==
    ASSUME NEW f \in [label : STRING, normalized : Int], Consistent(f),
           NEW l \in Elements(HubLevels), NEW m \in Elements(HubLevels),
           HubHolds(l, f), HubHolds(m, f)
    PROVE  l = m
<1>1. Elements(HubLevels) = {HubLevels[1], HubLevels[2], HubLevels[3], HubLevels[4], HubLevels[5]}
  <2>1. DOMAIN HubLevels = {1, 2, 3, 4, 5}  BY DEF HubLevels
  <2> QED  BY <2>1 DEF Elements
<1>2. \A x, y \in Elements(HubLevels) : x.name = y.name => x = y
  BY <1>1 DEF HubLevels
<1>3. \A x, y \in Elements(HubLevels) :
         \A n \in Int : n \in x.lower .. x.upper /\ n \in y.lower .. y.upper => x = y
  BY <1>1 DEF HubLevels
<1>4. \A x \in Elements(HubLevels) : x.name # "absent" /\ x.lower \in Int /\ x.upper \in Int
  BY <1>1 DEF HubLevels
<1>5. /\ f.label = l.name \/ (f.normalized # Absent /\ f.normalized \in l.lower .. l.upper)
      /\ f.label = m.name \/ (f.normalized # Absent /\ f.normalized \in m.lower .. m.upper)
  BY <1>4 DEF HubHolds
<1>6. CASE f.label = "absent"
  BY <1>3, <1>4, <1>5, <1>6
<1>7. CASE f.normalized = Absent
  BY <1>2, <1>5, <1>7
<1>8. ASSUME NEW k \in Elements(HubLevels), f.label = k.name, f.normalized \in k.lower .. k.upper
      PROVE  l = m
  <2>1. l = k  BY <1>2, <1>3, <1>5, <1>8
  <2>2. m = k  BY <1>2, <1>3, <1>5, <1>8
  <2> QED  BY <2>1, <2>2
<1> QED  BY <1>6, <1>7, <1>8 DEF Consistent

\* The levels that hold for a finding are the one its label names and the one its
\* score belongs to, at most one of each.
LEMMA HubHoldsFor ==
    ASSUME NEW f \in [label : STRING, normalized : Int]
    PROVE  /\ \A l \in Elements(HubLevels) : HubHolds(l, f) <=> l \in Named(f) \cup Scored(f)
           /\ \A l, m \in Named(f) : l = m
           /\ \A l, m \in Scored(f) : l = m
<1>1. Elements(HubLevels) = {HubLevels[1], HubLevels[2], HubLevels[3], HubLevels[4], HubLevels[5]}
  <2>1. DOMAIN HubLevels = {1, 2, 3, 4, 5}  BY DEF HubLevels
  <2> QED  BY <2>1 DEF Elements
<1>2. \A l \in Elements(HubLevels) : l.lower \in Nat /\ l.upper \in Nat
  BY <1>1 DEF HubLevels
<1>3. \A l \in Elements(HubLevels) : HubHolds(l, f) <=> l \in Named(f) \cup Scored(f)
  BY <1>2 DEF HubHolds, Named, Scored, Absent
<1>4. \A l, m \in Named(f) : l = m
  BY <1>1 DEF HubLevels, Named
<1>5. \A l, m \in Scored(f) : l = m
  BY <1>1 DEF HubLevels, Scored
<1> QED  BY <1>3, <1>4, <1>5

\* If some level holds, the rating is the severity of one that does.
LEMMA HubRatingOfOne ==
    ASSUME NEW c \in Orders(HubLevels), NEW f,
           NEW l \in Elements(HubLevels), HubHolds(l, f)
    PROVE  \E m \in Elements(HubLevels) : HubHolds(m, f) /\ HubRating(c, f) = m.severity
<1> DEFINE Hits == {i \in DOMAIN c : HubHolds(c[i], f)}
<1>1. DOMAIN c = {1, 2, 3, 4, 5} /\ Elements(c) = Elements(HubLevels)
  BY HubChains
<1>2. Hits # {} /\ Hits \subseteq {1, 2, 3, 4, 5}
  BY <1>1 DEF Elements
<1>3. \A i \in Hits : c[i] \in Elements(HubLevels) /\ HubHolds(c[i], f)
  BY <1>1 DEF Elements
<1>4. HubRating(c, f) = FirstOf(c, Hits)
  BY DEF HubRating
<1> HIDE DEF Hits
<1>5. \E i \in Hits : FirstOf(c, Hits) = c[i].severity
  BY <1>2, SomeHit, Zenon
<1> QED  BY <1>3, <1>4, <1>5

\* The rating is the severity of the one level that holds, if there is one.
LEMMA HubRatingIs ==
    ASSUME NEW c \in Orders(HubLevels), NEW f \in [label : STRING, normalized : Int], Consistent(f),
           NEW l \in Elements(HubLevels), HubHolds(l, f)
    PROVE  HubRating(c, f) = l.severity
<1> DEFINE Hits == {i \in DOMAIN c : HubHolds(c[i], f)}
<1>1. DOMAIN c = {1, 2, 3, 4, 5} /\ Elements(c) = Elements(HubLevels)
  BY HubChains
<1>2. \A i \in Hits : c[i] = l
  BY <1>1, OneHubLevel DEF Elements
<1>3. Hits # {} /\ Hits \subseteq {1, 2, 3, 4, 5}
  BY <1>1 DEF Elements
<1>4. \A i \in Hits : c[i].severity = l.severity
  BY <1>2
<1> HIDE DEF Hits
<1>5. FirstOf(c, Hits) = l.severity
  BY <1>3, <1>4, AnyHit, Zenon
<1> QED  BY <1>5 DEF HubRating, Hits

LEMMA HubUnrated ==
    ASSUME NEW c \in Orders(HubLevels), NEW f, \A l \in Elements(HubLevels) : ~HubHolds(l, f)
    PROVE  HubRating(c, f) = Unrated
<1>1. {i \in DOMAIN c : HubHolds(c[i], f)} = {}
  BY HubChains DEF Elements
<1> QED  BY <1>1 DEF HubRating, FirstOf

\* Both orders rate a finding alike, or one gives the severity of its label and
\* the other that of its score.
LEMMA HubOrderMatters ==
    ASSUME NEW c \in Orders(HubLevels), NEW d \in Orders(HubLevels),
           NEW f \in [label : STRING, normalized : Int]
    PROVE  \/ HubRating(c, f) = HubRating(d, f)
           \/ /\ ~Consistent(f)
              /\ {HubRating(c, f), HubRating(d, f)} = Severities(Named(f) \cup Scored(f))
<1>1. CASE \A l \in Elements(HubLevels) : ~HubHolds(l, f)
  BY <1>1, HubUnrated
<1>2. ASSUME NEW l \in Elements(HubLevels), HubHolds(l, f), Consistent(f)
      PROVE  HubRating(c, f) = HubRating(d, f)
  <2>1. HubRating(c, f) = l.severity  BY <1>2, HubRatingIs
  <2>2. HubRating(d, f) = l.severity  BY <1>2, HubRatingIs
  <2> QED  BY <2>1, <2>2
<1>3. ASSUME NEW k \in Elements(HubLevels), HubHolds(k, f), HubRating(c, f) # HubRating(d, f)
      PROVE  {HubRating(c, f), HubRating(d, f)} = Severities(Named(f) \cup Scored(f))
  <2>1. PICK l \in Elements(HubLevels) : HubHolds(l, f) /\ HubRating(c, f) = l.severity
    BY <1>3, HubRatingOfOne
  <2>2. PICK m \in Elements(HubLevels) : HubHolds(m, f) /\ HubRating(d, f) = m.severity
    BY <1>3, HubRatingOfOne
  <2>3. l # m
    BY <1>3, <2>1, <2>2
  <2>4. Named(f) \cup Scored(f) = {l, m}
    <3>1. l \in Named(f) \cup Scored(f) /\ m \in Named(f) \cup Scored(f)
      BY <2>1, <2>2, HubHoldsFor
    <3>2. \A x, y \in Named(f) : x = y
      BY HubHoldsFor
    <3>3. \A x, y \in Scored(f) : x = y
      BY HubHoldsFor
    <3> QED  BY <2>3, <3>1, <3>2, <3>3
  <2> QED  BY <2>1, <2>2, <2>4 DEF Severities
<1> QED  BY <1>1, <1>2, <1>3

-----------------------------------------------------------------------------
(***************************************************************************)
(* GuardDuty.                                                              *)
(***************************************************************************)

LEMMA GuardChains ==
    ASSUME NEW c \in Orders(GuardLevels)
    PROVE  DOMAIN c = {1, 2, 3, 4, 5} /\ Elements(c) = Elements(GuardLevels)
<1>1. CASE c = GuardLevels  BY <1>1 DEF GuardLevels
<1>2. CASE c = Reverse(GuardLevels)
  <2>1. c = <<GuardLevels[5], GuardLevels[4], GuardLevels[3], GuardLevels[2], GuardLevels[1]>>
    BY <1>2, ReverseGuard
  <2>2. DOMAIN c = {1, 2, 3, 4, 5} /\ DOMAIN GuardLevels = {1, 2, 3, 4, 5}
    BY <2>1 DEF GuardLevels
  <2>3. /\ c[1] = GuardLevels[5] /\ c[2] = GuardLevels[4] /\ c[3] = GuardLevels[3]
        /\ c[4] = GuardLevels[2] /\ c[5] = GuardLevels[1]
    BY <2>1
  <2>4. Elements(c) = Elements(GuardLevels)
    BY <2>2, <2>3 DEF Elements
  <2> QED  BY <2>2, <2>4
<1> QED  BY <1>1, <1>2 DEF Orders

LEMMA GuardElements ==
    Elements(GuardLevels) =
        {GuardLevels[1], GuardLevels[2], GuardLevels[3], GuardLevels[4], GuardLevels[5]}
<1>1. DOMAIN GuardLevels = {1, 2, 3, 4, 5}  BY DEF GuardLevels
<1> QED  BY <1>1 DEF Elements

\* The intervals of the levels do not overlap.
LEMMA OneGuardLevel ==
    ASSUME NEW f \in Nat,
           NEW l \in Elements(GuardLevels), NEW m \in Elements(GuardLevels),
           GuardHolds(l, f), GuardHolds(m, f)
    PROVE  l = m
BY GuardElements DEF GuardLevels, GuardHolds, Absent

\* The rating is the severity of the one level that holds, if there is one.
LEMMA GuardRatingIs ==
    ASSUME NEW c \in Orders(GuardLevels), NEW f \in Nat,
           NEW l \in Elements(GuardLevels), GuardHolds(l, f)
    PROVE  GuardRating(c, f) = l.severity
<1> DEFINE Hits == {i \in DOMAIN c : GuardHolds(c[i], f)}
<1>1. DOMAIN c = {1, 2, 3, 4, 5} /\ Elements(c) = Elements(GuardLevels)
  BY GuardChains
<1>2. \A i \in Hits : c[i] = l
  BY <1>1, OneGuardLevel DEF Elements
<1>3. Hits # {} /\ Hits \subseteq {1, 2, 3, 4, 5}
  BY <1>1 DEF Elements
<1>4. \A i \in Hits : c[i].severity = l.severity
  BY <1>2
<1> HIDE DEF Hits
<1>5. FirstOf(c, Hits) = l.severity
  BY <1>3, <1>4, AnyHit, Zenon
<1> QED  BY <1>5 DEF GuardRating, Hits

LEMMA GuardUnrated ==
    ASSUME NEW c \in Orders(GuardLevels), NEW f, \A l \in Elements(GuardLevels) : ~GuardHolds(l, f)
    PROVE  GuardRating(c, f) = Unrated
<1>1. {i \in DOMAIN c : GuardHolds(c[i], f)} = {}
  BY GuardChains DEF Elements
<1> QED  BY <1>1 DEF GuardRating, FirstOf

LEMMA GuardOrderIrrelevant ==
    ASSUME NEW c \in Orders(GuardLevels), NEW d \in Orders(GuardLevels), NEW f \in Nat
    PROVE  GuardRating(c, f) = GuardRating(d, f)
<1>1. CASE \E l \in Elements(GuardLevels) : GuardHolds(l, f)
  BY <1>1, GuardRatingIs
<1>2. CASE \A l \in Elements(GuardLevels) : ~GuardHolds(l, f)
  BY <1>2, GuardUnrated
<1> QED  BY <1>1, <1>2

-----------------------------------------------------------------------------
(***************************************************************************)
(* Construction keeps the chains in one of their two orders.               *)
(***************************************************************************)

\* What threshold() selects are levels of the class.
LEMMA ThresholdsAreLevels ==
    ASSUME ChainInv, NEW k \in Kinds
    PROVE  /\ Thresholds(k) \subseteq SUBSET LevelsOf(k)
           /\ DefaultTrigger(k) \in SUBSET LevelsOf(k)
<1>1. Elements(hubOrder) = Elements(HubLevels)
  BY HubChains DEF ChainInv
<1>2. Elements(guardOrder) = Elements(GuardLevels)
  BY GuardChains DEF ChainInv
<1>3. CASE k = "SecurityHubFinding"
  BY <1>1, <1>3 DEF Thresholds, DefaultTrigger, LevelsOf, HubThreshold
<1>4. CASE k = "GuardDutyFinding"
  BY <1>2, <1>4 DEF Thresholds, DefaultTrigger, LevelsOf, GuardThreshold
<1>5. CASE k = "EcrScanFinding"
  BY <1>5 DEF Thresholds, DefaultTrigger, LevelsOf, EcrThreshold
<1> QED  BY <1>3, <1>4, <1>5 DEF Kinds

LEMMA ChainInvInductive == ChainInv /\ [Next]_vars => ChainInv'
<1> SUFFICES ASSUME ChainInv, [Next]_vars PROVE ChainInv'
  OBVIOUS
<1>1. \A order : order \in Orders(HubLevels) => Reverse(order) \in Orders(HubLevels)
  BY ReverseHub DEF Orders
<1>2. \A order : order \in Orders(GuardLevels) => Reverse(order) \in Orders(GuardLevels)
  BY ReverseGuard DEF Orders
<1>3. ASSUME NEW p \in Parsers, NewSecurityHubFinding(p) PROVE ChainInv'
  <2>1. hubOrder' \in Orders(HubLevels)
    BY <1>1, <1>3 DEF ChainInv, NewSecurityHubFinding
  <2> QED  BY <1>3, <2>1 DEF ChainInv, NewSecurityHubFinding, Construct, Kinds
<1>4. ASSUME NEW p \in Parsers, NewGuardDutyFinding(p) PROVE ChainInv'
  <2>1. guardOrder' \in Orders(GuardLevels)
    BY <1>2, <1>4 DEF ChainInv, NewGuardDutyFinding
  <2> QED  BY <1>4, <2>1 DEF ChainInv, NewGuardDutyFinding, Construct, Kinds
<1>5. ASSUME NEW p \in Parsers, NewEcrScanFinding(p) PROVE ChainInv'
  BY <1>5 DEF ChainInv, NewEcrScanFinding, Construct, Kinds
<1>6. ASSUME NEW p \in Parsers, RegisterTrigger(p) PROVE ChainInv'
  <2>1. kind[p] \in Kinds
    BY <1>6 DEF ChainInv, RegisterTrigger
  <2>2. PICK L \in Thresholds(kind[p]) \cup CustomLevels(kind[p]) :
            triggers' = [triggers EXCEPT ![p] = {L}]
    BY <1>6 DEF RegisterTrigger
  <2>3. L \in SUBSET LevelsOf(kind[p])
    BY <2>1, <2>2, ThresholdsAreLevels DEF CustomLevels
  <2> QED  BY <1>6, <2>2, <2>3 DEF ChainInv, RegisterTrigger
<1>7. ASSUME Synthesize PROVE ChainInv'
  <2>1. \A p \in Parsers : kind[p] # "none" =>
            DefaultTrigger(kind[p]) \in SUBSET LevelsOf(kind[p])
    BY ThresholdsAreLevels DEF ChainInv
  <2>2. \A p \in Parsers : triggers'[p] \subseteq SUBSET LevelsOf(kind[p])
    BY <1>7, <2>1 DEF ChainInv, Synthesize
  <2>3. \A p \in Parsers : kind[p] = "none" => triggers'[p] = {}
    BY <1>7 DEF ChainInv, Synthesize
  <2> QED  BY <1>7, <2>2, <2>3 DEF ChainInv, Synthesize
<1>8. CASE UNCHANGED vars
  BY <1>8 DEF ChainInv, vars
<1> QED  BY <1>3, <1>4, <1>5, <1>6, <1>7, <1>8 DEF Next

LEMMA InitChainInv == Init => ChainInv
BY DEF Init, ChainInv, Orders

LEMMA AlwaysChainInv == Spec => []ChainInv
BY InitChainInv, ChainInvInductive, PTL DEF Spec

-----------------------------------------------------------------------------
\* Type correctness: for every set of parsers and of findings.
THEOREM TypeCorrect == Spec => []TypeOK
<1>1. ASSUME ChainInv, NEW p \in Parsers
      PROVE  Elements(chain[p]) = LevelsOf(kind[p])
  <2>1. CASE kind[p] = "none"
    BY <1>1, <2>1 DEF ChainInv, LevelsOf, Elements
  <2>2. CASE kind[p] = "SecurityHubFinding"
    BY <1>1, <2>2, HubChains DEF ChainInv, LevelsOf
  <2>3. CASE kind[p] = "GuardDutyFinding"
    BY <1>1, <2>3, GuardChains DEF ChainInv, LevelsOf
  <2>4. CASE kind[p] = "EcrScanFinding"
    BY <1>1, <2>4 DEF ChainInv, LevelsOf
  <2> QED  BY <1>1, <2>1, <2>2, <2>3, <2>4 DEF ChainInv, Kinds
<1>2. ChainInv => TypeOK
  BY <1>1 DEF ChainInv, TypeOK, Orders
<1> QED  BY <1>2, AlwaysChainInv, PTL

\* InstancesAgree for every finding, contradictory ones included: any number of
\* parsers constructed in any order, any label and any score.
THEOREM RatingsAgree == Spec => []InstancesAgree
<1>1. ASSUME ChainInv PROVE InstancesAgree
  <2>1. ASSUME NEW p \in Of("SecurityHubFinding"), NEW q \in Of("SecurityHubFinding"),
               NEW f \in HubFindings
        PROVE  \/ HubRating(chain[p], f) = HubRating(chain[q], f)
               \/ /\ ~Consistent(f)
                  /\ {HubRating(chain[p], f), HubRating(chain[q], f)} =
                        Severities(Named(f) \cup Scored(f))
    <3>1. f \in [label : STRING, normalized : Int]
      BY FindingsAssumption DEF HubFindings
    <3>2. chain[p] \in Orders(HubLevels) /\ chain[q] \in Orders(HubLevels)
      BY <1>1 DEF ChainInv, Of
    <3> QED  BY <3>1, <3>2, HubOrderMatters
  <2>2. ASSUME NEW p \in Of("GuardDutyFinding"), NEW q \in Of("GuardDutyFinding"),
               NEW f \in Tenths
        PROVE  GuardRating(chain[p], f) = GuardRating(chain[q], f)
    BY <1>1, <2>2, FindingsAssumption, GuardOrderIrrelevant DEF ChainInv, Of
  <2> QED  BY <2>1, <2>2 DEF InstancesAgree
<1> QED  BY <1>1, AlwaysChainInv, PTL

\* MatchedFindingsAreRated for every finding and every choice of levels, those
\* of a Security Hub finding whose label and score contradict each other too.
THEOREM MatchedAreRated == Spec => []MatchedFindingsAreRated
<1>1. ASSUME ChainInv PROVE MatchedFindingsAreRated
  <2>1. ASSUME NEW p \in Of("SecurityHubFinding"), NEW f \in HubFindings,
               NEW L \in triggers[p], HubPattern(L, f)
        PROVE  HubRating(chain[p], f) # Unrated
    <3> DEFINE Hits == {i \in DOMAIN chain[p] : HubHolds(chain[p][i], f)}
    <3>1. DOMAIN chain[p] = {1, 2, 3, 4, 5} /\ Elements(chain[p]) = Elements(HubLevels)
      BY <1>1, <2>1, HubChains DEF ChainInv, Of
    <3>2. L \subseteq Elements(HubLevels)
      BY <1>1, <2>1 DEF ChainInv, Of, LevelsOf
    <3>3. \A l \in Elements(HubLevels) : l.lower \in Nat /\ l.upper \in Nat /\ l.severity # Unrated
      BY DEF Elements, HubLevels, Unrated
    <3>4. \E l \in Elements(HubLevels) : HubHolds(l, f)
      <4>1. f.normalized \in Int
        BY <2>1, FindingsAssumption DEF HubFindings
      <4> QED  BY <2>1, <3>2, <3>3, <4>1 DEF HubPattern, HubHolds, Absent
    <3>5. Hits # {} /\ Hits \subseteq {1, 2, 3, 4, 5}
      BY <3>1, <3>4 DEF Elements
    <3>6. \A i \in Hits : chain[p][i].severity # Unrated
      BY <3>1, <3>3 DEF Elements
    <3>7. FirstOf(chain[p], Hits) # Unrated
      <4> HIDE DEF Hits
      <4>1. \E i \in Hits : FirstOf(chain[p], Hits) = chain[p][i].severity
        BY <3>5, SomeHit, Zenon
      <4> QED  BY <3>6, <4>1
    <3> QED  BY <3>7 DEF HubRating
  <2>2. ASSUME NEW p \in Of("GuardDutyFinding"), NEW f \in Tenths,
               NEW L \in triggers[p], GuardPattern(L, f)
        PROVE  GuardRating(chain[p], f) # Unrated
    <3> DEFINE Hits == {i \in DOMAIN chain[p] : GuardHolds(chain[p][i], f)}
    <3>1. DOMAIN chain[p] = {1, 2, 3, 4, 5} /\ Elements(chain[p]) = Elements(GuardLevels)
      BY <1>1, <2>2, GuardChains DEF ChainInv, Of
    <3>2. L \subseteq Elements(GuardLevels)
      BY <1>1, <2>2 DEF ChainInv, Of, LevelsOf
    <3>3. \A l \in Elements(GuardLevels) :
              l.lower # 0 /\ l.upper # 0 /\ l.severity # Unrated
      BY GuardElements DEF GuardLevels, Unrated, Absent
    <3>4. \E l \in Elements(GuardLevels) : GuardHolds(l, f)
      BY <2>2, <3>2, <3>3 DEF GuardPattern, GuardHolds
    <3>5. Hits # {} /\ Hits \subseteq {1, 2, 3, 4, 5}
      BY <3>1, <3>4 DEF Elements
    <3>6. \A i \in Hits : chain[p][i].severity # Unrated
      BY <3>1, <3>3 DEF Elements
    <3>7. FirstOf(chain[p], Hits) # Unrated
      <4> HIDE DEF Hits
      <4>1. \E i \in Hits : FirstOf(chain[p], Hits) = chain[p][i].severity
        BY <3>5, SomeHit, Zenon
      <4> QED  BY <3>6, <4>1
    <3> QED  BY <3>7 DEF GuardRating
  <2> QED  BY <2>1, <2>2 DEF MatchedFindingsAreRated
<1> QED  BY <1>1, AlwaysChainInv, PTL

-----------------------------------------------------------------------------
(***************************************************************************)
(* Patterns.                                                               *)
(***************************************************************************)

\* The pattern of a trigger lets a finding through that one of its levels holds for.
LEMMA HubPatternIs ==
    ASSUME NEW L \in SUBSET Elements(HubLevels), NEW f \in [label : STRING, normalized : Int]
    PROVE  HubPattern(L, f) <=> \E l \in L : HubHolds(l, f)
<1>1. \A l \in Elements(HubLevels) : l.lower \in Nat /\ l.upper \in Nat
  BY DEF Elements, HubLevels
<1>2. \A l \in L : f.normalized \in l.lower .. l.upper <=>
                     f.normalized # Absent /\ l.lower <= f.normalized /\ f.normalized <= l.upper
  BY <1>1 DEF Absent
<1> QED  BY <1>2 DEF HubPattern, HubHolds

LEMMA GuardPatternIs ==
    ASSUME NEW L \in SUBSET Elements(GuardLevels), NEW f
    PROVE  GuardPattern(L, f) <=> \E l \in L : GuardHolds(l, f)
<1>1. \A l \in Elements(GuardLevels) : l.lower # 0 /\ l.upper # 0
  BY GuardElements DEF GuardLevels, Absent
<1> QED  BY <1>1 DEF GuardPattern, GuardHolds

\* A severity names one level.
LEMMA HubSeverities ==
    ASSUME NEW L \in SUBSET Elements(HubLevels)
    PROVE  /\ Unrated \notin Severities(L)
           /\ \A l \in Elements(HubLevels) : l.severity \in Severities(L) <=> l \in L
<1>1. Elements(HubLevels) = {HubLevels[1], HubLevels[2], HubLevels[3], HubLevels[4], HubLevels[5]}
  <2>1. DOMAIN HubLevels = {1, 2, 3, 4, 5}  BY DEF HubLevels
  <2> QED  BY <2>1 DEF Elements
<1>2. \A l \in Elements(HubLevels) : l.severity # Unrated
  BY <1>1 DEF HubLevels, Unrated
<1>3. \A l, m \in Elements(HubLevels) : l.severity = m.severity => l = m
  BY <1>1 DEF HubLevels
<1> QED  BY <1>2, <1>3 DEF Severities

LEMMA GuardSeverities ==
    ASSUME NEW L \in SUBSET Elements(GuardLevels)
    PROVE  /\ Unrated \notin Severities(L)
           /\ \A l \in Elements(GuardLevels) : l.severity \in Severities(L) <=> l \in L
<1>1. \A l \in Elements(GuardLevels) : l.severity # Unrated
  BY GuardElements DEF GuardLevels, Unrated
<1>2. \A l, m \in Elements(GuardLevels) : l.severity = m.severity => l = m
  BY GuardElements DEF GuardLevels
<1> QED  BY <1>1, <1>2 DEF Severities

\* TriggersMatchRatings for every finding and every choice of levels: the pattern, which
\* EventBridge evaluates, and the chain, which Step Functions evaluates, draw the same
\* bounds although each is written on its own.
THEOREM PatternsMatchChains == Spec => []TriggersMatchRatings
<1>1. ASSUME ChainInv PROVE TriggersMatchRatings
  <2>1. ASSUME NEW p \in Of("SecurityHubFinding"), NEW f \in HubFindings, NEW L \in triggers[p],
               Consistent(f)
        PROVE  HubPattern(L, f) <=> HubRating(chain[p], f) \in Severities(L)
    <3>1. f \in [label : STRING, normalized : Int]
      BY FindingsAssumption DEF HubFindings
    <3>2. chain[p] \in Orders(HubLevels) /\ L \in SUBSET Elements(HubLevels)
      BY <1>1 DEF ChainInv, Of, LevelsOf
    <3>3. CASE \E l \in Elements(HubLevels) : HubHolds(l, f)
      <4>1. PICK l \in Elements(HubLevels) : HubHolds(l, f)
        BY <3>3
      <4>2. HubPattern(L, f) <=> l \in L
        BY <2>1, <3>1, <3>2, <4>1, HubPatternIs, OneHubLevel
      <4>3. HubRating(chain[p], f) = l.severity
        BY <2>1, <3>1, <3>2, <4>1, HubRatingIs
      <4> QED  BY <3>2, <4>2, <4>3, HubSeverities
    <3>4. CASE \A l \in Elements(HubLevels) : ~HubHolds(l, f)
      BY <3>1, <3>2, <3>4, HubPatternIs, HubUnrated, HubSeverities
    <3> QED  BY <3>3, <3>4
  <2>2. ASSUME NEW p \in Of("GuardDutyFinding"), NEW f \in Tenths, NEW L \in triggers[p]
        PROVE  GuardPattern(L, f) <=> GuardRating(chain[p], f) \in Severities(L)
    <3>1. f \in Nat
      BY FindingsAssumption
    <3>2. chain[p] \in Orders(GuardLevels) /\ L \in SUBSET Elements(GuardLevels)
      BY <1>1 DEF ChainInv, Of, LevelsOf
    <3>3. CASE \E l \in Elements(GuardLevels) : GuardHolds(l, f)
      <4>1. PICK l \in Elements(GuardLevels) : GuardHolds(l, f)
        BY <3>3
      <4>2. GuardPattern(L, f) <=> l \in L
        BY <3>1, <3>2, <4>1, GuardPatternIs, OneGuardLevel
      <4>3. GuardRating(chain[p], f) = l.severity
        BY <3>1, <3>2, <4>1, GuardRatingIs
      <4> QED  BY <3>2, <4>2, <4>3, GuardSeverities
    <3>4. CASE \A l \in Elements(GuardLevels) : ~GuardHolds(l, f)
      BY <3>2, <3>4, GuardPatternIs, GuardUnrated, GuardSeverities
    <3> QED  BY <3>3, <3>4
  <2> QED  BY <2>1, <2>2 DEF TriggersMatchRatings
<1> QED  BY <1>1, AlwaysChainInv, PTL

-----------------------------------------------------------------------------
(***************************************************************************)
(* ECR image scans.                                                        *)
(***************************************************************************)

LEMMA EcrDomain == DOMAIN EcrLevels = {1, 2, 3, 4, 5}
BY DEF EcrLevels

\* The levels of a threshold are those from some place on.
LEMMA EcrThresholdIs ==
    ASSUME NEW k \in {1, 2, 3, 4, 5}
    PROVE  EcrThreshold(EcrLevels, EcrLevels[k]) = {EcrLevels[j] : j \in {i \in {1, 2, 3, 4, 5} : k <= i}}
<1>1. \A i, j \in {1, 2, 3, 4, 5} : EcrLevels[i].priority <= EcrLevels[j].priority <=> i <= j
  BY DEF EcrLevels
<1>2. Elements(EcrLevels) = {EcrLevels[i] : i \in {1, 2, 3, 4, 5}}
  BY EcrDomain DEF Elements
<1>3. \A i \in {1, 2, 3, 4, 5} : EcrLevels[i].priority \in Nat
  BY DEF EcrLevels
<1> QED  BY <1>1, <1>2, <1>3 DEF EcrThreshold

\* Where some level of a chain holds, the last that does gives the severity.
LEMMA LastHit ==
    ASSUME NEW levels, NEW hits, hits \subseteq {1, 2, 3, 4, 5}, hits # {}
    PROVE  \E i \in hits : (\A j \in hits : j <= i) /\ LastOf(levels, hits) = levels[i].severity
<1>1. \E i \in hits : \A j \in hits : j <= i
  <2>1. CASE 5 \in hits  BY <2>1
  <2>2. CASE 5 \notin hits /\ 4 \in hits  BY <2>2
  <2>3. CASE 5 \notin hits /\ 4 \notin hits /\ 3 \in hits  BY <2>3
  <2>4. CASE 5 \notin hits /\ 4 \notin hits /\ 3 \notin hits /\ 2 \in hits  BY <2>4
  <2>5. CASE 5 \notin hits /\ 4 \notin hits /\ 3 \notin hits /\ 2 \notin hits
    <3>1. \A i \in hits : i = 1  BY <2>5
    <3>2. 1 \in hits  BY <3>1
    <3> QED  BY <3>1, <3>2
  <2> QED  BY <2>1, <2>2, <2>3, <2>4, <2>5
<1> QED  BY <1>1 DEF LastOf

\* EcrAlertsReachThreshold for every scan: the pattern only asks which severities are
\* listed, the chain counts and keeps the highest.
THEOREM EcrThresholdsReached == Spec => []EcrAlertsReachThreshold
<1>1. ASSUME ChainInv PROVE EcrAlertsReachThreshold
  <2> SUFFICES ASSUME NEW p \in Of("EcrScanFinding"), NEW scan \in Scans,
                      NEW k \in {1, 2, 3, 4, 5},
                      \A l \in EcrThreshold(EcrLevels, EcrLevels[k]) :
                         scan.listed[l.name] # Absent <=> scan.described[l.name] > 0
               PROVE  EcrPattern(EcrThreshold(EcrLevels, EcrLevels[k]), scan.listed) <=>
                        EcrRating(chain[p], scan.described)
                           \in Severities(EcrThreshold(EcrLevels, EcrLevels[k]))
    BY EcrDomain DEF EcrAlertsReachThreshold, Elements
  <2> DEFINE L == EcrThreshold(EcrLevels, EcrLevels[k])
             f == scan.described
             Hits == {i \in {1, 2, 3, 4, 5} : f[EcrLevels[i].name] > 0}
  <2>1. EcrRating(chain[p], f) = LastOf(EcrLevels, Hits)
    BY <1>1, EcrDomain DEF EcrRating, ChainInv, Of
  <2>2. L = {EcrLevels[j] : j \in {i \in {1, 2, 3, 4, 5} : k <= i}}
    BY EcrThresholdIs
  <2>3. \A i \in {1, 2, 3, 4, 5} : k <= i => (scan.listed[EcrLevels[i].name] # Absent <=> i \in Hits)
    BY <2>2
  <2> HIDE DEF L, f, Hits
  <2>4. EcrPattern(L, scan.listed) <=> \E i \in Hits : k <= i
    <3>1. EcrLevels[k] \in L
      BY <2>2
    <3>2. Hits \subseteq {1, 2, 3, 4, 5}
      BY DEF Hits
    <3> QED  BY <2>2, <2>3, <3>1, <3>2 DEF EcrPattern
  <2>5. \A i, j \in {1, 2, 3, 4, 5} : EcrLevels[i].severity = EcrLevels[j].severity => i = j
    BY DEF EcrLevels
  <2>6. \A i \in {1, 2, 3, 4, 5} : EcrLevels[i].severity # Unrated
    BY DEF EcrLevels, Unrated
  <2>7. \A i \in {1, 2, 3, 4, 5} : EcrLevels[i].severity \in Severities(L) <=> k <= i
    BY <2>2, <2>5 DEF Severities
  <2>8. Unrated \notin Severities(L)
    BY <2>2, <2>6 DEF Severities
  <2>9. EcrPattern(L, scan.listed) <=> EcrRating(chain[p], f) \in Severities(L)
    <3>1. CASE Hits = {}
      <4>1. EcrRating(chain[p], f) = Unrated
        BY <2>1, <3>1 DEF LastOf
      <4> QED  BY <2>4, <2>8, <3>1, <4>1
    <3>2. CASE Hits # {}
      <4>1. Hits \subseteq {1, 2, 3, 4, 5}
        BY DEF Hits
      <4>2. PICK i \in Hits : (\A j \in Hits : j <= i) /\ LastOf(EcrLevels, Hits) = EcrLevels[i].severity
        BY <3>2, <4>1, LastHit
      <4>3. (\E j \in Hits : k <= j) <=> k <= i
        BY <4>1, <4>2
      <4> QED  BY <2>1, <2>4, <2>7, <4>1, <4>2, <4>3
    <3> QED  BY <3>1, <3>2
  <2> QED  BY <2>9 DEF L, f
<1> QED  BY <1>1, AlwaysChainInv, PTL
=============================================================================
