-------------------------- MODULE SeverityRatings --------------------------
(***************************************************************************)
(* The construction of issue parsers and their triggers in a CDK program,  *)
(* and how the deployed result rates findings.  The levels of a class are  *)
(* kept in a static array, and the constructors of SecurityHubFinding and  *)
(* GuardDutyFinding reverse that array IN PLACE before they walk it, so    *)
(* the order of a parser's Choice depends on how many parsers of its class *)
(* were constructed before it.                                             *)
(***************************************************************************)
EXTENDS SeverityLevels, FiniteSets, SequencesExt

CONSTANTS
    Parsers,  \* the parsers a program may construct
    Labels,   \* the labels of Security Hub findings, "absent" included
    Scores,   \* the normalized scores of Security Hub findings
    Tenths,   \* the severities of GuardDuty findings, in tenths
    Scans     \* the ECR scans

\* How many findings of each severity, if it is counted at all.
EcrCounts == [{l.name : l \in Elements(EcrLevels)} -> Nat \cup {Absent}]

\* A scan has the counts of its event, and those describeImages returns when
\* the parser asks for the image afterwards.
ASSUME FindingsAssumption ==
    /\ Labels \subseteq STRING
    /\ Scores \subseteq Int
    /\ Tenths \subseteq Nat
    /\ Scans \subseteq [listed : EcrCounts, described : EcrCounts]

VARIABLES
    hubOrder,    \* SecurityHubFinding.SEVERITIES
    guardOrder,  \* GuardDutyFinding.SEVERITIES
    kind,        \* the class of each parser, "none" before it is constructed
    chain,       \* the levels in the order of the parser's Choice
    triggers,    \* the triggers of a parser, each one the set of its levels
    synthesized

vars == <<hubOrder, guardOrder, kind, chain, triggers, synthesized>>

Kinds == {"SecurityHubFinding", "GuardDutyFinding", "EcrScanFinding"}

LevelsOf(k) == CASE k = "SecurityHubFinding" -> Elements(HubLevels)
                 [] k = "GuardDutyFinding" -> Elements(GuardLevels)
                 [] k = "EcrScanFinding" -> Elements(EcrLevels)
                 [] OTHER -> {}

TypeOK ==
    /\ hubOrder \in {HubLevels, Reverse(HubLevels)}
    /\ guardOrder \in {GuardLevels, Reverse(GuardLevels)}
    /\ kind \in [Parsers -> Kinds \cup {"none"}]
    /\ \A p \in Parsers :
        /\ Elements(chain[p]) = LevelsOf(kind[p])
        /\ triggers[p] \subseteq SUBSET LevelsOf(kind[p])
    /\ synthesized \in BOOLEAN

-----------------------------------------------------------------------------
\* A parser walks the levels in the order the array has at that moment.
Construct(p, k, order) ==
    /\ ~synthesized
    /\ kind[p] = "none"
    /\ kind' = [kind EXCEPT ![p] = k]
    /\ chain' = [chain EXCEPT ![p] = order]
    /\ UNCHANGED <<triggers, synthesized>>

NewSecurityHubFinding(p) ==
    /\ hubOrder' = Reverse(hubOrder)
    /\ Construct(p, "SecurityHubFinding", hubOrder')
    /\ UNCHANGED guardOrder

NewGuardDutyFinding(p) ==
    /\ guardOrder' = Reverse(guardOrder)
    /\ Construct(p, "GuardDutyFinding", guardOrder')
    /\ UNCHANGED hubOrder

NewEcrScanFinding(p) ==
    /\ Construct(p, "EcrScanFinding", EcrLevels)
    /\ UNCHANGED <<hubOrder, guardOrder>>

\* The levels threshold() selects from the class's array.
Thresholds(k) ==
    CASE k = "SecurityHubFinding" ->
            {HubThreshold(hubOrder, l) : l \in LevelsOf(k)}
      [] k = "GuardDutyFinding" ->
            {GuardThreshold(guardOrder, l) : l \in LevelsOf(k)}
      [] k = "EcrScanFinding" ->
            {EcrThreshold(EcrLevels, l) : l \in LevelsOf(k)}

\* The levels custom() may be given: an empty list of values is no valid event
\* pattern, but the ECR trigger leaves its pattern out instead.
CustomLevels(k) ==
    {L \in SUBSET LevelsOf(k) : L # {} \/ k = "EcrScanFinding"}

\* One trigger for each parser is enough: triggers do not affect each other.
RegisterTrigger(p) ==
    /\ ~synthesized
    /\ kind[p] # "none"
    /\ triggers[p] = {}
    /\ \E L \in Thresholds(kind[p]) \cup CustomLevels(kind[p]) :
          triggers' = [triggers EXCEPT ![p] = {L}]
    /\ UNCHANGED <<hubOrder, guardOrder, kind, chain, synthesized>>

DefaultTrigger(k) ==
    CASE k = "SecurityHubFinding" -> HubThreshold(hubOrder, HubLevels[4])
      [] k = "GuardDutyFinding" -> GuardThreshold(guardOrder, GuardLevels[5])
      [] k = "EcrScanFinding" -> EcrThreshold(EcrLevels, EcrLevels[4])

\* bind gives a parser without triggers the default one.
Synthesize ==
    /\ ~synthesized
    /\ synthesized' = TRUE
    /\ triggers' = [p \in Parsers |-> IF kind[p] # "none" /\ triggers[p] = {}
                                      THEN {DefaultTrigger(kind[p])}
                                      ELSE triggers[p]]
    /\ UNCHANGED <<hubOrder, guardOrder, kind, chain>>

Init ==
    /\ hubOrder = HubLevels
    /\ guardOrder = GuardLevels
    /\ kind = [p \in Parsers |-> "none"]
    /\ chain = [p \in Parsers |-> <<>>]
    /\ triggers = [p \in Parsers |-> {}]
    /\ synthesized = FALSE

Next ==
    \/ \E p \in Parsers : \/ NewSecurityHubFinding(p)
                          \/ NewGuardDutyFinding(p)
                          \/ NewEcrScanFinding(p)
                          \/ RegisterTrigger(p)
    \/ Synthesize

Spec == Init /\ [][Next]_vars

-----------------------------------------------------------------------------
(***************************************************************************)
(* Findings and properties.                                                *)
(***************************************************************************)

HubFindings == [label : Labels, normalized : Scores]

\* Security Hub derives the label or the score from the other if only one is
\* given; a provider may also give both.
Consistent(f) ==
    \/ f.label = "absent"
    \/ f.normalized = Absent
    \/ \E l \in Elements(HubLevels) :
          f.label = l.name /\ f.normalized \in l.lower .. l.upper

\* The level a finding's label names, and the one its score belongs to.
Named(f) == {l \in Elements(HubLevels) : l.name = f.label}
Scored(f) == {l \in Elements(HubLevels) : f.normalized \in l.lower .. l.upper}

Severities(L) == {l.severity : l \in L}

Of(k) == {p \in Parsers : kind[p] = k}

\* Reversing the array for one parser after another changes no rating, unless a
\* Security Hub finding's label and score contradict each other: then parsers
\* may differ, and only between the label's severity and the score's.
InstancesAgree ==
    /\ \A p, q \in Of("SecurityHubFinding") : \A f \in HubFindings :
          \/ HubRating(chain[p], f) = HubRating(chain[q], f)
          \/ /\ ~Consistent(f)
             /\ {HubRating(chain[p], f), HubRating(chain[q], f)} =
                    Severities(Named(f) \cup Scored(f))
    /\ \A p, q \in Of("GuardDutyFinding") : \A f \in Tenths :
          GuardRating(chain[p], f) = GuardRating(chain[q], f)

\* Every finding a trigger lets through is given a severity by the state
\* machine it starts: otherwise format-output fails, for Security Hub after the
\* finding has been marked as notified.  Contradicting labels are included.
MatchedFindingsAreRated ==
    /\ \A p \in Of("SecurityHubFinding"), f \in HubFindings :
          (\E L \in triggers[p] : HubPattern(L, f)) => HubRating(chain[p], f) # Unrated
    /\ \A p \in Of("GuardDutyFinding"), f \in Tenths :
          (\E L \in triggers[p] : GuardPattern(L, f)) => GuardRating(chain[p], f) # Unrated

\* The pattern of a trigger and the Choice of its parser agree on the levels:
\* a finding is let through exactly if it is given the severity of one of the
\* trigger's levels.
TriggersMatchRatings ==
    /\ \A p \in Of("SecurityHubFinding"), f \in HubFindings : \A L \in triggers[p] :
          Consistent(f) =>
            (HubPattern(L, f) <=> HubRating(chain[p], f) \in Severities(L))
    /\ \A p \in Of("GuardDutyFinding"), f \in Tenths : \A L \in triggers[p] :
          GuardPattern(L, f) <=> GuardRating(chain[p], f) \in Severities(L)

\* An ECR scan is let through by a threshold exactly if its parser gives it a
\* severity at or above the threshold.  The two part only over a severity of
\* the threshold that the event lists although the image is described with none
\* of it, as one listed zero times, or the other way round.
EcrAlertsReachThreshold ==
    \A p \in Of("EcrScanFinding"), scan \in Scans :
    \A L \in triggers[p] \cap {EcrThreshold(EcrLevels, l) : l \in Elements(EcrLevels)} :
        \/ EcrPattern(L, scan.listed) <=> EcrRating(chain[p], scan.described) \in Severities(L)
        \/ \E l \in L : ~(scan.listed[l.name] # Absent <=> scan.described[l.name] > 0)

=============================================================================
