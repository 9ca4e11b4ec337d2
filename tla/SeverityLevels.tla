--------------------------- MODULE SeverityLevels ---------------------------
(***************************************************************************)
(* The severity levels of the issue parsers (src/alerting/issue-parsers)   *)
(* and the two places where each parser uses them: the event pattern of a  *)
(* trigger, evaluated by EventBridge, decides which findings start an      *)
(* execution; the Choice chain of the parser's state machine, evaluated by *)
(* Step Functions, gives the finding its standardized severity.  The two   *)
(* are written independently of each other.                                *)
(***************************************************************************)
EXTENDS Integers, Sequences

Absent == -1          \* a field an event does not have, or a bound not given
Unrated == "NONE"     \* no severity resolved

Elements(s) == {s[i] : i \in DOMAIN s}

\* The severity of the first (last) level of a chain that holds.
FirstOf(chain, hits) ==
    IF hits = {} THEN Unrated
    ELSE chain[CHOOSE i \in hits : \A j \in hits : i <= j].severity

LastOf(chain, hits) ==
    IF hits = {} THEN Unrated
    ELSE chain[CHOOSE i \in hits : \A j \in hits : j <= i].severity

-----------------------------------------------------------------------------
(***************************************************************************)
(* Security Hub: a finding has a label, a normalized score or both.        *)
(***************************************************************************)

HubLevels == <<
    [name |-> "INFORMATIONAL", lower |-> 0,  upper |-> 0,   severity |-> "INFO"],
    [name |-> "LOW",           lower |-> 1,  upper |-> 39,  severity |-> "LOW"],
    [name |-> "MEDIUM",        lower |-> 40, upper |-> 69,  severity |-> "MEDIUM"],
    [name |-> "HIGH",          lower |-> 70, upper |-> 89,  severity |-> "HIGH"],
    [name |-> "CRITICAL",      lower |-> 90, upper |-> 100, severity |-> "CRITICAL"] >>

\* Faulty variants: bounds that include the next level's first score, and a
\* condition that only looks at labels.
HubHoldsOverlapping(l, f) ==
    \/ f.label = l.name
    \/ f.normalized # Absent /\ l.lower <= f.normalized /\ f.normalized <= l.upper + 1
HubHoldsLabelled(l, f) == f.label = l.name

\* The condition of one level in the parser's Choice.
HubHolds(l, f) ==
    \/ f.label = l.name
    \/ f.normalized # Absent /\ l.lower <= f.normalized /\ f.normalized <= l.upper

HubRating(chain, f) == FirstOf(chain, {i \in DOMAIN chain : HubHolds(chain[i], f)})

HubThreshold(order, level) == {l \in Elements(order) : l.lower >= level.lower}

\* The severity part of a trigger's pattern.
HubPattern(levels, f) ==
    LET labels == {l.name : l \in levels}
        ranges == {l.lower .. l.upper : l \in levels}
    IN  f.label \in labels \/ \E range \in ranges : f.normalized \in range

-----------------------------------------------------------------------------
(***************************************************************************)
(* GuardDuty: a severity from 0 to 10 with one decimal, here in tenths.    *)
(***************************************************************************)

GuardLevels == <<
    [lower |-> Absent, upper |-> 10,     severity |-> "INFO"],
    [lower |-> 10,     upper |-> 40,     severity |-> "LOW"],
    [lower |-> 40,     upper |-> 70,     severity |-> "MEDIUM"],
    [lower |-> 70,     upper |-> 80,     severity |-> "HIGH"],
    [lower |-> 80,     upper |-> Absent, severity |-> "CRITICAL"] >>

\* Faulty variant: upper bounds are taken to belong to their level.
GuardHoldsClosed(l, f) == /\ l.lower # Absent => f >= l.lower
                          /\ l.upper # Absent => f <= l.upper

GuardHolds(l, f) == /\ l.lower # Absent => f >= l.lower
                    /\ l.upper # Absent => f < l.upper

GuardRating(chain, f) ==
    FirstOf(chain, {i \in DOMAIN chain : GuardHolds(chain[i], f)})

GuardThreshold(order, level) ==
    {l \in Elements(order) :
        \/ level.lower = Absent
        \/ l.lower # Absent /\ l.lower >= level.lower}

\* A bound that is missing, or zero, is left out of the pattern.
GuardPattern(levels, f) ==
    \E l \in levels : /\ l.lower \notin {Absent, 0} => f >= l.lower
                      /\ l.upper \notin {Absent, 0} => f < l.upper

-----------------------------------------------------------------------------
(***************************************************************************)
(* ECR image scans: a number of findings for each severity.                *)
(***************************************************************************)

EcrLevels == <<
    [name |-> "UNDEFINED", priority |-> 10, severity |-> "INFO"],
    [name |-> "LOW",       priority |-> 20, severity |-> "LOW"],
    [name |-> "MEDIUM",    priority |-> 30, severity |-> "MEDIUM"],
    [name |-> "HIGH",      priority |-> 40, severity |-> "HIGH"],
    [name |-> "CRITICAL",  priority |-> 50, severity |-> "CRITICAL"] >>

\* Faulty variant: the chain stops at the first severity found.
EcrRatingFirst(chain, counts) ==
    FirstOf(chain, {i \in DOMAIN chain : counts[chain[i].name] > 0})

\* The chain visits the levels in order; each one found replaces the maximum.
EcrRating(chain, counts) ==
    LastOf(chain, {i \in DOMAIN chain : counts[chain[i].name] > 0})

EcrThreshold(order, level) == {l \in Elements(order) : l.priority >= level.priority}

\* The pattern asks whether a severity is counted, not for how many; without
\* levels it matches every scan.
EcrPattern(levels, counts) ==
    levels = {} \/ \E l \in levels : counts[l.name] # Absent

=============================================================================
