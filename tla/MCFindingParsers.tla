-------------------------- MODULE MCFindingParsers --------------------------
(***************************************************************************)
(* What the parsers make of a finding.  A behaviour is either about the    *)
(* severities of parsers that a program constructs, two of any class with  *)
(* every set of levels, or about one execution of one parser.              *)
(***************************************************************************)
EXTENDS SeverityRatings, Descriptions

MCLabels == {l.name : l \in Elements(HubLevels)} \cup {"absent"}
MCScores == {Absent, 0, 1, 39, 40, 69, 70, 89, 90, 100}
MCTenths == {0, 9, 10, 39, 40, 69, 70, 79, 80, 100}

\* A severity is neither listed nor described, is listed and described, listed
\* zero times, or described without being listed.
MCScans ==
    LET counts == {<<Absent, Absent>>, <<1, 2>>, <<0, 0>>, <<Absent, 1>>}
        names == {l.name : l \in Elements(EcrLevels)}
    IN  {[listed |-> [n \in names |-> scan[n][1]], described |-> [n \in names |-> scan[n][2]]] :
            scan \in [names -> counts]}

Event(p, fields, items) == [parser |-> p, present |-> fields, items |-> items]

\* Each of the optional fields that sections and references ask for.
OptionalOf(body) == UNION {body[k].reads : k \in DOMAIN body}

\* Elements that tell nothing, one field or all of them, none to three of them.
ResourceFields == OptionalOf(InspectorSections[3].body)
Resources == UNION {[1 .. n -> {{}, {"$.Item.id"}, ResourceFields}] : n \in 0 .. 3}

InspectorEvents ==
    LET always == Guaranteed("InspectorFinding")
        fields == {"$.Detail.description"} \cup UNION {OptionalOf(InspectorSections[k].body) : k \in {1, 2}}
    IN  {Event("InspectorFinding", always \cup present, <<>>) : present \in SUBSET fields}
        \cup {Event("InspectorFinding", always \cup present, items) :
                present \in {{}, fields}, items \in Resources}
        \cup {Event("InspectorFinding", always \ {"$.Detail.resources"}, <<>>)}

ConfigEvents ==
    {Event("ConfigComplianceChange", Guaranteed("ConfigComplianceChange") \cup present, <<>>) :
        present \in SUBSET UNION {OptionalOf(ConfigSections[k].body) : k \in DOMAIN ConfigSections}}

DomainEvents == {Event("OpenSearchEvent", {"$.Detail.event", "$.Detail.status"}, <<>>)}

\* The details of one resource, with any of their fields, or of two.
GuardDutyEvents ==
    LET always == Guaranteed("GuardDutyFinding")
        given(k, fields) == GuardDutySections[k].checks \cup fields
        all(k) == given(k, OptionalOf(GuardDutySections[k].body))
        ks == DOMAIN GuardDutySections
    IN  {Event("GuardDutyFinding", always, <<>>)}
        \cup {Event("GuardDutyFinding", always \cup all(j) \cup all(k), <<>>) : j, k \in ks}
        \cup UNION {{Event("GuardDutyFinding", always \cup given(k, fields), <<>>) :
                        fields \in SUBSET OptionalOf(GuardDutySections[k].body)} : k \in ks}

SecurityHubEvents ==
    {Event("SecurityHubFinding", Guaranteed("SecurityHubFinding") \cup present,
           IF "$.Finding.Resources" \in present THEN items ELSE <<>>) :
        present \in SUBSET ({"$.Finding.Resources"} \cup RemediationSection.checks),
        items \in {[k \in 1 .. n |-> {"Id"}] : n \in 0 .. 3}}

EcrEvents ==
    {Event("EcrScanFinding", Guaranteed("EcrScanFinding") \cup {"$.Image.Details.ImageTags"},
           [k \in 1 .. n |-> {}]) : n \in 0 .. 3}
    \cup {Event("EcrScanFinding", Guaranteed("EcrScanFinding"), <<>>)}

MCEvents == InspectorEvents \cup ConfigEvents \cup DomainEvents \cup GuardDutyEvents
            \cup SecurityHubEvents \cup EcrEvents

\* Constructing parsers and executing one have no state in common: no parser is
\* executed in a behaviour that constructs some, and the other way round.
BothInit == Init /\ DescriptionInit

BothNext ==
    \/ Next /\ status = "idle" /\ UNCHANGED describing
    \/ DescriptionNext /\ kind = [p \in Parsers |-> "none"] /\ ~synthesized /\ UNCHANGED vars

BothSpec == BothInit /\ [][BothNext]_<<vars, describing>>
=============================================================================
