--------------------------- MODULE MCIssueManager ---------------------------
(***************************************************************************)
(* A Security Hub finding that two triggers match, one of them with two    *)
(* overrides for the Jira handler, and an ECR scan with or without         *)
(* findings; for the runs of single parsers, a GuardDuty finding and an    *)
(* OpenSearch event.                                                       *)
(***************************************************************************)
EXTENDS IssueManager

MCKind == [hub |-> "SecurityHubFinding", scan |-> "EcrScanFinding",
           clean |-> "EcrScanFinding", guard |-> "GuardDutyFinding",
           search |-> "OpenSearchEvent", rule |-> "ConfigComplianceChange"]
NoCounts == [UNDEFINED |-> Absent, LOW |-> Absent, MEDIUM |-> Absent,
             HIGH |-> Absent, CRITICAL |-> Absent]
MCContent == [hub |-> [label |-> "absent", normalized |-> 95],
              scan |-> [NoCounts EXCEPT !.HIGH = 1],
              clean |-> [NoCounts EXCEPT !.HIGH = 0],
              guard |-> 80, search |-> Absent, rule |-> Absent]

MCParserOf == [urgent |-> "SecurityHubFinding", all |-> "SecurityHubFinding",
               scans |-> "EcrScanFinding", threats |-> "GuardDutyFinding",
               domains |-> "OpenSearchEvent", rules |-> "ConfigComplianceChange"]
MCLevels == [urgent |-> {HubLevels[5]}, all |-> Elements(HubLevels),
             scans |-> {EcrLevels[4], EcrLevels[5]}, threats |-> {GuardLevels[5]},
             domains |-> {}, rules |-> {}]
MCOverrides == [urgent |-> << <<"jira", [Project |-> "DROPPED"]>>,
                              <<"jira", [Project |-> "SEC", Priority |-> "Highest"]>>,
                              <<"discord", [Mentions |-> {"oncall"}]>> >>,
                all |-> <<>>, scans |-> <<>>, threats |-> <<>>,
                domains |-> <<>>, rules |-> <<>>]

MCClass == [jira |-> "Jira", discord |-> "Discord"]
MCConfigured == [jira |-> [Project |-> "OPS"],
                 discord |-> [Channel |-> "alerts", Mentions |-> {"team"}]]
MCPriorityMap == [CRITICAL |-> "High", default |-> "Low"]
MCHubChain == <<HubLevels[5], HubLevels[4], HubLevels[3], HubLevels[2], HubLevels[1]>>

HubAndScan == {"hub", "scan"}
HubScanTriggers == {"urgent", "scans"}
FaultIssues == {"hub", "clean", "guard", "search"}
FaultTriggers == {"urgent", "scans", "threats", "domains"}
=============================================================================
