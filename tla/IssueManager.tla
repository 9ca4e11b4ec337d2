---------------------------- MODULE IssueManager ----------------------------
(***************************************************************************)
(* The deployed issue manager (src/alerting): EventBridge rules, one for   *)
(* each trigger, start executions of the manager's state machine.  An      *)
(* execution runs the parser of its event in a child state machine, then,  *)
(* if the parser's output asks for an alert, runs one child for each       *)
(* handler in parallel.  A handler puts an event on a bus, from where a    *)
(* rule with a dead letter queue sends it to Jira or Discord.              *)
(***************************************************************************)
EXTENDS SeverityLevels, FiniteSets

CONSTANTS
    Issues,         \* the findings and events that may occur
    Kind,           \* the type of event each of them is
    Content,        \* what the event says of its severity
    Triggers,       \* the triggers registered with the manager's parsers
    ParserOf,       \* the type of event a trigger is for
    Levels,         \* the severity levels of a trigger
    Overrides,      \* a trigger's overrides in order: <<handler, override>>
    Handlers,       \* the manager's handlers
    Class,          \* "Jira" or "Discord"
    Configured,     \* what a handler was configured with
    PriorityMap,    \* Jira's priority for a severity, and its "default"
    HubChain,       \* the order of SecurityHubFinding's Choice
    MaxExecutions,  \* bound: executions of the manager
    MaxPublished,   \* bound: events published by the sources
    MaxRedelivered, \* bound: events EventBridge delivers once more
    Faults          \* may calls to AWS services fail, and executions time out?

Executions == 1 .. MaxExecutions

ASSUME ManagerAssumption ==
    /\ \A i \in Issues : Kind[i] \in STRING
    /\ \A t \in Triggers : ParserOf[t] \in STRING
    /\ MaxExecutions \in Nat /\ MaxPublished \in Nat /\ MaxRedelivered \in Nat
    /\ Faults \in BOOLEAN

\* A Jira handler cannot be made without a project; overrides are a list.
ASSUME HandlerAssumption ==
    /\ \A h \in Handlers : Class[h] = "Jira" => "Project" \in DOMAIN Configured[h]
    /\ \A t \in Triggers : Len(Overrides[t]) \in Nat /\ DOMAIN Overrides[t] = 1 .. Len(Overrides[t])

VARIABLES
    workflow,     \* the status Security Hub keeps of a finding
    transit,      \* how many deliveries of an issue a trigger still owes
    published,    \* events published so far
    redelivered,  \* deliveries repeated so far
    issue,        \* the event an execution was started with
    trigger,      \* the trigger that started it, with its overrides
    step,         \* the state an execution of the manager is in
    parser,       \* the state the execution of its parser is in
    described,    \* executions whose parser has built its description
    output,       \* what the parser returned
    branch,       \* the execution of each handler
    posted,       \* the events handlers have put on their bus
    arrived,      \* those that have reached their service
    dead          \* those in a dead letter queue

source == <<workflow, transit, published, redelivered>>
child == <<parser, described, output>>
alerts == <<posted, arrived, dead>>
vars == <<source, issue, trigger, step, child, branch, alerts>>

Nothing == <<>>   \* an empty JSON object
None == "none"    \* the issue and the trigger of an execution not yet started

TypeOK ==
    /\ workflow \in [Issues -> {"NEW", "NOTIFIED"}]
    /\ transit \in [Issues \X Triggers -> Nat]
    /\ published \in Nat /\ redelivered \in Nat
    /\ issue \in [Executions -> Issues \cup {None}]
    /\ trigger \in [Executions -> Triggers \cup {None}]
    /\ step \in [Executions -> {"unused", "received", "parsing", "handling",
                                "succeeded", "silent", "failed"}]
    /\ parser \in [Executions -> {"idle", "describing", "notifying",
                                  "formatting", "done", "failed", "stopped"}]
    /\ described \subseteq Executions
    /\ DOMAIN output = Executions
    /\ branch \in [Executions ->
                    [Handlers -> {"idle", "ready", "running", "done", "failed", "stopped"}]]
    /\ \A m \in posted : m.execution \in Executions /\ m.handler \in Handlers
    /\ arrived \subseteq posted /\ dead \subseteq posted

-----------------------------------------------------------------------------
(***************************************************************************)
(* The data that travels with an execution.                                *)
(***************************************************************************)

\* States.JsonMerge: where both objects have a field, the second one's wins.
JsonMerge(a, b) == [k \in DOMAIN a \cup DOMAIN b |-> IF k \in DOMAIN b THEN b[k] ELSE a[k]]

\* Faulty variant: only the first override of a handler is rendered.
RenderFirst(t) ==
    LET given == Overrides[t]
        first(h) == CHOOSE k \in DOMAIN given :
            given[k][1] = h /\ \A j \in 1 .. k - 1 : given[j][1] # h
    IN  [h \in {given[k][1] : k \in DOMAIN given} |-> given[first(h)][2]]

\* A later override for a handler replaces an earlier one as a whole.
RenderOverrides(t) ==
    LET given == Overrides[t]
        last(h) == CHOOSE k \in DOMAIN given :
            given[k][1] = h /\ \A j \in k + 1 .. Len(given) : given[j][1] # h
    IN  [h \in {given[k][1] : k \in DOMAIN given} |-> given[last(h)][2]]

Severity(i) ==
    CASE Kind[i] = "SecurityHubFinding" -> HubRating(HubChain, Content[i])
      [] Kind[i] = "GuardDutyFinding" -> GuardRating(GuardLevels, Content[i])
      [] Kind[i] = "EcrScanFinding" -> EcrRating(EcrLevels, Content[i])
      [] OTHER -> Unrated

\* Faulty variant: an output without Alert.
HubOutputSilent(i) == [Summary |-> i, Severity |-> Severity(i)]

\* The outputs of the parsers' last states.  GuardDuty's has no Alert; an ECR
\* scan without findings asks for none; Config's has no severity.
HubOutput(i) == [Alert |-> TRUE, Summary |-> i, Severity |-> Severity(i)]
GuardOutput(i) == [Summary |-> i, Severity |-> Severity(i)]
EcrOutput(i) == IF Severity(i) = Unrated THEN [Alert |-> FALSE]
                ELSE [Alert |-> TRUE, Summary |-> i, Severity |-> Severity(i)]
ConfigOutput(i) == [Alert |-> TRUE, Summary |-> i]

OutputOf(i) == CASE Kind[i] = "SecurityHubFinding" -> HubOutput(i)
                 [] Kind[i] = "GuardDutyFinding" -> GuardOutput(i)
                 [] Kind[i] = "EcrScanFinding" -> EcrOutput(i)
                 [] OTHER -> ConfigOutput(i)

\* These states follow references the parser's data may not have: $.Resolved of
\* a finding no level holds for, $.Severity.Standardized after set-unknown, and
\* $.Domain.name of an OpenSearch event, whose field is $.Domain.Name.
MissingReference(i) ==
    \/ Kind[i] \in {"SecurityHubFinding", "GuardDutyFinding"} /\ Severity(i) = Unrated
    \/ Kind[i] = "OpenSearchEvent"

\* Faulty variant: whatever has been parsed is an alert.
AnyOutputAsks(o) == o # Nothing

\* Faulty variant: only what is critical is an alert.
AsksIfCritical(o) == "Severity" \in DOMAIN o /\ o.Severity = "CRITICAL"

AsksForAlert(o) == "Alert" \in DOMAIN o /\ o.Alert = TRUE

\* What the manager hands to a handler.
HandlerInput(e, h) ==
    LET given == RenderOverrides(trigger[e])
    IN  JsonMerge(IF h \in DOMAIN given THEN given[h] ELSE Nothing, output[e])

\* JiraTicket's severity map.
Priority(m) ==
    IF "Priority" \in DOMAIN m THEN m.Priority
    ELSE IF "Severity" \in DOMAIN m /\ m.Severity \in DOMAIN PriorityMap \ {"default"}
         THEN PriorityMap[m.Severity]
         ELSE PriorityMap["default"]

\* The fields of a Jira ticket.
JiraFields(m) == [summary |-> m.Summary, project |-> m.Project, priority |-> Priority(m)]

\* A Discord message.  It looks for its mentions under $.Merged, which the
\* merged object, by then the state's whole input, does not have.
DiscordMessage(m) ==
    [content |-> m.Summary, channel |-> m.Channel,
     mentions |-> IF "Merged" \in DOMAIN m THEN m.Merged.Mentions ELSE {}]

\* The values used where an event has none.  Discord's constructor starts with
\* an empty list of mentions and ignores the ones it is given.
Defaults(h) == IF Class[h] = "Jira" THEN Configured[h]
                                    ELSE [Configured[h] EXCEPT !.Mentions = {}]

\* The event a handler puts on its bus: its input wins over its defaults.
MessageFor(h, input) ==
    IF Class[h] = "Jira" THEN JiraFields(JsonMerge(Defaults(h), input))
                         ELSE DiscordMessage(JsonMerge(Defaults(h), input))

-----------------------------------------------------------------------------
(***************************************************************************)
(* Events and the rules that match them.                                   *)
(***************************************************************************)

\* Faulty variant: findings are matched whatever their workflow status is.
MatchesAnyStatus(t, i, status) ==
    ParserOf[t] = Kind[i] /\ (Kind[i] = "SecurityHubFinding" => HubPattern(Levels[t], Content[i]))

\* The event pattern of a trigger.
Matches(t, i, status) ==
    /\ ParserOf[t] = Kind[i]
    /\ Kind[i] = "SecurityHubFinding" => /\ status = "NEW"
                                         /\ HubPattern(Levels[t], Content[i])
    /\ Kind[i] = "GuardDutyFinding" => GuardPattern(Levels[t], Content[i])
    /\ Kind[i] = "EcrScanFinding" => EcrPattern(Levels[t], Content[i])

\* An event of issue i is put on the bus: every matching rule owes a delivery.
Announce(i, status) ==
    transit' = [c \in Issues \X Triggers |->
                  IF c[1] = i /\ Matches(c[2], i, status) THEN transit[c] + 1
                                                          ELSE transit[c]]

\* The source of an issue reports it, for the first time or again.
Publish(i) ==
    /\ published < MaxPublished
    /\ published' = published + 1
    /\ Announce(i, workflow[i])
    /\ UNCHANGED <<workflow, redelivered, issue, trigger, step, child, branch, alerts>>

\* A rule starts an execution.  EventBridge delivers at least once: the
\* delivery may remain owed although an execution has been started for it.
Invoke(e, i, t) ==
    /\ transit[<<i, t>>] > 0
    /\ step[e] = "unused"
    /\ \A d \in 1 .. e - 1 : step[d] # "unused"
    /\ step' = [step EXCEPT ![e] = "received"]
    /\ issue' = [issue EXCEPT ![e] = i]
    /\ trigger' = [trigger EXCEPT ![e] = t]
    /\ \/ /\ transit' = [transit EXCEPT ![<<i, t>>] = @ - 1]
          /\ UNCHANGED redelivered
       \/ /\ redelivered < MaxRedelivered
          /\ redelivered' = redelivered + 1
          /\ UNCHANGED transit
    /\ UNCHANGED <<workflow, published, child, branch, alerts>>

\* EventBridge gives up on a delivery: the rule's target has no queue.
Drop(i, t) ==
    /\ Faults
    /\ transit[<<i, t>>] > 0
    /\ transit' = [transit EXCEPT ![<<i, t>>] = @ - 1]
    /\ UNCHANGED <<workflow, published, redelivered, issue, trigger, step, child, branch, alerts>>

-----------------------------------------------------------------------------
(***************************************************************************)
(* The execution of a parser, a child of the manager's execution e.        *)
(***************************************************************************)

\* determine-issue-type: the rule names the parser's match type, so the type
\* is always known; the parser is started as a child execution.
DetermineIssueType(e) ==
    /\ step[e] = "received"
    /\ step' = [step EXCEPT ![e] = "parsing"]
    /\ parser' = [parser EXCEPT ![e] = "describing"]
    /\ UNCHANGED <<source, issue, trigger, described, output, branch, alerts>>

\* A call to an AWS service, or an intrinsic function, fails.
ParserFails(e) ==
    /\ Faults
    /\ parser[e] \in {"describing", "notifying", "formatting"}
    /\ parser' = [parser EXCEPT ![e] = "failed"]
    /\ UNCHANGED <<source, issue, trigger, step, described, output, branch, alerts>>

\* Faulty variant: a finding is marked before its description is built.
DescribeMarked(e) ==
    /\ parser[e] = "describing"
    /\ IF Kind[issue[e]] = "SecurityHubFinding" /\ workflow[issue[e]] = "NEW"
       THEN /\ workflow' = [workflow EXCEPT ![issue[e]] = "NOTIFIED"]
            /\ UNCHANGED <<parser, described>>
       ELSE /\ described' = described \cup {e}
            /\ parser' = [parser EXCEPT ![e] = "formatting"]
            /\ UNCHANGED workflow
    /\ UNCHANGED <<transit, published, redelivered, issue, trigger, step, output, branch, alerts>>

\* The description is built, from the event and what services know of it, and
\* the severity is mapped.
Describe(e) ==
    /\ parser[e] = "describing"
    /\ described' = described \cup {e}
    /\ parser' = [parser EXCEPT ![e] =
                    IF Kind[issue[e]] = "SecurityHubFinding" THEN "notifying"
                                                             ELSE "formatting"]
    /\ UNCHANGED <<source, issue, trigger, step, output, branch, alerts>>

\* set-finding-notified: the update is itself a change of the finding that
\* Security Hub announces.
Notify(e) ==
    /\ parser[e] = "notifying"
    /\ workflow' = [workflow EXCEPT ![issue[e]] = "NOTIFIED"]
    /\ Announce(issue[e], "NOTIFIED")
    /\ parser' = [parser EXCEPT ![e] = "formatting"]
    /\ UNCHANGED <<published, redelivered, issue, trigger, step, described, output, branch, alerts>>

\* format-output follows references into the parser's data.
FormatOutput(e) ==
    /\ parser[e] = "formatting"
    /\ IF MissingReference(issue[e])
       THEN /\ parser' = [parser EXCEPT ![e] = "failed"]
            /\ UNCHANGED output
       ELSE /\ parser' = [parser EXCEPT ![e] = "done"]
            /\ output' = [output EXCEPT ![e] = OutputOf(issue[e])]
    /\ UNCHANGED <<source, issue, trigger, step, described, branch, alerts>>

-----------------------------------------------------------------------------
(***************************************************************************)
(* The rest of the manager's execution.                                    *)
(***************************************************************************)

\* check-alert: the handlers are started in parallel, or the execution ends.
CheckAlert(e) ==
    /\ step[e] = "parsing"
    /\ parser[e] = "done"
    /\ IF AsksForAlert(output[e])
       THEN /\ step' = [step EXCEPT ![e] = "handling"]
            /\ branch' = [branch EXCEPT ![e] = [h \in Handlers |-> "ready"]]
       ELSE /\ step' = [step EXCEPT ![e] = "silent"]
            /\ UNCHANGED branch
    /\ UNCHANGED <<source, issue, trigger, child, alerts>>

ExecuteHandler(e, h) ==
    /\ step[e] = "handling"
    /\ branch[e][h] = "ready"
    /\ branch' = [branch EXCEPT ![e][h] = "running"]
    /\ UNCHANGED <<source, issue, trigger, step, child, alerts>>

\* The handler builds its request, which needs a summary, and its put-event
\* puts it on the bus.  The child runs on until it is stopped, whatever has
\* become of the manager's execution.
PutEvent(e, h) ==
    LET input == HandlerInput(e, h) IN
    /\ branch[e][h] = "running"
    /\ IF "Summary" \in DOMAIN input
       THEN /\ branch' = [branch EXCEPT ![e][h] = "done"]
            /\ posted' = posted \cup {[execution |-> e, handler |-> h,
                                       message |-> MessageFor(h, input)]}
       ELSE /\ branch' = [branch EXCEPT ![e][h] = "failed"]
            /\ UNCHANGED posted
    /\ UNCHANGED <<source, issue, trigger, step, child, arrived, dead>>

HandlerFails(e, h) ==
    /\ Faults
    /\ branch[e][h] = "running"
    /\ branch' = [branch EXCEPT ![e][h] = "failed"]
    /\ UNCHANGED <<source, issue, trigger, step, child, alerts>>

\* All branches of the Parallel state are done.
Join(e) ==
    /\ step[e] = "handling"
    /\ \A h \in Handlers : branch[e][h] = "done"
    /\ step' = [step EXCEPT ![e] = "succeeded"]
    /\ UNCHANGED <<source, issue, trigger, child, branch, alerts>>

\* The execution fails with its parser, with the first branch of its Parallel
\* state that fails, or because it takes too long.  Branches that have not
\* started their child never will.
Fail(e) ==
    /\ \/ step[e] = "parsing" /\ parser[e] = "failed"
       \/ step[e] = "handling" /\ \E h \in Handlers : branch[e][h] = "failed"
       \/ Faults /\ step[e] \in {"received", "parsing", "handling"}
    /\ step' = [step EXCEPT ![e] = "failed"]
    /\ branch' = [branch EXCEPT ![e] =
                    [h \in Handlers |-> IF @[h] = "ready" THEN "stopped" ELSE @[h]]]
    /\ UNCHANGED <<source, issue, trigger, child, alerts>>

\* Step Functions tries to stop the children of an execution that has failed.
StopChild(e) ==
    /\ step[e] = "failed"
    /\ \/ /\ parser[e] \in {"describing", "notifying", "formatting"}
          /\ parser' = [parser EXCEPT ![e] = "stopped"]
          /\ UNCHANGED branch
       \/ \E h \in Handlers : /\ branch[e][h] = "running"
                              /\ branch' = [branch EXCEPT ![e][h] = "stopped"]
                              /\ UNCHANGED parser
    /\ UNCHANGED <<source, issue, trigger, step, described, output, alerts>>

\* The handler's rule sends the event to the outside service, or to its dead
\* letter queue when the service keeps refusing it.
Arrive(m) ==
    /\ m \in posted \ (arrived \cup dead)
    /\ arrived' = arrived \cup {m}
    /\ UNCHANGED <<source, issue, trigger, step, child, branch, posted, dead>>

DeadLetter(m) ==
    /\ Faults
    /\ m \in posted \ (arrived \cup dead)
    /\ dead' = dead \cup {m}
    /\ UNCHANGED <<source, issue, trigger, step, child, branch, posted, arrived>>

-----------------------------------------------------------------------------
Init ==
    /\ workflow = [i \in Issues |-> "NEW"]
    /\ transit = [c \in Issues \X Triggers |-> 0]
    /\ published = 0 /\ redelivered = 0
    /\ issue = [e \in Executions |-> None]
    /\ trigger = [e \in Executions |-> None]
    /\ step = [e \in Executions |-> "unused"]
    /\ parser = [e \in Executions |-> "idle"]
    /\ described = {}
    /\ output = [e \in Executions |-> Nothing]
    /\ branch = [e \in Executions |-> [h \in Handlers |-> "idle"]]
    /\ posted = {} /\ arrived = {} /\ dead = {}

\* What AWS does of itself with an execution, and with the events of the bus.
Advance(e) ==
    \/ DetermineIssueType(e)
    \/ Describe(e) \/ Notify(e) \/ FormatOutput(e)
    \/ CheckAlert(e) \/ Join(e) \/ Fail(e)
    \/ \E h \in Handlers : ExecuteHandler(e, h) \/ PutEvent(e, h)

Start == \E e \in Executions, i \in Issues, t \in Triggers : Invoke(e, i, t)

Next ==
    \/ \E i \in Issues : Publish(i)
    \/ Start
    \/ \E i \in Issues, t \in Triggers : Drop(i, t)
    \/ \E e \in Executions : \/ Advance(e)
                             \/ ParserFails(e) \/ StopChild(e)
                             \/ \E h \in Handlers : HandlerFails(e, h)
    \/ \E m \in posted : Arrive(m) \/ DeadLetter(m)

Spec == Init /\ [][Next]_vars

\* EventBridge and Step Functions carry out what they have accepted.
FairSpec ==
    /\ Spec
    /\ WF_vars(Start)
    /\ \A e \in Executions : WF_vars(Advance(e))
    /\ WF_vars(\E m \in posted : Arrive(m))

-----------------------------------------------------------------------------
(***************************************************************************)
(* Properties.                                                             *)
(***************************************************************************)

Quiet ==
    /\ \A c \in Issues \X Triggers : transit[c] = 0
    /\ \A e \in Executions :
        /\ step[e] \in {"unused", "succeeded", "silent", "failed"}
        /\ parser[e] \notin {"describing", "notifying", "formatting"}
        /\ \A h \in Handlers : branch[e][h] # "running"
    /\ posted = arrived \cup dead

Alerted(i, h) == \E m \in arrived : issue[m.execution] = i /\ m.handler = h

\* A finding marked as notified is never matched again, so its alert had better
\* be out: when nothing is under way and a handler has not been alerted, some
\* execution for the finding failed or its event is in a dead letter queue.
LossHasACause ==
    Quiet => \A i \in Issues, h \in Handlers :
        workflow[i] = "NOTIFIED" /\ ~Alerted(i, h) =>
            \/ \E e \in Executions : issue[e] = i /\ step[e] = "failed"
            \/ \E m \in dead : issue[m.execution] = i /\ m.handler = h

\* A finding for which no parser could build a description is still new, so
\* that the next event for it is matched again.
UndescribedStaysNew ==
    \A i \in Issues : workflow[i] = "NOTIFIED" =>
        \E e \in described : issue[e] = i

\* What a trigger overrides is in the ticket: the last override given for the
\* handler wins over the handler's defaults and, for the priority, over the
\* severity the parser reports, but never over the issue's own summary.
TicketsFollowTriggers ==
    \A m \in posted : Class[m.handler] = "Jira" =>
        LET given == Overrides[trigger[m.execution]]
            mine == {k \in DOMAIN given : given[k][1] = m.handler}
            last == CHOOSE k \in mine : \A j \in mine : j <= k
            Has(field) == mine # {} /\ field \in DOMAIN given[last][2]
        IN  /\ m.message.summary = issue[m.execution]
            /\ m.message.project = IF Has("Project") THEN given[last][2].Project
                                                     ELSE Configured[m.handler].Project
            /\ Has("Priority") => m.message.priority = given[last][2].Priority

\* Marking a finding makes Security Hub announce it once more.  That must not
\* start the next execution, and so on: when the sources have gone silent, so
\* does the manager.
FallsQuiet == <>[]Quiet

\* Without faults a finding marked as notified reaches every handler's service.
NotifiedReachesEveryone ==
    \A i \in Issues, h \in Handlers : workflow[i] = "NOTIFIED" ~> Alerted(i, h)

\* The parser of execution e wants an alert.
Wanted(e) == "Alert" \in DOMAIN output[e] /\ output[e].Alert = TRUE

\* The issue manager keeps the promise of AlertDelivery, a report being the
\* execution of the manager whose parser makes it.
Alerting == INSTANCE AlertDelivery WITH
    Reports <- Executions,
    asked <- {a \in Executions \X Handlers : Wanted(a[1])},
    made <- {<<m.execution, m.handler>> : m \in arrived}

DeliversSafely == Alerting!Spec

Delivers == Alerting!FairSpec

\* An event that has been parsed is handled unless the parser decides against
\* an alert: "a specific type of event that should trigger an issue to be
\* raised" (addIssueParser).
SilenceIsDecided ==
    \A e \in Executions : step[e] = "silent" => "Alert" \in DOMAIN output[e]

\* Where no call fails, every parser transforms its events "into a known format
\* that can be passed to the destinations" (addIssueParser).
EventsAreParsed == \A e \in Executions : step[e] # "failed"
=============================================================================
