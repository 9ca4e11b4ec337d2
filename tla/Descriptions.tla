---------------------------- MODULE Descriptions ----------------------------
(***************************************************************************)
(* How the parsers of src/alerting/issue-parsers describe an event.  At    *)
(* synthesis a parser adds references, sections and iterators to a         *)
(* DescriptionBuilder (or builds its states by hand) and renders them as a *)
(* chain of states; at run time an execution walks through that chain with *)
(* the event, of which many fields are optional, as its data.              *)
(*                                                                         *)
(* A description is a sequence of tokens: titles and delimiters, and       *)
(* <<field, n>> for the value of a field of the event (n = 0) or of the    *)
(* n-th element of its collection.                                         *)
(***************************************************************************)
EXTENDS Naturals, FiniteSets, SequencesExt

CONSTANTS
    Events,    \* events: their parser, the fields they have, their collection
    MaxItems   \* bound: elements of a collection

ASSUME DescriptionsAssumption ==
    /\ MaxItems \in Nat
    /\ \A e \in Events :
        /\ e.parser \in {"InspectorFinding", "ConfigComplianceChange", "OpenSearchEvent",
                         "GuardDutyFinding", "SecurityHubFinding", "EcrScanFinding"}
        /\ e.present \subseteq STRING
        /\ e.items \in Seq(SUBSET STRING) /\ Len(e.items) <= MaxItems

VARIABLES
    event,      \* the event the parser is executed with
    status,     \* of the execution
    pc,         \* the next state, of the execution and of each Map iteration
    text,       \* $.Description.Builder of each of them
    delimiter,  \* $.Description.Delimiter of each of them
    records,    \* the results of the Map, or the collection a loop goes through
    index       \* of the loop over the records

describing == <<event, status, pc, text, delimiter, records, index>>

Main == 0
Threads == 0 .. MaxItems

Empty == ""           \* the delimiters
Line == "\n"
Paragraph == "\n\n"
Kept == "kept"        \* the Delimiter as an earlier state left it

NoEvent == [parser |-> "none", present |-> {}, items |-> <<>>]

-----------------------------------------------------------------------------
(***************************************************************************)
(* What a parser asks for.                                                 *)
(***************************************************************************)

\* A reference: left out if the event does not have the field.
Reference(field) == [says |-> field, reads |-> {field}, required |-> FALSE]

\* A link, which an intrinsic function makes from fields: never left out.
Link(name, fields) == [says |-> name, reads |-> fields, required |-> TRUE]

\* A section with the fields that decide whether it is written; always, if none.
Section(title, checks, body) ==
    [title |-> title, checks |-> checks, body |-> body, over |-> Empty]

\* A section with one record for each element of a collection.
Iterator(title, collection, body) ==
    [title |-> title, checks |-> {}, body |-> body, over |-> collection]

References(fields) == [k \in DOMAIN fields |-> Reference(fields[k])]

-----------------------------------------------------------------------------
(***************************************************************************)
(* The chains of states.                                                   *)
(***************************************************************************)

\* A Pass state that appends to the description.
AddState(component, before, after) ==
    [do |-> "add", says |-> component.says, reads |-> component.reads,
     before |-> before, after |-> after]

\* A Choice state: go on if any of the fields is present, else skip states.
CheckState(fields, skipped) == [do |-> "check", reads |-> fields, skip |-> skipped]

\* A Choice state: go on while the index is less than the length.
WhileState(skipped) == [do |-> "while", skip |-> skipped]

\* The last state: it formats the output from the description and fields.
OutputState(fields) == [do |-> "output", reads |-> fields]

\* Faulty variant: references are required unless they are marked optional.
WriteRequired(component, before, after) == <<AddState(component, before, after)>>

\* DescriptionBuilderBase.write
Write(component, before, after) ==
    IF component.required THEN <<AddState(component, before, after)>>
    ELSE <<CheckState(component.reads, 1), AddState(component, before, after)>>

\* The chain of an iterator's or a section's fields.
WriteAll(body, before, after) ==
    FlattenSeq([k \in DOMAIN body |-> Write(body[k], before, after)])

TitleOf(s) == [says |-> s.title, reads |-> {}, required |-> TRUE]

\* DescriptionBuilderSection
RenderSection(s) ==
    LET body == Write(TitleOf(s), Paragraph, Line) \o WriteAll(s.body, Kept, Kept)
    IN  IF s.checks = {} THEN body ELSE <<CheckState(s.checks, Len(body))>> \o body

\* DescriptionBuilderIterator: a Map with a chain for each element, then the
\* section's delimiter, its title, and a Choice that leads through join-step to
\* the end of the chain, and not back to the Choice.
RenderIterator(s) ==
    LET join == <<[do |-> "record", before |-> Kept, after |-> Paragraph],
                 [do |-> "step", back |-> 0]>>
        results == <<[do |-> "delimiter", after |-> Paragraph]>>
                   \o Write(TitleOf(s), Kept, Line) \o <<WhileState(Len(join))>> \o join
    IN  <<[do |-> "map", over |-> s.over, body |-> WriteAll(s.body, Kept, Line)],
          [do |-> "initialize", over |-> Empty, field |-> Empty], WhileState(Len(results))>>
        \o results

Render(s) == IF s.over = Empty THEN RenderSection(s) ELSE RenderIterator(s)

RenderAll(sections) == FlattenSeq([k \in DOMAIN sections |-> Render(sections[k])])

\* A loop built by hand over a collection: its step leads back to the Choice.
Loop(title, collection, field) ==
    LET join == <<[do |-> "record", before |-> Line, after |-> Kept], [do |-> "step", back |-> 3]>>
        body == <<AddState([says |-> title, reads |-> {}], Paragraph, Kept),
                   [do |-> "initialize", over |-> collection, field |-> field],
                   WhileState(Len(join))>> \o join
    IN  <<CheckState({collection}, Len(body))>> \o body

\* A section built by hand, with its delimiters written out.
PlainSection(s) ==
    LET body == Write(TitleOf(s), Paragraph, Kept) \o WriteAll(s.body, Line, Kept)
    IN  <<CheckState(s.checks, Len(body))>> \o body

-----------------------------------------------------------------------------
(***************************************************************************)
(* The parsers.                                                            *)
(***************************************************************************)

InspectorSections ==
    LET advice == "$.Detail.remediation.recommendation.text"
        url == "$.Detail.remediation.recommendation.Url"
    IN  <<Section("Remediation Guidance", {advice, url}, References(<<advice, url>>)),
          Section("Package Vulnerability Details", {},
                  References(<<"vulnerabilityId", "source", "sourceUrl">>)),
          Iterator("Resources", "$.Detail.resources",
                   References(<<"$.Item.type", "$.Item.id", "$.Item.region">>))>>

ConfigSections ==
    <<Section("Rule", {}, <<Reference("$.Detail.configRuleName"),
                            Reference("$.Rule.Info.Description"),
                            Link("Console", {"$.Detail.configRuleName"})>>),
      Section("Resource", {}, References(<<"$.Resource.Info.ResourceName",
                                           "$.Detail.resourceId", "$.Detail.resourceType",
                                           "$.Detail.newEvaluationResult.annotation",
                                           "$.ResourceUrl.Formatted">>))>>

DomainSections ==
    <<Section("Domain Information", {}, <<Reference("$.Domain.Name"), Reference("$.Domain.Arn"),
                                          Link("Console", {"$.Domain.Region", "$.Domain.Name"})>>)>>

\* The part of GuardDuty's $.Detail.resource that a section is about, and the
\* fields the section lists.
GuardDutyDetails == <<
    <<"instanceDetails", <<"instanceId">>>>,
    <<"lambdaDetails", <<"functionName", "functionArn", "functionVersion", "role">>>>,
    <<"rdsDbInstanceDetails", <<"dbInstanceIdentifier", "dbClusterIdentifier", "dbInstanceArn",
                                "engine", "engineVersion">>>>,
    <<"ecsClusterDetails", <<"name", "arn", "taskDetails.arn", "taskDetails.definitionArn",
                             "taskDetails.version", "taskDetails.startedBy", "taskDetails.group">>>>,
    <<"eksClusterDetails", <<"name", "arn">>>>,
    <<"kubernetesDetails", <<"kubernetesUserDetails.username", "kubernetesUserDetails.uid",
                             "kubernetesWorkloadDetails.namespace", "kubernetesWorkloadDetails.name",
                             "kubernetesWorkloadDetails.type", "kubernetesWorkloadDetails.uid">>>>,
    <<"containerDetails", <<"name", "id", "image", "containerRuntime", "privileged">>>>,
    <<"s3BucketDetails", <<"name", "arn">>>>,
    <<"accessKeyDetails", <<"accessKeyId", "principalId", "userName", "userType">>>> >>

GuardDutySections ==
    [k \in DOMAIN GuardDutyDetails |->
        LET path == GuardDutyDetails[k][1]
            fields == GuardDutyDetails[k][2]
        IN  Section(path, {path}, [j \in DOMAIN fields |-> Reference(path \o "." \o fields[j])])]

RemediationSection ==
    LET advice == "$.Finding.Remediation.Recommendation.Text"
        url == "$.Finding.Remediation.Recommendation.Url"
    IN  Section("Remediation", {advice, url}, References(<<advice, url>>))

InspectorStates ==
    Write(Reference("$.Detail.description"), Paragraph, Kept)
    \o RenderAll(InspectorSections) \o <<OutputState({"$.Detail.type", "$.Detail.title"})>>

ConfigStates ==
    RenderAll(ConfigSections) \o <<OutputState({"$.Detail.resourceType", "$.Detail.resourceId"})>>

\* It ends with a reference to $.Domain.name.
OpenSearchStates ==
    RenderAll(DomainSections)
    \o <<OutputState({"$.Detail.event", "$.Detail.status", "$.Domain.name"})>>

GuardDutyStates ==
    FlattenSeq([k \in DOMAIN GuardDutySections |-> PlainSection(GuardDutySections[k])])
    \o <<OutputState({"$.Severity.Standardized", "$.Detail.title"})>>

SecurityHubStates ==
    Write(Link("AWS account", {"$.Finding.AwsAccountId"}), Paragraph, Kept)
    \o Write(Link("Finding details", {"$.Finding.Id"}), Paragraph, Kept)
    \o PlainSection(RemediationSection)
    \o Loop("Resources", "$.Finding.Resources", "$.Resource.Details.Id")
    \o <<OutputState({"$.Resolved.Severity", "$.Finding.Title"})>>

EcrStates ==
    Loop("Image tags", "$.Image.Details.ImageTags", "tag")
    \o Write(Link("ECR console", {"$.Image.Details.RepositoryName"}), Paragraph, Kept)
    \o <<OutputState({"$.Findings.MaxSeverityStandardized"})>>

States(p) == CASE p = "InspectorFinding" -> InspectorStates
               [] p = "ConfigComplianceChange" -> ConfigStates
               [] p = "OpenSearchEvent" -> OpenSearchStates
               [] p = "GuardDutyFinding" -> GuardDutyStates
               [] p = "SecurityHubFinding" -> SecurityHubStates
               [] p = "EcrScanFinding" -> EcrStates

\* The fields each parser relies on: its source always sends them.
Guaranteed(p) ==
    CASE p = "InspectorFinding" -> {"$.Detail.type", "$.Detail.title", "$.Detail.resources"}
      [] p = "ConfigComplianceChange" -> {"$.Detail.resourceType", "$.Detail.resourceId",
                                          "$.Detail.configRuleName"}
      [] p = "GuardDutyFinding" -> {"$.Severity.Standardized", "$.Detail.title"}
      [] p = "SecurityHubFinding" -> {"$.Finding.AwsAccountId", "$.Finding.Id",
                                      "$.Resolved.Severity", "$.Finding.Title"}
      [] p = "EcrScanFinding" -> {"$.Image.Details.RepositoryName",
                                  "$.Findings.MaxSeverityStandardized"}
      [] OTHER -> {"$.Detail.event", "$.Detail.status"}

\* What the states before the description leave of an event, and add to it.
Data(e) ==
    e.present \cup
    CASE e.parser = "OpenSearchEvent" -> {"$.Domain.Name", "$.Domain.Arn", "$.Domain.Region"}
      [] e.parser = "ConfigComplianceChange" -> {"$.ResourceUrl.Formatted"}
      [] OTHER -> {}

-----------------------------------------------------------------------------
(***************************************************************************)
(* An execution.                                                           *)
(***************************************************************************)

Items == DOMAIN event.items

Current == States(event.parser)[pc[Main]]

\* The state thread t is in: a Map iteration walks through the Map's own chain.
StateOf(t) == IF t = Main THEN Current ELSE Current.body[pc[t]]

Running(t) ==
    /\ status = "running"
    /\ pc[t] > 0
    /\ t # Main => pc[t] <= Len(Current.body)

Has(t) == IF t = Main THEN Data(event) ELSE event.items[t]

Goto(t, n) == pc' = [pc EXCEPT ![t] = @ + n]

\* Faulty variant: the delimiter is put in front of an empty text, too.
ExtendAlways(t, before, tokens, after) ==
    LET used == IF before = Kept THEN delimiter[t] ELSE before
    IN  /\ text' = [text EXCEPT ![t] = @ \o <<used>> \o tokens]
        /\ delimiter' = [delimiter EXCEPT ![t] = IF after = Kept THEN @ ELSE after]

\* States.Format: the text so far, the delimiter and what is to be added.
Extend(t, before, tokens, after) ==
    LET used == IF before = Kept THEN delimiter[t] ELSE before
        parted == IF used = Empty THEN <<>> ELSE <<used>>
    IN  /\ text' = [text EXCEPT ![t] = @ \o parted \o tokens]
        /\ delimiter' = [delimiter EXCEPT ![t] = IF after = Kept THEN @ ELSE after]

\* The texts that tell something, in their order.
Telling(texts) ==
    FlattenSeq([t \in DOMAIN texts |-> IF texts[t] = <<>> THEN <<>> ELSE <<texts[t]>>])

Fail == /\ status' = "failed"
        /\ UNCHANGED <<event, pc, text, delimiter, records, index>>

\* A Pass state: it fails if a field it refers to is missing.
Add(t) ==
    LET state == StateOf(t) IN
    /\ Running(t) /\ state.do = "add"
    /\ IF state.reads \subseteq Has(t)
       THEN /\ Extend(t, state.before,
                      <<<<state.says, IF state.reads = {} THEN Main ELSE t>>>>, state.after)
            /\ Goto(t, 1)
            /\ UNCHANGED <<event, status, records, index>>
       ELSE Fail

Check(t) ==
    LET state == StateOf(t) IN
    /\ Running(t) /\ state.do = "check"
    /\ Goto(t, IF state.reads \cap Has(t) # {} THEN 1 ELSE 1 + state.skip)
    /\ UNCHANGED <<event, status, text, delimiter, records, index>>

SetDelimiter ==
    /\ Running(Main) /\ Current.do = "delimiter"
    /\ delimiter' = [delimiter EXCEPT ![Main] = Current.after]
    /\ Goto(Main, 1)
    /\ UNCHANGED <<event, status, text, records, index>>

\* The Map state fails without its collection, and starts its iterations.
StartMap ==
    /\ Running(Main) /\ Current.do = "map"
    /\ Items # {} => pc[1] = 0
    /\ IF Current.over \notin Data(event) THEN Fail
       ELSE /\ Items # {}
            /\ pc' = [t \in Threads |-> IF t \in Items THEN 1 ELSE pc[t]]
            /\ UNCHANGED <<event, status, text, delimiter, records, index>>

\* When all iterations have ended: their texts in the collection's order, but
\* for the empty ones.
JoinMap ==
    /\ Running(Main) /\ Current.do = "map"
    /\ Current.over \in Data(event)
    /\ \A t \in Items : pc[t] = Len(Current.body) + 1
    /\ records' = Telling([t \in Items |-> text[t]])
    /\ pc' = [t \in Threads |-> IF t = Main THEN pc[Main] + 1 ELSE 0]
    /\ text' = [t \in Threads |-> IF t = Main THEN text[Main] ELSE <<>>]
    /\ delimiter' = [t \in Threads |-> IF t = Main THEN delimiter[Main] ELSE Empty]
    /\ UNCHANGED <<event, status, index>>

Initialize ==
    /\ Running(Main) /\ Current.do = "initialize"
    /\ index' = 0
    /\ records' = IF Current.over = Empty THEN records
                  ELSE [t \in Items |-> <<<<Current.field, t>>>>]
    /\ Goto(Main, 1)
    /\ UNCHANGED <<event, status, text, delimiter>>

While ==
    /\ Running(Main) /\ Current.do = "while"
    /\ Goto(Main, IF index < Len(records) THEN 1 ELSE 1 + Current.skip)
    /\ UNCHANGED <<event, status, text, delimiter, records, index>>

AddRecord ==
    /\ Running(Main) /\ Current.do = "record"
    /\ Extend(Main, Current.before, records[index + 1], Current.after)
    /\ Goto(Main, 1)
    /\ UNCHANGED <<event, status, records, index>>

Step ==
    /\ Running(Main) /\ Current.do = "step"
    /\ index' = index + 1
    /\ Goto(Main, 1 - Current.back)
    /\ UNCHANGED <<event, status, text, delimiter, records>>

FormatDescription ==
    /\ Running(Main) /\ Current.do = "output"
    /\ IF Current.reads \subseteq Data(event)
       THEN /\ status' = "done"
            /\ UNCHANGED <<event, pc, text, delimiter, records, index>>
       ELSE Fail

DescriptionInit ==
    /\ event = NoEvent
    /\ status = "idle"
    /\ pc = [t \in Threads |-> IF t = Main THEN 1 ELSE 0]
    /\ text = [t \in Threads |-> <<>>]
    /\ delimiter = [t \in Threads |-> IF t = Main THEN Line ELSE Empty]
    /\ records = <<>>
    /\ index = 0

\* The parser is executed with an event.
StartParser(e) ==
    /\ status = "idle"
    /\ status' = "running"
    /\ event' = e
    /\ UNCHANGED <<pc, text, delimiter, records, index>>

Execute ==
    \/ \E t \in Threads : Add(t) \/ Check(t)
    \/ SetDelimiter \/ StartMap \/ JoinMap
    \/ Initialize \/ While \/ AddRecord \/ Step
    \/ FormatDescription

DescriptionNext == Execute \/ \E e \in Events : StartParser(e)

DescriptionSpec == DescriptionInit /\ [][DescriptionNext]_describing

-----------------------------------------------------------------------------
(***************************************************************************)
(* Properties.                                                             *)
(***************************************************************************)

DescriptionTypeOK ==
    /\ event \in Events \cup {NoEvent}
    /\ status \in {"idle", "running", "done", "failed"}
    /\ pc \in [Threads -> Nat]
    /\ status # "idle" => pc[Main] \in DOMAIN States(event.parser)
    /\ DOMAIN text = Threads /\ DOMAIN delimiter = Threads
    /\ Len(records) <= MaxItems
    /\ index \in 0 .. Len(records)

\* The text a description should have, put together from what it is asked for.
PartOf(before, tokens) == <<before>> \o tokens

FieldText(component, t, has) ==
    IF component.required \/ component.reads \cap has # {}
    THEN PartOf(Line, <<<<component.says, t>>>>) ELSE <<>>

FieldTexts(body, t, has) == FlattenSeq([k \in DOMAIN body |-> FieldText(body[k], t, has)])

\* The records of a collection's elements, without those that tell nothing.
RecordTexts(s, e) ==
    Telling([t \in DOMAIN e.items |->
                LET told == FieldTexts(s.body, t, e.items[t])
                IN  IF told = <<>> THEN <<>> ELSE Tail(told)])

HeadOf(s) == PartOf(Paragraph, <<<<s.title, Main>>>>)

\* Paragraphs part the records of an iterator, new lines those of a plain loop.
SectionText(s, e, parting) ==
    IF s.over # Empty
    THEN LET told == RecordTexts(s, e) IN
         IF told = <<>> THEN <<>>
         ELSE HeadOf(s) \o FlattenSeq([k \in DOMAIN told |->
                             PartOf(IF k = 1 THEN Line ELSE parting, told[k])])
    ELSE IF s.checks = {} \/ s.checks \cap Data(e) # {}
         THEN HeadOf(s) \o FieldTexts(s.body, Main, Data(e))
         ELSE <<>>

SectionTexts(sections, e) ==
    FlattenSeq([k \in DOMAIN sections |-> SectionText(sections[k], e, Paragraph)])

LoopText(title, collection, field, e) ==
    IF collection \notin e.present THEN <<>>
    ELSE HeadOf(Section(title, {}, <<>>))
         \o FlattenSeq([t \in DOMAIN e.items |-> PartOf(Line, <<<<field, t>>>>)])

Lone(name) == PartOf(Paragraph, <<<<name, Main>>>>)

\* What is told of an event if everything is told.
Everything(e) ==
    CASE e.parser = "InspectorFinding" ->
            (IF "$.Detail.description" \in e.present THEN Lone("$.Detail.description") ELSE <<>>)
            \o SectionTexts(InspectorSections, e)
      [] e.parser = "ConfigComplianceChange" -> SectionTexts(ConfigSections, e)
      [] e.parser = "OpenSearchEvent" -> SectionTexts(DomainSections, e)
      [] e.parser = "GuardDutyFinding" -> SectionTexts(GuardDutySections, e)
      [] e.parser = "SecurityHubFinding" ->
            Lone("AWS account") \o Lone("Finding details") \o SectionTexts(<<RemediationSection>>, e)
            \o LoopText("Resources", "$.Finding.Resources", "$.Resource.Details.Id", e)
      [] e.parser = "EcrScanFinding" ->
            LoopText("Image tags", "$.Image.Details.ImageTags", "tag", e) \o Lone("ECR console")

\* The first of several records of an iterator, all others left out.
Records(e) == IF e.parser = "InspectorFinding" THEN RecordTexts(InspectorSections[3], e) ELSE <<>>

\* A description tells every field the event has, each once, under its title,
\* in the order the parser asks for them and parted as it asks for: what
\* rendering as Choice and Pass states that share one text and one delimiter
\* has to come to (description-builder.ts:156, 248, 367, and the chains built by
\* hand).  It does so when a collection has no more than one element with
\* something to tell.
DescriptionIsComplete ==
    status = "done" /\ Len(Records(event)) <= 1 => text[Main] = Everything(event)

\* With more elements the text breaks off after the first of them, and what it
\* tells up to there is in place (description-builder.ts:309).
DescriptionIsInPlace == status = "done" => IsPrefix(text[Main], Everything(event))

\* Both: nothing of an event is lost or out of place but what follows the first of
\* several records.
DescriptionIsFaithful == DescriptionIsComplete /\ DescriptionIsInPlace

\* No description fails for want of a field that its source may leave out, once
\* the fields are there that each state of the parser takes for granted:
\* optional fields are only read behind a Choice.  This is not asked of
\* OpenSearchEvent, which reads a field that no event has (opensearch-event.ts:228).
NeverFailsForOptional ==
    status = "failed" =>
        \/ event.parser = "OpenSearchEvent"
        \/ ~(Guaranteed(event.parser) \subseteq event.present)
=============================================================================
