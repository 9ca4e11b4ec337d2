--------------------------- MODULE FargateLogger ---------------------------
(***************************************************************************)
(* The logger of src/k8s-aws/fargate-logger.ts and the Fluent Bit plugins  *)
(* of src/k8s-aws/lib/fluent-bit.  An application adds profiles and        *)
(* plugins, and adds to the plugins, in any order.  The three sections of  *)
(* the configuration are lazy strings: when something resolves the         *)
(* manifest they are rendered one after the other, once, and rendering     *)
(* binds the plugins, which adds parsers, permissions and resources.       *)
(* An aspect may resolve the manifest before others have added all.        *)
(***************************************************************************)
EXTENDS Naturals, Sequences, FiniteSets

CONSTANTS
    Profiles,      \* Fargate profiles, each with its role
    Filters,       \* filter plugins of the application
    FilterKind,    \* [Filters -> filters, as below]
    Outputs,       \* output plugins of the application
    OutputKind,    \* [Outputs -> class and target, and whether it creates its group]
    Parsers,       \* parser plugins of the application
    ParserName,    \* [Parsers -> STRING]
    DefaultFilter, \* the filter and the output that the logger adds itself
    DefaultOutput,
    MaxFilters,    \* bound: filters that the application adds
    MaxOutputs     \* bound: outputs that the application adds

VARIABLES
    profiles, filters, outputs, parsers, \* what the logger has been given
    entries,      \* what each filter has been given: parsers, rules, operations
    section,      \* the section that is being rendered
    filterConf,   \* the sections: filters with the parsers they name,
    outputConf,   \* outputs with where they write to,
    parserConf,   \* and the names of parsers
    policy,       \* the statements in the policy of each profile's role
    created,      \* resources the plugins have created in the logger
    late,         \* profiles added after the configuration was rendered
    status        \* of the program

given == <<profiles, filters, outputs, parsers, entries>>
conf == <<filterConf, outputConf, parserConf>>
vars == <<given, section, conf, policy, created, late, status>>

-----------------------------------------------------------------------------
(***************************************************************************)
(* The plugins: the name they are rendered under, whether they must have   *)
(* been given something before they are bound, and whether that is parsers.*)
(***************************************************************************)

KubernetesFilter == [name |-> "kubernetes", needs |-> FALSE, brings |-> FALSE]
RewriteTagFilter == [name |-> "rewrite_tag", needs |-> TRUE, brings |-> FALSE]
ParserFilter == [name |-> "parser", needs |-> TRUE, brings |-> TRUE]
ModifyFilter == [name |-> "modify", needs |-> TRUE, brings |-> FALSE]
RecordModifierFilter == [name |-> "record_modifier", needs |-> TRUE, brings |-> FALSE]
GrepFilter == [name |-> "grep", needs |-> FALSE, brings |-> FALSE]
NestFilter == [name |-> "nest", needs |-> FALSE, brings |-> FALSE]
ThrottleFilter == [name |-> "throttle", needs |-> FALSE, brings |-> FALSE]
CustomFilter(n) == [name |-> n, needs |-> FALSE, brings |-> FALSE]

FilterKinds ==
    {KubernetesFilter, RewriteTagFilter, ParserFilter, ModifyFilter, RecordModifierFilter,
     GrepFilter, NestFilter, ThrottleFilter}

Rule == "rule"   \* a rule, operation or record: which one does not matter

KindOf(f) == IF f = DefaultFilter THEN KubernetesFilter ELSE FilterKind[f]

\* What can be added to a filter; a custom filter's fields are not told apart.
Addable(f) ==
    IF FilterKind[f].brings THEN Parsers ELSE IF FilterKind[f].needs THEN {Rule} ELSE {}

\* An output writes to a resource: to one it was given, or to one that all outputs
\* of the logger without their own share.  A log group by name is created by the
\* logger, or is taken to exist (a stub).
TargetTypes ==
    [cloudwatch_logs |-> {"given", "stub", "log-group"}, kinesis |-> {"given", "stream"},
     kinesis_firehose |-> {"given", "delivery-stream"},
     opensearch |-> {"given"}, es |-> {"given"}, custom |-> {"given"}]

\* An output of a class as it is bound.
Output(class, target, creates, grants) ==
    [class |-> class, target |-> target, creates |-> creates, grants |-> grants]

CloudWatchLogs(group, createsGroup) ==
    LET misnamed == [type |-> "arn:aws:log-group", id |-> group.id]
        actions == {"logs:DescribeLogStreams"}
                   \cup IF createsGroup THEN {"logs:CreateLogGroup"} ELSE {}
    IN  Output("cloudwatch_logs", group, IF group.type = "log-group" THEN {group} ELSE {},
               {<<"logs:CreateLogStream", group>>, <<"logs:PutLogEvents", group>>}
               \cup (actions \X {misnamed}))

Kinesis(stream) ==
    Output("kinesis", stream, IF stream.type = "given" THEN {} ELSE {stream},
           {<<"kinesis:PutRecords", stream>>})

KinesisFirehose(stream) ==
    Output("kinesis_firehose", stream,
           IF stream.type = "given" THEN {} ELSE {stream, [type |-> "bucket", id |-> stream.id]},
           {<<"firehose:PutRecordBatch", stream>>})

\* Search outputs and custom ones are bound without permissions.
OpenSearch(domain) == Output("opensearch", domain, {}, {})
Elasticsearch(host) == Output("es", host, {}, {})
CustomOutput(host) == Output("custom", host, {}, {})

OutputOf(o) ==
    IF o = DefaultOutput
    THEN CloudWatchLogs([type |-> "log-group", id |-> "default"], FALSE)
    ELSE LET kind == OutputKind[o]
         IN  CASE kind.class = "cloudwatch_logs" -> CloudWatchLogs(kind.target, kind.createsGroup)
               [] kind.class = "kinesis" -> Kinesis(kind.target)
               [] kind.class = "kinesis_firehose" -> KinesisFirehose(kind.target)
               [] kind.class = "opensearch" -> OpenSearch(kind.target)
               [] kind.class = "es" -> Elasticsearch(kind.target)
               [] OTHER -> CustomOutput(kind.target)

ASSUME FargateLoggerAssumption ==
    /\ DefaultFilter \notin Filters /\ DefaultOutput \notin Outputs
    /\ \A f \in Filters :
         FilterKind[f] \in FilterKinds \/ FilterKind[f] = CustomFilter(FilterKind[f].name)
    /\ \A o \in Outputs : /\ OutputKind[o].class \in DOMAIN TargetTypes
                          /\ OutputKind[o].target.type \in TargetTypes[OutputKind[o].class]
    /\ ParserName \in [Parsers -> STRING]
    /\ MaxFilters \in Nat /\ MaxOutputs \in Nat

AllFilters == Filters \cup {DefaultFilter}
AllOutputs == Outputs \cup {DefaultOutput}

-----------------------------------------------------------------------------
(***************************************************************************)
(* The application, its aspects included.                                  *)
(***************************************************************************)

Free == status = "open" /\ section \in {"unrendered", "rendered"}

AddFargateProfile(p) ==
    /\ Free
    /\ profiles' = profiles \cup {p}
    /\ late' = IF section = "rendered" /\ p \notin profiles THEN late \cup {p} ELSE late
    /\ UNCHANGED <<filters, outputs, parsers, entries, section, conf, policy, created, status>>

AddFilter(f) ==
    /\ Free
    /\ Len(filters) < MaxFilters
    /\ filters' = Append(filters, f)
    /\ UNCHANGED <<profiles, outputs, parsers, entries, section, conf, policy, created, late, status>>

AddOutput(o) ==
    /\ Free
    /\ Cardinality(outputs) < MaxOutputs
    /\ outputs' = outputs \cup {o}
    /\ UNCHANGED <<profiles, filters, parsers, entries, section, conf, policy, created, late, status>>

AddParser(q) ==
    /\ Free
    /\ parsers' = parsers \cup {q}
    /\ UNCHANGED <<profiles, filters, outputs, entries, section, conf, policy, created, late, status>>

\* addParser, addRule, addOperation or addRecord of a filter, which the logger
\* may have been given before.
AddEntry(f) ==
    /\ Free
    /\ \E x \in Addable(f) : entries' = [entries EXCEPT ![f] = @ \cup {x}]
    /\ UNCHANGED <<profiles, filters, outputs, parsers, section, conf, policy, created, late, status>>

-----------------------------------------------------------------------------
(***************************************************************************)
(* Rendering.                                                              *)
(***************************************************************************)

\* The CDK, or an aspect, resolves the manifest for the first time.
Resolve ==
    /\ Free /\ section = "unrendered"
    /\ section' = "filters"
    /\ UNCHANGED <<given, conf, policy, created, late, status>>

Bound(f) == IF KindOf(f).brings THEN entries[f] ELSE {}

\* bind of a filter throws if the filter needs something and has nothing.
Throws(f) == KindOf(f).needs /\ entries[f] = {}

\* The line that a filter puts into the configuration.
FilterLine(f) == [name |-> KindOf(f).name, parsers |-> {ParserName[q] : q \in Bound(f)}]

\* Faulty variant: the parsers are concatenated to a list that is not kept.
CollectNothing(bound) == parsers

\* The logger's parsers with those that bound filters bring along.
Collect(bound) == parsers \cup UNION {Bound(f) : f \in bound}

\* Without filters the logger adds the default one.  All are bound, and the
\* logger is given the parsers they bring.
RenderFilters ==
    /\ status = "open" /\ section = "filters"
    /\ filters' = IF filters = <<>> THEN <<DefaultFilter>> ELSE filters
    /\ \/ /\ \E k \in DOMAIN filters' : Throws(filters'[k])
          /\ status' = "failed"
          /\ UNCHANGED <<parsers, section, filterConf>>
       \/ /\ \A k \in DOMAIN filters' : ~Throws(filters'[k])
          /\ parsers' = Collect({filters'[k] : k \in DOMAIN filters'})
          /\ filterConf' = [k \in DOMAIN filters' |-> FilterLine(filters'[k])]
          /\ section' = "outputs"
          /\ UNCHANGED status
    /\ UNCHANGED <<profiles, outputs, entries, outputConf, parserConf, policy, created, late>>

\* Faulty variant: permissions are for the outputs the application has added.
GrantGiven(p, bound) ==
    policy[p] \cup IF p \in profiles THEN UNION {OutputOf(o).grants : o \in outputs} ELSE {}

\* The policy of a profile's role once outputs are bound.
Grant(p, bound) ==
    policy[p] \cup IF p \in profiles THEN UNION {b.grants : b \in bound} ELSE {}

\* Without outputs the logger adds the default one.  All are bound, which creates
\* what they share, and every profile's role may use them.
RenderOutputs ==
    /\ status = "open" /\ section = "outputs"
    /\ outputs' = IF outputs = {} THEN {DefaultOutput} ELSE outputs
    /\ LET bound == {OutputOf(o) : o \in outputs'} IN
       /\ outputConf' = {[class |-> b.class, target |-> b.target] : b \in bound}
       /\ created' = created \cup UNION {b.creates : b \in bound}
       /\ policy' = [p \in Profiles |-> Grant(p, bound)]
    /\ section' = "parsers"
    /\ UNCHANGED <<profiles, filters, parsers, entries, filterConf, parserConf, late, status>>

\* What the section of parsers defines.
ParserNames == {ParserName[q] : q \in parsers}

\* The parsers that parsers bring along are put into a queue which stays empty,
\* so that the loop over the queue ends after the logger's own parsers.
RenderParsers ==
    /\ status = "open" /\ section = "parsers"
    /\ parserConf' = ParserNames
    /\ section' = "rendered"
    /\ UNCHANGED <<given, filterConf, outputConf, policy, created, late, status>>

-----------------------------------------------------------------------------
(***************************************************************************)
(* Validation, and the templates.                                          *)
(***************************************************************************)

NameAt(k) == KindOf(filters[k]).name

\* Fargate cannot rewrite tags once Kubernetes data have been added.
RewritesLate ==
    \E j, k \in DOMAIN filters :
        j < k /\ NameAt(j) = KubernetesFilter.name /\ NameAt(k) = RewriteTagFilter.name

\* Synthesis resolves the manifest again before it validates.  The sections are
\* kept from the first time, but for one without parsers, which is undefined.
Validate ==
    /\ Free /\ section = "rendered"
    /\ parserConf' = IF parserConf = {} THEN ParserNames ELSE parserConf
    /\ status' = IF RewritesLate THEN "refused" ELSE "valid"
    /\ UNCHANGED <<given, section, filterConf, outputConf, policy, created, late>>

Write ==
    /\ status = "valid"
    /\ status' = "written"
    /\ UNCHANGED <<given, section, conf, policy, created, late>>

Init ==
    /\ profiles = {} /\ filters = <<>> /\ outputs = {} /\ parsers = {}
    /\ entries = [f \in AllFilters |-> {}]
    /\ section = "unrendered"
    /\ filterConf = <<>> /\ outputConf = {} /\ parserConf = {}
    /\ policy = [p \in Profiles |-> {}]
    /\ created = {} /\ late = {}
    /\ status = "open"

Next ==
    \/ \E p \in Profiles : AddFargateProfile(p)
    \/ \E f \in Filters : AddFilter(f) \/ AddEntry(f)
    \/ \E o \in Outputs : AddOutput(o)
    \/ \E q \in Parsers : AddParser(q)
    \/ Resolve \/ RenderFilters \/ RenderOutputs \/ RenderParsers
    \/ Validate \/ Write

Spec == Init /\ [][Next]_vars

-----------------------------------------------------------------------------
(***************************************************************************)
(* Properties.                                                             *)
(***************************************************************************)

TypeOK ==
    /\ profiles \subseteq Profiles /\ late \subseteq profiles
    /\ filters \in Seq(AllFilters)
    /\ outputs \subseteq AllOutputs
    /\ parsers \subseteq Parsers
    /\ entries \in [AllFilters -> SUBSET (Parsers \cup {Rule})]
    /\ \A f \in AllFilters : KindOf(f).brings => entries[f] \subseteq Parsers
    /\ section \in {"unrendered", "filters", "outputs", "parsers", "rendered"}
    /\ status \in {"open", "failed", "refused", "valid", "written"}
    /\ parserConf \subseteq STRING
    /\ DOMAIN policy = Profiles

Mentioned == UNION {filterConf[k].parsers : k \in DOMAIN filterConf}

\* A written configuration defines every parser that one of its filters brought
\* along, also if the filter was given the parser after the logger was given
\* the filter: filters must have been bound before parsers are rendered, and
\* what they bring must be kept (fargate-logger.ts 172-238).
Rendering == INSTANCE LazyRendering
    WITH Names <- STRING, mentions <- Mentioned, defines <- parserConf, written <- (status = "written")

RendersSafely == Rendering!RenderingSpec

\* A filter that rewrites tags after one that adds Kubernetes data is never
\* written, whoever added them and by whichever class: validation looks at all
\* filters that were rendered, those included that rendering has added and those
\* that came too late for it (fargate-logger.ts 173-192, 244-263).
NoRewriteAfterKubernetes ==
    status = "written" =>
        ~\E j, k \in DOMAIN filterConf :
            j < k /\ filterConf[j].name = "kubernetes" /\ filterConf[k].name = "rewrite_tag"

\* What a profile needs to write to an output, of the classes that are bound with
\* permissions: those of search outputs and custom ones are not.
Puts == [cloudwatch_logs |-> "logs:PutLogEvents", kinesis |-> "kinesis:PutRecords",
         kinesis_firehose |-> "firehose:PutRecordBatch"]

\* Each profile that the logger had when it was rendered may write to every log group,
\* stream and delivery stream that the configuration names as an output, and every
\* output was given to the logger, exists already or has been created: outputs are
\* bound, and the default one is added, only while the section is rendered
\* (fargate-logger.ts 194-213).  This is less than k8s-aws/README.md 24 and 26 promise:
\* search outputs are bound without permissions (lib/fluent-bit/outputs/opensearch.ts:605),
\* and a profile that comes after the sections have been rendered gets none.
ProfilesMayDeliver ==
    status = "written" =>
        \A line \in outputConf :
            /\ line.class \in DOMAIN Puts =>
                 \A p \in profiles \ late : <<Puts[line.class], line.target>> \in policy[p]
            /\ line.target.type \in {"given", "stub"} \/ line.target \in created
=============================================================================
