------------------------------- MODULE AwsLogs -------------------------------
(***************************************************************************)
(* Logs of AWS services and where they are found: the table of a kind of   *)
(* logs in the stack of the logs (src/glue-tables), the format that it     *)
(* shares with the flow logs of an app (src/ec2), and the aspect that      *)
(* makes buckets write their access logs to the bucket of the logs         *)
(* (src/s3-buckets, src/stacks).                                           *)
(*                                                                         *)
(* An app is built, in any order; its aspects visit it; the values that    *)
(* were left open are produced, before the first template is written; and  *)
(* the templates are written.  Stacks may know their account or not.       *)
(***************************************************************************)
EXTENDS Naturals, FiniteSets, SequencesExt

LOCAL INSTANCE LogTables

CONSTANTS
    LogStack,      \* the stack of the logs
    OtherStacks,   \* the other stacks of the app
    LogAccounts,      \* accounts that stacks may be for
    Home,          \* the account of who deploys: of stacks that know none
    Buckets,       \* buckets of the app, other than that of the logs
    KeyPrefixes,   \* prefixes for access logs
    Formats,       \* formats that flow logs start with
    Fields,        \* fields that may be added to a format
    MaxCalls       \* bound on the aspects that are added

WithEntry(f, k, v) == [x \in DOMAIN f \cup {k} |-> IF x = k THEN v ELSE f[x]]

Agnostic == "agnostic"
Unresolved == "unresolved"
Elsewhere == [call |-> 0, prefix |-> "elsewhere"]   \* logging that a bucket came with
NoLogging == [call |-> 0, prefix |-> "none"]

VARIABLES
    accountOf,     \* [stacks -> LogAccounts \cup {Agnostic}]
    logKind,       \* the kind of logs whose table the stack of the logs has, or "none"
    saved,         \* names of the queries that were saved
    flowFormat,    \* the fields of the format of flow logs, in order
    logged,        \* [buckets -> [stack, logging]]
    aspects,       \* aspects that were added: [scope, prefix, force, exclusions, accounts]
    visited,       \* pairs of a bucket and an aspect that has visited it
    logPhase,      \* "building", "visiting", "prepared", "written"
    projected,     \* accounts that the table looks into
    flowColumns,   \* the columns of the table of flow logs
    flowTemplate,  \* the format in the template of flow logs
    statements     \* statements of the policy of the logs' bucket: [prefix, accounts]

logProgram == <<accountOf, logKind, saved, flowFormat, logged, aspects>>
logRendering == <<projected, flowColumns, flowTemplate, statements>>
awsLogs == <<logProgram, visited, logPhase, logRendering>>

ASSUME AwsLogsAssumption ==
    /\ Home \in LogAccounts /\ Agnostic \notin LogAccounts
    /\ LogStack \notin OtherStacks
    /\ MaxCalls \in Nat
    /\ \A f \in Formats : f \in Seq(ToSet(f))

-----------------------------------------------------------------------------
DeployedTo(s) == IF accountOf[s] # Agnostic THEN accountOf[s] ELSE Home

\* The stack whose account the aspect takes a bucket's stack to have: that of the
\* logs when the bucket's stack knows none.
AssumedStack(s) == IF accountOf[s] = Agnostic THEN LogStack ELSE s

\* Faulty: as it would be without leaving the value open until the app is built.
ProjectedWhenBuilt(accounts) == {DeployedTo(LogStack)}

\* The accounts of all stacks that know theirs; a table in a stack that does not
\* know its account looks into that one alone, and says so in a warning.
ProjectedAccounts(accounts) ==
    IF accounts[LogStack] = Agnostic THEN {DeployedTo(LogStack)}
    ELSE {accounts[s] : s \in DOMAIN accounts} \ {Agnostic}

\* The query of flow logs is saved for formats that have all that it asks for.
SavedQueries(k, create, fields) ==
    IF ~create \/ (k = "flow" /\ ~(FlowColumns \subseteq ToSet(fields))) THEN {}
    ELSE DOMAIN TableOfKind[k].queries

\* Faulty: produced again each time that it is resolved.
DescriptorEachTime(kept, fields) == IF kept = Unresolved THEN fields ELSE kept \o fields

\* The descriptor of a table is produced once and kept: producing it adds the fields
\* of the format to the table's columns.
StorageDescriptor(kept, fields) == IF kept = Unresolved THEN fields ELSE kept

\* Faulty: the accounts known when the statement is added.
GrantedAtFirst(accounts) == {Head(accounts)}

\* The first bucket that an aspect changes adds its statement, which names the
\* accounts of all that it changes.
GrantedAccounts(accounts) == ToSet(accounts)

-----------------------------------------------------------------------------
AwsLogsInit ==
    /\ accountOf = <<>> /\ logKind = "none" /\ saved = {}
    /\ flowFormat \in Formats
    /\ logged = <<>> /\ aspects = <<>>
    /\ visited = {} /\ logPhase = "building"
    /\ projected = {} /\ flowColumns = Unresolved /\ flowTemplate = Unresolved
    /\ statements = {}

\* The stack of the logs, with one of the tables, or with access logs and an aspect
\* on itself.
AddLogStack ==
    /\ logPhase = "building" /\ logKind = "none"
    /\ \E a \in LogAccounts \cup {Agnostic}, k \in DOMAIN TableOfKind, create \in BOOLEAN :
          /\ accountOf' = [s \in {LogStack} |-> a]
          /\ logKind' = k
          /\ saved' = SavedQueries(k, create, flowFormat)
          /\ aspects' = IF k = "s3access"
                      THEN <<[scope |-> LogStack, prefix |-> "", force |-> FALSE, exclusions |-> {},
                              accounts |-> <<>>]>>
                      ELSE <<>>
    /\ UNCHANGED <<flowFormat, logged, visited, logPhase, logRendering>>

AddStack(s) ==
    /\ logPhase = "building" /\ logKind # "none" /\ s \notin DOMAIN accountOf
    /\ \E a \in LogAccounts \cup {Agnostic} : accountOf' = WithEntry(accountOf, s, a)
    /\ UNCHANGED <<logKind, saved, flowFormat, logged, aspects, visited, logPhase, logRendering>>

AddBucket(b) ==
    /\ logPhase = "building" /\ logKind = "s3access" /\ b \notin DOMAIN logged
    /\ \E s \in DOMAIN accountOf, logging \in {NoLogging, Elsewhere} :
          logged' = WithEntry(logged, b, [stack |-> s, logging |-> logging])
    /\ UNCHANGED <<accountOf, logKind, saved, flowFormat, aspects, visited, logPhase, logRendering>>

AddLoggingAspect ==
    /\ logPhase = "building" /\ logKind = "s3access" /\ Len(aspects) < MaxCalls
    /\ \E scope \in DOMAIN accountOf \cup {"app"}, p \in KeyPrefixes, force \in BOOLEAN,
          exclusions \in {{}} \cup {{b} : b \in Buckets} :
          aspects' = Append(aspects, [scope |-> scope, prefix |-> p, force |-> force,
                                  exclusions |-> exclusions, accounts |-> <<>>])
    /\ UNCHANGED <<accountOf, logKind, saved, flowFormat, logged, visited, logPhase, logRendering>>

\* A program or one of its aspects.
AddField(f) ==
    /\ logPhase \in {"building", "visiting"} /\ logKind = "flow"
    /\ f \notin ToSet(flowFormat)
    /\ flowFormat' = Append(flowFormat, f)
    /\ UNCHANGED <<accountOf, logKind, saved, logged, aspects, visited, logPhase, logRendering>>

BeginAspects ==
    /\ logPhase = "building" /\ logKind # "none"
    /\ logPhase' = "visiting"
    /\ UNCHANGED <<logProgram, visited, logRendering>>

-----------------------------------------------------------------------------
\* Aspects on the app visit before those on a stack, and each as they were added.
Applies(i, b) == aspects[i].scope \in {"app", logged[b].stack}
Precedes(i, j) ==
    IF aspects[i].scope = aspects[j].scope THEN i < j ELSE aspects[i].scope = "app"

Visit(b, i) ==
    /\ logPhase = "visiting"
    /\ Applies(i, b) /\ <<b, i>> \notin visited
    /\ \A j \in DOMAIN aspects : Applies(j, b) /\ Precedes(j, i) => <<b, j>> \in visited
    /\ visited' = visited \cup {<<b, i>>}
    /\ IF b \in aspects[i].exclusions \/ (logged[b].logging # NoLogging /\ ~aspects[i].force)
       THEN UNCHANGED <<logged, aspects>>
       ELSE LET a == DeployedTo(AssumedStack(logged[b].stack))
            IN  /\ logged' = [logged EXCEPT ![b].logging = [call |-> i, prefix |-> aspects[i].prefix]]
                /\ aspects' = IF a \in ToSet(aspects[i].accounts) THEN aspects
                            ELSE [aspects EXCEPT ![i].accounts = Append(@, a)]
    /\ UNCHANGED <<accountOf, logKind, saved, flowFormat, logPhase, logRendering>>

\* References are resolved before the templates are written, and what is left open
\* is produced for the first time.
Prepare ==
    /\ logPhase = "visiting"
    /\ \A b \in DOMAIN logged, i \in DOMAIN aspects : Applies(i, b) => <<b, i>> \in visited
    /\ logPhase' = "prepared"
    /\ projected' = ProjectedAccounts(accountOf)
    /\ flowColumns' = StorageDescriptor(flowColumns, flowFormat)
    /\ flowTemplate' = flowFormat
    /\ statements' = {[prefix |-> aspects[i].prefix, accounts |-> GrantedAccounts(aspects[i].accounts)] :
                         i \in {j \in DOMAIN aspects : aspects[j].accounts # <<>>}}
    /\ UNCHANGED <<logProgram, visited>>

WriteLogStack ==
    /\ logPhase = "prepared"
    /\ logPhase' = "written"
    /\ flowColumns' = StorageDescriptor(flowColumns, flowFormat)
    /\ UNCHANGED <<logProgram, visited, projected, flowTemplate, statements>>

AwsLogsNext ==
    \/ AddLogStack \/ AddLoggingAspect \/ BeginAspects \/ Prepare \/ WriteLogStack
    \/ \E s \in OtherStacks : AddStack(s)
    \/ \E b \in Buckets : AddBucket(b)
    \/ \E f \in Fields : AddField(f)
    \/ \E b \in DOMAIN logged, i \in DOMAIN aspects : Visit(b, i)

AwsLogsSpec == AwsLogsInit /\ [][AwsLogsNext]_awsLogs

-----------------------------------------------------------------------------
\* Where a service of AWS puts the logs of an account.
LogPath(k, a) ==
    CASE k = "alb" -> <<"AWSLogs", a, "elasticloadbalancing", "region", "date">>
      [] k = "cloudtrail" -> <<"AWSLogs", a, "CloudTrail", "region", "date">>
      [] k = "flow" -> <<"AWSLogs", a, "vpcflowlogs", "region", "date">>
      [] k = "waf" -> <<"AWSLogs", a, "WAFLogs", "region", "acl">>
      [] k = "ses" -> <<"date">>
      [] OTHER -> <<"object">>

ValuesOf(k, key) ==
    CASE key \in {"source", "account"} -> projected
      [] key = "logname" -> {TableOfKind[k].logname}
      [] key \in {"regionname", "region"} -> {"region"}
      [] key = "day" -> {"date"}

\* A table finds the objects of the partitions that its projections name.
Finds(k, path) ==
    LET places == TableOfKind[k].template
    IN  /\ Len(places) <= Len(path)
        /\ \A i \in DOMAIN places :
              IF places[i].key
              THEN places[i].is \in TableOfKind[k].keys /\ path[i] \in ValuesOf(k, places[i].is)
              ELSE path[i] = places[i].is

ColumnsOf(k) == IF k = "flow" THEN Basic(ToSet(flowColumns)) ELSE TableOfKind[k].columns

-----------------------------------------------------------------------------
\* The table finds the logs of every account that a stack of the app is for, in
\* whatever order the app was built, and of its own when it does not know its account.
LogsAreFound ==
    logPhase = "written" =>
        \A s \in DOMAIN accountOf :
            s = LogStack \/ (accountOf[s] # Agnostic /\ accountOf[LogStack] # Agnostic)
                => Finds(logKind, LogPath(logKind, DeployedTo(s)))

\* The columns of the table of flow logs are the fields of what is written, in the
\* same order, when fields are added to the format later than either was made.
RowsFitColumns == logPhase = "written" /\ logKind = "flow" => flowColumns = flowTemplate

\* A query that was saved when the table was made names columns and keys that the
\* deployed table has.
QueriesAreAnswerable ==
    logPhase = "written" =>
        \A q \in saved : TableOfKind[logKind].queries[q] \subseteq ColumnsOf(logKind) \cup Basic(TableOfKind[logKind].keys)

\* What reads a table agrees with what was written, and with what it was made for.
QueriesFindRows == RowsFitColumns /\ QueriesAreAnswerable

\* A stack that is deployed to who deploys it, beside logs of a known account that is
\* another one: the account that the aspect assumes of it is wrong.
AssumedWrongly(s) == accountOf[s] = Agnostic /\ accountOf[LogStack] \notin {Agnostic, Home}

\* A bucket that aspects have made write to the logs' bucket may write there, with
\* the prefix that it has been given, from the account that it is deployed to, but
\* where the aspect has to assume that account and is wrong.
LogsMayBeDelivered ==
    logPhase = "written" =>
        \A b \in DOMAIN logged :
            logged[b].logging.call # 0 /\ ~AssumedWrongly(logged[b].stack) =>
                \E statement \in statements :
                    /\ statement.prefix \in {"", logged[b].logging.prefix}
                    /\ DeployedTo(logged[b].stack) \in statement.accounts
=============================================================================
