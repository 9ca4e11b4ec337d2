-------------------------- MODULE ConstructsProofs -------------------------
(***************************************************************************)
(* Constructs whose template depends on what is added to them before it is *)
(* written: the bucket for access logs and the tables of logs (AwsLogs),   *)
(* the document of an alert manager (AlertManagerConfig) and the options   *)
(* of a class (OptionRendering), each on its own.                          *)
(***************************************************************************)
EXTENDS AwsLogs, AlertManagerConfig, OptionRendering, FluentBitOptions, GlueOptions, SequenceTheorems,
        TLAPS

LOCAL INSTANCE LogTables

(***************************************************************************)
(* Access logs.  An aspect keeps its prefix, and the accounts that it has  *)
(* met are only ever added to; a bucket remembers the last aspect that has *)
(* changed it.                                                             *)
(***************************************************************************)

Aspects == [scope : {LogStack, "app"} \cup OtherStacks, prefix : KeyPrefixes \cup {""}, force : BOOLEAN,
            exclusions : SUBSET Buckets, accounts : Seq(LogAccounts)]

BucketStates(stacks) ==
    [stack : stacks,
     logging : [call : Nat, prefix : KeyPrefixes \cup {"", NoLogging.prefix, Elsewhere.prefix}]]

Granted(b) ==
    LET i == logged[b].logging.call
    IN  i # 0 =>
          /\ i \in 1 .. Len(aspects)
          /\ logged[b].logging.prefix = aspects[i].prefix
          /\ DeployedTo(AssumedStack(logged[b].stack)) \in ToSet(aspects[i].accounts)

AccessInv ==
    /\ accountOf \in [DOMAIN accountOf -> LogAccounts \cup {Agnostic}]
    /\ DOMAIN accountOf \subseteq {LogStack} \cup OtherStacks
    /\ aspects \in Seq(Aspects)
    /\ logged \in [DOMAIN logged -> BucketStates(DOMAIN accountOf)]
    /\ logKind = "none" => DOMAIN logged = {}
    /\ logKind # "none" => LogStack \in DOMAIN accountOf
    /\ logPhase = "building" => \A b \in DOMAIN logged : logged[b].logging.call = 0
    /\ \A b \in DOMAIN logged : Granted(b)
    /\ logPhase \in {"prepared", "written"} =>
         statements = {[prefix |-> aspects[i].prefix, accounts |-> GrantedAccounts(aspects[i].accounts)] :
                          i \in {j \in DOMAIN aspects : aspects[j].accounts # <<>>}}

-----------------------------------------------------------------------------
LEMMA AppendedToSet ==
    ASSUME NEW S, NEW s \in Seq(S), NEW e \in S
    PROVE  ToSet(Append(s, e)) = ToSet(s) \cup {e}
<1>1. DOMAIN Append(s, e) = 1 .. Len(s) + 1 /\ DOMAIN s = 1 .. Len(s) /\ Len(s) \in Nat
  OBVIOUS
<1>2. Append(s, e)[Len(s) + 1] = e /\ \A i \in 1 .. Len(s) : Append(s, e)[i] = s[i]
  OBVIOUS
<1> QED  BY <1>1, <1>2 DEF ToSet

\* What the aspect assumes is an account, and the right one but in one case: with the
\* logs and the bucket both unaware of their account, both are deployed to one.
LEMMA AssumedAccount ==
    ASSUME AccessInv, logKind # "none", NEW s \in DOMAIN accountOf
    PROVE  /\ DeployedTo(AssumedStack(s)) \in LogAccounts
           /\ ~AssumedWrongly(s) => DeployedTo(AssumedStack(s)) = DeployedTo(s)
BY AwsLogsAssumption DEF AccessInv, DeployedTo, AssumedStack, AssumedWrongly

\* Before the aspects visit, no bucket has been changed.
LEMMA NothingGrantedYet ==
    ASSUME \A b \in DOMAIN logged' : logged'[b].logging.call = 0
    PROVE  \A b \in DOMAIN logged' : Granted(b)'
BY DEF Granted

LEMMA AccessInit == AwsLogsInit => AccessInv
<1> SUFFICES ASSUME AwsLogsInit PROVE AccessInv
  OBVIOUS
<1>1. DOMAIN logged = {} /\ DOMAIN accountOf = {}
  BY DEF AwsLogsInit
<1>2. aspects \in Seq(Aspects)
  BY DEF AwsLogsInit
<1>3. logged \in [DOMAIN logged -> BucketStates(DOMAIN accountOf)]
      /\ accountOf \in [DOMAIN accountOf -> LogAccounts \cup {Agnostic}]
  BY <1>1 DEF AwsLogsInit
<1> QED  BY <1>1, <1>2, <1>3 DEF AwsLogsInit, AccessInv

LEMMA AccessStep == AccessInv /\ [AwsLogsNext]_awsLogs => AccessInv'
<1> SUFFICES ASSUME AccessInv, [AwsLogsNext]_awsLogs PROVE AccessInv'
  OBVIOUS
<1> USE DEF logProgram, logRendering
<1>1. ASSUME AddLogStack PROVE AccessInv'
  <2>1. DOMAIN logged = {} /\ logged' = logged /\ logPhase' = "building"
    BY <1>1 DEF AddLogStack, AccessInv
  <2>2. PICK a \in LogAccounts \cup {Agnostic} : accountOf' = [s \in {LogStack} |-> a]
    BY <1>1 DEF AddLogStack
  <2>3. aspects' \in Seq(Aspects)
    <3>1. [scope |-> LogStack, prefix |-> "", force |-> FALSE, exclusions |-> {}, accounts |-> <<>>] \in Aspects
      BY DEF Aspects
    <3>2. \A aspect \in Aspects : <<aspect>> \in Seq(Aspects)
      OBVIOUS
    <3>3. <<>> \in Seq(Aspects)
      OBVIOUS
    <3> QED  BY <1>1, <3>1, <3>2, <3>3 DEF AddLogStack
  <2>4. logged' \in [DOMAIN logged' -> BucketStates(DOMAIN accountOf')]
    BY <2>1 DEF AccessInv
  <2> QED  BY <1>1, <2>1, <2>2, <2>3, <2>4, NothingGrantedYet DEF AccessInv
<1>2. ASSUME NEW s \in OtherStacks, AddStack(s) PROVE AccessInv'
  <2>1. PICK a \in LogAccounts \cup {Agnostic} : accountOf' = WithEntry(accountOf, s, a)
    BY <1>2 DEF AddStack
  <2>2. DOMAIN accountOf' = DOMAIN accountOf \cup {s}
    BY <2>1 DEF WithEntry
  <2>3. accountOf' \in [DOMAIN accountOf' -> LogAccounts \cup {Agnostic}]
    BY <2>1, <2>2 DEF WithEntry, AccessInv
  <2>4. logged' \in [DOMAIN logged' -> BucketStates(DOMAIN accountOf')]
    <3>1. BucketStates(DOMAIN accountOf) \subseteq BucketStates(DOMAIN accountOf')
      BY <2>2 DEF BucketStates
    <3> QED  BY <1>2, <3>1 DEF AddStack, AccessInv
  <2>5. \A b \in DOMAIN logged' : logged'[b].logging.call = 0
    BY <1>2 DEF AddStack, AccessInv
  <2> QED  BY <1>2, <2>2, <2>3, <2>4, <2>5, NothingGrantedYet DEF AddStack, AccessInv
<1>3. ASSUME NEW b \in Buckets, AddBucket(b) PROVE AccessInv'
  <2>1. PICK s \in DOMAIN accountOf, logging \in {NoLogging, Elsewhere} :
           logged' = WithEntry(logged, b, [stack |-> s, logging |-> logging])
    BY <1>3 DEF AddBucket
  <2>2. DOMAIN logged' = DOMAIN logged \cup {b}
    BY <2>1 DEF WithEntry
  <2>3. [stack |-> s, logging |-> logging] \in BucketStates(DOMAIN accountOf) /\ logging.call = 0
    <3>1. CASE logging = NoLogging  BY <3>1 DEF BucketStates, NoLogging
    <3>2. CASE logging = Elsewhere  BY <3>2 DEF BucketStates, Elsewhere
    <3> QED  BY <3>1, <3>2
  <2>4. logged' \in [DOMAIN logged' -> BucketStates(DOMAIN accountOf')]
    <3>1. \A x \in DOMAIN logged' : logged'[x] \in BucketStates(DOMAIN accountOf)
      BY <2>1, <2>2, <2>3 DEF WithEntry, AccessInv
    <3>2. logged' = [x \in DOMAIN logged' |-> logged'[x]]
      BY <2>1 DEF WithEntry
    <3>3. accountOf' = accountOf
      BY <1>3 DEF AddBucket
    <3> QED  BY <3>1, <3>2, <3>3
  <2>5. \A x \in DOMAIN logged' : logged'[x].logging.call = 0
    <3>1. logPhase = "building"
      BY <1>3 DEF AddBucket
    <3> QED  BY <2>1, <2>2, <2>3, <3>1 DEF WithEntry, AccessInv
  <2> QED  BY <1>3, <2>4, <2>5, NothingGrantedYet DEF AddBucket, AccessInv
<1>4. ASSUME AddLoggingAspect PROVE AccessInv'
  <2>1. aspects' \in Seq(Aspects)
    <3>1. PICK scope \in DOMAIN accountOf \cup {"app"}, p \in KeyPrefixes, force \in BOOLEAN,
               exclusions \in {{}} \cup {{b} : b \in Buckets} :
             aspects' = Append(aspects, [scope |-> scope, prefix |-> p, force |-> force,
                                         exclusions |-> exclusions, accounts |-> <<>>])
      BY <1>4 DEF AddLoggingAspect
    <3>2. [scope |-> scope, prefix |-> p, force |-> force, exclusions |-> exclusions, accounts |-> <<>>]
             \in Aspects
      <4>1. scope \in {LogStack, "app"} \cup OtherStacks
        BY DEF AccessInv
      <4>2. exclusions \in SUBSET Buckets
        OBVIOUS
      <4>3. <<>> \in Seq(LogAccounts)
        OBVIOUS
      <4> QED  BY <4>1, <4>2, <4>3 DEF Aspects
    <3> QED  BY <3>1, <3>2 DEF AccessInv
  <2>2. \A b \in DOMAIN logged' : logged'[b].logging.call = 0
    BY <1>4 DEF AddLoggingAspect, AccessInv
  <2> QED  BY <1>4, <2>1, <2>2, NothingGrantedYet DEF AddLoggingAspect, AccessInv
<1>5. ASSUME UNCHANGED <<accountOf, logKind, logged, aspects>>, \/ logPhase' = logPhase /\ statements' = statements
                                                               \/ logPhase' = "visiting"
      PROVE  AccessInv'
  BY <1>5 DEF AccessInv, Granted, DeployedTo, AssumedStack
<1>6. ASSUME NEW f \in Fields, AddField(f) PROVE AccessInv'
  BY <1>5, <1>6 DEF AddField
<1>7. ASSUME BeginAspects PROVE AccessInv'
  BY <1>5, <1>7 DEF BeginAspects
<1>8. ASSUME NEW b \in DOMAIN logged, NEW i \in DOMAIN aspects, Visit(b, i) PROVE AccessInv'
  <2> DEFINE s == logged[b].stack
             a == DeployedTo(AssumedStack(s))
             marked == [logged EXCEPT ![b].logging = [call |-> i, prefix |-> aspects[i].prefix]]
  <2>1. CASE UNCHANGED <<logged, aspects>>
    BY <1>5, <1>8, <2>1 DEF Visit
  <2>2. CASE /\ logged' = marked
             /\ aspects' = IF a \in ToSet(aspects[i].accounts) THEN aspects
                           ELSE [aspects EXCEPT ![i].accounts = Append(@, a)]
    <3>1. UNCHANGED <<accountOf, logKind, logPhase>> /\ logPhase = "visiting"
      BY <1>8 DEF Visit
    <3>2. s \in DOMAIN accountOf /\ logKind # "none"
      BY DEF AccessInv, BucketStates
    <3>3. a \in LogAccounts
      BY <3>2, AssumedAccount
    <3>4. aspects[i] \in Aspects /\ i \in Nat /\ DOMAIN aspects = 1 .. Len(aspects)
      BY DEF AccessInv
    <3>5. /\ aspects' \in Seq(Aspects) /\ Len(aspects') = Len(aspects)
          /\ \A j \in DOMAIN aspects :
                /\ aspects'[j].prefix = aspects[j].prefix
                /\ ToSet(aspects[j].accounts) \subseteq ToSet(aspects'[j].accounts)
          /\ a \in ToSet(aspects'[i].accounts)
      <4>1. CASE a \in ToSet(aspects[i].accounts)
        BY <2>2, <4>1 DEF AccessInv
      <4>2. CASE a \notin ToSet(aspects[i].accounts)
        <5> DEFINE aspect == [aspects[i] EXCEPT !.accounts = Append(@, a)]
        <5>1. aspects' = [aspects EXCEPT ![i] = aspect]
          BY <2>2, <4>2
        <5>2. aspects[i].accounts \in Seq(LogAccounts)
          BY <3>4 DEF Aspects
        <5>3. aspect \in Aspects /\ aspect.prefix = aspects[i].prefix
              /\ aspect.accounts = Append(aspects[i].accounts, a)
          <6>1. Append(aspects[i].accounts, a) \in Seq(LogAccounts)
            BY <3>3, <5>2
          <6> QED  BY <3>4, <6>1 DEF Aspects
        <5>4. ToSet(aspect.accounts) = ToSet(aspects[i].accounts) \cup {a}
          BY <3>3, <5>2, <5>3, AppendedToSet
        <5> HIDE DEF aspect
        <5>5. aspects' \in Seq(Aspects) /\ Len(aspects') = Len(aspects)
          BY <3>4, <5>1, <5>3 DEF AccessInv
        <5>6. \A j \in DOMAIN aspects : aspects'[j] = IF j = i THEN aspect ELSE aspects[j]
          BY <5>1 DEF AccessInv
        <5> QED  BY <5>3, <5>4, <5>5, <5>6
      <4> QED  BY <4>1, <4>2
    <3>6. logged' \in [DOMAIN logged' -> BucketStates(DOMAIN accountOf')]
      <4>1. [call |-> i, prefix |-> aspects[i].prefix]
               \in [call : Nat, prefix : KeyPrefixes \cup {"", NoLogging.prefix, Elsewhere.prefix}]
        BY <3>4 DEF Aspects
      <4>2. logged[b] \in BucketStates(DOMAIN accountOf)
        BY DEF AccessInv
      <4>3. [logged[b] EXCEPT !.logging = [call |-> i, prefix |-> aspects[i].prefix]]
               \in BucketStates(DOMAIN accountOf)
        BY <4>1, <4>2 DEF BucketStates
      <4> QED  BY <2>2, <3>1, <4>3 DEF AccessInv
    <3>7. /\ DOMAIN logged' = DOMAIN logged
          /\ \A x \in DOMAIN logged : logged'[x].stack = logged[x].stack
          /\ \A x \in DOMAIN logged \ {b} : logged'[x].logging = logged[x].logging
          /\ logged'[b].logging = [call |-> i, prefix |-> aspects[i].prefix]
      BY <2>2 DEF AccessInv, BucketStates
    <3>8. \A x : DeployedTo(AssumedStack(x))' = DeployedTo(AssumedStack(x))
      BY <3>1 DEF DeployedTo, AssumedStack
    <3>9. ASSUME NEW x \in DOMAIN logged PROVE Granted(x)'
      <4>1. CASE x = b
        BY <3>3, <3>4, <3>5, <3>7, <3>8, <4>1 DEF Granted
      <4>2. CASE x # b
        <5>1. logged'[x].logging = logged[x].logging /\ logged'[x].stack = logged[x].stack
          BY <3>7, <4>2
        <5>2. Granted(x)
          BY DEF AccessInv
        <5>3. DeployedTo(AssumedStack(logged[x].stack))' = DeployedTo(AssumedStack(logged[x].stack))
          BY <3>1, <5>1 DEF DeployedTo, AssumedStack
        <5> QED  BY <3>4, <3>5, <5>1, <5>2, <5>3 DEF Granted
      <4> QED  BY <4>1, <4>2
    <3> QED  BY <3>1, <3>5, <3>6, <3>7, <3>9 DEF AccessInv
  <2> QED  BY <1>8, <2>1, <2>2 DEF Visit
<1>9. ASSUME Prepare PROVE AccessInv'
  <2>1. UNCHANGED <<accountOf, logKind, logged, aspects>> /\ logPhase' = "prepared"
    BY <1>9 DEF Prepare
  <2>2. statements' = {[prefix |-> aspects'[i].prefix, accounts |-> GrantedAccounts(aspects'[i].accounts)] :
                         i \in {j \in DOMAIN aspects' : aspects'[j].accounts # <<>>}}
    BY <1>9, <2>1 DEF Prepare
  <2>3. \A b \in DOMAIN logged' : Granted(b)'
    BY <2>1 DEF AccessInv, Granted, DeployedTo, AssumedStack
  <2> QED  BY <2>1, <2>2, <2>3 DEF AccessInv
<1>10. ASSUME WriteLogStack PROVE AccessInv'
  <2>1. UNCHANGED <<accountOf, logKind, logged, aspects, statements>>
        /\ logPhase = "prepared" /\ logPhase' = "written"
    BY <1>10 DEF WriteLogStack
  <2> QED  BY <2>1 DEF AccessInv, Granted, DeployedTo, AssumedStack
<1>11. ASSUME UNCHANGED awsLogs PROVE AccessInv'
  BY <1>5, <1>11 DEF awsLogs
<1> QED
  BY <1>1, <1>2, <1>3, <1>4, <1>6, <1>7, <1>8, <1>9, <1>10, <1>11 DEF AwsLogsNext

\* However many aspects are added, on the app or on stacks, in whatever order they and the
\* buckets come (s3-buckets/s3-access-logs-bucket.ts): the first bucket that an aspect
\* changes adds its statement, and the last word about a bucket is that of an aspect whose
\* statement names the account assumed of the bucket, which is the bucket's own but for a
\* stack that knows no account beside logs of an account that is not the deployer's.
THEOREM LogsAlwaysDelivered == AwsLogsSpec => []LogsMayBeDelivered
<1>1. AccessInv => LogsMayBeDelivered
  <2> SUFFICES ASSUME AccessInv, logPhase = "written",
                      NEW b \in DOMAIN logged, logged[b].logging.call # 0,
                      ~AssumedWrongly(logged[b].stack)
               PROVE  \E statement \in statements :
                         /\ statement.prefix \in {"", logged[b].logging.prefix}
                         /\ DeployedTo(logged[b].stack) \in statement.accounts
    BY DEF LogsMayBeDelivered
  <2> DEFINE i == logged[b].logging.call
  <2>1. /\ i \in DOMAIN aspects
        /\ logged[b].logging.prefix = aspects[i].prefix
        /\ DeployedTo(logged[b].stack) \in ToSet(aspects[i].accounts)
    <3>1. logged[b].stack \in DOMAIN accountOf /\ logKind # "none"
      BY DEF AccessInv, BucketStates
    <3> QED  BY <3>1, AssumedAccount DEF AccessInv, Granted
  <2>2. aspects[i].accounts # <<>>
    BY <2>1 DEF ToSet
  <2>3. [prefix |-> aspects[i].prefix, accounts |-> GrantedAccounts(aspects[i].accounts)] \in statements
    BY <2>1, <2>2 DEF AccessInv
  <2> QED  BY <2>1, <2>3 DEF GrantedAccounts
<1> QED  BY AccessInit, AccessStep, <1>1, PTL DEF AwsLogsSpec

-----------------------------------------------------------------------------
(***************************************************************************)
(* Tables of logs.  What a program leaves open is produced once it is      *)
(* complete; that each of the seven tables finds what a service writes,    *)
(* and has what its queries name, is a fact about constants.               *)
(***************************************************************************)

\* The values that are left open are produced of what the program has built:
\* the accounts of its stacks, and the format with all fields.
LogsInv ==
    /\ logPhase \in {"building", "visiting", "prepared", "written"}
    /\ logKind \in DOMAIN TableOfKind \cup {"none"}
    /\ logPhase # "building" => logKind # "none"
    /\ flowFormat \in Seq(ToSet(flowFormat))
    /\ saved # {} => /\ logKind # "none" /\ saved \subseteq DOMAIN TableOfKind[logKind].queries
                     /\ logKind = "flow" => FlowColumns \subseteq ToSet(flowFormat)
    /\ logPhase \in {"building", "visiting"} => flowColumns = Unresolved
    /\ logPhase \in {"prepared", "written"} =>
         /\ projected = ProjectedAccounts(accountOf)
         /\ flowColumns = flowFormat /\ flowTemplate = flowFormat

\* The kinds of logs.
LEMMA KindsOfLogs ==
    DOMAIN TableOfKind = {"alb", "cloudfront", "cloudtrail", "flow", "s3access", "ses", "waf"}
BY DEF TableOfKind

LEMMA LogsInit == AwsLogsInit => LogsInv
BY AwsLogsAssumption, KindsOfLogs DEF AwsLogsInit, LogsInv

LEMMA LogsStep == LogsInv /\ [AwsLogsNext]_awsLogs => LogsInv'
<1> SUFFICES ASSUME LogsInv, [AwsLogsNext]_awsLogs PROVE LogsInv'
  OBVIOUS
<1> USE DEF logProgram, logRendering
<1>1. ASSUME UNCHANGED <<logKind, saved, flowFormat, logPhase, logRendering>>,
             accountOf' = accountOf \/ logPhase \in {"building", "visiting"}
      PROVE  LogsInv'
  BY <1>1 DEF LogsInv, ProjectedAccounts, DeployedTo
<1>2. ASSUME AddLogStack PROVE LogsInv'
  <2>1. /\ logPhase = "building" /\ logPhase' = "building" /\ UNCHANGED <<flowFormat, flowColumns>>
        /\ logKind' \in DOMAIN TableOfKind
    BY <1>2 DEF AddLogStack
  <2>2. PICK create \in BOOLEAN : saved' = SavedQueries(logKind', create, flowFormat)
    BY <1>2 DEF AddLogStack
  <2>3. saved' # {} => /\ saved' \subseteq DOMAIN TableOfKind[logKind'].queries
                       /\ logKind' = "flow" => FlowColumns \subseteq ToSet(flowFormat)
    BY <2>2 DEF SavedQueries
  <2>4. logKind' # "none"
    BY <2>1, KindsOfLogs
  <2> QED  BY <2>1, <2>3, <2>4 DEF LogsInv
<1>3. ASSUME NEW s \in OtherStacks, AddStack(s) PROVE LogsInv'
  BY <1>1, <1>3 DEF AddStack
<1>4. ASSUME NEW b \in Buckets, AddBucket(b) PROVE LogsInv'
  BY <1>1, <1>4 DEF AddBucket
<1>5. ASSUME AddLoggingAspect PROVE LogsInv'
  BY <1>1, <1>5 DEF AddLoggingAspect
<1>6. ASSUME NEW f \in Fields, AddField(f) PROVE LogsInv'
  <2> DEFINE new == Append(flowFormat, f)
  <2>1. /\ logPhase \in {"building", "visiting"} /\ logKind = "flow"
        /\ UNCHANGED <<logKind, saved, logPhase, logRendering>> /\ flowFormat' = new
    BY <1>6 DEF AddField
  <2>2. ToSet(new) = ToSet(flowFormat) \cup {f} /\ new \in Seq(ToSet(flowFormat) \cup {f})
    <3> DEFINE S == ToSet(flowFormat) \cup {f}
    <3>1. flowFormat \in Seq(ToSet(flowFormat)) /\ flowFormat \in Seq(S)
      BY DEF LogsInv
    <3>2. f \in S
      OBVIOUS
    <3> HIDE DEF S
    <3>3. ToSet(new) = ToSet(flowFormat) \cup {f} /\ new \in Seq(S)
      BY <3>1, <3>2, AppendedToSet
    <3> QED  BY <3>3 DEF S
  <2> HIDE DEF new
  <2>3. FlowColumns \subseteq ToSet(flowFormat) => FlowColumns \subseteq ToSet(flowFormat')
    BY <2>1, <2>2
  <2> QED  BY <2>1, <2>2, <2>3 DEF LogsInv
<1>7. ASSUME BeginAspects PROVE LogsInv'
  BY <1>7 DEF BeginAspects, LogsInv
<1>8. ASSUME NEW b \in DOMAIN logged, NEW i \in DOMAIN aspects, Visit(b, i) PROVE LogsInv'
  BY <1>1, <1>8 DEF Visit
<1>9. ASSUME Prepare PROVE LogsInv'
  BY <1>9 DEF Prepare, LogsInv, StorageDescriptor, ProjectedAccounts, DeployedTo
<1>10. ASSUME WriteLogStack PROVE LogsInv'
  BY <1>10 DEF WriteLogStack, LogsInv, StorageDescriptor, ProjectedAccounts, DeployedTo
<1>11. ASSUME UNCHANGED awsLogs PROVE LogsInv'
  BY <1>1, <1>11 DEF awsLogs
<1> QED
  BY <1>2, <1>3, <1>4, <1>5, <1>6, <1>7, <1>8, <1>9, <1>10, <1>11 DEF AwsLogsNext

-----------------------------------------------------------------------------
\* A table whose projections hold an account finds that account's logs, for every kind.
LEMMA TablesFind ==
    ASSUME NEW k \in DOMAIN TableOfKind, NEW a \in projected
    PROVE  Finds(k, LogPath(k, a))
<1>1. ASSUME NEW name, k \in {"alb", "cloudtrail", "flow"},
             TableOfKind[k].template = ServiceTemplate, TableOfKind[k].keys = ServiceKeys,
             TableOfKind[k].logname = name,
             LogPath(k, a) = <<"AWSLogs", a, name, "region", "date">>
      PROVE  Finds(k, LogPath(k, a))
  <2> DEFINE path == <<"AWSLogs", a, name, "region", "date">>
  <2>1. Len(ServiceTemplate) = 5 /\ DOMAIN ServiceTemplate = 1 .. 5 /\ Len(path) = 5
    BY DEF ServiceTemplate
  <2>2. /\ ServiceTemplate[1] = [key |-> FALSE, is |-> "AWSLogs"]
        /\ ServiceTemplate[2] = [key |-> TRUE, is |-> "source"]
        /\ ServiceTemplate[3] = [key |-> TRUE, is |-> "logname"]
        /\ ServiceTemplate[4] = [key |-> TRUE, is |-> "regionname"]
        /\ ServiceTemplate[5] = [key |-> TRUE, is |-> "day"]
    BY DEF ServiceTemplate, Literal, Key
  <2>3. /\ path[1] = "AWSLogs" /\ path[2] = a /\ path[3] = name /\ path[4] = "region"
        /\ path[5] = "date"
    OBVIOUS
  <2> HIDE DEF path
  <2>4. /\ a \in ValuesOf(k, "source") /\ name \in ValuesOf(k, "logname")
        /\ "region" \in ValuesOf(k, "regionname") /\ "date" \in ValuesOf(k, "day")
    BY <1>1 DEF ValuesOf
  <2>5. {"source", "logname", "regionname", "day"} \subseteq ServiceKeys
    BY DEF ServiceKeys
  <2>6. Finds(k, path)
    <3>1. ASSUME NEW i \in 1 .. 5
          PROVE  IF ServiceTemplate[i].key
                 THEN ServiceTemplate[i].is \in ServiceKeys /\ path[i] \in ValuesOf(k, ServiceTemplate[i].is)
                 ELSE path[i] = ServiceTemplate[i].is
      <4>1. i = 1 \/ i = 2 \/ i = 3 \/ i = 4 \/ i = 5
        OBVIOUS
      <4> QED  BY <2>2, <2>3, <2>4, <2>5, <4>1
    <3> QED  BY <1>1, <2>1, <3>1 DEF Finds
  <2> QED  BY <1>1, <2>6 DEF path
<1>2. CASE k = "alb"
  BY <1>1, <1>2 DEF TableOfKind, AlbTable, LogTable, LogPath
<1>3. CASE k = "cloudtrail"
  BY <1>1, <1>3 DEF TableOfKind, CloudtrailTable, LogTable, LogPath
<1>4. CASE k = "flow"
  BY <1>1, <1>4 DEF TableOfKind, FlowTable, LogTable, LogPath
<1>5. CASE k = "waf"
  <2>1. /\ TableOfKind[k].template = WafTemplate /\ TableOfKind[k].keys = {"account", "region"}
        /\ LogPath(k, a) = <<"AWSLogs", a, "WAFLogs", "region", "acl">>
    BY <1>5 DEF TableOfKind, WafTable, LogTable, LogPath
  <2>2. /\ Len(WafTemplate) = 4 /\ DOMAIN WafTemplate = 1 .. 4
        /\ WafTemplate[1] = [key |-> FALSE, is |-> "AWSLogs"]
        /\ WafTemplate[2] = [key |-> TRUE, is |-> "account"]
        /\ WafTemplate[3] = [key |-> FALSE, is |-> "WAFLogs"]
        /\ WafTemplate[4] = [key |-> TRUE, is |-> "region"]
    BY DEF WafTemplate, Literal, Key
  <2> DEFINE path == <<"AWSLogs", a, "WAFLogs", "region", "acl">>
  <2>3. /\ Len(path) = 5 /\ path[1] = "AWSLogs" /\ path[2] = a /\ path[3] = "WAFLogs"
        /\ path[4] = "region"
    OBVIOUS
  <2> HIDE DEF path
  <2>4. a \in ValuesOf(k, "account") /\ "region" \in ValuesOf(k, "region")
    BY DEF ValuesOf
  <2>5. ASSUME NEW i \in 1 .. 4
        PROVE  IF WafTemplate[i].key
               THEN WafTemplate[i].is \in {"account", "region"} /\ path[i] \in ValuesOf(k, WafTemplate[i].is)
               ELSE path[i] = WafTemplate[i].is
    <3>1. i = 1 \/ i = 2 \/ i = 3 \/ i = 4
      OBVIOUS
    <3> QED  BY <2>2, <2>3, <2>4, <3>1
  <2>6. Finds(k, path)
    BY <2>1, <2>2, <2>3, <2>5 DEF Finds
  <2> QED  BY <2>1, <2>6 DEF path
<1>6. CASE k = "ses"
  <2>1. /\ TableOfKind[k].template = <<Key("day")>> /\ TableOfKind[k].keys = {"day"}
        /\ LogPath(k, a) = <<"date">>
    BY <1>6 DEF TableOfKind, SesTable, LogTable, LogPath
  <2>2. "date" \in ValuesOf(k, "day")
    BY DEF ValuesOf
  <2> QED  BY <2>1, <2>2 DEF Finds, Key
<1>7. CASE k \in {"cloudfront", "s3access"}
  <2>1. TableOfKind[k].template = <<>> /\ LogPath(k, a) = <<"object">>
    BY <1>7 DEF TableOfKind, CloudfrontTable, S3AccessTable, LogTable, LogPath
  <2> QED  BY <2>1 DEF Finds
<1> QED  BY <1>2, <1>3, <1>4, <1>5, <1>6, <1>7, KindsOfLogs

\* In whatever order stacks are added and whichever know their account
\* (glue-tables/*.ts, projections): the table of the logs finds those of every account.
THEOREM LogsAlwaysFound == AwsLogsSpec => []LogsAreFound
<1>1. AccessInv /\ LogsInv => LogsAreFound
  <2> SUFFICES ASSUME AccessInv, LogsInv, logPhase = "written", NEW s \in DOMAIN accountOf,
                      s = LogStack \/ (accountOf[s] # Agnostic /\ accountOf[LogStack] # Agnostic)
               PROVE  Finds(logKind, LogPath(logKind, DeployedTo(s)))
    BY DEF LogsAreFound
  <2>1. logKind \in DOMAIN TableOfKind /\ LogStack \in DOMAIN accountOf
    BY DEF LogsInv, AccessInv
  <2>2. DeployedTo(s) \in projected
    BY <2>1 DEF LogsInv, ProjectedAccounts, DeployedTo
  <2> QED  BY <2>1, <2>2, TablesFind
<1> QED  BY AccessInit, AccessStep, LogsInit, LogsStep, <1>1, PTL DEF AwsLogsSpec

-----------------------------------------------------------------------------
\* More names lead to more columns.
LEMMA MoreColumns ==
    \A A, B : A \subseteq B => /\ Basic(A) \subseteq Basic(B)
                               /\ \A n : Struct(n, A) \subseteq Struct(n, B)
BY DEF Basic, Struct

\* The saved queries of each kind name columns and keys of its table.
LEMMA AlbAnswers ==
    \A q \in DOMAIN AlbQueries : AlbQueries[q] \subseteq AlbColumns \cup Basic(ServiceKeys)
<1>1. DOMAIN AlbQueries = {"topIps", "status5xx"}
  BY DEF AlbQueries
<1>2. AlbQueries.topIps \subseteq AlbColumns \cup Basic(ServiceKeys)
  BY DEF AlbQueries, AlbColumns, ServiceKeys, Basic
<1>3. AlbQueries.status5xx \subseteq AlbColumns \cup Basic(ServiceKeys)
  BY DEF AlbQueries, AlbColumns, ServiceKeys, Basic
<1> QED  BY <1>1, <1>2, <1>3

LEMMA CloudfrontAnswers ==
    \A q \in DOMAIN CloudfrontQueries : CloudfrontQueries[q] \subseteq CloudfrontColumns
<1>1. DOMAIN CloudfrontQueries =
         {"distributionStatistics", "requestErrors", "topIps", "topObjects"}
  BY DEF CloudfrontQueries
<1>2. CloudfrontQueries.distributionStatistics \subseteq CloudfrontColumns
  BY DEF CloudfrontQueries, CloudfrontColumns, Basic
<1>3. CloudfrontQueries.requestErrors \subseteq CloudfrontColumns
  BY DEF CloudfrontQueries, CloudfrontColumns, Basic
<1>4. CloudfrontQueries.topIps \subseteq CloudfrontColumns
  BY DEF CloudfrontQueries, CloudfrontColumns, Basic
<1>5. CloudfrontQueries.topObjects \subseteq CloudfrontColumns
  BY DEF CloudfrontQueries, CloudfrontColumns, Basic
<1> QED  BY <1>1, <1>2, <1>3, <1>4, <1>5

LEMMA CloudtrailAnswers ==
    \A q \in DOMAIN CloudtrailQueries :
        CloudtrailQueries[q] \subseteq CloudtrailColumns \cup Basic(ServiceKeys)
<1>1. DOMAIN CloudtrailQueries = {"unauthorized", "userLogins"}
  BY DEF CloudtrailQueries
<1>2. \A names : names \subseteq {"type", "principalid", "arn", "accountid", "invokedby", "accesskeyid", "username"}
         => Struct("useridentity", Basic(names)) \subseteq CloudtrailColumns
  <2> DEFINE known == {"type", "principalid", "arn", "accountid", "invokedby", "accesskeyid", "username"}
             more == Struct("sessioncontext",
                         Struct("attributes", Basic({"mfaauthenticated", "creationdate"}))
                         \cup Struct("sessionissuer",
                                  Basic({"type", "principalid", "arn", "accountid", "username"})))
  <2>1. UserIdentity = Struct("useridentity", Basic(known) \cup more)
    BY DEF UserIdentity
  <2>2. UserIdentity \subseteq CloudtrailColumns
    BY DEF CloudtrailColumns
  <2> HIDE DEF known, more
  <2>3. \A names : names \subseteq known => Basic(names) \subseteq Basic(known) \cup more
    BY MoreColumns
  <2>4. \A names : names \subseteq known => Struct("useridentity", Basic(names)) \subseteq UserIdentity
    BY <2>1, <2>3, MoreColumns
  <2> QED  BY <2>2, <2>4 DEF known
<1>3. /\ Struct("useridentity", Basic({"accountid"})) \subseteq CloudtrailColumns
      /\ Struct("useridentity", Basic({"arn"})) \subseteq CloudtrailColumns
      /\ Struct("useridentity", Basic({"username"})) \subseteq CloudtrailColumns
  BY <1>2
<1>4. Basic({"eventtime", "eventsource", "eventname", "awsregion", "day"})
         \subseteq CloudtrailColumns \cup Basic(ServiceKeys)
  BY DEF CloudtrailColumns, ServiceKeys, Basic
<1>5. Basic({"recipientaccountid", "errormessage", "errorcode", "requestparameters"})
         \subseteq CloudtrailColumns
  BY DEF CloudtrailColumns, Basic
<1>6. CloudtrailQueries.unauthorized \subseteq CloudtrailColumns \cup Basic(ServiceKeys)
  BY <1>3, <1>4, <1>5 DEF CloudtrailQueries
<1>7. CloudtrailQueries.userLogins \subseteq CloudtrailColumns \cup Basic(ServiceKeys)
  BY <1>3, <1>4 DEF CloudtrailQueries
<1> QED  BY <1>1, <1>6, <1>7

LEMMA S3AccessAnswers ==
    \A q \in DOMAIN S3AccessQueries : S3AccessQueries[q] \subseteq S3AccessColumns
<1>1. DOMAIN S3AccessQueries = {"requestErrors"}
  BY DEF S3AccessQueries
<1>2. S3AccessQueries.requestErrors \subseteq S3AccessColumns
  BY DEF S3AccessQueries, S3AccessColumns, Basic
<1> QED  BY <1>1, <1>2

LEMMA SesAnswers ==
    \A q \in DOMAIN SesQueries : SesQueries[q] \subseteq SesColumns \cup Basic({"day"})
<1>1. DOMAIN SesQueries = {"bounces", "complaints"}
  BY DEF SesQueries
<1>2. Basic({"eventtype", "day"}) \subseteq SesColumns \cup Basic({"day"})
  BY DEF SesColumns, Basic
<1>3. Struct("mail", Struct("commonheaders", Basic({"subject", "from", "to"}))) \subseteq SesMail
  <2>1. Basic({"subject", "from", "to"}) \subseteq Basic({"from", "to", "messageid", "subject"})
    BY MoreColumns
  <2>2. Struct("commonheaders", Basic({"subject", "from", "to"}))
           \subseteq Struct("commonheaders", Basic({"from", "to", "messageid", "subject"}))
    BY <2>1, MoreColumns
  <2> DEFINE some == Struct("commonheaders", Basic({"subject", "from", "to"}))
             all == Basic({"timestamp", "source", "sourcearn", "sendingaccountid", "messageid", "destination",
                           "headerstruncated"})
                    \cup Struct("headers", Basic({"name", "value"}))
                    \cup Struct("commonheaders", Basic({"from", "to", "messageid", "subject"}))
                    \cup Struct("tags", Basic({"ses_configurationset", "ses_source_ip", "ses_outgoing_ip",
                                               "ses_from_domain", "ses_caller_identity"}))
  <2>3. some \subseteq all
    BY <2>2
  <2>4. SesMail = Struct("mail", all)
    BY DEF SesMail
  <2> HIDE DEF some, all
  <2>5. Struct("mail", some) \subseteq SesMail
    BY <2>3, <2>4, MoreColumns
  <2> QED  BY <2>5 DEF some
<1>4. Struct("bounce", Basic({"timestamp", "bouncetype", "bouncesubtype", "feedbackid"})
                       \cup Struct("bouncedrecipients", Basic({"emailaddress", "diagnosticcode"})))
         \subseteq SesBounce
  <2>1. /\ Basic({"timestamp", "bouncetype", "bouncesubtype", "feedbackid"})
             \subseteq Basic({"bouncesubtype", "bouncetype", "feedbackid", "reportingmta", "timestamp"})
        /\ Basic({"emailaddress", "diagnosticcode"})
             \subseteq Basic({"action", "diagnosticcode", "emailaddress", "status"})
    BY MoreColumns
  <2>2. Struct("bouncedrecipients", Basic({"emailaddress", "diagnosticcode"}))
           \subseteq Struct("bouncedrecipients", Basic({"action", "diagnosticcode", "emailaddress", "status"}))
    BY <2>1, MoreColumns
  <2> DEFINE some == Basic({"timestamp", "bouncetype", "bouncesubtype", "feedbackid"})
                     \cup Struct("bouncedrecipients", Basic({"emailaddress", "diagnosticcode"}))
             all == Basic({"bouncesubtype", "bouncetype", "feedbackid", "reportingmta", "timestamp"})
                    \cup Struct("bouncedrecipients",
                                Basic({"action", "diagnosticcode", "emailaddress", "status"}))
  <2>3. some \subseteq all
    BY <2>1, <2>2
  <2>4. SesBounce = Struct("bounce", all)
    BY DEF SesBounce
  <2> HIDE DEF some, all
  <2>5. Struct("bounce", some) \subseteq SesBounce
    BY <2>3, <2>4, MoreColumns
  <2> QED  BY <2>5 DEF some
<1>5. Struct("complaint", Basic({"arrivaldate", "complaintfeedbacktype", "useragent", "feedbackid"})
                          \cup Struct("complainedrecipients", Basic({"emailaddress"})))
         \subseteq SesComplaint
  <2>1. Basic({"arrivaldate", "complaintfeedbacktype", "useragent", "feedbackid"})
           \subseteq Basic({"arrivaldate", "complaintfeedbacktype", "feedbackid", "timestamp", "useragent"})
    BY MoreColumns
  <2> QED  BY <2>1, MoreColumns DEF SesComplaint
<1>6. SesMail \subseteq SesColumns /\ SesBounce \subseteq SesColumns /\ SesComplaint \subseteq SesColumns
  BY DEF SesColumns
<1>7. SesQueries.bounces \subseteq SesColumns \cup Basic({"day"})
  BY <1>2, <1>3, <1>4, <1>6 DEF SesQueries
<1>8. SesQueries.complaints \subseteq SesColumns \cup Basic({"day"})
  BY <1>2, <1>3, <1>5, <1>6 DEF SesQueries
<1> QED  BY <1>1, <1>7, <1>8

\* The query of flow logs, for a format that has its columns.
LEMMA FlowAnswers ==
    ASSUME NEW fields, FlowColumns \subseteq fields
    PROVE  \A q \in DOMAIN FlowQueries : FlowQueries[q] \subseteq Basic(fields) \cup Basic(ServiceKeys)
<1>1. DOMAIN FlowQueries = {"internalRejected"}
  BY DEF FlowQueries
<1>2. Basic(FlowColumns \cup {"day"}) \subseteq Basic(fields) \cup Basic(ServiceKeys)
  BY DEF Basic, ServiceKeys
<1> QED  BY <1>1, <1>2 DEF FlowQueries

\* However late fields are added to the format of flow logs (glue-tables/flow-logs-table.ts,
\* ec2/flow-log.ts): the table has the columns of what is written, and a query that was
\* saved finds the columns and keys that it names.
THEOREM QueriesAlwaysFindRows == AwsLogsSpec => []QueriesFindRows
<1>1. LogsInv => QueriesFindRows
  <2> SUFFICES ASSUME LogsInv, logPhase = "written" PROVE QueriesFindRows
    BY DEF QueriesFindRows, RowsFitColumns, QueriesAreAnswerable
  <2>1. RowsFitColumns
    BY DEF LogsInv, RowsFitColumns
  <2>2. ASSUME NEW q \in saved
        PROVE  TableOfKind[logKind].queries[q] \subseteq ColumnsOf(logKind) \cup Basic(TableOfKind[logKind].keys)
    <3>1. q \in DOMAIN TableOfKind[logKind].queries /\ logKind \in DOMAIN TableOfKind
      BY <2>2 DEF LogsInv
    <3>2. CASE logKind = "alb"
      BY <3>1, <3>2, AlbAnswers DEF TableOfKind, AlbTable, LogTable, ColumnsOf
    <3>3. CASE logKind = "cloudfront"
      BY <3>1, <3>3, CloudfrontAnswers DEF TableOfKind, CloudfrontTable, LogTable, ColumnsOf
    <3>4. CASE logKind = "cloudtrail"
      BY <3>1, <3>4, CloudtrailAnswers DEF TableOfKind, CloudtrailTable, LogTable, ColumnsOf
    <3>5. CASE logKind = "flow"
      <4>1. FlowColumns \subseteq ToSet(flowColumns)
        BY <2>2, <3>5 DEF LogsInv
      <4>2. /\ TableOfKind[logKind].queries = FlowQueries /\ TableOfKind[logKind].keys = ServiceKeys
            /\ ColumnsOf(logKind) = Basic(ToSet(flowColumns))
        BY <3>5 DEF TableOfKind, FlowTable, LogTable, ColumnsOf
      <4> QED  BY <3>1, <4>1, <4>2, FlowAnswers
    <3>6. CASE logKind = "s3access"
      BY <3>1, <3>6, S3AccessAnswers DEF TableOfKind, S3AccessTable, LogTable, ColumnsOf
    <3>7. CASE logKind = "ses"
      BY <3>1, <3>7, SesAnswers DEF TableOfKind, SesTable, LogTable, ColumnsOf
    <3>8. CASE logKind = "waf"
      BY <3>1, <3>8 DEF TableOfKind, WafTable, LogTable
    <3> QED  BY <3>1, <3>2, <3>3, <3>4, <3>5, <3>6, <3>7, <3>8, KindsOfLogs
  <2> QED  BY <2>1, <2>2 DEF QueriesFindRows, QueriesAreAnswerable
<1> QED  BY LogsInit, LogsStep, <1>1, PTL DEF AwsLogsSpec

-----------------------------------------------------------------------------
(***************************************************************************)
(* The document of an alert manager.  Everything that a route names is     *)
(* there when the route is added, nothing is ever taken away, and the      *)
(* document is made of one state of the lists: so a document that has been *)
(* read is complete, whatever comes after it.                              *)
(***************************************************************************)

\* Routes whose receivers, times and parents are among those given.
RoutesAmong(rs, names, times) ==
    /\ rs \in [DOMAIN rs -> [parent : DOMAIN rs \cup {""}, receiver : names, times : SUBSET times]]
    /\ \A id \in DOMAIN rs : id # "root" => rs[id].parent \in DOMAIN rs

Complete(contents) == RoutesAmong(contents.routes, contents.receivers, contents.intervals)

\* The lists of the program are complete, and so is what has been kept of them.
CompleteInv ==
    /\ RoutesAmong(routes, receivers, intervals)
    /\ kept # Unread => Complete(kept)
    /\ DocumentIsClosed

-----------------------------------------------------------------------------
LEMMA ContentsComplete ==
    RoutesAmong(routes, receivers, intervals) <=> Complete(Contents)
BY DEF Complete, Contents

\* More names leave complete routes complete.
LEMMA MoreNames ==
    ASSUME NEW rs, NEW names, NEW times, NEW more, NEW later,
           RoutesAmong(rs, names, times), names \subseteq more, times \subseteq later
    PROVE  RoutesAmong(rs, more, later)
<1>1. ASSUME NEW id \in DOMAIN rs
      PROVE  rs[id] \in [parent : DOMAIN rs \cup {""}, receiver : more, times : SUBSET later]
  <2>1. rs[id] \in [parent : DOMAIN rs \cup {""}, receiver : names, times : SUBSET times]
    BY DEF RoutesAmong
  <2> QED  BY <2>1
<1>2. rs = [id \in DOMAIN rs |-> rs[id]]
  BY DEF RoutesAmong
<1> QED  BY <1>1, <1>2 DEF RoutesAmong

\* A route with a known receiver below a known parent.
LEMMA OneMoreRoute ==
    ASSUME NEW rs, NEW names, NEW times, RoutesAmong(rs, names, times),
           NEW id, id \notin DOMAIN rs, NEW parent \in DOMAIN rs, NEW receiver \in names
    PROVE  RoutesAmong(Extended(rs, id, Route(parent, receiver)), names, times)
<1> DEFINE new == Extended(rs, id, Route(parent, receiver))
<1>1. DOMAIN new = DOMAIN rs \cup {id}
  BY DEF Extended
<1>2. \A x \in DOMAIN rs : new[x] = rs[x]
  BY DEF Extended
<1>3. new[id] = [parent |-> parent, receiver |-> receiver, times |-> {}]
  BY DEF Extended, Route
<1>4. new = [x \in DOMAIN new |-> new[x]]
  BY DEF Extended
<1> HIDE DEF new
<1>5. ASSUME NEW x \in DOMAIN new
      PROVE  /\ new[x] \in [parent : DOMAIN new \cup {""}, receiver : names, times : SUBSET times]
             /\ x # "root" => new[x].parent \in DOMAIN new
  <2>1. CASE x = id
    <3>1. [parent |-> parent, receiver |-> receiver, times |-> {}] \in
             [parent : DOMAIN new \cup {""}, receiver : names, times : SUBSET times]
      BY <1>1
    <3>2. new[x].parent = parent
      BY <1>3, <2>1
    <3> QED  BY <1>1, <1>3, <2>1, <3>1, <3>2
  <2>2. CASE x # id
    <3>1. x \in DOMAIN rs  BY <1>1, <2>2
    <3>2. rs[x] \in [parent : DOMAIN rs \cup {""}, receiver : names, times : SUBSET times]
      BY <3>1 DEF RoutesAmong
    <3>3. x # "root" => rs[x].parent \in DOMAIN rs
      BY <3>1 DEF RoutesAmong
    <3> QED  BY <1>1, <1>2, <3>1, <3>2, <3>3
  <2> QED  BY <2>1, <2>2
<1>6. RoutesAmong(new, names, times)
  BY <1>4, <1>5 DEF RoutesAmong
<1> QED  BY <1>6 DEF new

\* A known time for a known route.
LEMMA OneMoreTime ==
    ASSUME NEW rs, NEW names, NEW times, RoutesAmong(rs, names, times),
           NEW id \in DOMAIN rs, NEW name \in times
    PROVE  RoutesAmong([rs EXCEPT ![id].times = @ \cup {name}], names, times)
<1> DEFINE new == [rs EXCEPT ![id].times = @ \cup {name}]
<1>1. rs \in [DOMAIN rs -> [parent : DOMAIN rs \cup {""}, receiver : names, times : SUBSET times]]
  BY DEF RoutesAmong
<1>2. new \in [DOMAIN rs -> [parent : DOMAIN rs \cup {""}, receiver : names, times : SUBSET times]]
  BY <1>1
<1>3. \A x \in DOMAIN rs : new[x].parent = rs[x].parent
  BY <1>1
<1>4. DOMAIN new = DOMAIN rs
  OBVIOUS
<1> HIDE DEF new
<1>5. RoutesAmong(new, names, times)
  BY <1>2, <1>3, <1>4 DEF RoutesAmong
<1> QED  BY <1>5 DEF new

\* A document that is made of complete lists is closed.
LEMMA CompleteDocuments ==
    ASSUME NEW contents, Complete(contents), document' = Document(contents)
    PROVE  DocumentIsClosed'
<1>1. \A id \in DOMAIN contents.routes :
         contents.routes[id] \in
            [parent : DOMAIN contents.routes \cup {""}, receiver : contents.receivers,
             times : SUBSET contents.intervals]
  BY DEF Complete, RoutesAmong
<1>2. /\ document'.routes = contents.routes
      /\ document'.receivers = contents.receivers
      /\ document'.intervals = contents.intervals
      /\ document'.names = document'.files
  BY DEF Document, Children
<1> QED  BY <1>1, <1>2 DEF DocumentIsClosed, NamesDefined, Complete, RoutesAmong

-----------------------------------------------------------------------------
LEMMA CompleteInit == AlertManagerInit => CompleteInv
<1> SUFFICES ASSUME AlertManagerInit PROVE CompleteInv
  OBVIOUS
<1>1. RoutesAmong(routes, receivers, intervals)
  BY DEF AlertManagerInit, RoutesAmong, Route
<1>2. DocumentIsClosed
  BY DEF AlertManagerInit, DocumentIsClosed
<1> QED  BY <1>1, <1>2 DEF CompleteInv, AlertManagerInit

LEMMA CompleteStep == CompleteInv /\ [AlertManagerNext]_alertManager => CompleteInv'
<1> SUFFICES ASSUME CompleteInv, [AlertManagerNext]_alertManager PROVE CompleteInv'
  OBVIOUS
<1> USE DEF CompleteInv
<1>1. ASSUME UNCHANGED <<kept, document>>, RoutesAmong(routes, receivers, intervals)' PROVE CompleteInv'
  BY <1>1 DEF DocumentIsClosed, NamesDefined
<1>2. ASSUME NEW name \in ReceiverNames, AddReceiver(name) PROVE CompleteInv'
  BY <1>1, <1>2, MoreNames DEF AddReceiver
<1>3. ASSUME NEW name \in IntervalNames, AddTimeInterval(name) PROVE CompleteInv'
  BY <1>1, <1>3, MoreNames DEF AddTimeInterval
<1>4. ASSUME AddTemplate PROVE CompleteInv'
  BY <1>1, <1>4 DEF AddTemplate
<1>5. ASSUME NEW id \in RouteIds, NEW parent \in DOMAIN routes, NEW receiver \in receivers,
             AddChild(id, parent, receiver)
      PROVE  CompleteInv'
  BY <1>1, <1>5, OneMoreRoute DEF AddChild
<1>6. ASSUME NEW id \in DOMAIN routes, NEW name \in intervals, AddRouteTime(id, name)
      PROVE  CompleteInv'
  <2>1. RoutesAmong(routes, receivers, intervals)'
    <3>1. CASE routes' = [routes EXCEPT ![id].times = @ \cup {name}]
      BY <1>6, <3>1, OneMoreTime DEF AddRouteTime
    <3>2. CASE routes' = routes
      BY <1>6, <3>2 DEF AddRouteTime
    <3> QED  BY <1>6, <3>1, <3>2 DEF AddRouteTime
  <2> QED  BY <1>1, <1>6, <2>1 DEF AddRouteTime
<1>7. ASSUME NEW id \in RuleIds, NEW sides, AddInhibitRule(id, sides) PROVE CompleteInv'
  BY <1>1, <1>7 DEF AddInhibitRule
<1>8. ASSUME NEW id \in DOMAIN rules, NEW side, AddRuleMatcher(id, side) PROVE CompleteInv'
  BY <1>1, <1>8 DEF AddRuleMatcher
<1>9. ASSUME NEW then, RenderAlertManagerConfig(then) PROVE CompleteInv'
  <2> DEFINE contents == IF kept = Unread THEN Contents ELSE kept
  <2>1. Complete(contents)
    BY ContentsComplete
  <2>2. RoutesAmong(routes, receivers, intervals)'
    BY <1>9 DEF RenderAlertManagerConfig
  <2>3. kept' = contents
    BY <1>9 DEF RenderAlertManagerConfig
  <2>4. document' = Document(contents) \/ document' = document
    BY <1>9 DEF RenderAlertManagerConfig
  <2> HIDE DEF contents
  <2>5. (kept # Unread => Complete(kept))'
    BY <2>1, <2>3 DEF Complete
  <2>6. CASE document' = Document(contents)
    BY <2>1, <2>2, <2>5, <2>6, CompleteDocuments
  <2>7. CASE document' = document
    BY <2>2, <2>5, <2>7 DEF DocumentIsClosed, NamesDefined
  <2> QED  BY <2>4, <2>6, <2>7
<1>10. ASSUME UNCHANGED alertManager PROVE CompleteInv'
  BY <1>1, <1>10 DEF alertManager
<1> QED
  BY <1>2, <1>3, <1>4, <1>5, <1>6, <1>7, <1>8, <1>9, <1>10 DEF AlertManagerNext, Configure

\* Whatever is added while the document of an alert manager can already be read, in any
\* order (aps/lib/alert-manager/configuration.ts), a document that has been read has every
\* receiver, time interval, parent and file that it names.
THEOREM AlwaysClosed == AlertManagerSpec => []DocumentIsClosed
<1>1. CompleteInv => DocumentIsClosed
  BY DEF CompleteInv
<1> QED  BY CompleteInit, CompleteStep, <1>1, PTL DEF AlertManagerSpec

-----------------------------------------------------------------------------
(***************************************************************************)
(* Options.  An object's options are among those that its class offers,    *)
(* and what is deployed is rendered from them.  An edit arrives if the     *)
(* table of the class has a line for every option, and lets those entries  *)
(* that come from calls be written last; that the tables of the classes    *)
(* are of this kind is shown for each of them.                             *)
(***************************************************************************)

KeepsOptions(t) ==
    /\ \A o \in t.offers : \E key \in DOMAIN t.lines : o \in t.lines[key]
    /\ \A key \in DOMAIN t.lines : \A o \in t.lines[key] \cap t.calls : \A p \in t.lines[key] \ {o} :
         t.turn[p] < t.turn[o]

RenderingInv ==
    /\ class # "none" =>
         /\ class \in DOMAIN Tables
         /\ DOMAIN chosen \subseteq Tables[class].offers
         /\ chosen \in [DOMAIN chosen -> [at : Tables[class].offers, is : Values]]
         /\ deployed = Render(class, chosen)
    /\ class = "none" => edited = {}
    /\ EditsArrive

\* The option that nothing is written after decides its entry.
LEMMA LastDecides ==
    ASSUME NEW c \in DOMAIN Tables, NEW options, NEW key \in DOMAIN Tables[c].lines,
           NEW writers \in SUBSET Tables[c].lines[key], NEW o \in writers,
           \A p \in writers \ {o} : options[p].at = options[o].at =>
              o \in Tables[c].calls /\ Tables[c].turn[p] < Tables[c].turn[o]
    PROVE  LastToWrite(c, options, writers, options[o].at) = o
<1> DEFINE Latest(q) == /\ options[q].at = options[o].at
                        /\ \A p \in writers \ {q} :
                              options[p].at = options[o].at =>
                                 Tables[c].turn[p] < Tables[c].turn[q]
<1>1. Latest(o)
  OBVIOUS
<1>2. ASSUME NEW q \in writers, Latest(q), q # o PROVE FALSE
  <2>1. /\ o \in Tables[c].calls /\ Tables[c].turn[q] < Tables[c].turn[o]
        /\ Tables[c].turn[o] < Tables[c].turn[q]
    BY <1>2
  <2>2. {o, q} \subseteq DOMAIN Tables[c].turn
    BY <1>2, <2>1, TablesAssumption DEF KeyedOptions
  <2>3. Tables[c].turn[o] \in Nat /\ Tables[c].turn[q] \in Nat
    BY <2>2, TablesAssumption
  <2> QED  BY <2>1, <2>3
<1>3. LastToWrite(c, options, writers, options[o].at) = CHOOSE q \in writers : Latest(q)
  BY DEF LastToWrite
<1> HIDE DEF Latest
<1> QED  BY <1>1, <1>2, <1>3

\* An option that decides its entry is told from another value.
LEMMA EditIsRendered ==
    ASSUME NEW c \in DOMAIN Tables, KeepsOptions(Tables[c]), NEW options,
           options \in [DOMAIN options -> [at : Tables[c].offers, is : Values]],
           NEW o \in Tables[c].offers \cap DOMAIN options, NEW v \in Values, v # options[o].is,
           o \in Tables[c].calls \/ \A p \in DOMAIN options \ {o} : options[p].at # options[o].at
    PROVE  Render(c, [options EXCEPT ![o].is = v]) # Render(c, options)
<1> DEFINE new == [options EXCEPT ![o].is = v]
           lines == Tables[c].lines
           entry == options[o].at
<1>1. PICK key \in DOMAIN lines : o \in lines[key]
  BY DEF KeepsOptions
<1>2. /\ DOMAIN new = DOMAIN options /\ new[o].is = v
      /\ \A p \in DOMAIN options : new[p].at = options[p].at
  OBVIOUS
<1>3. ASSUME NEW any, DOMAIN any = DOMAIN options, \A p \in DOMAIN options : any[p].at = options[p].at
      PROVE  Render(c, any)[key][entry] = any[o].is
  <2> DEFINE writers == lines[key] \cap DOMAIN any
  <2>1. o \in writers /\ any[o].at = entry
    BY <1>1, <1>3
  <2>2. \A p \in writers \ {o} : any[p].at = any[o].at =>
           o \in Tables[c].calls /\ Tables[c].turn[p] < Tables[c].turn[o]
    BY <1>1, <1>3 DEF KeepsOptions
  <2>3. LastToWrite(c, any, writers, entry) = o
    <3>1. writers \in SUBSET lines[key]
      OBVIOUS
    <3> HIDE DEF writers
    <3>2. LastToWrite(c, any, writers, any[o].at) = o
      BY <1>1, <2>1, <2>2, <3>1, LastDecides
    <3> QED  BY <2>1, <3>2
  <2>4. Render(c, any)[key] =
           [e \in {any[p].at : p \in writers} |-> any[LastToWrite(c, any, writers, e)].is]
    BY <1>1, <2>1 DEF Render
  <2> QED  BY <2>1, <2>3, <2>4
<1> HIDE DEF new
<1>4. Render(c, new)[key][entry] = v /\ Render(c, options)[key][entry] = options[o].is
  BY <1>2, <1>3
<1>5. Render(c, new) # Render(c, options)
  BY <1>4
<1> QED  BY <1>5 DEF new

LEMMA RenderingStart == RenderingInit => RenderingInv
BY DEF RenderingInit, RenderingInv, EditsArrive

LEMMA RenderingStep ==
    ASSUME \A c \in DOMAIN Tables : KeepsOptions(Tables[c]), RenderingInv, [RenderingNext]_rendering
    PROVE  RenderingInv'
<1>1. ASSUME DeployObject PROVE RenderingInv'
  <2> PICK c \in DOMAIN Tables :
         \E o, p \in Tables[c].offers, minimal \in Minimal(c) :
            /\ class' = c
            /\ chosen' \in GivenOptions(c, minimal \cup {o, p})
            /\ deployed' = Render(c, chosen')
    BY <1>1 DEF DeployObject
  <2>1. PICK o \in Tables[c].offers, p \in Tables[c].offers, minimal \in Minimal(c) :
           /\ class' = c
           /\ chosen' \in GivenOptions(c, minimal \cup {o, p})
           /\ deployed' = Render(c, chosen')
    OBVIOUS
  <2>2. minimal \subseteq Tables[c].offers
    <3>1. \A alternatives \in Tables[c].requires : alternatives \subseteq Tables[c].offers
      BY TablesAssumption
    <3> QED  BY <3>1 DEF Minimal
  <2>3. \A q \in Tables[c].offers : Entries(c, q) \subseteq Tables[c].offers
    BY TablesAssumption DEF Entries
  <2>4. ASSUME NEW options \in SUBSET Tables[c].offers, chosen' \in GivenOptions(c, options)
        PROVE  DOMAIN chosen' = options /\ chosen' \in [options -> [at : Tables[c].offers, is : Values]]
    <3> DEFINE named == options \cap KeyedOptions(c)
               names == {at \in [named -> UNION {Entries(c, q) : q \in named}] :
                            \A q \in named : at[q] \in Entries(c, q)}
               ToGive(at, is) == [q \in options |-> [at |-> IF q \in named THEN at[q] ELSE q, is |-> is[q]]]
    <3>1. PICK at \in names, is \in [options -> Values] : chosen' = ToGive(at, is)
      <4>1. GivenOptions(c, options) = {ToGive(at, is) : at \in names, is \in [options -> Values]}
        BY DEF GivenOptions
      <4> HIDE DEF names, ToGive
      <4> QED  BY <2>4, <4>1
    <3>2. \A q \in options : (IF q \in named THEN at[q] ELSE q) \in Tables[c].offers
      BY <2>3
    <3> QED  BY <3>1, <3>2
  <2>5. edited' = {} /\ EditsArrive'
    BY <1>1 DEF DeployObject, RenderingInv, EditsArrive
  <2> QED  BY <2>1, <2>2, <2>4, <2>5 DEF RenderingInv
<1>2. ASSUME NEW o \in DOMAIN chosen, Edit(o) PROVE RenderingInv'
  <2>1. /\ class # "none" /\ class' = class /\ before' = deployed /\ deployed' = Render(class, chosen')
        /\ edited' = {o}
    BY <1>2 DEF Edit
  <2>2. PICK v \in Values \ {chosen[o].is} : chosen' = [chosen EXCEPT ![o].is = v]
    BY <1>2 DEF Edit
  <2>3. /\ DOMAIN chosen' = DOMAIN chosen
        /\ chosen' \in [DOMAIN chosen' -> [at : Tables[class].offers, is : Values]]
        /\ \A p \in DOMAIN chosen : chosen'[p].at = chosen[p].at
    BY <2>1, <2>2 DEF RenderingInv
  <2>4. deployed' # before' \/ GivenAgain(o)'
    <3>1. CASE o \in Tables[class].calls \/ \A p \in DOMAIN chosen \ {o} : chosen[p].at # chosen[o].at
      BY <2>1, <2>2, <3>1, EditIsRendered DEF RenderingInv
    <3>2. CASE o \notin Tables[class].calls /\ \E p \in DOMAIN chosen \ {o} : chosen[p].at = chosen[o].at
      BY <2>1, <2>3, <3>2 DEF GivenAgain
    <3> QED  BY <3>1, <3>2
  <2> QED  BY <2>1, <2>3, <2>4 DEF RenderingInv, EditsArrive
<1>3. ASSUME UNCHANGED rendering PROVE RenderingInv'
  BY <1>3 DEF rendering, RenderingInv, EditsArrive, GivenAgain
<1> QED  BY <1>1, <1>2, <1>3 DEF RenderingNext

-----------------------------------------------------------------------------
(***************************************************************************)
(* The tables, one by one.                                                 *)
(***************************************************************************)

\* A table in which no entry replaces another keeps the options that it has lines for.
LEMMA PlainTableKeeps ==
    ASSUME NEW offers, NEW requires, NEW lines,
           \A o \in offers : \E key \in DOMAIN lines : o \in lines[key]
    PROVE  KeepsOptions(OptionTable(offers, requires, lines))
BY DEF KeepsOptions, OptionTable

\* A match, and lines of one option each.
LEMMA MatchedTableKeeps ==
    ASSUME NEW offers, NEW requires, NEW lines, "Match" \notin DOMAIN lines,
           \A o \in offers : \E key \in DOMAIN lines : lines[key] = o
    PROVE  /\ KeepsOptions(FilterTable(offers, requires, lines))
           /\ KeepsOptions(OutputTable(offers, requires, lines))
<1> DEFINE all == Single([Match |-> "match"] ++ lines)
<1>1. ASSUME NEW o \in offers \cup {"match"} PROVE \E key \in DOMAIN all : o \in all[key]
  BY DEF Single, ++
<1> HIDE DEF all
<1>2. KeepsOptions(OptionTable(offers \cup {"match"}, requires, all))
  BY <1>1, PlainTableKeeps
<1> QED  BY <1>2 DEF all, FilterTable, OutputTable

LEMMA CloudWatchLogsKeeps == KeepsOptions(CloudWatchLogsTable)
<1>1. \A o \in CloudWatchLogsOptions : \E key \in DOMAIN CloudWatchLogsLines : CloudWatchLogsLines[key] = o
  BY DEF CloudWatchLogsOptions, CloudWatchLogsLines
<1> QED  BY <1>1, MatchedTableKeeps DEF CloudWatchLogsTable, CloudWatchLogsLines

LEMMA KinesisKeeps == KeepsOptions(KinesisTable)
<1>1. \A o \in KinesisOptions : \E key \in DOMAIN KinesisLines : KinesisLines[key] = o
  BY DEF KinesisOptions, KinesisLines
<1> QED  BY <1>1, MatchedTableKeeps DEF KinesisTable, KinesisLines

LEMMA KinesisFirehoseKeeps == KeepsOptions(KinesisFirehoseTable)
<1>1. \A o \in KinesisFirehoseOptions : \E key \in DOMAIN KinesisFirehoseLines : KinesisFirehoseLines[key] = o
  BY DEF KinesisFirehoseOptions, KinesisFirehoseLines
<1> QED  BY <1>1, MatchedTableKeeps DEF KinesisFirehoseTable, KinesisFirehoseLines

LEMMA KubernetesKeeps == KeepsOptions(KubernetesTable)
<1>1. \A o \in KubernetesMetadata : \E key \in DOMAIN KubernetesLines : KubernetesLines[key] = o
  BY DEF KubernetesMetadata, KubernetesLines
<1>2. \A o \in KubernetesLogs : \E key \in DOMAIN KubernetesLines : KubernetesLines[key] = o
  BY DEF KubernetesLogs, KubernetesLines
<1>3. "Match" \notin DOMAIN KubernetesLines
  BY DEF KubernetesLines
<1> QED  BY <1>1, <1>2, <1>3, MatchedTableKeeps DEF KubernetesTable

LEMMA NestKeeps == KeepsOptions(NestTable)
BY MatchedTableKeeps DEF NestTable

LEMMA ThrottleKeeps == KeepsOptions(ThrottleTable)
BY MatchedTableKeeps DEF ThrottleTable

LEMMA RecordModifierKeeps == KeepsOptions(RecordModifierTable)
BY MatchedTableKeeps DEF RecordModifierTable

LEMMA ParserFilterKeeps == KeepsOptions(ParserFilterTable)
BY MatchedTableKeeps DEF ParserFilterTable

\* Each function that makes a condition or an operation has the line of its key.
LEMMA ModifyKeeps == KeepsOptions(ModifyTable)
<1> DEFINE factories == ModifyConditions ++ ModifyOperations
           keys == {factories[f] : f \in DOMAIN factories}
           byKey == [key \in keys |-> {f \in DOMAIN factories : factories[f] = key}]
           lines == Single([Match |-> "match"]) ++ byKey
<1>1. "Match" \notin keys
  BY DEF ModifyConditions, ModifyOperations, ++
<1>2. ASSUME NEW o \in DOMAIN factories \cup {"match"} PROVE \E key \in DOMAIN lines : o \in lines[key]
  <2> HIDE DEF factories
  <2>1. CASE o = "match"
    <3>1. "Match" \in DOMAIN lines /\ lines["Match"] = {"match"}
      BY DEF Single, ++
    <3> QED  BY <2>1, <3>1
  <2>2. CASE o \in DOMAIN factories
    <3>1. factories[o] \in DOMAIN lines /\ lines[factories[o]] = byKey[factories[o]]
      BY <1>1, <2>2 DEF Single, ++
    <3> QED  BY <2>2, <3>1
  <2> QED  BY <2>1, <2>2
<1> HIDE DEF lines
<1>3. KeepsOptions(OptionTable(DOMAIN factories \cup {"match"}, {DOMAIN ModifyOperations}, lines))
  BY <1>2, PlainTableKeeps
<1> QED  BY <1>3 DEF ModifyTable, lines

LEMMA MatchKeeps == KeepsOptions(MatchTable)
<1> DEFINE lines == Single([Match |-> "glob", Match_Regex |-> "regex"])
<1>1. \A o \in {"glob", "regex"} : \E key \in DOMAIN lines : o \in lines[key]
  BY DEF Single
<1> HIDE DEF lines
<1>2. KeepsOptions(OptionTable({"glob", "regex"}, {{"glob", "regex"}}, lines))
  BY <1>1, PlainTableKeeps
<1> QED  BY <1>2 DEF MatchTable, lines

LEMMA GrepKeeps == KeepsOptions(GrepTable)
<1> DEFINE pattern == {"exclude", "key", "regex"}
           lines == [Match |-> {"match"}, Pattern |-> pattern]
<1>1. \A o \in pattern \cup {"match"} : \E key \in DOMAIN lines : o \in lines[key]
  OBVIOUS
<1> HIDE DEF lines
<1>2. KeepsOptions(OptionTable(pattern \cup {"match"}, All({"key", "regex"}), lines))
  BY <1>1, PlainTableKeeps
<1> QED  BY <1>2 DEF GrepTable, lines

\* A name, and lines of one option each.
LEMMA ParserTableKeeps ==
    ASSUME NEW offers, NEW requires, NEW lines, "Name" \notin DOMAIN lines,
           \A o \in offers : \E key \in DOMAIN lines : lines[key] = o
    PROVE  KeepsOptions(ParserTable(offers, requires, lines))
<1> DEFINE all == Single([Name |-> "name"] ++ lines)
<1>1. ASSUME NEW o \in offers \cup {"name"} PROVE \E key \in DOMAIN all : o \in all[key]
  BY DEF Single, ++
<1> HIDE DEF all
<1>2. KeepsOptions(OptionTable(offers \cup {"name"}, requires \cup {{"name"}}, all))
  BY <1>1, PlainTableKeeps
<1> QED  BY <1>2 DEF all, ParserTable

LEMMA ParsersKeep ==
    /\ KeepsOptions(JsonParserTable) /\ KeepsOptions(LogfmtParserTable)
    /\ KeepsOptions(LtsvParserTable) /\ KeepsOptions(RegexParserTable)
<1>1. KeepsOptions(JsonParserTable)
  BY ParserTableKeeps DEF JsonParserTable
<1>2. KeepsOptions(LogfmtParserTable)
  BY ParserTableKeeps DEF LogfmtParserTable
<1>3. KeepsOptions(LtsvParserTable)
  BY ParserTableKeeps DEF LtsvParserTable
<1>4. KeepsOptions(RegexParserTable)
  BY ParserTableKeeps DEF RegexParserTable
<1> QED  BY <1>1, <1>2, <1>3, <1>4

\* A function hands its parameters on to options that have a line.
LEMMA HandedKeeps ==
    ASSUME NEW table, NEW as,
           \A p \in DOMAIN as : \E key \in DOMAIN table.lines : as[p] \in table.lines[key]
    PROVE  KeepsOptions(Handed(table, as))
<1> DEFINE lines == [key \in DOMAIN table.lines |-> {p \in DOMAIN as : as[p] \in table.lines[key]}]
<1>1. \A p \in DOMAIN as : \E key \in DOMAIN lines : p \in lines[key]
  OBVIOUS
<1> HIDE DEF lines
<1> QED  BY <1>1, PlainTableKeeps DEF lines, Handed


LEMMA HandedOn ==
    ASSUME NEW table, KeepsOptions(table), NEW as, \A p \in DOMAIN as : as[p] \in table.offers
    PROVE  KeepsOptions(Handed(table, as))
<1>1. \A p \in DOMAIN as : \E key \in DOMAIN table.lines : as[p] \in table.lines[key]
  BY DEF KeepsOptions
<1> QED  BY <1>1, HandedKeeps

LEMMA OutputFunctionsKeep == \A f \in DOMAIN OutputFunctions : KeepsOptions(OutputFunctions[f])
<1>1. KeepsOptions(Handed(CloudWatchLogsTable, [match |-> "match", logGroup |-> "logGroup"]))
  BY CloudWatchLogsKeeps, HandedOn
     DEF CloudWatchLogsTable, CloudWatchLogsOptions, OutputTable, OptionTable
<1>2. KeepsOptions(Handed(KinesisTable, [match |-> "match", stream |-> "stream"]))
  BY KinesisKeeps, HandedOn DEF KinesisTable, KinesisOptions, OutputTable, OptionTable
<1>3. KeepsOptions(Handed(KinesisFirehoseTable, [match |-> "match", deliveryStream |-> "deliveryStream"]))
  BY KinesisFirehoseKeeps, HandedOn
     DEF KinesisFirehoseTable, KinesisFirehoseOptions, OutputTable, OptionTable
<1>4. KeepsOptions(Handed(OpenSearchTable, [match |-> "match", domain |-> "domain"]))
  <2> DEFINE lines == Single([Match |-> "match"] ++ OpenSearchLines)
  <2>1. /\ "Match" \in DOMAIN lines /\ lines["Match"] = {"match"}
        /\ "Host" \in DOMAIN lines /\ lines["Host"] = {"domain"}
    BY DEF Single, ++, OpenSearchLines
  <2>2. OpenSearchTable.lines = lines
    BY DEF OpenSearchTable, OutputTable, OptionTable
  <2> HIDE DEF lines
  <2> QED  BY <2>1, <2>2, HandedKeeps
<1> QED  BY <1>1, <1>2, <1>3, <1>4 DEF OutputFunctions

LEMMA FilterFunctionsKeep == \A f \in DOMAIN FilterFunctions : KeepsOptions(FilterFunctions[f])
<1>1. /\ KeepsOptions(FilterFunctions.appendFields) /\ KeepsOptions(FilterFunctions.blacklistFields)
      /\ KeepsOptions(FilterFunctions.whitelistFields)
  BY RecordModifierKeeps, HandedOn DEF FilterFunctions, RecordModifierTable, FilterTable, OptionTable
<1>2. KeepsOptions(FilterFunctions.grep)
  BY GrepKeeps, HandedOn DEF FilterFunctions, GrepTable, OptionTable
<1>3. KeepsOptions(FilterFunctions.kubernetes)
  BY KubernetesKeeps, HandedOn DEF FilterFunctions, KubernetesTable, FilterTable, OptionTable
<1>4. KeepsOptions(FilterFunctions.modify)
  <2>1. {"match", "set"} \subseteq ModifyTable.offers
    BY DEF ModifyTable, OptionTable, ModifyConditions, ModifyOperations, ++
  <2> QED  BY <2>1, ModifyKeeps, HandedOn DEF FilterFunctions
<1>5. KeepsOptions(FilterFunctions.lift) /\ KeepsOptions(FilterFunctions.nest)
  BY NestKeeps, HandedOn DEF FilterFunctions, NestTable, FilterTable, OptionTable
<1>6. KeepsOptions(FilterFunctions.parser)
  BY ParserFilterKeeps, HandedOn DEF FilterFunctions, ParserFilterTable, FilterTable, OptionTable
<1>7. KeepsOptions(FilterFunctions.rewriteTag)
  <2>1. /\ "Match" \in DOMAIN RewriteTagTable.lines /\ "match" \in RewriteTagTable.lines["Match"]
        /\ "Rule" \in DOMAIN RewriteTagTable.lines /\ "key" \in RewriteTagTable.lines["Rule"]
    BY DEF RewriteTagTable, OptionTable
  <2> QED  BY <2>1, HandedKeeps DEF FilterFunctions
<1>8. KeepsOptions(FilterFunctions.throttle)
  BY ThrottleKeeps, HandedOn DEF FilterFunctions, ThrottleTable, FilterTable, OptionTable
<1>9. DOMAIN FilterFunctions =
         {"appendFields", "blacklistFields", "grep", "kubernetes", "modify", "lift", "nest", "parser",
          "rewriteTag", "throttle", "whitelistFields"}
  BY DEF FilterFunctions
<1> QED  BY <1>1, <1>2, <1>3, <1>4, <1>5, <1>6, <1>7, <1>8, <1>9

LEMMA ParserFunctionsKeep == \A f \in DOMAIN ParserFunctions : KeepsOptions(ParserFunctions[f])
<1> USE DEF ParserFunctions, ParserTable, OptionTable
<1>1. KeepsOptions(ParserFunctions.json)
  BY ParsersKeep, HandedOn DEF JsonParserTable
<1>2. KeepsOptions(ParserFunctions.logfmt)
  BY ParsersKeep, HandedOn DEF LogfmtParserTable
<1>3. KeepsOptions(ParserFunctions.ltsv)
  BY ParsersKeep, HandedOn DEF LtsvParserTable
<1>4. KeepsOptions(ParserFunctions.regexParser)
  BY ParsersKeep, HandedOn DEF RegexParserTable
<1>5. DOMAIN ParserFunctions = {"json", "logfmt", "ltsv", "regexParser"}
  OBVIOUS
<1> QED  BY <1>1, <1>2, <1>3, <1>4, <1>5

LEMMA JoinedKeep ==
    ASSUME NEW f, NEW g, \A c \in DOMAIN f : KeepsOptions(f[c]), \A c \in DOMAIN g : KeepsOptions(g[c])
    PROVE  \A c \in DOMAIN (f ++ g) : KeepsOptions((f ++ g)[c])
BY DEF ++

LEMMA FluentBitKeeps == \A c \in DOMAIN FluentBitTables : KeepsOptions(FluentBitTables[c])
<1> DEFINE classes ==
       [match |-> MatchTable, cloudwatch_logs |-> CloudWatchLogsTable, kinesis |-> KinesisTable,
        kinesis_firehose |-> KinesisFirehoseTable, kubernetesFilter |-> KubernetesTable,
        modifyFilter |-> ModifyTable, nestFilter |-> NestTable, throttleFilter |-> ThrottleTable,
        grepFilter |-> GrepTable, record_modifier |-> RecordModifierTable,
        parserFilter |-> ParserFilterTable, jsonParser |-> JsonParserTable,
        logfmtParser |-> LogfmtParserTable, ltsvParser |-> LtsvParserTable,
        regexFormat |-> RegexParserTable]
<1>1. \A c \in DOMAIN classes : KeepsOptions(classes[c])
  BY MatchKeeps, CloudWatchLogsKeeps, KinesisKeeps, KinesisFirehoseKeeps, KubernetesKeeps, ModifyKeeps,
     NestKeeps, ThrottleKeeps, GrepKeeps, RecordModifierKeeps, ParserFilterKeeps, ParsersKeep
<1> HIDE DEF classes
<1>2. \A c \in DOMAIN (classes ++ OutputFunctions) : KeepsOptions((classes ++ OutputFunctions)[c])
  BY <1>1, OutputFunctionsKeep, JoinedKeep
<1>3. \A c \in DOMAIN (classes ++ OutputFunctions ++ FilterFunctions) :
         KeepsOptions((classes ++ OutputFunctions ++ FilterFunctions)[c])
  BY <1>2, FilterFunctionsKeep, JoinedKeep
<1>4. \A c \in DOMAIN (classes ++ OutputFunctions ++ FilterFunctions ++ ParserFunctions) :
         KeepsOptions((classes ++ OutputFunctions ++ FilterFunctions ++ ParserFunctions)[c])
  BY <1>3, ParserFunctionsKeep, JoinedKeep
<1> QED  BY <1>4 DEF FluentBitTables, classes

\* A table of maps keeps its options if calls have the last turn in each.
LEMMA MergingKeeps ==
    ASSUME NEW offers, NEW requires, NEW lines, NEW given, NEW calls, NEW turn,
           \A o \in offers : \E key \in DOMAIN lines : o \in lines[key],
           \A key \in DOMAIN lines : \A o \in lines[key] \cap calls : \A p \in lines[key] \ {o} :
              turn[p] < turn[o]
    PROVE  KeepsOptions(Merging(OptionTable(offers, requires, lines), given, calls, turn))
<1> DEFINE t == Merging(OptionTable(offers, requires, lines), given, calls, turn)
<1>1. t.offers = offers /\ t.lines = lines /\ t.calls = calls /\ t.turn = turn
  BY DEF Merging, OptionTable
<1> HIDE DEF t
<1>2. KeepsOptions(t)
  BY <1>1 DEF KeepsOptions
<1> QED  BY <1>2 DEF t

LEMMA JobKeeps == KeepsOptions(JobTable)
<1> DEFINE offers == JobOptions \cup {"type", "glueVersion", "pythonVersion", "script", "addConnection",
                                      "addArgument"}
           turn == [enableProfilingMetrics |-> 1, defaultArguments |-> 2, addArgument |-> 3]
<1>1. \A o \in offers : \E key \in DOMAIN JobLines : o \in JobLines[key]
  <2> DEFINE maps == [connections |-> {"connections", "addConnection"},
                      defaultArguments |-> {"enableProfilingMetrics", "defaultArguments", "addArgument"}]
  <2>1. DOMAIN maps \subseteq DOMAIN JobLines /\ \A key \in DOMAIN maps : maps[key] \subseteq JobLines[key]
    BY DEF JobLines, Single, ++
  <2>2. \A o \in offers \ (maps["connections"] \cup maps["defaultArguments"]) :
           \E key \in DOMAIN JobLines : JobLines[key] = {o}
    BY DEF JobOptions, JobLines, Single, ++
  <2>3. DOMAIN maps = {"connections", "defaultArguments"}
    OBVIOUS
  <2> HIDE DEF offers, maps
  <2> QED  BY <2>1, <2>2, <2>3
<1>2. \A key \in DOMAIN JobLines : "addArgument" \in JobLines[key] =>
         JobLines[key] = {"enableProfilingMetrics", "defaultArguments", "addArgument"}
  BY DEF JobLines, Single, ++
<1>3. \A key \in DOMAIN JobLines : \A o \in JobLines[key] \cap {"addArgument"} : \A p \in JobLines[key] \ {o} :
         turn[p] < turn[o]
  BY <1>2
<1> HIDE DEF offers, turn
<1>4. KeepsOptions(Merging(OptionTable(offers, All({"type", "glueVersion", "script"}), JobLines),
                           {"defaultArguments"}, {"addArgument"}, turn))
  BY <1>1, <1>3, MergingKeeps
<1> QED  BY <1>4 DEF JobTable, offers, turn

LEMMA ConnectionKeeps == KeepsOptions(ConnectionTable)
<1> DEFINE offers == ConnectionOptions \cup {"addMatchCriteria", "addProperty"}
           turn == [properties |-> 1, addProperty |-> 2]
<1>1. \A o \in offers : \E key \in DOMAIN ConnectionLines : o \in ConnectionLines[key]
  BY DEF ConnectionOptions, ConnectionLines, Single, ++
<1>2. \A key \in DOMAIN ConnectionLines : "addProperty" \in ConnectionLines[key] =>
         ConnectionLines[key] = {"properties", "addProperty"}
  BY DEF ConnectionLines, Single, ++
<1>3. \A key \in DOMAIN ConnectionLines : \A o \in ConnectionLines[key] \cap {"addProperty"} :
         \A p \in ConnectionLines[key] \ {o} : turn[p] < turn[o]
  BY <1>2
<1> HIDE DEF offers, turn
<1>4. KeepsOptions(Merging(OptionTable(offers, All({"connectionType", "vpc"}), ConnectionLines),
                           {"properties"}, {"addProperty"}, turn))
  BY <1>1, <1>3, MergingKeeps
<1> QED  BY <1>4 DEF ConnectionTable, offers, turn

LEMMA JdbcConnectionKeeps == KeepsOptions(JdbcConnectionTable)
<1> DEFINE properties == {"enforceSsl", "password", "url", "username"}
           shared == {"description", "name", "securityGroups", "subnets", "vpc", "addMatchCriteria",
                      "addProperty"}
           lines == [key \in DOMAIN ConnectionLines |->
                       (ConnectionLines[key] \cap shared)
                       \cup IF key = "connectionProperties" THEN properties ELSE {}]
           turn == [p \in properties |-> 1] ++ [addProperty |-> 2]
<1>1. \A o \in shared \cup properties : \E key \in DOMAIN lines : o \in lines[key]
  BY DEF ConnectionLines, Single, ++
<1>2. \A key \in DOMAIN lines : "addProperty" \in lines[key] => lines[key] = properties \cup {"addProperty"}
  BY DEF ConnectionLines, Single, ++
<1>3. turn["addProperty"] = 2 /\ \A p \in properties : turn[p] = 1
  BY DEF ++
<1> HIDE DEF lines, turn
<1>4. \A key \in DOMAIN lines : \A o \in lines[key] \cap {"addProperty"} : \A p \in lines[key] \ {o} :
         turn[p] < turn[o]
  BY <1>2, <1>3
<1>5. KeepsOptions(Merging(OptionTable(shared \cup properties, All({"password", "url", "username", "vpc"}),
                                       lines),
                           {}, {"addProperty"}, turn))
  BY <1>1, <1>4, MergingKeeps
<1> QED  BY <1>5 DEF JdbcConnectionTable, lines, turn

LEMMA JdbcTargetKeeps == KeepsOptions(JdbcTargetTable)
<1> DEFINE offers == {"connection", "exclusions", "addExclusion", "paths", "addPath"}
           lines == Single([connectionName |-> "connection"])
                    ++ [exclusions |-> {"exclusions", "addExclusion"}, path |-> {"paths", "addPath"}]
<1>1. \A o \in offers : \E key \in DOMAIN lines : o \in lines[key]
  BY DEF Single, ++
<1> HIDE DEF lines
<1>2. KeepsOptions(OptionTable(offers, All({"connection"}), lines))
  BY <1>1, PlainTableKeeps
<1> QED  BY <1>2 DEF JdbcTargetTable, lines

LEMMA DatabaseAndWorkflowKeep == KeepsOptions(DatabaseTable) /\ KeepsOptions(WorkflowTable)
<1> DEFINE database == Single([description |-> "description", locationUri |-> "locationUri", name |-> "name"])
           workflow == Single([description |-> "description", name |-> "name"])
<1>1. /\ \A o \in {"description", "locationUri", "name"} : \E key \in DOMAIN database : o \in database[key]
      /\ \A o \in {"description", "name"} : \E key \in DOMAIN workflow : o \in workflow[key]
  BY DEF Single
<1> HIDE DEF database, workflow
<1>2. /\ KeepsOptions(OptionTable({"description", "locationUri", "name"}, {}, database))
      /\ KeepsOptions(OptionTable({"description", "name"}, {}, workflow))
  BY <1>1, PlainTableKeeps
<1> QED  BY <1>2 DEF DatabaseTable, WorkflowTable, database, workflow

LEMMA TriggerKeeps == KeepsOptions(TriggerTable)
<1> DEFINE offers == {"actions", "addAction", "description", "name", "predicateConditions", "addPredicate",
                      "schedule", "startOnCreation", "type", "workflow"}
           lines == Single([description |-> "description", name |-> "name", schedule |-> "schedule",
                            startOnCreation |-> "startOnCreation", type |-> "type",
                            workflowName |-> "workflow"])
                    ++ [actions |-> {"actions", "addAction"},
                        predicate |-> {"predicateConditions", "addPredicate"}]
<1>1. \A o \in offers : \E key \in DOMAIN lines : o \in lines[key]
  BY DEF Single, ++
<1> HIDE DEF lines
<1>2. KeepsOptions(OptionTable(offers, All({"type"}), lines))
  BY <1>1, PlainTableKeeps
<1> QED  BY <1>2 DEF TriggerTable, lines

LEMMA CrawlerActionKeeps == KeepsOptions(CrawlerActionTable)
<1> DEFINE offers == ActionOptions \cup {"crawler"}
           lines == [crawlerName |-> {"crawler"}] ++ ActionLines
           turn == [arguments |-> 1, addArgument |-> 2]
<1>1. \A o \in offers : \E key \in DOMAIN lines : o \in lines[key]
  BY DEF ActionOptions, ActionLines, Single, ++
<1>2. \A key \in DOMAIN lines : "addArgument" \in lines[key] => lines[key] = {"arguments", "addArgument"}
  BY DEF ActionLines, Single, ++
<1>3. \A key \in DOMAIN lines : \A o \in lines[key] \cap {"addArgument"} : \A p \in lines[key] \ {o} :
         turn[p] < turn[o]
  BY <1>2
<1> HIDE DEF offers, lines, turn
<1>4. KeepsOptions(Merging(OptionTable(offers, All({"crawler"}), lines), {"arguments"}, {"addArgument"}, turn))
  BY <1>1, <1>3, MergingKeeps
<1> QED  BY <1>4 DEF CrawlerActionTable, offers, lines, turn

LEMMA JobActionKeeps == KeepsOptions(JobActionTable)
<1> DEFINE offers == ActionOptions \cup {"job", "bookmarkConfiguration"}
           lines == [jobName |-> {"job"}, arguments |-> ActionLines.arguments \cup {"bookmarkConfiguration"}]
                    ++ ActionLines
           turn == [arguments |-> 1, bookmarkConfiguration |-> 2, addArgument |-> 3]
<1>1. \A o \in offers : \E key \in DOMAIN lines : o \in lines[key]
  BY DEF ActionOptions, ActionLines, Single, ++
<1>2. \A key \in DOMAIN lines : "addArgument" \in lines[key] =>
         lines[key] = {"arguments", "bookmarkConfiguration", "addArgument"}
  BY DEF ActionLines, Single, ++
<1> HIDE DEF lines
<1>3. \A key \in DOMAIN lines : \A o \in lines[key] \cap {"addArgument"} : \A p \in lines[key] \ {o} :
         turn[p] < turn[o]
  BY <1>2
<1> HIDE DEF offers, turn
<1>4. KeepsOptions(Merging(OptionTable(offers, All({"job"}), lines), {"arguments"}, {"addArgument"}, turn))
  BY <1>1, <1>3, MergingKeeps
<1> QED  BY <1>4 DEF JobActionTable, offers, lines, turn

LEMMA PredicatesKeep == KeepsOptions(CrawlerPredicateTable) /\ KeepsOptions(JobPredicateTable)
<1> DEFINE crawler == Single([crawlerName |-> "crawler", crawlState |-> "state"])
           job == Single([jobName |-> "job", state |-> "state"])
<1>1. /\ \A o \in {"crawler", "state"} : \E key \in DOMAIN crawler : o \in crawler[key]
      /\ \A o \in {"job", "state"} : \E key \in DOMAIN job : o \in job[key]
  BY DEF Single
<1> HIDE DEF crawler, job
<1>2. /\ KeepsOptions(OptionTable({"crawler", "state"}, All({"crawler"}), crawler))
      /\ KeepsOptions(OptionTable({"job", "state"}, All({"job"}), job))
  BY <1>1, PlainTableKeeps
<1> QED  BY <1>2 DEF CrawlerPredicateTable, JobPredicateTable, crawler, job

LEMMA GlueKeeps == \A c \in DOMAIN GlueTables : KeepsOptions(GlueTables[c])
BY JobKeeps, ConnectionKeeps, JdbcConnectionKeeps, JdbcTargetKeeps, DatabaseAndWorkflowKeep, TriggerKeeps,
   CrawlerActionKeeps, JobActionKeeps, PredicatesKeep DEF GlueTables

-----------------------------------------------------------------------------
\* Of every plugin, function and Glue class but those that a run refutes, with whatever
\* values, and whichever names a program gives to arguments, properties and parameters
\* (fluent-bit-plugin.ts, job.ts, connection.ts, action-base.ts): whoever edits an option finds
\* the edit in what is deployed, unless the program gives the same entry in another way too.
THEOREM EditsAlwaysArrive ==
    ASSUME Tables = FluentBitTables ++ GlueTables
    PROVE  RenderingSpec => []EditsArrive
<1>1. \A c \in DOMAIN Tables : KeepsOptions(Tables[c])
  BY FluentBitKeeps, GlueKeeps, JoinedKeep
<1>2. RenderingInv /\ [RenderingNext]_rendering => RenderingInv'
  BY <1>1, RenderingStep
<1>3. RenderingInv => EditsArrive
  BY DEF RenderingInv
<1> QED  BY RenderingStart, <1>2, <1>3, PTL DEF RenderingSpec
=============================================================================
