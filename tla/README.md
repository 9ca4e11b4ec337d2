# Verification of cdk-extensions

cdk-extensions is a library of AWS CDK constructs. A program that uses it builds
a tree of constructs, the CDK synthesizes the tree into CloudFormation templates
and CloudFormation creates what they describe. This directory is the formal
model of the parts of the library in which something can go wrong that a snapshot
test of one template would hardly show: values that cross stages, state machines
that run after the deployment, networks, clusters and documents that are put together
by operations an application calls in any order, and what is deployed of them in
whatever order their dependencies allow.

It holds TLA+ modules, configurations with which TLC checks them on small
instances, and proofs that TLAPS checks for every value of the constants.
Paths below are relative to `src/src` of the repository unless they say otherwise.

    tlc -config IssuesFaults.cfg MCIssueManager      # one run
    tlapm IssueManagerProofs.tla                     # one module of proofs

`PROJECT.json` lists the runs, the lines of the source that each definition
translates, the faulty variants with which every property has been seen to fail,
the hazards and the theorems.


## 1. Inventory

What is concurrent in this system is not the program that builds the tree, which
is one thread, but the ORDER of its calls, the order in which the CDK visits the
tree (nested stages first; aspects, then references, then validation, then
templates), and what AWS does with the result: EventBridge and Step Functions
run executions at the same time, deliver events twice, stop a branch when its
sibling fails; CloudFormation creates resources in any order that dependencies
allow.

| Part | Source | State | Operations and interactions | What is hard | What makes it correct |
|---|---|---|---|---|---|
| Dynamic references | core | a lock per stage with registered tokens; exports and parameters per stack | `DynamicReference.string/...` registers a token; the lock's aspect finds and resolves its uses; a token resolves into an export, an import or a parameter | the order in which stages are synthesized; code that runs during synthesis; tokens inside other values | a written import has its export |
| Alerting: levels | alerting/issue-parsers | a static array of severities, chains of choices, event patterns | constructors; EventBridge patterns and Choice states evaluate findings | the constructor reverses the shared array in place; each bound is written twice | pattern and chain agree, for every instance |
| Alerting: manager | alerting | executions, their children, events on a bus, dead letter queues; the status Security Hub keeps | rule starts manager, manager runs parser, then all handlers in parallel | duplicates, partial failures, timeouts, findings that are published again because they were marked | nothing is lost silently, nothing is raised that was not asked for |
| Alerting: descriptions | alerting/issue-parsers | components a parser asks for; the text, the delimiter and the loops of an execution | sections and iterators are rendered as chains of Choice, Pass and Map states that one execution walks through | every field of an event may be missing; a state finds the delimiter that an unknown predecessor left; loops | what the event holds is told once, in place, and nothing fails for what may be missing |
| Subnet layout | utils/networking.ts, ec2/lib/ip-addresses | none | `divideCidr`, `TieredSubnets` | logarithms, masks that exactly fit | subnets disjoint and inside; refusals right |
| Address pools | ec2/ipam*, ec2-patterns/ip-address-manager.ts | pools and the CIDRs added to them | get or create pools, add CIDRs, register accounts | one call does two steps of which the second may throw | account pool and regional pool agree |
| Network groups | ec2-patterns | networks, gateways, shares, VPNs of a controller | `addHub`, `addSpoke`, `addClientVpnEndpoint`, gateway and sharing, in any order | routes and principals that are added now or when the other side comes | routed, attachable, provisioned |
| Fargate logging | k8s-aws, k8s-aws/lib/fluent-bit | plugins of three kinds, parsers, permissions | lazily rendered sections bind plugins, which add parsers, permissions and resources | the order in which lazy values are rendered; what is added after an aspect has rendered them | what is written defines the parsers it mentions; profiles may write to the outputs |
| Options of plugins and Glue resources | k8s-aws/lib/fluent-bit, glue | fields of the classes | constructors copy options to fields, `bind` and `render` make lines of fields | hundreds of options copied by hand, one from its neighbour's field | whoever edits an option finds the edit deployed |
| ADOT collector | k8s-aws/adot-collector.ts | none in the program; the metrics on their way | ten processors, each configured by a table, between a scrape and CloudWatch | each finds metrics by names and labels that another has given them | what a pod reports arrives under every set of dimensions |
| Cluster add-ons | eks-patterns, k8s-aws, k8s-fargate | the last resource, profiles, selectors, the secrets of the operator | constructor chains the add-ons that are enabled; secrets are registered later, in other stacks | CloudFormation's order; namespaces, charts and kinds that must be there | logs first, secrets arrive, failures only where the program or a race explains them |
| Logs of AWS services | glue-tables, s3-buckets, stacks, ec2/flow-log*.ts | columns, projections, saved queries; policies; the format of flow logs | tables and logs share a format; an aspect gives buckets their access logs | accounts, columns and statements that are produced late, once | logs are found, queries find columns, buckets may write |
| Alert manager (APS) | aps | receivers, intervals, templates, routes, rules | constructs added in any order, also after a reading | a lazy document of lists that are lazy themselves | a document names only what it defines |
| Glue workflows | glue | triggers, their actions and predicates | triggers start jobs and crawlers, whose ends meet predicates of others | which chains of triggers ever fire | no step early, none forgotten |
| Secret references | core/secret-reference.ts | keys of a secret | resolved by consumers | a key added after the secret was rendered | not modelled: nothing in the library uses it |
| Resource shares, resolver rules, SSO, Firehose, Athena, GuardDuty, Config, elasticache, Lambda | as named | lists that are rendered at the end | constructors and a few `add` operations | little beyond section 5 | not modelled |
| Wrappers | networkmanager, rds, route53, ssm, resourcegroups and others | none | pass properties on | nothing that changes | not modelled |

The CDK, CloudFormation, EventBridge, Step Functions and Security Hub are not in
this repository. They are modelled from how the code uses them, and the map marks
those definitions as external.


## 2. Modules

### Dynamic references

* `ReferenceDelivery` is what the component promises, without stages or locks:
  a template that is written either needs nothing or what it needs will be
  exported before everything is written.
* `DynamicReferences` is the code. `phase` is the synthesis of each stage,
  `lock` and `created` are dynamic-reference-lock.ts, `uses` are tokens in
  resources, `exports` and `params` what export-parameter-provider.ts adds to
  stacks, `shipped` what has been written. `CreateReference`, `UseReference`, `VisitLock` and the
  steps of the synthesis are its actions; `Relation` is relations.ts. Late code
  (aspects, stages that a pipeline adds after synthesizing others) is the constant
  LateCode.
* `DynamicReferencesProofs` has the theorems, `MCDynamicReferences` the instance.

### Alerting

* `SeverityLevels` has the levels, patterns and Choice chains of the three
  parsers that rate findings; `SeverityRatings` constructs parsers and triggers
  in any order (`hubOrder` and `guardOrder` are the static arrays that
  constructors reverse) and then reads findings with them. An ECR scan is two counts, of the
  event (which the trigger's pattern reads) and of the image as `describeImages` returns it later
  (which the parser reads).
* `Descriptions` has what each of the six parsers asks for (references, sections,
  iterators), the chain of states that description-builder.ts or the parser makes
  of it, and the execution of that chain: `pc`, `text` and `delimiter` of the
  execution and of each iteration of a Map. A description is a sequence of tokens, a
  title or a field of the event; `Everything` is what it should come to.
  `MCFindingParsers` instantiates `SeverityRatings` and `Descriptions` side by side: a
  behaviour is about one or the other, they have no state in common.
* `AlertDelivery` is what the issue manager promises: a service receives an
  alert only of an issue that occurred and that some trigger sends to it, and
  with the fair steps every alert asked for arrives.
* `IssueManager` is the deployed manager. `Publish`, `Start` and `Redeliver` are the
  sources and EventBridge's rules; `Advance` and the actions of `parser` and
  `branch` follow the definitions in issue-manager.ts, issue-parsers and
  issue-handlers state by state; `Arrive` is the rule that sends a handler's event to
  Jira or Discord, or to the dead letter queue. A failing child ends its branch,
  a failing branch stops the others at any point.
* `SeverityProofs`, `DescriptionProofs` and `IssueManagerProofs` have the theorems.

### Networks

* `SubnetLayout` is `divideCidr` and both paths of `TieredSubnets`. The width of an address
  and the first addresses of VPCs are constants; runs take a few bits, the proofs any number.
* `AddressPools` is an IP address manager with its regional pools, account
  pools and their CIDRs; `AddressProofs` has the theorems about both.
* `NetworkController` uses it through INSTANCE and adds hubs, spokes, gateways,
  shares and VPNs. An operation that throws leaves behind what it did before
  (`threw`). `draws` records from which pool something takes addresses, under
  which name they were asked for; `DeploymentProofs` has the theorems.
* `NetworkDeployment` extends it with CloudFormation creating CIDRs and VPCs.

### Fargate logging

* `LazyRendering` is what a construct promises that renders its properties lazily:
  a template that is written defines every name it mentions, and stays as it is.
  It says nothing of logging, so that other constructs can implement it too.
* `FargateLogger` is the logger with the classes of its plugins. `AddFilter` and the
  other Add actions are the application and its aspects, `Resolve` the first time that
  something resolves the manifest, `RenderFilters`, `RenderOutputs` and `RenderParsers`
  the three lazy strings in the order in which the CDK resolves them, `Validate` the second
  resolution and the validation. The sections are `filterConf`, `outputConf` and
  `parserConf`, what binding a plugin grants and creates `policy` and `created`. A lazy
  string is kept unless it is undefined, so `parserConf` may still be rendered when the
  rest no longer is. `late` are profiles that came after their outputs were bound.
* `FargateProofs` has the theorems, also those about the collector (`AdotPipeline`, below).

### Options

* `OptionRendering` is a program that gives an object its options, is deployed, edited in
  one option and deployed again. What a class offers, requires and renders of what is a
  table; `FluentBitOptions` has the tables of the plugins with their bases and the static
  functions that construct them, `GlueOptions` those of the Glue classes, `OptionTables` the
  operators that tables are written with. A set of options in `lines` is one property that is
  made of several, and the property is a map of entries. Most entries have the name of their option; of
  those that a program names itself (`given` to a constructor, or in `calls` of a method: a job's or
  an action's arguments, a connection's properties, a table's parameters) one may have the name of another, and
  then the last to write decides, in the `turn` that the constructor takes (`LastToWrite`). The classes that keep an option to themselves are in `LosingFluentBitTables`
  and `LosingGlueTables`, the others in `FluentBitTables` and `GlueTables`.

### Clusters

* `ClusterDeployment` is a cluster with any of its five add-ons, the secrets registered
  with its operator and their deployment. `Position` and `Previous` are the chain of the
  constructor (`lastResource`), `Dependencies` what each resource waits for; `Apply`, `Refuse`,
  `BecomeReady`, `TimeOut` and `Sync` are CloudFormation, Helm and the operator.
  `DeploymentProofs` has the theorems, also those about networks and workflows.
* `AdotPipeline` is the collector: each processor is a table as the source writes it, applied
  to a set of series by what that processor does with tables. A series remembers as a history
  what it was reported for; `Reported` says which labels kubelets give to what they count for
  containers, pods, sandboxes and nodes.

### Logs, alerts, workflows

* `LogTables` has the tables of the seven kinds of logs: columns, keys, projections, queries.
  `AwsLogs` builds an app with one of them: stacks that know their account or do not, buckets,
  aspects, a format that is extended late. `Visit` is the aspect of s3-access-logs-bucket.ts,
  `Prepare` the first resolution, in which lazy values are kept, `WriteLogStack` the template.
* `AlertManagerConfig` has the constructs of the configuration, and `RenderAlertManagerConfig`
  for each time that something resolves the document, `kept` being what is cached of it.
* `ConstructsProofs` has the theorems about the modules of logs, alerts and options.
* `GlueWorkflow` has triggers of the four types as a program writes them, with a list of conditions
  each, what they are rendered to, and one run of the workflow in which tasks end well or not. Glue
  refuses to start a trigger on demand when it is created; whether it refuses one of the type EVENT,
  which the code asks to be started (glue/trigger.ts:282), nothing in the repository says, so
  both outcomes are possible.

### Instances

`MCDynamicReferences`, `MCIssueManager` and `MCFindingParsers` instantiate single components.
`MCDeployments` (NetworkDeployment, ClusterDeployment, GlueWorkflow) and `MCConstructs` (SubnetLayout,
AddressPools, FargateLogger, AdotPipeline, AwsLogs, OptionRendering, AlertManagerConfig) hold
several: a variable `subject`, which never changes, says which of them a behaviour is about, and
everything else stays as it was. So the states of such a run are the sum of its components', not
their product, and a property of one is checked in all states of that one. `MCClusterDeployment` and
`MCOptionRendering` are for the runs that refute a claim.


## 3. Runs

| Run | What it asks | Bounds, and why they are enough |
|---|---|---|
| references_before_synth | with all code before synthesis: every import has its export; refines ReferenceDelivery | an app with two nested stages; consumers in the same stage, another stage, another environment; one value that cannot be exported |
| references_late | what still holds when code runs during synthesis and tokens are nested | two stages, three stacks, two references, so that producer and consumer come first in turn |
| references_nested_token | does the lock find a token inside a list? It does not (finding) | as above |
| finding_parsers | pattern and chain agree, all instances do but on findings that contradict themselves; descriptions tell everything, in place, and do not fail for what may be missing | two parsers of a class show both orders of the array; findings at every bound of every level, with any label. Scans with each severity neither listed nor described, both, listed zero times, or described but not listed: the pattern reads only whether a severity is listed, the chain only whether its count exceeds zero. One execution of each parser; none to three elements of a collection, with all, some or no fields; details of one resource with any of their fields, or of two, so that each section follows each |
| issues_faults | nothing is lost without a cause, marked without being described or raised unasked | two executions, two publications, one repeated delivery, faults: executions overlap and duplicate |
| issues_alerts | every alert gets out, and marking findings does not keep the manager busy for ever | no faults; the finding that is published again by marking it |
| issues_guardduty, issues_opensearch | are those events raised? They are not (findings) | one event |
| deployments, networks | are networks routed, shared exactly with spokes and provisioned; who fails to find addresses, and does everyone else come up | two regions, the controller's stack and two others, each of which may hold the hub; three networks and two VPNs, so that each operation comes before and after each other. Only applications that do not throw are deployed |
| deployments, cluster | are logs configured before pods start, is every failure explained, do secrets arrive | every choice of the five add-ons, with the DNS add-on's namespace and the operator's option; up to two secrets of the cluster's own stack, one that uses it or one that it uses, in three namespaces: two show each order of creation and both services of a namespace |
| deployments, workflow | does each step of a workflow come when all that it waits for is done, and then surely | two triggers, of any type and with any start, over two tasks that fail or succeed; two conditions, of one trigger or of both, equal or not, so that "all" and "any" differ; the operator is given only to a conditional trigger, as others have no conditions |
| constructs, subnets | do subnets share the VPC without overlap, are default masks tight, refusals right | addresses of 6 bits from two first addresses; up to three tiers and zones, which are no powers of two, with every mask |
| constructs, pools | are account pools backed by the regional one; has no block two holders | two accounts, two regions, two names and one block; at most six CIDRs, of which four show every cascade |
| constructs, logger | are the parsers defined that filters bring along, do profiles have their permissions, also if an aspect resolves the manifest early | two profiles, so that one can be late; four filters: one brings parsers, one rewrites tags and two add Kubernetes data, one of them a custom filter; five outputs, of each class that has permissions and one without, given and created; two filters and two outputs are added, which shows each order of two |
| constructs, collector | do the wanted metrics of pods and containers arrive, each under its own name and labels | two pods and a node, sandboxes called by either name, either launch type; every subset of five numbers is missing for one pod, so that ratios lose one or both sides |
| constructs, logs | do tables look where logs are, do queries name columns there are, may buckets write | each of the seven kinds; two stacks that know either account or none, two buckets, one of which may have a log already, two aspects on the app or on a stack, with prefixes and exclusions |
| constructs, options | is every edit of an option found in what is deployed | every class, with any two options beyond those it requires, with any names and two values, any one of them edited: an option that is hidden is hidden by one other |
| constructs, alerts | does a document name only what it defines, however late things are added | two receivers, one interval and two routes beside the defaults, one rule, one template, any number of readings in between |
| options_lost | do the other classes keep what they offer? They do not (finding) | one edit of one option |
| cluster_logging | does the logger know every profile? Not that of Prometheus (finding) | a cluster without secrets |

`deployments` has about 0.6 million distinct states and takes two minutes, as does `finding_parsers`,
whose 42,000 states are each checked with all findings and scans; `constructs` has 2.6 million
and takes a few minutes; the others take seconds.

Deadlock is not checked where a program or an execution simply ends; all the
systems modelled here do.

**Fairness.** `IssueManager!FairSpec` has weak fairness on starting executions,
on their steps and on the arrival of events: EventBridge and Step Functions carry
out what they accepted, and a step that is possible stays possible, since
nothing but the execution itself disables it. No fairness is assumed of the
sources. `NetworkDeployment!FairDeploySpec` has weak fairness on creating CIDRs and on
creating VPCs: CloudFormation goes on as long as there is a resource whose
dependencies exist; `ClusterSpec` has the same of its resources, of pods becoming ready and of
the operator, which retries for ever (one condition for all of these, as a deployment that fails stops
them all). `WorkflowSpec` has weak fairness on Glue firing triggers and ending tasks, as a run
lasts until nothing more is to start. The calls of an application are never fair.


## 4. Proofs

All are invariance proofs: the invariant is strengthened until it is inductive,
each action has its step, and the temporal step is one line. Nothing is assumed
but the ASSUMEs on constants in the modules (types; `Stages` with `App` among
them; bounds that are natural numbers; a project for each Jira handler; events as sets of fields and
items; tasks that end well or not; formats of flow logs as sequences; series as `Reported` describes
them), and the finiteness of nothing. The theorems are about the components' own specifications, with every value of their
constants; the runs check the same properties in instances, some side by side with other components.

* `DynamicReferencesProofs`. TypeCorrect, PendingImports (for EVERY program: an
  export that a written template relies on is in the tree of a stage not yet
  written), SiblingsAlwaysServed (for every program: what is resolved within a stage is complete),
  LockFindsUses and ImportsAreBacked for programs without late code and
  nested tokens, and DeliversReferences, the refinement of ReferenceDelivery. The
  key is that a use the lock has not met is in a stage not yet written or the
  lock's own stage is still to be visited.
* `SeverityProofs`. TypeCorrect: reversal only alternates between two
  orders and every chain is one of them. RatingsAgree, for every label and score: two parsers rate
  alike, or label and score contradict each other and one parser follows the label, the other the score.
  The key is that no level holds but the one of the label and the one of the score, which are one level
  unless they contradict. MatchedAreRated: what a pattern lets through is rated, also if
  label and score contradict each other. PatternsMatchChains: if they do not, exactly what has one of
  a trigger's levels is let through. EcrThresholdsReached: the same of thresholds over counts,
  for any counts of event and image: they part only over a severity that one of them has and the other has not,
  or has zero times. The
  lemmas say for each order of the array what the first choice that holds is.
* `DescriptionProofs`. NeverForOptional, for events of any fields and collections of any length. It needs no case of its own for each
  parser's chain of some dozens of states: a chain is GUARDED if every state that reads a field is
  reached only behind a Choice that has found it, or reads one that is always there, and the lemmas
  say that sections, iterators and joined or flattened chains are guarded if their parts are. The invariant
  (DescriptionIInv) says that every frame of an execution walks a guarded chain and stands where its state has been let through.
  AlwaysFaithful, for the same events: the description of each of the six parsers tells everything in
  its place, and with several records it is a beginning of that. Here a CHART annotates each place of a
  chain with the memos (text, delimiter, records, index) with which an execution may get there; it has to be
  closed under what the states do (Walks). Two chains with charts, the second from where the
  first ends, have one when they are put together (LeadsJoin, LeadsAll), so there is one lemma for
  each kind of part (fields, sections, loops, iterators with their Map: LeadsIterator) and one for each
  parser, which joins its parts and compares the end with `Everything`. Folds over
  sections are taken apart by a fact about FlattenSeq (FlattenSteps). The invariant (FaithfulIInv) says
  that the execution is where every chart expects it, with the memo it has, that so is each iteration of a
  Map in the chain of its body, and that a Map's iterations start together.
* `IssueManagerProofs`. TypeCorrect, NewUntilDescribed, LossIsExplained, OverridesReachTickets, and
  DeliversOnlyWhatIsAsked, the safety part of the refinement of AlertDelivery, under
  every failure and duplicate. For the tickets, what a handler was given is shown to stay as it was
  from the moment its parser is done, and the last override for a handler to exist (a set of
  numbers with a bound has a greatest one, from the library's well-founded minima).
* `AddressProofs`, of pools: four invariants that are inductive together: an account
  pool is backed, a region holds only what was asked for, one holder of each
  block until a call throws. Of layouts: SubnetsAlwaysShare and RefusalsAlwaysRight, for addresses of any
  width. Powers of two are a recursive function over the naturals; the library's theorems about those take
  operators, so induction is proved as a fact about SETS of naturals (NatSetInduction, from the
  well-founded minima) and the definition to have its solution (Pow2Defined). Then a mask is accepted
  just when the parts fit (DividesWhatFits), parts that fit follow one another (PartsAreApart), and the
  invariant says that what is divided was checked, tier by tier.
* `FargateProofs`, of the logger. NeverRewritesLate, ProfilesDeliver, and RendersAsPromised, the
  refinement of LazyRendering, for any plugins of the classes in the repository. ProfilesDeliver is about log groups, streams
  and delivery streams, and about profiles that the logger knew in time; what k8s-aws/README.md promises beyond that is not what the code does (section 5). The
  invariant follows the sections: a filter's line agrees with the filter and mentions
  only parsers the logger has, from then on; what outputs need is granted and created once
  they are rendered; parsers come last, when all that bring some are bound. Of the collector:
  PodMetricsAlwaysArrive, for any scrape. The invariant says which processors the scrape has been through
  (After); one half of the theorem follows from what rules have in common (no copy for pods is made
  of what a container has, although patterns find inserted names too), the other from the rules
  that each of the eight metrics goes through. FoldLeft is defined by a function on sets of
  indices that is chosen, so the lemmas first show that there is one (CopiesStepwise).
* `DeploymentProofs`, of networks. TypeCorrect, AlwaysRouted, AlwaysAttachable, SharesAlwaysMatch,
  AlwaysProvisioned. The strengthening says that a region has
  one hub, that spokes have their gateway and are principals, that principals
  are listed once, and that VPNs belong to networks that exist. FailuresAlwaysCaused is about
  `DeploySpec`: where every network of a pool asked for its CIDR, networks map one to one to CIDRs of
  that size, so when all CIDRs exist there is one left for a VPC that is still to come.
  Of clusters. LogsAlwaysFirst: by the chain of add-ons, what starts pods waits
  for the logger's manifest, through whichever add-ons are enabled in between. FailuresAlwaysRaces: a
  kind is known when a resource of it is applied, so a refusal can only be about a namespace,
  and a chart that is given up about a service account or a profile; the invariant relates what is deployed to the namespaces and the operator that are there.
  Of workflows. StepsAlwaysWait, the safety half of WorkflowsRun: a trigger that has fired did so when all its conditions held,
  and they still hold, whatever the outcomes of tasks; what Glue has accepted joins conditions with AND.
* `ConstructsProofs`. LogsAlwaysFound: in whatever order the app is built, the table finds the logs of
  every account that a stack of the app is for, and its own when it does not know its account.
  QueriesAlwaysFindRows: the columns of the table of flow logs are the fields of what is written, in the same
  order, however often the format is extended; a query saved for any of the seven kinds names columns and
  keys that the deployed table has.
  LogsAlwaysDelivered: whatever the order of visits, a bucket that logs is deployed to
  an account, and has a prefix, that a statement names; but not a bucket in a stack that knows no account beside
  logs of a known account which is not the deployer's (AssumedWrongly), where the aspect assumes the account of the
  logs and is wrong. AlwaysClosed: whatever part of the document is kept
  from an earlier reading, the parts agree. EditsAlwaysArrive: for the tables of all classes that
  options_lost does not refute, any values and any names of entries, an edit is found in what is deployed unless the
  program gives the same entry in another way too (GivenAgain), and even then if it does so in a call. The tables of
  each class are shown to have a line for each option, and options that write into one map turns of their own in
  which calls come last; the lemma about LastToWrite does the rest.

Every safety invariant and action property that the runs check is a theorem. Only model-checked are
the liveness properties (FallsQuiet, NotifiedReachesEveryone, Delivers of IssueManager, NetworksDeploy,
SecretsArrive and WorkflowsRun), because TLAPS does not reason about ENABLED here.


## 5. What the code does that its documents do not say

Checked by a run, see `findings` in PROJECT.json:

* A token inside a list, an object or a longer string is skipped by the lock
  (core/dynamic-reference-lock.ts:90).
* GuardDuty findings are parsed and then dropped, as the parser's output has no
  Alert (alerting/issue-parsers/guard-duty-finding.ts:149).
* OpenSearch events fail their parser: `$.Domain.name` for `$.Domain.Name`
  (alerting/issue-parsers/opensearch-event.ts:228).

* Elasticsearch's Trace_Error takes the value of traceOutput, so traceError has no effect
  (k8s-aws/lib/fluent-bit/outputs/elasticsearch.ts:685). The same run holds the other classes that
  lose an option: the host of an OpenSearch output (outputs/opensearch.ts:122), the storage type
  of a rewrite-tag filter, an object that is written without its name
  (filters/rewrite-tag-filter.ts:248), the fields that custom plugins are
  constructed with (custom-output.ts:51, custom-filter.ts:51), a crawler's classifiers
  (glue/crawler.ts:96), an S3 target's sample size, options of a job's executable, the
  encryption of a security configuration (glue/security-configuration.ts:157) and a table's target table.
* The logger does not learn of the profile that Prometheus adds to the cluster itself
  (k8s-fargate/prometheus.ts:170), so the role of its pods may write no logs.

Seen while modelling, and followed by the models as the code has it:

* A lock that is created in a stage already written accepts references
  (core/dynamic-reference-lock.ts:40).
* Discord's mentions are looked for where an earlier state's outputPath removed
  them (alerting/issue-handlers/discord-handler.ts:139, 244).
* The loop over the records of an iterator goes on with the state after the loop
  instead of its Choice, so that a description tells only the first record
  (alerting/issue-parsers/description-builder.ts:309).
* An Inspector finding has the title of the package section also without any of the
  fields below it; `$.Detail.description`, the initial description of the OpenSearch
  parser, is text and not a reference (alerting/issue-parsers/opensearch-event.ts:286).
* Which of a contradictory label and score decides the severity of a Security Hub finding depends on how many
  parsers have been constructed before (alerting/issue-parsers/security-hub-finding.ts:327).
* An ECR scan that lists a severity zero times is let through by a threshold at that severity
  (alerting/issue-parsers/ecr-scan-finding.ts:346), and an alert of a lower one is raised.
* TieredSubnets with addresses from a pool compares masks the wrong way round
  (ec2/lib/ip-addresses/tiered-subnets.ts:77, 106; utils/networking.ts:45, 83 are
  right). SubnetLayout ends in "failed", not "refused".
* Nothing calls `registerAccount`, so pools of other accounts are never shared, nor
  is that refused (ec2-patterns/ip-address-manager.ts:304).
* The check of a child's locale lacks a negation and the one of nesting is
  inverted (ec2/ipam-pool.ts:313, 333).
* A VPN that the controller makes is not known to the hub and gets no routes
  (ec2-patterns/network-controller.ts:124); the ids of client pools of two networks
  may collide; a hub's own VPNs and spokes draw addresses for which no CIDR was added
  (ec2-patterns/four-tier-network.ts:166).
* A VPC refers to its pool and not to the CIDR added for it, so in the stack of
  the controller it may be created first (ec2/lib/ip-addresses/tiered-subnets.ts:33).
* The property `autoDiscoverAccounts` of a resource share is ignored
  (ram/resource-share.ts:136, 317); `fromConstruct` tests the Token the wrong way
  round (ram/lib/shared-principal.ts:20).
* Parsers that a Fluent Bit parser brings along are dropped
  (k8s-aws/fargate-logger.ts:223); no parser of the library has any.
* OpenSearch outputs grant nothing, while k8s-aws/README.md:24 says that permissions for the configured
  destination are added, and shows such an output at 69-84 (k8s-aws/lib/fluent-bit/outputs/opensearch.ts:605); nor do
  Elasticsearch outputs. A profile that is associated with a logger after an aspect has resolved its manifest gets no
  permissions either (k8s-aws/fargate-logger.ts:205), while k8s-aws/README.md:26 says that to associate it is
  enough. ProfilesMayDeliver asks for permissions of the other outputs and profiles only.
* The statement for DescribeLogStreams and CreateLogGroup
  names the service `log-group`, so that it matches no log group
  (k8s-aws/lib/fluent-bit/outputs/cloudwatch-logs.ts:520).
* A profile, filter or output that is added to a Fargate logger after an aspect has resolved
  its manifest is left out without a word; a parser then is not, if there was none before.
* `logGroup` of a Fargate logger is never read (k8s-aws/fargate-logger.ts:27); a custom
  plugin drops further values of a field (k8s-aws/lib/fluent-bit/outputs/custom-output.ts:67); a
  modify filter groups its rules by kind, which loses their order
  (k8s-aws/lib/fluent-bit/filters/modify-filter.ts:514).
* Service accounts of the ADOT and Prometheus add-ons do not wait for what creates their namespace
  (k8s-aws/adot-collector.ts:95, k8s-fargate/prometheus.ts:179); a namespace given for the DNS
  add-on has no profile; a second Prometheus in one cluster repeats the ids of the first.
* The operator OR, which a trigger may be given, is one that Glue does not know (glue/trigger.ts:8). A trigger of the type
  EVENT asks to be started on creation unless the program says otherwise (glue/trigger.ts:282), which
  the class's own text (glue/trigger.ts:109) offers for scheduled and conditional ones; it cannot be given a batching condition.
* A bookmark given to a job's action replaces an argument of the same name (glue/lib/workflow-actions/job-action.ts:134),
  default arguments of a job replace those of its options, as `--enable-metrics` (glue/job.ts:321, 388).
* The aspect of the bucket for access logs takes a stack without an account to be in the account of the
  logs (s3-buckets/s3-access-logs-bucket.ts:103). It is in that of whoever deploys it, and the policy names the wrong one.
* The table of flow logs adds its columns while it is rendered (glue-tables/flow-logs-table.ts:230).
* An alert manager's root route may be given matchers, which it must not have; a route that is
  constructed without `addChild` is never rendered.
* The condition for complex sharding is inverted
  (elasticache/lib/cluster-configuration.ts:147).


## 6. Not modelled

The wording of messages and templates and the encoding of links; tags; the AWS services'
own behaviour beyond what the code relies on. SecurityHub's and the CDK's
other features. The routing of transit gateways and peerings, which applications put together of
wrappers of one resource each. The
executions of Inspector's parser within the manager, which end like
those of ConfigComplianceChange; `Descriptions` has them. The parser of Trusted Advisor
(alerting/issue-parsers/trusted-advisor-check.ts) is commented out as a whole. Two calls of one method
for the same entry of an object's options; an option is given once. Child
pools that an application adds itself, operating regions and resource discovery. The roles and
policies of Glue jobs and crawlers; labels, matchers and hours of alerts. Which zones the DNS
add-on looks at, and the fields of a secret, are values that reach a manifest.

Of the rest of the library nearly all constructs hand the properties they are given to one
resource; `components` in PROJECT.json gives the reason for each. Two of them have behaviour that one could
argue about and no model: `SecretReference` (core/secret-reference.ts), whose secret is a lazy string that
is kept, so that what it holds depends on the order of stacks; nothing in the library uses it. And
`ResourceShare` (ram/resource-share.ts), in which discovered accounts meet explicit principals;
whether a principal may be listed twice is not said anywhere in the repository.


## 7. What could follow

1. `SecretReferences`, against `LazyRendering`, which `FargateLogger` already implements; it would say
   which orders of stacks keep the promise.
2. Attachments, associations and propagations of transit gateways, composed with `NetworkController`.
