---------------------------- MODULE MCConstructs ----------------------------
(***************************************************************************)
(* What constructs lay out, render and write, each on its own: a behaviour *)
(* is about one subject, and the others have no state in common with it.   *)
(*                                                                         *)
(* Subnets: addresses of six bits, a VPC of up to 32 addresses, three      *)
(* tiers and three zones, so that neither count is a power of two.         *)
(* Pools: two accounts ask for the same names and block in two regions.    *)
(* Logger: a filter that brings parsers, one that rewrites tags, two that  *)
(* add Kubernetes data, one of them a custom one, outputs of each kind.    *)
(* Collector: scrapes of two pods and a node.                              *)
(* Logs: a stack for the logs of one kind, another stack and two buckets.  *)
(* Options: every class and table.                                         *)
(* Alerts: two receivers beside the default one, two routes, one interval. *)
(***************************************************************************)
EXTENDS SubnetLayout, AddressPools, FargateLogger, AdotPipeline, AwsLogs, OptionRendering,
        FluentBitOptions, GlueOptions, AlertManagerConfig

\* Few CIDRs: enough for two accounts to ask for the same name and block in
\* one region, and for one account to do so in two.
MaxCidrs == 6
FewCidrs == Cardinality(cidrs) <= MaxCidrs

-----------------------------------------------------------------------------
(***************************************************************************)
(* The logger's plugins.                                                   *)
(***************************************************************************)

MCFilterKind == [parse |-> ParserFilter, rewrite |-> RewriteTagFilter,
                 kube |-> KubernetesFilter, custom |-> CustomFilter("kubernetes")]

Kind(plugin, type, n, createsGroup) ==
    [class |-> plugin, target |-> [type |-> type, id |-> n], createsGroup |-> createsGroup]

MCOutputKind == [group |-> Kind("cloudwatch_logs", "log-group", "app", TRUE),
                 stub |-> Kind("cloudwatch_logs", "stub", "app", FALSE),
                 stream |-> Kind("kinesis", "given", "events", FALSE),
                 hose |-> Kind("kinesis_firehose", "delivery-stream", "shared", FALSE),
                 search |-> Kind("opensearch", "given", "domain", FALSE)]

MCParserName == [json |-> "json", regex |-> "regex"]

-----------------------------------------------------------------------------
(***************************************************************************)
(* What is scraped.                                                        *)
(***************************************************************************)

Gauges == {"spec_cpu_quota", "spec_cpu_shares", "spec_memory_limit_bytes", "memory_cache",
           "memory_max_usage_bytes", "memory_working_set_bytes", "memory_rss"}
Counters == {"cpu_usage_seconds_total", "memory_failcnt"}
Traffic == {"network_receive_bytes_total", "network_transmit_bytes_total", "network_receive_errors_total"}

LabelsOf(pod, container, image, launch) ==
    [name |-> "id", kubernetes_io_hostname |-> "node", eks_amazonaws_com_compute_type |-> launch,
     namespace |-> "default", pod |-> pod, container |-> container, image |-> image]

FaultLabels(labels, type, scope) ==
    [l \in DOMAIN labels \cup {"failure_type", "scope"} |->
        CASE l = "failure_type" -> type [] l = "scope" -> scope [] OTHER -> labels[l]]

\* What a kubelet reports for one thing that it counts.
Report(labels, about) ==
    {Series(Metric("raw", n), labels, "gauge", about) : n \in Gauges}
    \cup {Series(Metric("raw", n), labels, "cumulative", about) : n \in Counters}
    \cup {Series(Metric("raw", "memory_failures_total"), FaultLabels(labels, type, scope), "cumulative", about) :
            type \in {"pgfault", "pgmajfault"}, scope \in {"container", "hierarchy"}}

\* Network traffic belongs to the sandbox of a pod, which some kubelets call a container.
ReportTraffic(pod, sandbox, launch) ==
    {Series(Metric("raw", n), LabelsOf(pod, sandbox, "", launch), "cumulative", "sandbox") : n \in Traffic}

ReportPod(pod, sandbox, launch) ==
    Report(LabelsOf(pod, "", "", launch), "pod")
    \cup Report(LabelsOf(pod, "app", "app:1", launch), "container")
    \cup ReportTraffic(pod, sandbox, launch)

\* Numbers that may be missing for a pod: one without limits has no quota.
MayMiss == {"spec_cpu_quota", "spec_memory_limit_bytes", "cpu_usage_seconds_total",
            "memory_working_set_bytes", "network_receive_bytes_total"}

Without(ms, names) == {s \in ms : s.metric.of \notin names}

MCScrapes ==
    {Without(ReportPod("one", sandbox, "fargate"), missing)
     \cup ReportPod("two", sandbox, launch)
     \cup Report(LabelsOf("", "", "", launch), "node") :
        sandbox \in {"", "POD"}, launch \in {"fargate", "ec2"}, missing \in SUBSET MayMiss}

-----------------------------------------------------------------------------
(***************************************************************************)
(* Flow logs, and classes with options.                                    *)
(***************************************************************************)

MCFormats ==
    {<<"srcaddr">>,
     <<"version", "srcaddr", "dstaddr", "srcport", "dstport", "protocol", "start", "action">>}

MCTables == FluentBitTables ++ GlueTables

-----------------------------------------------------------------------------
VARIABLE subject   \* what the behaviour is about

Subjects == {"subnets", "pools", "logger", "collector", "logs", "options", "alerts"}

NothingToLayOut == request = <<>> /\ tiers = <<>> /\ subnets = <<>> /\ layout = "none"

AllInit ==
    /\ subject \in Subjects
    /\ IF subject = "subnets" THEN LayoutInit ELSE NothingToLayOut
    /\ PoolsInit /\ Init /\ CollectInit /\ AwsLogsInit /\ RenderingInit /\ AlertManagerInit
    /\ subject # "logs" => flowFormat = <<"srcaddr">>

\* Everything but what a subject is about stays as it is.
Only(s) ==
    /\ UNCHANGED subject
    /\ s # "subnets" => UNCHANGED layoutVars
    /\ s # "pools" => UNCHANGED poolVars
    /\ s # "logger" => UNCHANGED vars
    /\ s # "collector" => UNCHANGED collecting
    /\ s # "logs" => UNCHANGED awsLogs
    /\ s # "options" => UNCHANGED rendering
    /\ s # "alerts" => UNCHANGED alertManager

AllNext ==
    \/ subject = "subnets" /\ LayoutNext /\ Only("subnets")
    \/ subject = "pools" /\ PoolsNext /\ Only("pools")
    \/ subject = "logger" /\ Next /\ Only("logger")
    \/ subject = "collector" /\ CollectNext /\ Only("collector")
    \/ subject = "logs" /\ AwsLogsNext /\ Only("logs")
    \/ subject = "options" /\ RenderingNext /\ Only("options")
    \/ subject = "alerts" /\ AlertManagerNext /\ Only("alerts")

AllVars == <<subject, layoutVars, poolVars, vars, collecting, awsLogs, rendering, alertManager>>

AllSpec == AllInit /\ [][AllNext]_AllVars
=============================================================================
