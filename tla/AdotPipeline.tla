---------------------------- MODULE AdotPipeline ----------------------------
(***************************************************************************)
(* The collector that src/k8s-aws/adot-collector.ts configures: what is    *)
(* scraped from the kubelets goes through a pipeline of processors, each   *)
(* of which the source gives a table, and is exported to CloudWatch.       *)
(* The processors themselves are the collector's: what they do with their  *)
(* tables is external.  A metric is named by a group and a name in it:     *)
(* [raw, x] stands for container_x as the kubelet writes it,               *)
(* [new_container, x] for new_container_x.                                 *)
(***************************************************************************)
EXTENDS Sequences, SequencesExt

CONSTANTS Scrapes  \* what one scrape may bring: sets of series, as below

VARIABLES
    stage,    \* the place in the pipeline of the metrics on their way
    scraped,  \* what the last scrape brought
    metrics   \* what has become of it

collecting == <<stage, scraped, metrics>>

Metric(g, n) == [group |-> g, of |-> n]

(***************************************************************************)
(* A series: the metric, its labels, what kind of number it is, and, as a  *)
(* history, what the kubelet reported it for.                              *)
(***************************************************************************)
Series(m, labels, data, about) == [metric |-> m, labels |-> labels, data |-> data, about |-> about]

(***************************************************************************)
(* What the kubelets count: traffic for the sandbox of a pod or for the    *)
(* node, everything else for a container, a pod or the node.  A series has *)
(* the labels of what it was counted for; those that do not apply to it    *)
(* are empty, but for the sandbox, which some kubelets call a container.   *)
(***************************************************************************)
NetworkCounts ==
    {"network_receive_bytes_total", "network_receive_packets_dropped_total",
     "network_receive_errors_total", "network_receive_packets_total",
     "network_transmit_bytes_total", "network_transmit_packets_dropped_total",
     "network_transmit_errors_total", "network_transmit_packets_total"}
Levels == {"spec_cpu_quota", "spec_memory_limit_bytes", "memory_working_set_bytes"}

Reported(s) ==
    /\ DOMAIN s = {"metric", "labels", "data", "about"}
    /\ s.metric = Metric("raw", s.metric.of)
    /\ {"pod", "container", "image", "namespace", "eks_amazonaws_com_compute_type"} \subseteq DOMAIN s.labels
    /\ \/ s.about = "container" /\ s.labels.container # ""
       \/ s.about = "pod" /\ s.labels.pod # "" /\ s.labels.container = "" /\ s.labels.image = ""
       \/ s.about = "sandbox" /\ s.labels.pod # ""
       \/ s.about = "node" /\ s.labels.pod = "" /\ s.labels.container = ""
    /\ s.about = "sandbox" => s.metric.of \in NetworkCounts
    /\ s.metric.of \in NetworkCounts => s.about \in {"sandbox", "node"}
    /\ s.data \in {"gauge", "cumulative"}
    /\ s.metric.of \in Levels => s.data = "gauge"

ASSUME ScrapesAssumption == \A ms \in Scrapes : \A s \in ms : Reported(s)

Named(ms, m) == {s \in ms : s.metric = m}

\* The values of labels that the tables ask for: not empty, empty, or as given.
HasLabels(s, wanted) ==
    \A l \in DOMAIN wanted :
        CASE wanted[l] = "\\S" -> l \in DOMAIN s.labels /\ s.labels[l] # ""
          [] wanted[l] = "^$" -> l \notin DOMAIN s.labels \/ s.labels[l] = ""
          [] OTHER -> l \in DOMAIN s.labels /\ s.labels[l] = wanted[l]

\* The action update_label gives a label another name, add_label adds one.
UpdateLabel(s, old, new) ==
    IF old \notin DOMAIN s.labels THEN s
    ELSE [s EXCEPT !.labels =
            [l \in (DOMAIN @ \ {old}) \cup {new} |-> IF l = new THEN @[old] ELSE @[l]]]

AddLabel(s, label, value) ==
    [s EXCEPT !.labels = [l \in DOMAIN @ \cup {label} |-> IF l = label THEN value ELSE @[l]]]

-----------------------------------------------------------------------------
(***************************************************************************)
(* metricstransform/label_1 and resourcedetection: labels of the node and  *)
(* of the cluster.                                                         *)
(***************************************************************************)

Label1(ms) ==
    {UpdateLabel(UpdateLabel(UpdateLabel(s, "name", "container_id"),
                             "kubernetes_io_hostname", "NodeName"),
                 "eks_amazonaws_com_compute_type", "LaunchType") : s \in ms}

\* The cluster's name is in the environment of the collector's container.
DetectResource(ms) == {AddLabel(s, "ClusterName", "cluster") : s \in ms}

-----------------------------------------------------------------------------
(***************************************************************************)
(* metricstransform/rename: copies under a new name of the series whose    *)
(* labels are as wanted.  The patterns are not anchored: the one for       *)
(* container_x also finds new_container_x, which may have been inserted    *)
(* before.                                                                 *)
(***************************************************************************)

Rename(include, g, n, wanted) == [include |-> include, new |-> Metric(g, n), wanted |-> wanted]

OfContainer == [container |-> "\\S", LaunchType |-> "fargate"]
OfPod == [image |-> "^$", container |-> "^$", pod |-> "\\S", LaunchType |-> "fargate"]
OfNetwork == [pod |-> "\\S", LaunchType |-> "fargate"]

ContainerTransforms ==
    LET new(include, n) == Rename(include, "new_container", n, OfContainer)
    IN  <<new("spec_cpu_quota", "cpu_limit_raw"), new("spec_cpu_shares", "cpu_request"),
          new("cpu_usage_seconds_total", "cpu_usage_seconds_total"),
          new("spec_memory_limit_bytes", "memory_limit"), new("memory_cache", "memory_cache"),
          new("memory_max_usage_bytes", "memory_max_usage"),
          new("memory_usage_bytes", "memory_usage"),
          new("memory_working_set_bytes", "memory_working_set"),
          new("memory_rss", "memory_rss"), new("memory_swap", "memory_swap"),
          new("memory_failcnt", "memory_failcnt")>>

\* Page faults: the kubelet has one metric for all, told apart by two labels.
Faults(g, wanted) ==
    LET new(type, scope, n) ==
            Rename("memory_failures_total", g, n,
                   [l \in DOMAIN wanted \cup {"failure_type", "scope"} |->
                        CASE l = "failure_type" -> type [] l = "scope" -> scope [] OTHER -> wanted[l]])
    IN  <<new("pgfault", "hierarchy", "memory_hierarchical_pgfault"),
          new("pgmajfault", "hierarchy", "memory_hierarchical_pgmajfault"),
          new("pgfault", "container", "memory_pgfault"),
          new("pgmajfault", "container", "memory_pgmajfault")>>

ContainerFaults == Faults("new_container", OfContainer)

FileTransforms ==
    <<Rename("fs_limit_bytes", "new_container", "filesystem_capacity", OfContainer),
      Rename("fs_usage_bytes", "new_container", "filesystem_usage", OfContainer)>>

PodTransforms ==
    LET new(include, n) == Rename(include, "pod", n, OfPod)
    IN  <<new("spec_cpu_quota", "cpu_limit_raw"), new("spec_cpu_shares", "cpu_request"),
          new("cpu_usage_seconds_total", "cpu_usage_seconds_total"),
          new("spec_memory_limit_bytes", "memory_limit"), new("memory_cache", "memory_cache"),
          new("memory_max_usage_bytes", "memory_max_usage"),
          new("memory_usage_bytes", "memory_usage"),
          new("memory_working_set_bytes", "memory_working_set"),
          new("memory_rss", "memory_rss"), new("memory_swap", "memory_swap"),
          new("memory_failcnt", "memory_failcnt")>>

PodFaults == Faults("pod", OfPod)

NetworkTransforms ==
    LET new(include, n) == Rename(include, "pod", n, OfNetwork)
    IN  <<new("network_receive_bytes_total", "network_rx_bytes"),
          new("network_receive_packets_dropped_total", "network_rx_dropped"),
          new("network_receive_errors_total", "network_rx_errors"),
          new("network_receive_packets_total", "network_rx_packets"),
          new("network_transmit_bytes_total", "network_tx_bytes"),
          new("network_transmit_packets_dropped_total", "network_tx_dropped"),
          new("network_transmit_errors_total", "network_tx_errors"),
          new("network_transmit_packets_total", "network_tx_packets")>>

Transforms ==
    ContainerTransforms \o ContainerFaults \o FileTransforms \o PodTransforms \o PodFaults
    \o NetworkTransforms

Concerns(t, s) ==
    /\ s.metric \in {Metric("raw", t.include), Metric("new_container", t.include)}
    /\ HasLabels(s, t.wanted)

InsertCopies(ms, t) == ms \cup {[s EXCEPT !.metric = t.new] : s \in {x \in ms : Concerns(t, x)}}

RenameAll(ms) == FoldLeft(InsertCopies, ms, Transforms)

\* The filter lets what has been renamed pass.
KeepRenamed(ms) == {s \in ms : s.metric.group \in {"new_container", "pod"}}

-----------------------------------------------------------------------------
(***************************************************************************)
(* cumulativetodelta, deltatorate and experimental_metricsgeneration.      *)
(***************************************************************************)

FaultNames == {"memory_pgfault", "memory_pgmajfault", "memory_hierarchical_pgfault",
               "memory_hierarchical_pgmajfault"}
NetworkNames == {"network_rx_bytes", "network_rx_dropped", "network_rx_errors", "network_rx_packets",
                 "network_tx_bytes", "network_tx_dropped", "network_tx_errors", "network_tx_packets"}

ToDelta ==
    {Metric("pod", n) : n \in NetworkNames}
    \cup {Metric(g, n) : g \in {"new_container", "pod"}, n \in FaultNames \cup {"cpu_usage_seconds_total"}}

ToRate == ToDelta

Convert(ms, which, from, to) ==
    {IF s.metric \in which /\ s.data = from THEN [s EXCEPT !.data = to] ELSE s : s \in ms}

\* A rule makes a metric of one or two others, with the labels of the first, for
\* each series of the first, when there is one of the other.
Generated(n, first, second) == [new |-> Metric("pod", n), first |-> Metric("pod", first), second |-> Metric("pod", second)]
Scale(n, first) == Generated(n, first, first)

Generation1 ==
    <<Generated("network_total_bytes", "network_rx_bytes", "network_tx_bytes"),
      Generated("memory_utilization_over_pod_limit", "memory_working_set", "memory_limit"),
      Scale("cpu_usage_total", "cpu_usage_seconds_total"),
      Scale("cpu_limit", "cpu_limit_raw")>>

Generation2 == <<Generated("cpu_utilization_over_pod_limit", "cpu_usage_total", "cpu_limit")>>

Generate(ms, rule) ==
    ms \cup {[s EXCEPT !.metric = rule.new] : s \in
                {x \in Named(ms, rule.first) : Named(ms, rule.second) # {}}}

-----------------------------------------------------------------------------
(***************************************************************************)
(* metricstransform/label_2 and the exporter.                              *)
(***************************************************************************)

Label2(ms) ==
    LET typed(s) == AddLabel(s, "Type", IF s.metric.group = "pod" THEN "Pod" ELSE "Container")
        relabelled(s) == UpdateLabel(UpdateLabel(typed(s), "namespace", "Namespace"), "pod", "PodName")
        renamed(s) == IF s.metric.group # "new_container" THEN s
                      ELSE [s EXCEPT !.metric.group = "container"]
    IN  {renamed(relabelled(s)) : s \in ms}

\* What is declared as metrics of CloudWatch, and under which sets of labels.
Selected ==
    {Metric("pod", n) : n \in {"cpu_utilization_over_pod_limit", "cpu_usage_total", "cpu_limit",
                               "memory_utilization_over_pod_limit", "memory_working_set",
                               "memory_limit", "network_rx_bytes", "network_tx_bytes"}}

Dimensions ==
    {{"ClusterName", "LaunchType"}, {"ClusterName", "Namespace", "LaunchType"},
     {"ClusterName", "Namespace", "PodName", "LaunchType"}}

Published(ms) ==
    {p \in ms \X Dimensions : p[1].metric \in Selected /\ p[2] \subseteq DOMAIN p[1].labels}

-----------------------------------------------------------------------------
\* A fault: metrics are copied before their launch type is known by its name.
PipelineRenamesFirst ==
    <<"metricstransform/rename", "metricstransform/label_1", "resourcedetection", "filter",
      "cumulativetodelta", "deltatorate", "experimental_metricsgeneration/1",
      "experimental_metricsgeneration/2", "metricstransform/label_2", "batch">>

Pipeline ==
    <<"metricstransform/label_1", "resourcedetection", "metricstransform/rename", "filter",
      "cumulativetodelta", "deltatorate", "experimental_metricsgeneration/1",
      "experimental_metricsgeneration/2", "metricstransform/label_2", "batch">>

CollectInit == stage = 0 /\ scraped = {} /\ metrics = {}

Scrape ==
    /\ stage = 0
    /\ \E ms \in Scrapes : scraped' = ms /\ metrics' = ms
    /\ stage' = 1

Through(p, ms) ==
    /\ stage \in DOMAIN Pipeline /\ Pipeline[stage] = p
    /\ metrics' = ms
    /\ stage' = stage + 1
    /\ UNCHANGED scraped

\* The batch processor changes nothing.  What is exported is gone for the pipeline.
Export ==
    /\ stage > Len(Pipeline)
    /\ stage' = 0 /\ scraped' = {} /\ metrics' = {}

CollectNext ==
    \/ Scrape
    \/ Through("metricstransform/label_1", Label1(metrics))
    \/ Through("resourcedetection", DetectResource(metrics))
    \/ Through("metricstransform/rename", RenameAll(metrics))
    \/ Through("filter", KeepRenamed(metrics))
    \/ Through("cumulativetodelta", Convert(metrics, ToDelta, "cumulative", "delta"))
    \/ Through("deltatorate", Convert(metrics, ToRate, "delta", "rate"))
    \/ Through("experimental_metricsgeneration/1", FoldLeft(Generate, metrics, Generation1))
    \/ Through("experimental_metricsgeneration/2", FoldLeft(Generate, metrics, Generation2))
    \/ Through("metricstransform/label_2", Label2(metrics))
    \/ Through("batch", metrics)
    \/ Export

CollectSpec == CollectInit /\ [][CollectNext]_collecting

-----------------------------------------------------------------------------
\* What each selected metric needs of the kubelet, for one pod.
Needs(n) ==
    CASE n = "cpu_usage_total" -> {"cpu_usage_seconds_total"}
      [] n = "cpu_limit" -> {"spec_cpu_quota"}
      [] n = "cpu_utilization_over_pod_limit" -> {"cpu_usage_seconds_total", "spec_cpu_quota"}
      [] n = "memory_working_set" -> {"memory_working_set_bytes"}
      [] n = "memory_limit" -> {"spec_memory_limit_bytes"}
      [] n = "memory_utilization_over_pod_limit" -> {"memory_working_set_bytes", "spec_memory_limit_bytes"}
      [] n = "network_rx_bytes" -> {"network_receive_bytes_total"}
      [] n = "network_tx_bytes" -> {"network_transmit_bytes_total"}

ScrapedFor(pod) ==
    {s.metric.of : s \in {x \in scraped : /\ x.about \in {"pod", "sandbox"}
                                          /\ x.labels.pod = pod
                                          /\ x.labels.eks_amazonaws_com_compute_type = "fargate"}}

PodsScraped == {s.labels.pod : s \in {x \in scraped : x.about \in {"pod", "sandbox"}}}

(***************************************************************************)
(* Whatever the kubelets report, a metric that is declared to CloudWatch   *)
(* is exported for every Fargate pod that the numbers it is made of were   *)
(* scraped for, with every label that it is declared under, and it is a    *)
(* rate or a gauge: a counter that was converted too late, or not at all,  *)
(* would be.  That depends on the order of ten processors and on the       *)
(* agreement of eight tables.                                              *)
(***************************************************************************)
SelectedMetricsArrive ==
    stage > Len(Pipeline) =>
        \A m \in Selected, pod \in PodsScraped :
            Needs(m.of) \subseteq ScrapedFor(pod) =>
                \A labels \in Dimensions :
                    \E s \in Named(metrics, m) :
                        /\ <<s, labels>> \in Published(metrics)
                        /\ s.labels.PodName = pod
                        /\ s.data \in {"gauge", "rate"}

(***************************************************************************)
(* What is exported for a pod was reported for a pod that runs on Fargate, *)
(* and what is exported for a container for a container: the two sets of   *)
(* patterns find the same names, also those that the first has inserted,   *)
(* and only the labels tell them apart.                                    *)
(***************************************************************************)
PodsAndContainersApart ==
    stage > Len(Pipeline) =>
        \A s \in metrics :
            /\ s.labels.LaunchType = "fargate"
            /\ s.metric.group = "pod" => s.about \in {"pod", "sandbox"} /\ s.labels.Type = "Pod"
            /\ s.metric.group = "container" => s.about = "container" /\ s.labels.Type = "Container"

\* The metrics of pods that are wanted arrive, and no others under their names.
PodMetricsArrive == SelectedMetricsArrive /\ PodsAndContainersApart
=============================================================================
