------------------------- MODULE ClusterDeployment -------------------------
(***************************************************************************)
(* A Fargate cluster with its add-ons (eks-patterns/                       *)
(* aws-integrated-fargate-cluster.ts), the secrets that are registered     *)
(* with its external secrets operator, and how CloudFormation deploys      *)
(* them: any resource next of whose dependencies all are deployed.         *)
(*                                                                         *)
(* External: a manifest is refused in a namespace that does not exist, or  *)
(* if nothing has defined its kind.  A chart is installed and then waited  *)
(* for, until its pods run: they need their service account and a profile  *)
(* that takes pods of the namespace.  Kubernetes resources wait for all    *)
(* profiles of the cluster.  A pod is logged if the configuration of logs  *)
(* is there when it starts.                                                *)
(***************************************************************************)
EXTENDS Naturals, FiniteSets

CONSTANTS
    Secrets,        \* secrets and parameters of the application
    ServiceOf,      \* [Secrets -> services that keep them]
    StackOf,        \* [Secrets -> stacks]
    ClusterStack,   \* the stack of the cluster
    UsedByCluster,  \* stacks that the cluster's stack uses
    SecretIds,      \* ids that secrets are registered with
    Targets,        \* namespaces that secrets are registered for
    MaxRegistered   \* bound: registered secrets

\* In the order in which they are added.
Position == [logger |-> 1, adot |-> 2, dns |-> 3, operator |-> 4, prometheus |-> 5]
AddOns == DOMAIN Position

VARIABLES
    enabled,        \* the add-ons of the cluster
    dnsNamespace,   \* the namespace given for the DNS add-on
    opensNamespace, \* whether the operator creates its namespace
    registered,     \* secrets as they were registered: <<secret, id, namespace>>
    stage,          \* "writing", "refused", "deploying" or "failed"
    deployed,       \* resources that are deployed
    installed,      \* charts that are waited for
    refused,        \* resources that could not be deployed
    namespaces,     \* those of the Kubernetes cluster
    unlogged,       \* add-ons with pods that started before logs were configured
    synced          \* registered secrets that have arrived

clusterVars == <<enabled, dnsNamespace, opensNamespace, registered, stage, deployed, installed, refused,
                 namespaces, unlogged, synced>>

-----------------------------------------------------------------------------
(***************************************************************************)
(* Resources: a kind, and what tells those of one kind apart.              *)
(***************************************************************************)

Store(e) == <<e[3], ServiceOf[e[1]]>>
Stores == {Store(e) : e \in registered}

\* A store is constructed below the operator, by the first secret of its namespace
\* and service.
AddOnOf ==
    [loggerManifest |-> "logger", adotAccount |-> "adot", adotManifest |-> "adot",
     dnsAccount |-> "dns", dnsChart |-> "dns", operatorChart |-> "operator",
     storeAccount |-> "operator", store |-> "operator",
     prometheusAccount |-> "prometheus", prometheusChart |-> "prometheus"]

ResourcesOf(a) ==
    {<<kind>> : kind \in {k \in DOMAIN AddOnOf \ {"storeAccount", "store"} : AddOnOf[k] = a}}
    \cup IF a = "operator" THEN {<<kind, s>> : kind \in {"storeAccount", "store"}, s \in Stores} ELSE {}

Resources ==
    (UNION {ResourcesOf(a) : a \in enabled}) \cup {<<"externalSecret", e>> : e \in registered}

\* Each add-on depends on the one before it, and the first on the cluster.
Last(as) == {b \in as : \A c \in as : Position[c] <= Position[b]}
PreviousButLogger(a) == Last({b \in enabled \ {"logger"} : Position[b] < Position[a]})
Previous(a) == Last({b \in enabled : Position[b] < Position[a]})

\* What a store waits for beside the add-on before the operator.
StoreNeedsAccount(kind, s) == IF kind = "store" THEN {<<"storeAccount", s>>} ELSE {}
StoreNeeds(kind, s) ==
    {<<"operatorChart">>} \cup IF kind = "store" THEN {<<"storeAccount", s>>} ELSE {}

Dependencies(r) ==
    IF r[1] = "externalSecret"
    THEN {<<"storeAccount", Store(r[2])>>, <<"store", Store(r[2])>>}
    ELSE (UNION {ResourcesOf(b) : b \in Previous(AddOnOf[r[1]])})
         \cup IF r[1] \in {"storeAccount", "store"} THEN StoreNeeds(r[1], r[2]) ELSE {}

-----------------------------------------------------------------------------
(***************************************************************************)
(* The program.                                                            *)
(***************************************************************************)

\* The DNS add-on gets the options it is given; ADOT gets none.
ClusterInit ==
    /\ enabled \in SUBSET AddOns
    /\ dnsNamespace \in {"kube-system", "dns"}
    /\ opensNamespace \in BOOLEAN
    /\ registered = {}
    /\ stage = "writing"
    /\ deployed = {} /\ installed = {} /\ refused = {}
    /\ namespaces = {"default", "kube-system"}
    /\ unlogged = {} /\ synced = {}

\* The construct of a secret that syncs it is below the secret, by its id.
RegisterSecret(s, id, n) ==
    /\ stage = "writing"
    /\ IF "operator" \notin enabled \/ \E e \in registered : e[1] = s /\ e[2] = id
       THEN stage' = "refused" /\ UNCHANGED registered
       ELSE /\ Cardinality(registered) < MaxRegistered
            /\ registered' = registered \cup {<<s, id, n>>}
            /\ UNCHANGED stage
    /\ UNCHANGED <<enabled, dnsNamespace, opensNamespace, deployed, installed, refused, namespaces,
                   unlogged, synced>>

\* The stack of a secret depends on the one of its store.
CyclicStacks == \E e \in registered : StackOf[e[1]] \in UsedByCluster

SynthesizeCluster ==
    /\ stage = "writing"
    /\ stage' = IF CyclicStacks THEN "refused" ELSE "deploying"
    /\ UNCHANGED <<enabled, dnsNamespace, opensNamespace, registered, deployed, installed, refused, namespaces,
                   unlogged, synced>>

-----------------------------------------------------------------------------
(***************************************************************************)
(* The deployment.                                                         *)
(***************************************************************************)

NamespaceOf(r) ==
    CASE r[1] = "loggerManifest" -> "aws-observability"
      [] r[1] \in {"adotAccount", "adotManifest"} -> "adot"
      [] r[1] \in {"dnsAccount", "dnsChart"} -> dnsNamespace
      [] r[1] = "operatorChart" -> "external-secrets"
      [] r[1] \in {"prometheusAccount", "prometheusChart"} -> "prometheus"
      [] r[1] \in {"storeAccount", "store"} -> r[2][1]
      [] r[1] = "externalSecret" -> Store(r[2])[1]

\* Charts and manifests that create the namespace they are for.
Opens(r) ==
    \/ r[1] \in {"loggerManifest", "adotManifest", "dnsChart", "prometheusChart"}
    \/ r[1] = "operatorChart" /\ opensNamespace

IsChart(r) == r[1] \in {"dnsChart", "operatorChart", "prometheusChart"}

\* The operator's chart defines the kinds of stores and of external secrets.
KindKnown(r) == r[1] \in {"store", "externalSecret"} => <<"operatorChart">> \in deployed

\* What a resource depends on comes first, and the stack that its stack uses.
Deployable(r) ==
    /\ stage = "deploying"
    /\ r \notin deployed \cup installed \cup refused
    /\ Dependencies(r) \subseteq deployed
    /\ r[1] = "externalSecret" /\ StackOf[r[2][1]] # ClusterStack =>
         {q \in Resources : q[1] = "externalSecret" => StackOf[q[2][1]] = ClusterStack} \subseteq deployed

Accepted(r) == (NamespaceOf(r) \in namespaces \/ Opens(r)) /\ KindKnown(r)

\* An add-on's pods are created by its manifest or its chart.
StartsPods(r) == IsChart(r) \/ r[1] = "adotManifest"

LogsConfigured == "logger" \in enabled => <<"loggerManifest">> \in deployed

Apply(r) ==
    /\ Deployable(r) /\ Accepted(r)
    /\ IF IsChart(r)
       THEN installed' = installed \cup {r} /\ UNCHANGED deployed
       ELSE deployed' = deployed \cup {r} /\ UNCHANGED installed
    /\ namespaces' = namespaces \cup {NamespaceOf(r)}
    /\ unlogged' = unlogged \cup IF StartsPods(r) /\ ~LogsConfigured THEN {AddOnOf[r[1]]} ELSE {}
    /\ UNCHANGED <<enabled, dnsNamespace, opensNamespace, registered, stage, refused, synced>>

\* The first resource that fails fails the deployment.
Refuse(r) ==
    /\ Deployable(r) /\ ~Accepted(r)
    /\ refused' = refused \cup {r}
    /\ stage' = "failed"
    /\ UNCHANGED <<enabled, dnsNamespace, opensNamespace, registered, deployed, installed, namespaces,
                   unlogged, synced>>

\* The profiles that take the pods of the add-ons, and those that the logger is given.
ProfileOf(a) == IF a = "dns" THEN "default" ELSE a
LoggedProfiles == {"default"} \cup (enabled \cap {"adot", "operator"})

\* Service accounts of pods that a chart does not create itself.
AccountFor(r) ==
    CASE r[1] = "dnsChart" -> {<<"dnsAccount">>}
      [] r[1] = "prometheusChart" -> {<<"prometheusAccount">>}
      [] OTHER -> {}

\* The default profile takes two namespaces; the operator and Prometheus have profiles
\* for theirs, and the DNS add-on has none.
Taken(n) == n \in {"default", "kube-system", "adot", "external-secrets", "prometheus"}

PodsRun(r) == AccountFor(r) \subseteq deployed /\ Taken(NamespaceOf(r))

BecomeReady(r) ==
    /\ stage = "deploying"
    /\ r \in installed /\ PodsRun(r)
    /\ installed' = installed \ {r}
    /\ deployed' = deployed \cup {r}
    /\ UNCHANGED <<enabled, dnsNamespace, opensNamespace, registered, stage, refused, namespaces,
                   unlogged, synced>>

TimeOut(r) ==
    /\ stage = "deploying"
    /\ r \in installed /\ ~PodsRun(r)
    /\ installed' = installed \ {r}
    /\ refused' = refused \cup {r}
    /\ stage' = "failed"
    /\ UNCHANGED <<enabled, dnsNamespace, opensNamespace, registered, deployed, namespaces, unlogged, synced>>

\* The namespace of an external secret is the one of its store.
TargetDefault(e) == "default"
Target(e) == Store(e)[1]

\* The operator finds the store of a secret in the namespace of the secret.
Sync(e) ==
    /\ e \in registered \ synced
    /\ <<"operatorChart">> \in deployed
    /\ <<"externalSecret", e>> \in deployed
    /\ <<"store", <<Target(e), ServiceOf[e[1]]>>>> \in deployed
    /\ <<"storeAccount", <<Target(e), ServiceOf[e[1]]>>>> \in deployed
    /\ synced' = synced \cup {e}
    /\ UNCHANGED <<enabled, dnsNamespace, opensNamespace, registered, stage, deployed, installed, refused,
                   namespaces, unlogged>>

DeployCluster ==
    \/ stage = "deploying" /\ \E r \in Resources : Apply(r) \/ Refuse(r)
    \/ \E r \in installed : BecomeReady(r) \/ TimeOut(r)
    \/ \E e \in registered : Sync(e)

ClusterNext ==
    \/ \E s \in Secrets, id \in SecretIds, n \in Targets : RegisterSecret(s, id, n)
    \/ SynthesizeCluster
    \/ DeployCluster

\* CloudFormation and the operator go on as long as there is something to do.
ClusterSpec == ClusterInit /\ [][ClusterNext]_clusterVars /\ WF_clusterVars(DeployCluster)

-----------------------------------------------------------------------------
\* Nobody has to create these for what was asked for.
Missing(n) == n \notin {"default", "kube-system"}

\* A deployment fails only because of what the program asked for: secrets for, or an
\* operator in, a namespace that nobody creates, DNS in a namespace that no profile
\* takes; or because a service account and the chart or manifest that creates
\* its namespace are deployed at the same time and the wrong one comes first.
\* Nothing is ever applied before the operator that defines its kind is ready.
FailuresAreRaces ==
    \A r \in refused :
        \/ r[1] \in {"adotAccount", "dnsAccount", "prometheusAccount"} /\ Missing(NamespaceOf(r))
        \/ IsChart(r) /\ ~(AccountFor(r) \subseteq deployed)
        \/ r = <<"dnsChart">> /\ dnsNamespace = "dns"
        \/ r = <<"operatorChart">> /\ ~opensNamespace
        \/ r[1] \in {"storeAccount", "store", "externalSecret"} /\ NamespaceOf(r) \notin namespaces

\* Logs are configured before any add-on has pods, which otherwise would never be logged.
LogsComeFirst == unlogged = {}

\* Every registered secret arrives in its namespace unless the deployment fails.
SecretsArrive == stage = "deploying" ~> (registered \subseteq synced \/ stage = "failed")

\* Every add-on's pods may write their logs: the logger knows the profile that takes
\* them, as k8s-aws/README.md 26 asks of whoever adds a profile.
PodsMayLog ==
    \A r \in deployed \cup installed :
        StartsPods(r) /\ "logger" \in enabled => ProfileOf(AddOnOf[r[1]]) \in LoggedProfiles
=============================================================================
