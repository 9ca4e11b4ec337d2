------------------------ MODULE MCClusterDeployment ------------------------
\* Clusters with every choice of add-ons, to which no secrets are added.
EXTENDS ClusterDeployment

MCServiceOf == [password |-> "secrets-manager"]
MCStackOf == [password |-> "platform"]
=============================================================================
