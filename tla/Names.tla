-------------------------------- MODULE Names --------------------------------
(***************************************************************************)
(* The names and labels by which the operator, the webhook and Kubernetes  *)
(* find the objects of a document.                                         *)
(*                                                                         *)
(* The name of an object is a sequence of words, which are joined by       *)
(* dashes; no word has a dash of its own.  Names are in lower case already *)
(* when they reach the operator.  Labels are pairs of a key and a value,   *)
(* and a selector is a set of labels that an object has to carry.          *)
(***************************************************************************)
EXTENDS Integers, Sequences

\* The object of a claim: replica set, service, id of the server.
ReplicaName(doc, claim) == doc \o claim

\* The deployment, the service and the generated ConfigMap of the proxy.
ProxyName(doc) == doc \o <<"proxy">>

SeedConfigMapName(doc) == doc \o <<"seed">>

SeedJobName(doc, claim) == ReplicaName(doc, claim) \o <<"seed">>

\* Kubernetes appends a suffix to the name of a replica set.
PodName(replica, suffix) == Append(replica, suffix)

\* getReplicaDeploymentName cuts off the last word.
DeploymentName(pod) == SubSeq(pod, 1, Len(pod) - 1)

\* Labels of the objects the operator makes.
LabelsForApp(doc) ==
  {<<"created-by", <<"verify-directory-operator">> >>,
   <<"part-of", <<"verify-directory">> >>,
   <<"cr-name", doc>>}

\* Labels of the pod of a replica.
LabelsForPod(doc, replica, claim) ==
  {<<"kind", <<"IBMSecurityVerifyDirectory">> >>,
   <<"app", doc>>,
   <<"cr-name", replica>>,
   <<"pvc-name", claim>>}

\* Selects the pods of all replicas of a document.
LabelsForReplica(doc) ==
  {<<"kind", <<"IBMSecurityVerifyDirectory">> >>,
   <<"app", doc>>}

\* Labels of the pods of the proxy.
LabelsForProxy(doc) ==
  {<<"kind", <<"IBMSecurityVerifyDirectory">> >>,
   <<"cr-name", ProxyName(doc)>>}

\* Does an object with these labels match the selector?
Matches(labels, selector) == selector \subseteq labels
=============================================================================
