-------------------------------- MODULE Proxy --------------------------------
(***************************************************************************)
(* deployProxy: how the LDAP proxy in front of the replicas gets its       *)
(* configuration.                                                          *)
(*                                                                         *)
(* The operator merges the base configuration, which an administrator      *)
(* keeps in config maps, with the replicas of the document, saves the      *)
(* result in a config map of its own, and updates the deployment of the    *)
(* proxy.  A proxy reads the file when it starts.  To make running proxies *)
(* read it again, the operator writes the time into an annotation of the   *)
(* pod template: that is a new revision of the deployment, whose pods      *)
(* Kubernetes starts one by one in the place of the old ones.              *)
(*                                                                         *)
(* The operator does not wait for this, and each time it updates the       *)
(* deployment it first leaves out the annotation, and so goes back to the  *)
(* revision without one.                                                   *)
(*                                                                         *)
(* Taken for granted: no two restarts fall into one second, the unit of    *)
(* the annotation, and no update of the status is lost, or refused because *)
(* of a change of the metadata (see DocumentLifecycle and Replicas).       *)
(***************************************************************************)
EXTENDS Naturals

CONSTANTS
  Replicas,     \* what a document may say of the replicas
  Settings,     \* what a document may say of the pods of the proxy
  Port,         \* the ports a base configuration may ask for
  Rest,         \* the rest of a base configuration
  PodId,        \* the pods of the proxy
  None,         \* no object, or no pod
  MaxEdits,     \* bound: edits of the document or of the base configuration
  MaxCrashes    \* bound: crashes of the operator

Doc == [replicas : Replicas, settings : Settings]
Base == [port : Port, rest : Rest]
Yaml == [base : Base, replicas : Replicas]
Template == [port : Port, settings : Settings]

\* A deployment has a revision for each pod template; the template consists of
\* what the operator puts there and of the annotation, 0 if there is none.
Revision == [template : Template, stamp : Nat]
Pod == [revision : Revision, yaml : Yaml]

ASSUME ProxyAssumption ==
  /\ None \notin Yaml \cup Template \cup Revision \cup Pod \cup Port
  /\ MaxEdits \in Nat /\ MaxCrashes \in Nat

VARIABLES
  doc,          \* the spec of the stored document
  inProgress,   \* its InProgress condition
  failed,       \* is its Available condition false?
  queued,       \* is a request in the work queue?
  base,         \* the base configuration, with what the servers' adds to it
  configMap,    \* the configuration the operator saved
  deployment,   \* the revision the deployment asks for
  service,      \* the port of the proxy's service
  pods,         \* the pods of the proxy: revision, and configuration read
  pc,           \* what deployProxy does next
  yaml,         \* the configuration it has constructed
  template,     \* the pod template it has constructed
  updated,      \* has it saved a new configuration?
  restarts,     \* the time: the number of restarts so far
  edits, crashes

document == <<doc, inProgress, failed, queued>>
objects == <<configMap, deployment, service>>
locals == <<yaml, template, updated>>
vars == <<document, base, objects, pods, pc, locals, restarts, edits, crashes>>

TypeOK ==
  /\ doc \in Doc /\ base \in Base
  /\ inProgress \in BOOLEAN /\ failed \in BOOLEAN /\ queued \in BOOLEAN
  /\ configMap \in Yaml \cup {None}
  /\ deployment \in Revision \cup {None}
  /\ service \in Port \cup {None}
  /\ pods \in [PodId -> Pod \cup {None}]
  /\ pc \in {"idle", "save", "deploy", "service", "restart", "done"}
  /\ yaml \in Yaml \cup {None} /\ template \in Template \cup {None}
  /\ updated \in BOOLEAN
  /\ restarts \in Nat /\ edits \in Nat /\ crashes \in Nat

Init ==
  /\ doc \in Doc /\ base \in Base
  /\ inProgress = FALSE /\ failed = FALSE /\ queued = TRUE
  /\ configMap = None /\ deployment = None /\ service = None
  /\ pods = [i \in PodId |-> None]
  /\ pc = "idle" /\ yaml = None /\ template = None /\ updated = FALSE
  /\ restarts = 0 /\ edits = 0 /\ crashes = 0
-----------------------------------------------------------------------------
(* The user, behind the webhook, and the administrator.  An edit may leave *)
(* the spec as it is and change a label.                                   *)

Edit ==
  /\ ~inProgress /\ ~failed
  /\ edits < MaxEdits /\ edits' = edits + 1
  /\ doc' \in Doc
  /\ queued' = TRUE
  /\ UNCHANGED <<inProgress, failed, base, objects, pods, pc, locals, restarts,
                 crashes>>

\* No event tells the operator about this.
EditBase ==
  /\ edits < MaxEdits /\ edits' = edits + 1
  /\ base' \in Base
  /\ UNCHANGED <<document, objects, pods, pc, locals, restarts, crashes>>
-----------------------------------------------------------------------------
(* Reconcile, as far as the proxy is concerned. *)

Leave ==
  /\ pc' = "idle"
  /\ yaml' = None /\ template' = None /\ updated' = FALSE

Skip ==
  /\ pc = "idle" /\ queued /\ failed
  /\ queued' = FALSE
  /\ UNCHANGED <<doc, inProgress, failed, base, objects, pods, pc, locals,
                 restarts, edits, crashes>>

\* constructProxyYaml: the base configuration and the replicas.
Construct == [base |-> base, replicas |-> doc.replicas]

\* Mutant of PodTemplate: the whole document in the place of its pod settings.
WholeTemplate == [port |-> base.port, settings |-> doc]

\* The pod template of createProxyDeployment.
PodTemplate == [port |-> base.port, settings |-> doc.settings]

\* getProxyJson reads the base configuration, once.
Begin ==
  /\ pc = "idle" /\ queued /\ ~failed
  /\ queued' = FALSE
  /\ inProgress' = TRUE
  /\ yaml' = Construct
  /\ template' = PodTemplate
  /\ pc' = "save"
  /\ UNCHANGED <<doc, failed, base, objects, pods, updated, restarts, edits,
                 crashes>>

\* Mutant of Save: a config map that exists is not updated.
SaveOnce ==
  /\ pc = "save"
  /\ updated' = (configMap = None)
  /\ configMap' = IF configMap = None THEN yaml ELSE configMap
  /\ pc' = "deploy"
  /\ UNCHANGED <<document, base, deployment, service, pods, yaml, template,
                 restarts, edits, crashes>>

\* saveProxyConfig: the config map is only written when it changes.
Save ==
  /\ pc = "save"
  /\ updated' = (configMap # yaml)
  /\ configMap' = yaml
  /\ pc' = "deploy"
  /\ UNCHANGED <<document, base, deployment, service, pods, yaml, template,
                 restarts, edits, crashes>>

\* createProxyDeployment, when there is none yet.
CreateDeployment ==
  /\ pc = "deploy"
  /\ deployment = None
  /\ deployment' = [template |-> template, stamp |-> 0]
  /\ pc' = "service"
  /\ UNCHANGED <<document, base, configMap, service, pods, locals, restarts,
                 edits, crashes>>

\* If there is a service already the call fails.
CreateService ==
  /\ pc = "service"
  /\ service = None
  /\ service' = template.port
  /\ pc' = "done"
  /\ UNCHANGED <<document, base, configMap, deployment, pods, locals, restarts,
                 edits, crashes>>

\* Mutant of UpdateDeployment: the annotation is kept.
UpdateInPlace ==
  /\ pc = "deploy"
  /\ deployment # None
  /\ deployment' = [template |-> template, stamp |-> deployment.stamp]
  /\ pc' = IF updated THEN "restart" ELSE "done"
  /\ UNCHANGED <<document, base, configMap, service, pods, locals, restarts,
                 edits, crashes>>

\* The specification never equals the stored one, into which the API server has
\* put its defaults, and always replaces it, annotations included.
UpdateDeployment ==
  /\ pc = "deploy"
  /\ deployment # None
  /\ deployment' = [template |-> template, stamp |-> 0]
  /\ pc' = IF updated THEN "restart" ELSE "done"
  /\ UNCHANGED <<document, base, configMap, service, pods, locals, restarts,
                 edits, crashes>>

\* Mutant of Restart: the annotation is always the same.
RestartAlike ==
  /\ pc = "restart"
  /\ restarts' = restarts + 1
  /\ deployment' = [deployment EXCEPT !.stamp = 1]
  /\ pc' = "done"
  /\ UNCHANGED <<document, base, configMap, service, pods, locals, edits, crashes>>

\* The patch that writes the time into the annotation.
Restart ==
  /\ pc = "restart"
  /\ restarts' = restarts + 1
  /\ deployment' = [deployment EXCEPT !.stamp = restarts + 1]
  /\ pc' = "done"
  /\ UNCHANGED <<document, base, configMap, service, pods, locals, edits, crashes>>

Report ==
  /\ pc = "done"
  /\ inProgress' = FALSE
  /\ Leave
  /\ UNCHANGED <<doc, failed, queued, base, objects, pods, restarts, edits,
                 crashes>>

\* Mutant of Fail: the error is not passed on.
FailSilently ==
  /\ pc \notin {"idle", "done"}
  /\ inProgress' = FALSE
  /\ Leave
  /\ UNCHANGED <<doc, failed, queued, base, objects, pods, restarts, edits,
                 crashes>>

\* Any of the calls fails, or the removal of replicas after them.
Fail ==
  /\ pc # "idle"
  /\ inProgress' = FALSE /\ failed' = TRUE
  /\ Leave
  /\ UNCHANGED <<doc, queued, base, objects, pods, restarts, edits, crashes>>

\* The operator dies; the next process finds the document in its first list.
Crash ==
  /\ crashes < MaxCrashes /\ crashes' = crashes + 1
  /\ queued' = TRUE
  /\ Leave
  /\ UNCHANGED <<doc, inProgress, failed, base, objects, pods, restarts, edits>>

Reconcile == Skip \/ Begin \/ Save \/ CreateDeployment \/ CreateService
                  \/ UpdateDeployment \/ Restart \/ Report \/ Fail
-----------------------------------------------------------------------------
(* Kubernetes. *)

\* The deployment controller starts a pod in the place of one of another
\* revision, or of none.
RollOut(i) ==
  /\ deployment # None
  /\ (pods[i] # None => pods[i].revision # deployment)
  /\ pods' = [pods EXCEPT ![i] = [revision |-> deployment, yaml |-> configMap]]
  /\ UNCHANGED <<document, base, objects, pc, locals, restarts, edits, crashes>>

\* A proxy is restarted in its pod, or the pod replaced by one of its kind.
StartAgain(i) ==
  /\ pods[i] # None
  /\ pods' = [pods EXCEPT ![i].yaml = configMap]
  /\ UNCHANGED <<document, base, objects, pc, locals, restarts, edits, crashes>>

Next ==
  \/ Edit \/ EditBase
  \/ Reconcile \/ Crash
  \/ \E i \in PodId : RollOut(i) \/ StartAgain(i)

Spec == Init /\ [][Next]_vars

\* The worker is a running goroutine, and a rollout makes progress.
FairSpec == Spec /\ WF_vars(Reconcile) /\ \A i \in PodId : WF_vars(RollOut(i))
-----------------------------------------------------------------------------
\* The last reconcile has ended, and says that all went well.
Settled == pc = "idle" /\ ~queued /\ ~inProgress /\ ~failed

(* When a reconcile has succeeded, whatever crashed in between, the saved  *)
(* configuration names the replicas of the document, and the deployment    *)
(* has its settings and the port of that configuration.                    *)
ObjectsAgree ==
  Settled => /\ configMap # None /\ deployment # None
             /\ configMap.replicas = doc.replicas
             /\ deployment.template.settings = doc.settings
             /\ deployment.template.port = configMap.base.port

(* When the last reconcile that succeeded has restarted the proxy, no pod  *)
(* of the new revision runs with an older configuration, whatever happened *)
(* before it.                                                              *)
RestartLoads ==
  Settled /\ deployment.stamp # 0 =>
    \A i \in PodId : pods[i] # None /\ pods[i].revision = deployment
                       => pods[i].yaml = configMap

(* Without a crash the proxy has its service when the reconcile succeeded: *)
(* no failure on the way is hidden.                                        *)
Served == Settled /\ crashes = 0 => service # None

Loaded == \A i \in PodId : pods[i] # None /\ pods[i].yaml = configMap

(* After such a restart all proxies run with the saved configuration in    *)
(* the end, unless another reconcile begins before.                        *)
RestartCompletes == Settled /\ deployment.stamp # 0 ~> Loaded \/ ~Settled

(* "These entries will be automatically added by the operator based on the *)
(* current replica configuration", says the README of the replicas in the  *)
(* configuration of the proxy: when the operator has reported success and  *)
(* the rollout is over, every proxy runs with the current replicas.        *)
ProxyFollows ==
  Settled /\ (\A i \in PodId : pods[i] # None /\ pods[i].revision = deployment)
    => \A i \in PodId : pods[i].yaml.replicas = doc.replicas
=============================================================================
