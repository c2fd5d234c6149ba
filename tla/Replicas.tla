------------------------------- MODULE Replicas -------------------------------
(***************************************************************************)
(* How one document is turned into replicas: Reconcile, createReplicas and *)
(* deleteReplicas, running against a Kubernetes cluster that goes its own  *)
(* way.                                                                    *)
(*                                                                         *)
(* A replica is known by its persistent volume claim.  It consists of a    *)
(* replica set, which keeps one pod running, a service, and the directory  *)
(* on the volume.  To add replicas the operator makes the replication      *)
(* agreements on an existing replica, the principal, stops it, copies its  *)
(* volume with one seed job for each new replica, starts the new replicas, *)
(* links them to each other and starts the principal again.  Only then is  *)
(* the proxy told about the new set, and only after that are the replicas  *)
(* removed which are no longer wanted.                                     *)
(*                                                                         *)
(* Each call to the API server, each command run in a pod and each wait is *)
(* a step.  Between any two of them pods come and go, jobs end and are     *)
(* cleaned up, and the operator may crash; it then starts again from what  *)
(* it finds in the cluster.  How the document itself is cached, queued and *)
(* versioned is the subject of DocumentLifecycle: here the operator reads  *)
(* the stored document, and an edit after that makes the first status      *)
(* update fail.                                                            *)
(***************************************************************************)
EXTENDS Naturals, FiniteSets, SequencesExt

CONSTANTS
  PVC,             \* the persistent volume claims
  Docs,            \* the lists of claims users may ask for
  PodId,           \* distinguishes the pods of one replica set
  OtherPod,        \* some pod of the namespace that is not a replica
  None,            \* no document, claim or pod
  MaxUpdates,      \* bound: documents written by users
  MaxCrashes,      \* bound: crashes of the operator
  MaxDisruptions,  \* bound: pods that are evicted or fail
  MaxLost,         \* bound: API errors that the operator ignores
  MaxDeletes,      \* bound: documents deleted by users
  MaxFaults,       \* bound: crashes, disruptions, ignored errors and deletions
                   \* together
  Patient          \* do users wait, before they make a document again, until
                   \* what belonged to the deleted one has gone?

ASSUME ReplicasAssumption ==
  /\ \A d \in Docs : /\ d \in Seq(PVC)
                     /\ \A i, j \in DOMAIN d : d[i] = d[j] => i = j
  /\ None \notin Docs \cup PVC
  /\ OtherPod \notin PVC \cup (PVC \X PodId)
  /\ None \notin {OtherPod} \cup (PVC \X PodId)
  /\ {"empty", "partial"} \cap PVC = {}
  /\ {MaxUpdates, MaxCrashes, MaxDisruptions, MaxLost, MaxDeletes, MaxFaults}
       \subseteq Nat
  /\ Patient \in BOOLEAN

VARIABLES
  \* the document
  spec,            \* the replicas asked for
  inProgress,      \* the InProgress condition
  available,       \* the Available condition
  queued,          \* is a request in the work queue?
  \* the cluster
  rs,              \* the claims that have a replica set
  svc,             \* the names of the services
  pods,            \* the state of each pod of each claim
  job,             \* the seed job of each claim: its state and its source
  seedMap,         \* does the seed ConfigMap exist?
  proxy,           \* the replicas in the configuration of the proxy
  orphans,         \* the objects whose owner, a document, has been deleted
  \* the volumes
  data,            \* where the directory on each volume originated
  agreements,      \* <<s, d>>: server s replicates to d
  \* the variables of Reconcile
  pc,              \* what the worker does next
  doc,             \* h.directory
  existing,
  toBeDeleted,
  toBeAdded,
  principal,
  todo,            \* what a loop over toBeAdded, in the order of the document,
                   \* has not visited yet
  left,            \* what a loop over a map, or toBeDeleted, has not visited
  replicaPods,     \* the deployment name found for each new replica
  target,          \* the replica being deployed or deleted
  pod,             \* the name of a pod, to be used later
  removing,        \* has deleteReplicas begun?
  \* the bounds
  updates, crashes, disruptions, lost, deletes

document == <<spec, inProgress, available, queued>>
cluster == <<rs, svc, pods, job, seedMap, proxy>>
volumes == <<data, agreements>>
plan == <<doc, existing, toBeDeleted, toBeAdded, principal, removing>>
loops == <<todo, left, replicaPods, target, pod>>
bounds == <<updates, crashes, disruptions, lost, deletes>>
vars == <<document, cluster, volumes, orphans, pc, plan, loops, bounds>>

\* A pod that is being deleted is terminating when its server still answers,
\* and stopping when it did not answer yet.
PodState == {"none", "starting", "ready", "failed", "terminating", "stopping"}
JobState == {"none", "running", "succeeded", "failed"}
Pods == PVC \X PodId

\* The objects that belong to a document; the seed ConfigMap and the
\* configuration of the proxy exist once.
Object == ({"rs", "job"} \X PVC) \cup ({"svc"} \X (PVC \cup {OtherPod}))
            \cup {<<"map", None>>, <<"proxy", None>>}

\* Where Reconcile can be.  The document is in its hands from "mark" on, and
\* marked as InProgress after that.
Acting == {"config", "deploy", "lookup", "service", "ready", "agree", "find",
           "unserve", "undeploy", "gone", "seedMap", "seed", "seedWait",
           "seeded", "new", "newLookup", "newReady", "link", "newService",
           "proxy", "remove", "unlink", "report"}
Place == Acting \cup {"idle", "mark", "down"}

TypeOK ==
  /\ spec \in Docs \cup {None} /\ doc \in Docs \cup {None}
  /\ inProgress \in BOOLEAN /\ queued \in BOOLEAN
  /\ available \in {"unset", "true", "false"}
  /\ rs \subseteq PVC /\ svc \subseteq PVC \cup {OtherPod}
  /\ pods \in [PVC -> [PodId -> PodState]]
  /\ job \in [PVC -> [state : JobState, source : PVC \cup {None}]]
  /\ seedMap \in BOOLEAN
  /\ proxy \subseteq PVC
  /\ orphans \subseteq Object
  /\ data \in [PVC -> PVC \cup {"empty", "partial"}]
  /\ agreements \subseteq PVC \X PVC
  /\ pc \in Place
  /\ existing \subseteq PVC /\ toBeDeleted \subseteq existing
  /\ toBeAdded \subseteq PVC /\ todo \subseteq PVC
  /\ principal \in PVC \cup {None} /\ target \in PVC \cup {None}
  /\ left \subseteq PVC
  /\ replicaPods \in [PVC -> PVC \cup {OtherPod, None}]
  /\ pod \in Pods \cup {OtherPod, None}
  /\ removing \in BOOLEAN
  /\ {updates, crashes, disruptions, lost, deletes} \subseteq Nat

Init ==
  /\ spec = None /\ inProgress = FALSE /\ available = "unset"
  /\ queued = FALSE
  /\ rs = {} /\ svc = {} /\ seedMap = FALSE /\ proxy = {}
  /\ orphans = {}
  /\ pods = [p \in PVC |-> [i \in PodId |-> "none"]]
  /\ job = [p \in PVC |-> [state |-> "none", source |-> None]]
  /\ data = [p \in PVC |-> "empty"]
  /\ agreements = {}
  /\ pc = "idle" /\ doc = None
  /\ existing = {} /\ toBeDeleted = {} /\ toBeAdded = {}
  /\ principal = None /\ removing = FALSE
  /\ todo = {} /\ left = {} /\ target = None /\ pod = None
  /\ replicaPods = [p \in PVC |-> None]
  /\ updates = 0 /\ crashes = 0 /\ disruptions = 0 /\ lost = 0 /\ deletes = 0
-----------------------------------------------------------------------------
(* The user, behind the webhook. *)

MoreFaults == crashes + disruptions + lost + deletes < MaxFaults

Listed(p) == {i \in PodId : pods[p][i] # "none"}

Ask(d) ==
  /\ updates < MaxUpdates
  /\ updates' = updates + 1
  /\ spec' = d
  /\ queued' = TRUE
  /\ UNCHANGED <<inProgress, available, cluster, volumes, orphans, pc, plan,
                 loops, crashes, disruptions, lost, deletes>>

\* The pods and objects of a deleted document have gone.
CleanedUp == orphans = {} /\ \A p \in PVC : Listed(p) = {}

Create(d) == /\ spec = None
             /\ Patient => CleanedUp
             /\ Ask(d)

\* Mutant of Edit: the webhook does not look at InProgress.
EditAnytime(d) == spec # None /\ spec # d /\ available # "false" /\ Ask(d)

\* ValidateUpdate.  Its checks on the pods look for labels no pod carries.
Edit(d) == /\ spec # None /\ spec # d
           /\ ~inProgress
           /\ available # "false"
           /\ Ask(d)

\* What belongs to the document.
Owned == {<<"rs", p>> : p \in rs} \cup {<<"svc", n>> : n \in svc}
           \cup {<<"job", p>> : p \in {q \in PVC : job[q].state # "none"}}
           \cup (IF seedMap THEN {<<"map", None>>} ELSE {})
           \cup (IF proxy # {} THEN {<<"proxy", None>>} ELSE {})

\* Mutant of Delete: the webhook does not look at InProgress.
DeleteAnytime ==
  /\ spec # None
  /\ deletes < MaxDeletes /\ MoreFaults
  /\ deletes' = deletes + 1
  /\ spec' = None /\ available' = "unset" /\ inProgress' = FALSE
  /\ queued' = TRUE
  /\ orphans' = orphans \cup Owned
  /\ UNCHANGED <<cluster, volumes, pc, plan, loops, updates, crashes,
                 disruptions, lost>>

\* ValidateDelete.  The document is gone at once, the rest is left to the
\* garbage collector; the volumes belong to nobody.
Delete ==
  /\ spec # None
  /\ ~inProgress
  /\ deletes < MaxDeletes /\ MoreFaults
  /\ deletes' = deletes + 1
  /\ spec' = None /\ available' = "unset"
  /\ queued' = TRUE
  /\ orphans' = orphans \cup Owned
  /\ UNCHANGED <<inProgress, cluster, volumes, pc, plan, loops, updates,
                 crashes, disruptions, lost>>
-----------------------------------------------------------------------------
(* The pods of the cluster, as the operator meets them. *)

\* getReplicaSetPodName: some pod that carries the labels of the replica set,
\* whatever its state; without a replica set the selector is empty, and that
\* is any pod of the namespace.
Found(p) ==
  IF p \in rs
  THEN {<<p, i>> : i \in Listed(p)}
  ELSE {h \in Pods : pods[h[1]][h[2]] # "none"} \cup {OtherPod}

\* The name of a pod without its suffix.
Owner(h) == IF h = OtherPod THEN OtherPod ELSE h[1]

\* A pod goes on answering until its termination is complete.
Answers(h) == h # OtherPod /\ pods[h[1]][h[2]] \in {"ready", "terminating"}

\* What waitForPod waits for.
IsReady(h) == h = OtherPod \/ Answers(h)

\* What deleteReplica waits for.
IsGone(h) == h # OtherPod /\ pods[h[1]][h[2]] = "none"
-----------------------------------------------------------------------------
(* The end of a reconcile. *)

\* The local variables are forgotten.
GoTo(place) ==
  /\ pc' = place
  /\ doc' = None /\ existing' = {} /\ toBeDeleted' = {} /\ toBeAdded' = {}
  /\ principal' = None /\ removing' = FALSE
  /\ todo' = {} /\ left' = {} /\ target' = None /\ pod' = None
  /\ replicaPods' = [p \in PVC |-> None]

SetCondition(outcome) ==
  /\ inProgress' = FALSE
  /\ available' = outcome
  /\ UNCHANGED <<spec, queued>>

\* A call that fails without the operator taking notice.
Lose == lost < MaxLost /\ MoreFaults /\ lost' = lost + 1

\* deleteConfigMap; its error is ignored.
DeleteSeedMap ==
  \/ seedMap' = FALSE /\ UNCHANGED lost
  \/ Lose /\ UNCHANGED seedMap

\* The steps that end the reconcile when a call fails or a wait is over.
MayFail == {"config", "service", "ready", "agree", "unserve", "undeploy",
            "gone", "seedMap", "seed", "seedWait", "newReady", "link",
            "newService", "proxy"}

\* Mutant of Fail: an early return without setCondition.
FailSilently ==
  /\ pc \in MayFail
  /\ GoTo("idle")
  /\ UNCHANGED <<document, cluster, volumes, orphans, bounds>>

Fail ==
  /\ pc \in MayFail
  /\ SetCondition("false")
  /\ IF pc \in {"seed", "seedWait"} THEN DeleteSeedMap
                                    ELSE UNCHANGED <<seedMap, lost>>
  /\ GoTo("idle")
  /\ UNCHANGED <<rs, svc, pods, job, proxy, volumes, orphans, updates, crashes,
                 disruptions, deletes>>

Report ==
  /\ pc = "report"
  /\ SetCondition("true")
  /\ GoTo("idle")
  /\ UNCHANGED <<cluster, volumes, orphans, bounds>>

\* The final status update fails; this is only logged.
ReportFails ==
  /\ pc \in MayFail \cup {"report"}
  /\ Lose
  /\ seedMap' = (seedMap /\ pc \notin {"seed", "seedWait"})
  /\ GoTo("idle")
  /\ UNCHANGED <<document, rs, svc, pods, job, proxy, volumes, orphans,
                 updates, crashes, disruptions, deletes>>
-----------------------------------------------------------------------------
(* Reconcile, up to the choice of the principal. *)

Skip ==
  /\ pc = "idle" /\ queued
  /\ spec = None \/ available = "false"
  /\ queued' = FALSE
  /\ UNCHANGED <<spec, inProgress, available, cluster, volumes, orphans, pc,
                 plan, loops, bounds>>

\* A slice of replicas that keeps the order of the document is the set of
\* them, and this is the first element.
First(S) ==
  doc[CHOOSE i \in DOMAIN doc : /\ doc[i] \in S
                               /\ \A j \in DOMAIN doc : doc[j] \in S => i <= j]

Rest == todo \ {First(todo)}

\* Mutant of Begin: what is to be deleted and what exists are mixed up.
BeginSwapped ==
  /\ pc = "idle" /\ queued
  /\ spec # None /\ available # "false"
  /\ queued' = FALSE
  /\ doc' = spec
  /\ existing' = {p \in PVC : Listed(p) # {}}
  /\ toBeDeleted' = ToSet(spec) \ existing'
  /\ toBeAdded' = ToSet(spec) \ existing'
  /\ pc' = "mark"
  /\ UNCHANGED <<spec, inProgress, available, cluster, volumes, orphans,
                 principal, removing, loops, bounds>>

\* getExistingPods and analyseExistingPods
Begin ==
  /\ pc = "idle" /\ queued
  /\ spec # None /\ available # "false"
  /\ queued' = FALSE
  /\ doc' = spec
  /\ existing' = {p \in PVC : Listed(p) # {}}
  /\ toBeDeleted' = existing' \ ToSet(spec)
  /\ toBeAdded' = ToSet(spec) \ existing'
  /\ pc' = "mark"
  /\ UNCHANGED <<spec, inProgress, available, cluster, volumes, orphans,
                 principal, removing, loops, bounds>>

\* Mutant of Mark: the status update is not refused.
MarkBlindly ==
  /\ pc = "mark"
  /\ inProgress' = TRUE
  /\ pc' = "config"
  /\ UNCHANGED <<spec, available, queued, cluster, volumes, orphans, plan,
                 loops, bounds>>

\* The first status update, refused when the document has changed: the change
\* has put the document back in the queue.
Mark ==
  /\ pc = "mark"
  /\ ~queued
  /\ inProgress' = TRUE
  /\ pc' = "config"
  /\ UNCHANGED <<spec, available, queued, cluster, volumes, orphans, plan,
                 loops, bounds>>

MarkConflict ==
  /\ pc = "mark"
  /\ queued
  /\ GoTo("idle")
  /\ UNCHANGED <<document, cluster, volumes, orphans, bounds>>

\* The update is refused and nothing asks for another one: an API error, or a
\* change of the metadata alone, which makes no event.
MarkFails ==
  /\ pc = "mark"
  /\ Lose
  /\ GoTo("idle")
  /\ UNCHANGED <<document, cluster, volumes, orphans, updates, crashes,
                 disruptions, deletes>>

\* The list of pods cannot be read.
Refuse ==
  /\ pc = "mark"
  /\ IF queued THEN UNCHANGED document ELSE SetCondition("false")
  /\ GoTo("idle")
  /\ UNCHANGED <<cluster, volumes, orphans, bounds>>

\* getServerConfig, and the beginning of createReplicas.
Plan ==
  /\ pc = "config"
  /\ \/ /\ toBeAdded = {}
        /\ pc' = "proxy"
        /\ UNCHANGED <<principal, toBeAdded, todo, target>>
     \/ /\ toBeAdded # {} /\ existing # {}
        /\ principal' \in existing
        /\ todo' = toBeAdded
        /\ pc' = "agree"
        /\ UNCHANGED <<toBeAdded, target>>
     \/ /\ toBeAdded # {} /\ existing = {}
        /\ principal' = First(toBeAdded)
        /\ target' = principal'
        /\ toBeAdded' = toBeAdded \ {principal'}
        /\ todo' = toBeAdded'
        /\ pc' = "deploy"
  /\ UNCHANGED <<document, cluster, volumes, orphans, doc, existing,
                 toBeDeleted, removing, left, replicaPods, pod, bounds>>
-----------------------------------------------------------------------------
(* deployReplica, createClusterService and waitForPod, for the principal:  *)
(* when there is none yet, and when it is started again.                   *)

\* The replica set is there afterwards unless the call failed for another
\* reason than that it exists; an error is ignored either way.
CreateReplicaSet(p) ==
  \/ rs' = rs \cup {p} /\ UNCHANGED lost
  \/ Lose /\ UNCHANGED rs

Deploy ==
  /\ pc = "deploy"
  /\ CreateReplicaSet(target)
  /\ pc' = "lookup"
  /\ UNCHANGED <<document, svc, pods, job, seedMap, proxy, volumes, orphans,
                 plan, loops, updates, crashes, disruptions, deletes>>

Lookup ==
  /\ pc = "lookup"
  /\ pod' \in Found(target)
  /\ pc' = "service"
  /\ UNCHANGED <<document, cluster, volumes, orphans, plan, todo, left,
                 replicaPods, target, bounds>>

\* The service is named after the pod.  If there is one the call fails.
Service ==
  /\ pc = "service"
  /\ Owner(pod) \notin svc
  /\ svc' = svc \cup {Owner(pod)}
  /\ pc' = "ready"
  /\ UNCHANGED <<document, rs, pods, job, seedMap, proxy, volumes, orphans,
                 plan, loops, bounds>>

\* The first principal may need replicas; a principal that was started again
\* has got them.
Ready ==
  /\ pc = "ready"
  /\ IsReady(pod)
  /\ existing' = existing \cup {principal}
  /\ pc' = IF principal \notin existing /\ todo # {} THEN "agree" ELSE "proxy"
  /\ pod' = None /\ target' = None
  /\ UNCHANGED <<document, cluster, volumes, orphans, doc, toBeDeleted,
                 toBeAdded, principal, removing, todo, left, replicaPods,
                 bounds>>
-----------------------------------------------------------------------------
(* createReplicationAgreement: on the source, any agreement with the same  *)
(* destination is removed and a new one is made.                           *)

Agreement(source, dest) ==
  \E h \in Found(source) :
    /\ Answers(h)
    /\ agreements' = agreements \cup {<<Owner(h), dest>>}

\* The removal succeeds and the addition fails.
AgreementHalfMade(source, dest) ==
  \E h \in Found(source) :
    /\ Answers(h)
    /\ <<Owner(h), dest>> \in agreements
    /\ agreements' = agreements \ {<<Owner(h), dest>>}

\* The principal learns about each new replica, and is then stopped.
Agree ==
  /\ pc = "agree"
  /\ Agreement(principal, First(todo))
  /\ todo' = Rest
  /\ IF Rest = {} THEN pc' = "find" /\ target' = principal
                          ELSE UNCHANGED <<pc, target>>
  /\ UNCHANGED <<document, cluster, data, orphans, plan, left, replicaPods,
                 pod, bounds>>

\* Mutant of Sources: the other new replicas are forgotten.
OldSources(dest) == existing \ ({principal, dest} \cup toBeAdded)

\* createReplicationAgreements: the sources for a new replica are the others
\* that exist by now, the principal excepted.
Sources(dest) == existing \ {principal, dest}

\* What follows a replica in the loop, leaving out what has no source.
Linkable(rest) == {p \in rest : Sources(p) # {}}

\* After the last source of a replica, the next replica; after the last
\* replica, the services.
NextLink(rest) ==
  IF Linkable(rest) = {}
  THEN /\ pc' = "newService" /\ todo' = {}
       /\ left' = toBeAdded
  ELSE /\ pc' = "link" /\ todo' = Linkable(rest)
       /\ left' = Sources(First(todo'))

Link ==
  /\ pc = "link"
  /\ \E source \in left :
       /\ Agreement(source, First(todo))
       /\ IF left = {source}
          THEN NextLink(Rest)
          ELSE left' = left \ {source} /\ UNCHANGED <<pc, todo>>
  /\ UNCHANGED <<document, cluster, data, orphans, plan, replicaPods, target,
                 pod, bounds>>

AgreementFails ==
  /\ \/ pc = "agree" /\ AgreementHalfMade(principal, First(todo))
     \/ pc = "link" /\ \E s \in left : AgreementHalfMade(s, First(todo))
  /\ SetCondition("false")
  /\ GoTo("idle")
  /\ UNCHANGED <<cluster, data, orphans, bounds>>
-----------------------------------------------------------------------------
(* deleteReplica, for the principal and for what is to be deleted.         *)

Find ==
  /\ pc = "find"
  /\ pod' \in Found(target)
  /\ pc' = "unserve"
  /\ UNCHANGED <<document, cluster, volumes, orphans, plan, todo, left,
                 replicaPods, target, bounds>>

Unserve ==
  /\ pc = "unserve"
  /\ svc' = svc \ {target} /\ orphans' = orphans \ {<<"svc", target>>}
  /\ pc' = "undeploy"
  /\ UNCHANGED <<document, rs, pods, job, seedMap, proxy, volumes, plan, loops,
                 bounds>>

\* What the deletion of a pod makes of it.
Deleted(state) ==
  CASE state = "ready" -> "terminating"
    [] state = "starting" -> "stopping"
    [] state = "failed" -> "none"
    [] OTHER -> state

\* The garbage collector deletes the pods of a replica set that is gone.
Undeploy ==
  /\ pc = "undeploy"
  /\ rs' = rs \ {target} /\ orphans' = orphans \ {<<"rs", target>>}
  /\ pods' = [pods EXCEPT ![target] = [i \in PodId |-> Deleted(@[i])]]
  /\ pc' = "gone"
  /\ UNCHANGED <<document, svc, job, seedMap, proxy, volumes, plan, loops,
                 bounds>>

\* Mutant of Gone: the pod is not waited for.
GoneAtOnce ==
  /\ pc = "gone"
  /\ pod' = None /\ target' = None
  /\ IF removing THEN pc' = "remove" /\ left' = left \ {target}
                 ELSE pc' = "seedMap" /\ UNCHANGED left
  /\ UNCHANGED <<document, cluster, volumes, orphans, plan, todo, replicaPods,
                 bounds>>

\* Any error of the Get counts as the absence of the pod.
Gone ==
  /\ pc = "gone"
  /\ \/ IsGone(pod) /\ UNCHANGED lost
     \/ Lose
  /\ pod' = None /\ target' = None
  /\ IF removing THEN pc' = "remove" /\ left' = left \ {target}
                 ELSE pc' = "seedMap" /\ UNCHANGED left
  /\ UNCHANGED <<document, cluster, volumes, orphans, plan, todo, replicaPods,
                 updates, crashes, disruptions, deletes>>
-----------------------------------------------------------------------------
(* createReplicas, while the principal is stopped.                         *)

\* createConfigMap creates or updates; either way it is this document's then.
SeedMap ==
  /\ pc = "seedMap"
  /\ seedMap' = TRUE /\ orphans' = orphans \ {<<"map", None>>}
  /\ todo' = toBeAdded
  /\ pc' = "seed"
  /\ UNCHANGED <<document, rs, svc, pods, job, proxy, volumes, plan, left,
                 replicaPods, target, pod, bounds>>

\* seedReplica; if there is a job of that name the call fails.
Seed ==
  /\ pc = "seed"
  /\ job[First(todo)].state = "none"
  /\ job' = [job EXCEPT ![First(todo)] = [state |-> "running",
                                          source |-> principal]]
  /\ IF Rest = {} THEN pc' = "seedWait" /\ todo' = toBeAdded
                          ELSE todo' = Rest /\ UNCHANGED pc
  /\ UNCHANGED <<document, rs, svc, pods, seedMap, proxy, volumes, orphans,
                 plan, left, replicaPods, target, pod, bounds>>

\* Mutant of SeedWait: any job counts as finished.
SeedGlance ==
  /\ pc = "seedWait"
  /\ todo' = Rest
  /\ pc' = IF Rest = {} THEN "seeded" ELSE pc
  /\ UNCHANGED <<document, cluster, volumes, orphans, plan, left, replicaPods,
                 target, pod, bounds>>

\* waitForJob
SeedWait ==
  /\ pc = "seedWait"
  /\ job[First(todo)].state = "succeeded"
  /\ todo' = Rest
  /\ pc' = IF Rest = {} THEN "seeded" ELSE pc
  /\ UNCHANGED <<document, cluster, volumes, orphans, plan, left, replicaPods,
                 target, pod, bounds>>

Seeded ==
  /\ pc = "seeded"
  /\ DeleteSeedMap
  /\ todo' = toBeAdded
  /\ pc' = "new"
  /\ UNCHANGED <<document, rs, svc, pods, job, proxy, volumes, orphans, plan,
                 left, replicaPods, target, pod, updates, crashes, disruptions,
                 deletes>>

New ==
  /\ pc = "new"
  /\ CreateReplicaSet(First(todo))
  /\ pc' = "newLookup"
  /\ UNCHANGED <<document, svc, pods, job, seedMap, proxy, volumes, orphans,
                 plan, loops, updates, crashes, disruptions, deletes>>

NewLookup ==
  /\ pc = "newLookup"
  /\ \E h \in Found(First(todo)) :
       replicaPods' = [replicaPods EXCEPT ![First(todo)] = Owner(h)]
  /\ existing' = existing \cup {First(todo)}
  /\ todo' = Rest
  /\ IF Rest = {} THEN pc' = "newReady" /\ left' = toBeAdded
                          ELSE pc' = "new" /\ UNCHANGED left
  /\ UNCHANGED <<document, cluster, volumes, orphans, doc, toBeDeleted,
                 toBeAdded, principal, removing, target, pod, bounds>>

\* The pod is looked up again and waited for.
NewReady ==
  /\ pc = "newReady"
  /\ \E p \in left :
       /\ \E h \in Found(replicaPods[p]) : IsReady(h)
       /\ IF left = {p} THEN NextLink(toBeAdded)
                        ELSE left' = left \ {p} /\ UNCHANGED <<pc, todo>>
  /\ UNCHANGED <<document, cluster, volumes, orphans, plan, replicaPods,
                 target, pod, bounds>>

\* Mutant of NewService: the principal is not started again.
NewServiceLast ==
  /\ pc = "newService"
  /\ \E p \in left :
       /\ replicaPods[p] \notin svc
       /\ svc' = svc \cup {replicaPods[p]}
       /\ left' = left \ {p}
       /\ pc' = IF left = {p} THEN "proxy" ELSE pc
  /\ UNCHANGED <<document, rs, pods, job, seedMap, proxy, volumes, orphans,
                 plan, todo, replicaPods, target, pod, bounds>>

NewService ==
  /\ pc = "newService"
  /\ \E p \in left :
       /\ replicaPods[p] \notin svc
       /\ svc' = svc \cup {replicaPods[p]}
       /\ left' = left \ {p}
       /\ IF left = {p} THEN pc' = "deploy" /\ target' = principal
                        ELSE UNCHANGED <<pc, target>>
  /\ UNCHANGED <<document, rs, pods, job, seedMap, proxy, volumes, orphans,
                 plan, todo, replicaPods, pod, bounds>>
-----------------------------------------------------------------------------
(* deployProxy, whose steps are the subject of another module, and then    *)
(* deleteReplicas.                                                         *)

\* saveProxyConfig writes, and takes over, a configuration only if it differs.
SaveProxy ==
  /\ proxy' = ToSet(doc)
  /\ orphans' = IF proxy = ToSet(doc) THEN orphans
                                      ELSE orphans \ {<<"proxy", None>>}

\* Then deleteReplicas begins with what is obsolete.
StartRemoval(obsolete) ==
  /\ removing' = TRUE
  /\ left' = obsolete
  /\ pc' = "remove"
  /\ UNCHANGED <<document, rs, svc, pods, job, seedMap, volumes, doc, existing,
                 toBeDeleted, toBeAdded, principal, todo, replicaPods, target,
                 pod, bounds>>

\* Mutant of Proxy: the proxy is only deployed when replicas were added.
ProxySometimes ==
  /\ pc = "proxy"
  /\ IF principal = None THEN UNCHANGED <<proxy, orphans>> ELSE SaveProxy
  /\ StartRemoval(toBeDeleted)

\* Mutant of Proxy: every replica that existed is removed.
ProxyThenAll ==
  /\ pc = "proxy"
  /\ SaveProxy
  /\ StartRemoval(existing)

Proxy ==
  /\ pc = "proxy"
  /\ SaveProxy
  /\ StartRemoval(toBeDeleted)

NextRemoval ==
  /\ pc = "remove"
  /\ \/ /\ left = {}
        /\ pc' = "report"
        /\ UNCHANGED target
     \/ /\ target' \in left
        /\ pc' = "unlink"
  /\ UNCHANGED <<document, cluster, volumes, orphans, plan, todo, left,
                 replicaPods, pod, bounds>>

\* The command runs once for each replica that stays, in a pod of the replica
\* that goes; its errors are ignored.
Unlink ==
  /\ pc = "unlink"
  /\ \E h \in Found(target) :
       \/ UNCHANGED agreements
       \/ /\ Answers(h) /\ existing # toBeDeleted
          /\ agreements' = agreements \ {<<Owner(h), target>>}
  /\ pc' = "find"
  /\ UNCHANGED <<document, cluster, data, orphans, plan, loops, bounds>>

Reconcile ==
  \/ Skip \/ Begin \/ Mark \/ MarkConflict \/ Refuse \/ Plan
  \/ Deploy \/ Lookup \/ Service \/ Ready \/ Agree \/ Link \/ AgreementFails
  \/ Find \/ Unserve \/ Undeploy \/ Gone
  \/ SeedMap \/ Seed \/ SeedWait \/ Seeded
  \/ New \/ NewLookup \/ NewReady \/ NewService
  \/ Proxy \/ NextRemoval \/ Unlink \/ Report \/ Fail

\* Errors of status updates, which are only logged.
Unnoticed == MarkFails \/ ReportFails
-----------------------------------------------------------------------------
(* The cluster. *)

Active(p) == \E i \in PodId : pods[p][i] \in {"starting", "ready"}

SetPod(p, i, state) == pods' = [pods EXCEPT ![p][i] = state]

\* The replica set controller; a name is not used twice while the operator
\* remembers it.
PodCreated(p, i) ==
  /\ p \in rs /\ ~Active(p)
  /\ pods[p][i] = "none"
  /\ pod # <<p, i>>
  /\ SetPod(p, i, "starting")
  /\ UNCHANGED <<document, rs, svc, job, seedMap, proxy, volumes, orphans, pc,
                 plan, loops, bounds>>

\* A server that finds no directory on its volume makes one.
PodStarts(p, i) ==
  /\ pods[p][i] = "starting"
  /\ SetPod(p, i, "ready")
  /\ data' = [data EXCEPT ![p] = IF @ = "empty" THEN p ELSE @]
  /\ UNCHANGED <<document, rs, svc, job, seedMap, proxy, agreements, orphans,
                 pc, plan, loops, bounds>>

PodEnds(p, i) ==
  /\ pods[p][i] \in {"terminating", "stopping"}
  /\ SetPod(p, i, "none")
  /\ UNCHANGED <<document, rs, svc, job, seedMap, proxy, volumes, orphans, pc,
                 plan, loops, bounds>>

\* An eviction, the loss of a node, a deletion by hand.
Disrupt(p, i) ==
  /\ pods[p][i] \in {"starting", "ready"}
  /\ disruptions < MaxDisruptions /\ MoreFaults
  /\ disruptions' = disruptions + 1
  /\ \E state \in {"failed", Deleted(pods[p][i])} : SetPod(p, i, state)
  /\ UNCHANGED <<document, rs, svc, job, seedMap, proxy, volumes, orphans, pc,
                 plan, loops, updates, crashes, lost, deletes>>

\* A volume on which a server runs.
InUse(p) == \E i \in PodId : pods[p][i] \notin {"none", "failed"}

\* The job replaces the directory by a copy of its source, which is torn when
\* a server is writing to one of the two.
JobSucceeds(p) ==
  /\ job[p].state = "running"
  /\ job' = [job EXCEPT ![p].state = "succeeded"]
  /\ data' = [data EXCEPT ![p] =
               IF InUse(p) \/ InUse(job[p].source) THEN "partial"
                                                   ELSE data[job[p].source]]
  /\ agreements' = {a \in agreements : a[1] # p}
  /\ UNCHANGED <<document, rs, svc, pods, seedMap, proxy, orphans, pc, plan,
                 loops, bounds>>

JobFails(p) ==
  /\ job[p].state = "running"
  /\ job' = [job EXCEPT ![p].state = "failed"]
  /\ \/ UNCHANGED data
     \/ data' = [data EXCEPT ![p] = "partial"]
  /\ UNCHANGED <<document, rs, svc, pods, seedMap, proxy, agreements, orphans,
                 pc, plan, loops, bounds>>

\* TTLSecondsAfterFinished.  A minute is enough for the poll that waits for
\* this very job, not for the jobs that are waited for after it.
JobExpires(p) ==
  /\ job[p].state \in {"succeeded", "failed"}
  /\ ~(pc = "seedWait" /\ First(todo) = p)
  /\ job' = [job EXCEPT ![p] = [state |-> "none", source |-> None]]
  /\ orphans' = orphans \ {<<"job", p>>}
  /\ UNCHANGED <<document, rs, svc, pods, seedMap, proxy, volumes, pc, plan,
                 loops, bounds>>

\* The garbage collector, in any order.
CollectReplicaSet(p) ==
  /\ <<"rs", p>> \in orphans
  /\ orphans' = orphans \ {<<"rs", p>>}
  /\ rs' = rs \ {p}
  /\ pods' = [pods EXCEPT ![p] = [i \in PodId |-> Deleted(@[i])]]
  /\ UNCHANGED <<document, svc, job, seedMap, proxy, volumes, pc, plan, loops,
                 bounds>>

CollectService(n) ==
  /\ <<"svc", n>> \in orphans
  /\ orphans' = orphans \ {<<"svc", n>>}
  /\ svc' = svc \ {n}
  /\ UNCHANGED <<document, rs, pods, job, seedMap, proxy, volumes, pc, plan,
                 loops, bounds>>

\* A job that is still running is stopped half way.
CollectJob(p) ==
  /\ <<"job", p>> \in orphans
  /\ orphans' = orphans \ {<<"job", p>>}
  /\ job' = [job EXCEPT ![p] = [state |-> "none", source |-> None]]
  /\ \/ UNCHANGED data
     \/ job[p].state = "running" /\ data' = [data EXCEPT ![p] = "partial"]
  /\ UNCHANGED <<document, rs, svc, pods, seedMap, proxy, agreements, pc, plan,
                 loops, bounds>>

CollectMap ==
  /\ <<"map", None>> \in orphans
  /\ orphans' = orphans \ {<<"map", None>>}
  /\ seedMap' = FALSE
  /\ UNCHANGED <<document, rs, svc, pods, job, proxy, volumes, pc, plan, loops,
                 bounds>>

CollectProxy ==
  /\ <<"proxy", None>> \in orphans
  /\ orphans' = orphans \ {<<"proxy", None>>}
  /\ proxy' = {}
  /\ UNCHANGED <<document, rs, svc, pods, job, seedMap, volumes, pc, plan,
                 loops, bounds>>

GarbageCollection ==
  \/ \E p \in PVC : CollectReplicaSet(p) \/ CollectJob(p)
  \/ \E n \in PVC \cup {OtherPod} : CollectService(n)
  \/ CollectMap \/ CollectProxy

PodEvents == \E p \in PVC, i \in PodId :
               PodCreated(p, i) \/ PodStarts(p, i) \/ PodEnds(p, i)

JobEvents == \E p \in PVC : JobSucceeds(p) \/ JobFails(p) \/ JobExpires(p)

\* The operator's process ends; among the reasons is the panic of
\* getReplicaSetPodName when it finds no pod in two minutes.
Crash ==
  /\ pc # "down"
  /\ crashes < MaxCrashes /\ MoreFaults
  /\ crashes' = crashes + 1
  /\ GoTo("down")
  /\ queued' = FALSE
  /\ UNCHANGED <<spec, inProgress, available, cluster, volumes, orphans,
                 updates, disruptions, lost, deletes>>

\* A new process finds every document in its first list.
Restart ==
  /\ pc = "down"
  /\ pc' = "idle"
  /\ queued' = (spec # None)
  /\ UNCHANGED <<spec, inProgress, available, cluster, volumes, orphans, plan,
                 loops, bounds>>

User == Delete \/ \E d \in Docs : Create(d) \/ Edit(d)

Disruption == \E p \in PVC, i \in PodId : Disrupt(p, i)

Next == User \/ Reconcile \/ Unnoticed \/ PodEvents \/ JobEvents
             \/ GarbageCollection \/ Disruption \/ Crash \/ Restart

Spec == Init /\ [][Next]_vars

\* The worker is a running goroutine whose waits end, and the kubelet restarts
\* the operator.
FairSpec == /\ Spec
            /\ WF_vars(Reconcile) /\ WF_vars(Restart)
            /\ WF_vars(PodEvents)
-----------------------------------------------------------------------------
\* The operator has nothing left to do, and says that all went well.
Settled == pc = "idle" /\ ~queued /\ available = "true" /\ ~inProgress

(* While the operator acts, the document it has read is the stored one.    *)
Frozen == pc \in Acting => spec = doc /\ inProgress /\ available # "false"

Gate == INSTANCE UpdateGate WITH
  Content <- Docs,
  Absent <- None,
  stored <- spec,
  working <- IF pc \in Acting THEN doc ELSE None

(* Reconcile keeps to the gate from its first status update to its last    *)
(* one, wherever it fails or crashes between them.                         *)
ImplementsGate == Gate!Spec

(* A replica is taken down for good only when the stored document does not *)
(* list it and the proxy has been told to do without it, whatever fails or *)
(* vanishes under the operator: the removal works on a list it made before *)
(* it added replicas and deployed the proxy.                               *)
RemovalIsSafe ==
  removing => /\ proxy \subseteq ToSet(spec)
              /\ left \cap ToSet(spec) = {}
              /\ target # None => target \in left

(* While a seed job copies a volume, no server has either volume open.     *)
SeedIsolation ==
  \A p \in PVC : job[p].state = "running" => ~InUse(p) /\ ~InUse(job[p].source)

(* When the operator is done, the replicas asked for have their replica    *)
(* sets, services and ready pods, nothing else has, and the proxy lists    *)
(* just them.                                                              *)
AllServed ==
  Settled => /\ rs = ToSet(spec) /\ svc = ToSet(spec) /\ proxy = ToSet(spec)
             /\ \A p \in rs : \E i \in PodId : pods[p][i] = "ready"
             /\ ~seedMap

(* "Each server is a complete replica", says the README: no two volumes    *)
(* hold different directories, as they would after a server was started on *)
(* a volume that was never seeded.                                         *)
NoSecondDirectory ==
  \A p, q \in PVC : {data[p], data[q]} \subseteq PVC => data[p] = data[q]

(* When the operator is done, the replicas hold the same directory, what-  *)
(* ever an earlier document left on their volumes; and there is only one,  *)
(* and a whole one, as long as no document is deleted or asks for nothing. *)
OneDirectory ==
  /\ Settled => \A p, q \in ToSet(spec) : data[p] = data[q]
  /\ deletes = 0 /\ <<>> \notin Docs =>
       /\ NoSecondDirectory
       /\ Settled => \A p \in ToSet(spec) : data[p] \in PVC

(* When the operator is done, each two replicas are linked.                *)
FullMesh ==
  Settled => \A p, q \in ToSet(spec) :
               p # q => <<p, q>> \in agreements \/ <<q, p>> \in agreements

(* When the operator is done the proxy lists the replicas asked for,       *)
(* whatever crashed and vanished before, unless an error was ignored or a  *)
(* document was made again while the old one's objects were collected.     *)
ProxyIsCurrent ==
  Settled /\ lost = 0 /\ (Patient \/ deletes = 0) => proxy = ToSet(spec)

(* Every reconcile ends, and takes the InProgress condition down unless a  *)
(* status update is lost.                                                  *)
Terminates == inProgress ~> ~inProgress \/ lost > 0

(* "You must first delete the document and then recreate it", says the     *)
(* webhook of a change of the pods: when the operator is done with the     *)
(* document made anew, the replicas asked for have their replica sets.     *)
ServedAgain == Settled => ToSet(spec) \subseteq rs

(* "Remove the replication agreement from each of the existing replicas",  *)
(* says deleteReplicas: no replica that stays replicates to one that went. *)
NoStaleAgreement ==
  Settled => \A a \in agreements : a[1] \in ToSet(spec) => a[2] \in ToSet(spec)
=============================================================================
