# A TLA+ model of the Verify Directory operator

This directory holds a formal model of the IBM Security Verify Directory
operator: a Kubernetes operator, written in Go, which turns one
`IBMSecurityVerifyDirectory` document into a set of LDAP server replicas and a
proxy in front of them. The modules are translated from the Go source under
`src/`; the documentation is only used where a property states what it says.

## 1. The system

### Components

| Component | Source | State it keeps | Operations |
|---|---|---|---|
| The document | `api/v1/..._types.go` | the list of claims (`spec.replicas.pvcs`), the pod settings, and two status conditions, `InProgress` and `Available` | created, edited and deleted by users; its status is written by Reconcile |
| Admission webhook | `api/v1/..._webhook.go` | none | `ValidateCreate`, `ValidateUpdate`, `ValidateDelete`: existence of claims, config maps and secrets, uniqueness of claims, the two conditions, fields that must not change, pods |
| Reconcile | `controllers/..._controller.go` | none between two calls; within one, the handle `h` with a copy of the document, the replicas found, and what to add and delete | read, compare, mark, configure, create, deploy the proxy, delete, report |
| Creation of replicas | `..._create.go` | the cluster | `createReplicas`, `deployReplica`, `seedReplica`, `createReplicationAgreement(s)` |
| Removal of replicas | `..._delete.go` | the cluster | `deleteReplicas`, `deleteReplica`, `deleteReplicationAgreement` |
| Proxy | `..._proxy.go` | a config map, a deployment, a service | `deployProxy`, `saveProxyConfig`, `createProxyDeployment` |
| Server configuration | `..._config.go`, `utils/yaml.go` | none | ports, license key, administrator, suffixes out of a config map |
| Names and waits | `..._utils.go`, `utils/names.go` | none | names and labels, pod lookup, waiting for pods and jobs, running commands |
| Manager | `main.go` | informers, one work queue, one worker | start and stop |

### How they interact

Users talk to the API server, which asks the webhook. The operator's informer
receives each version of each document from a watch, and an event filter puts a
document in the work queue when it is new, deleted, or has a changed generation
or label: status updates are filtered out. One worker takes a document from the
queue and calls Reconcile, which reads it from the informer's cache, raises
`InProgress` with a status update that carries the version it read, works on the
cluster for up to many minutes, and lowers `InProgress` with a second status
update that also sets `Available`. In between it creates replica sets, services,
seed jobs and config maps, waits for pods and jobs by polling, and runs
`isvd_manage_replica` inside pods. Nothing is kept in the operator: after a crash
it looks at the pods that exist and starts again. Reconcile always returns an
empty result and no error, so that it is never retried on its own account.

### What is hard, and what makes it correct

- *The document under the operator's feet.* The cache lags, users edit and
  delete, conflicts drop the request. Correct means: while the operator acts on
  the cluster, the stored document is the one it read; every admitted edit is
  answered, or it is known when one is not; `InProgress` comes down again.
- *The dance of the replicas.* A volume may only be copied while no server has
  it open, a server may only be started on a volume that was seeded, every two
  replicas must be linked, and all of this with the principal down in the middle.
- *Order of the proxy and the removal.* The proxy must be told before a replica
  goes, and what goes was decided before everything else happened.
- *A rollout that goes its own pace.* The operator does not wait for the proxies
  to restart; what it does in its next reconcile meets a rollout that is not over.
- *Failure half-way.* Each of the dozens of calls may fail, each wait may time
  out, pods may be evicted, the process may die at any point; some errors are
  swallowed on purpose.
- *Clean-up by others.* Finished jobs are deleted by their time to live while the
  operator may still have to wait for them; pods terminate after their replica
  set is gone; a service may be left behind.

- *A check that is old when it counts.* The webhook looks up claims, config maps
  and pods one after the other; what it saw may be gone, and another request may
  be stored, before its own verdict takes effect.
- *A configuration of any shape.* It is free text that administrators edit while
  the operator reads it; some mistakes are errors, some end the process.
- *A name that is used again.* A document may be deleted, and made again while
  the garbage collector still takes away what its predecessor owned.

`PROJECT.json` lists the hazards with their lines, and for each the properties
that cover it, or why none does yet.

## 2. The modules

| Module | What it is |
|---|---|
| `UpdateGate` | abstract specification of what one document promises its users: the two conditions as a gate, with the theorems about it |
| `DocumentLifecycle` | the document between user, API server, webhook, watch, cache, queue and worker; implements `UpdateGate` |
| `DocumentLifecycleProofs` | theorems about it |
| `Replicas` | Reconcile, `createReplicas`, `deleteReplicas` and their helpers against a cluster; implements `UpdateGate` |
| `ReplicasProofs` | theorems about it, with any faults |
| `ReplicasCalmProofs` | theorems about it, while nothing happens behind the back of the operator |
| `Proxy` | the steps of `deployProxy`, and the rollout of the proxy's pods |
| `ProxyProofs` | theorems about it |
| `ServerConfig` | `getServerConfig` and what becomes of the port; edits of the config map, secrets that come and go, panics |
| `ServerConfigProofs` | theorems about it |
| `Names` | the names and labels of a document's objects, as operators |
| `NamesProofs` | which names are apart, and which selectors find which pods |
| `Admission` | the webhook, call by call, between users, operator and cluster; uses `Names`; implements `UpdateGate` |
| `AdmissionProofs` | theorems about it |
| `MCDocumentLifecycle`, `MCReplicas`, `MCProxy`, `MCServerConfig`, `MCAdmission` | the instances TLC checks: values for constants |

### UpdateGate

Four variables: the stored content, the two conditions, and what the operator is
working on. `Start` raises `InProgress` and requires that the content it works on
is the stored one; `Report` lowers it; `Refuse` reports a failure without having
worked; `Abandon` is a crash or a lost report. `Edit` and `Delete` have the
guards of the webhook. `DocumentLifecycle`, `Replicas` and `Admission` have
`ImplementsGate`, that is `Gate!Spec` under a refinement mapping, as a property:
the first shows that the gate survives the cache and the queue, the second that
it survives everything Reconcile does, the third that it survives a webhook that
takes its time.

### DocumentLifecycle

| Model | Code |
|---|---|
| `doc`, `clock` | the stored document and the last resource version |
| `watch`, `cache` | the informer: events under way, its copy |
| `queued` | the work queue, which holds a document at most once |
| `phase` | where the worker is: idle, before the first status update (`mark`), between the two (`work`), or no process (`down`) |
| `snap` | `h.directory` |
| `reported` | history: the content of the last report that was written |
| `Create`, `Edit`, `Delete` | requests that pass the webhook |
| `Annotate` | an update that passes the webhook and changes nothing but metadata: a new version with the old content |
| `Deliver`, `Passes` | the informer with the event filter of `SetupWithManager` |
| `Skip`, `GetFails`, `Begin`, `Mark`, `MarkConflict`, `MarkFails`, `Refuse` | Reconcile up to its first status update, with each early return |
| `Report`, `ReportFails` | `setCondition` |
| `Crash`, `Restart` | the process |

A content is a number, the number of the request that wrote it: what matters is
whether two contents are the same. What Reconcile does between its two status
updates is one phase here. Deletion is immediate, since the operator sets no
finalizer. An edit that only changes labels counts as a new content, as it does
for the event filter; one that changes annotations or other metadata does not,
and its event is dropped.

### Replicas

| Model | Code |
|---|---|
| `spec`, `inProgress`, `available`, `queued` | the document and its place in the queue |
| `rs`, `svc` | the replica sets and services that exist |
| `pods[p][i]` | the pods of each claim: none, starting, ready, failed, terminating (still answering), stopping |
| `job`, `seedMap` | the seed job of each claim with the claim it copies, and the seed config map |
| `proxy` | the replicas in the proxy's configuration |
| `data` | for each volume the claim on which its directory was first created, or that it is empty, or a torn copy |
| `agreements` | who replicates to whom |
| `orphans` | the objects whose owner was a document that has been deleted |
| `pc` and the rest | the local variables of Reconcile and the functions it calls, under their names in the code |

Each call to the API server, each command in a pod and each completed wait is one
step; the text of the module follows the order of the code. A step is taken only
if its call succeeds; `Fail` is the other outcome of every step that has one, and
stands for an error of the call as well as for a wait that times out.
`AgreementFails` is an agreement that was removed and could not be made again.
Errors which the code ignores are part of the action that meets them (`Deploy`,
`New`, `Seeded`, `Gone`, `Unlink`), counted by `lost`, except in `Unlink`, where
the command may always fail.

`getReplicaSetPodName` is `Found`: any pod with the labels of the replica set,
whatever its state, and if the replica set cannot be read, any pod of the
namespace, which may be one the operator has nothing to do with (`OtherPod`). The
pod's name is kept and used in later steps, when the pod may be gone. Go's map
iteration is a choice: of the principal, of the order of the new replicas in the
last loops, and of the order of removals.

The cluster has actions of its own: the replica set controller, pods that start
and end, jobs that succeed, fail, tear a volume or expire, evictions. A server
that starts on an empty volume creates a directory there.

`Delete` takes the document away at once, since there is no finalizer, and leaves
everything it owned to the `Collect...` actions, one object at a time and in any
order; volumes belong to nobody and keep their directories and agreements. An
object that a new document of the same name finds in its way keeps its old owner
if it is only met (`Service`, `CreateReplicaSet`, an unchanged proxy
configuration), and gets the new one if it is written (`SeedMap`, `SaveProxy`).
`Patient` says whether users wait until all has gone before they make the
document again.

The document is read from the API server, not from a cache, and a change between
the read and the first status update makes the update fail: that the cached
protocol behaves like this is what `DocumentLifecycle` shows. A change of the
metadata alone at this place has the effect of `MarkFails`: the status update is
refused and nothing calls Reconcile again. `lost` counts it, and `Calm` excludes
it.

### Proxy

| Model | Code |
|---|---|
| `doc`, `inProgress`, `failed`, `queued` | the document, as in the other modules |
| `base` | what administrators keep in config maps: the proxy's base configuration, and the servers' port, suffixes and administrator, which go into the result |
| `configMap`, `deployment`, `service` | the objects the operator writes; of the deployment the pod template and the annotation `restartedAt` (0 for none), of the service the port |
| `pods` | each proxy with the revision it was started for and the configuration it read when it started |
| `yaml`, `template`, `updated` | the local variables of `deployProxy` |
| `Begin` | the read of the base configuration, and the construction of the configuration and the pod template |
| `Save`, `CreateDeployment`, `CreateService`, `UpdateDeployment`, `Restart` | the calls of `saveProxyConfig` and `createProxyDeployment`, one step each |
| `RollOut`, `StartAgain` | Kubernetes: a pod of another revision is replaced; a pod starts again |

`UpdateDeployment` has no case for an unchanged deployment:
`reflect.DeepEqual` compares the stored specification, into which the API server
has put defaults, with one that has none, and always finds them different. The
update replaces the pod template and with it the annotation of an earlier
restart. Two restarts are assumed to be at least a second apart, the unit of the
annotation. What the rest of Reconcile does is left to `Replicas`, whose step
`Proxy` is this module seen from afar: its variable `proxy` is
`configMap.replicas` here. `ProxyFollows` is why it does not stand for what the
running proxies know.

### ServerConfig

| Model | Code |
|---|---|
| `map`, `secrets` | the config map of the server and the secrets its ports may refer to |
| `spec`, `inProgress`, `available`, `queued` | the document |
| `cfg`, `secure`, `port` | the body that was read, `h.config.secure`, `h.config.port` |
| `toBeDeleted`, `toBeAdded`, `replicaPods`, `atHand` | the local variables of Reconcile and `createReplicas`; `atHand` is the principal, and later the replica that is being removed |
| `pods`, `svc` | the replicas that may have a pod, and the port of the service of each replica |
| `target`, `told` | how the proxy reaches each replica, and the configuration it was last told (history) |
| `halfway` | the replicas that were left incomplete: the process ended while they had no service, the error of their creation was ignored, or the wait for their pod to go was cut short (history) |
| `Get` | the read of the config map, the YAML parser and `ConvertYaml` |
| `ReadLdap`, `ReadLdaps` | the two ports, each resolved when it is come across |
| `ReadRest`, `Outcomes` | license key, administrator, suffixes, in the order of the code: a value, an error, or a panic |
| `Plan` | `getExistingPods` and `analyseExistingPods`, and the choice of the principal: what there is, is what has a pod |
| `First`, `FirstService`, `Stop`, `StopSet`, `New`, `Services`, `Principal`, `PrincipalService` | `createReplicas`: each replica set and each service a step of its own |
| `Proxy`, `Remove`, `RemoveSet` | `deployProxy`, and `deleteReplicas`: first the service, then the replica set |
| `DeployFails` | an error of any of these calls, or a wait that times out |
| `MarkConflict` | the first status update is refused because of a change of an annotation, and the request is lost |
| `Panic`, `NoPod`, `Crash`, `Restart` | a type assertion that does not hold, or a pod that is not found, ends the process, or anything else does; the kubelet starts another one |

An entry is known by what a type assertion makes of it: absent, a text, an
integer, a reference to a secret, or anything else. Only the two ports are
resolved (the `true` in the calls of `GetYamlValue`); elsewhere a reference is a
text. A secret is a text, which is not an integer, so that a port in a secret is
an error when the secret can be read and the default when it cannot. `Truncated`
is `int32(n)`, with 5 bits in the instance.

`createReplicas` is here only as far as ports are concerned: seeds, agreements and
waits for pods to be ready can fail (`DeployFails`) and do nothing else; `Replicas`
has them. Since the operator takes the replicas from the pods, one whose replica
set was created and whose service was not counts as complete ever after. Which
pods are found is a choice of `Plan`, as pods may be evicted. The service of a
replica set that was never created is named after an arbitrary pod (`Serve`).

### Names

A name is a sequence of words, which the code joins with dashes: equality of the
joined strings is equality of the sequences, because a word has no dash of its
own. Lower-casing is left out, since Kubernetes admits only names in lower case.
Labels are sets of pairs, and a selector is a subset.

### Admission

| Model | Code |
|---|---|
| `doc`, `version`, `inProgress`, `available` | the stored document and its resource version |
| `pc`, `op`, `new`, `base` | the request of each user: where its validation is, and the old object it is compared with |
| `todo`, `facts` | what `validateDocument` still has to look up, and what is true of the cluster |
| `removing`, `asked` | `toBeDeleted` of `validatePods`, and the answer of `getPrimaryWriteMasters` |
| `Look`, `Compare`, `ListPods`, `AskProxy`, `Refuse` | the calls of the three validators |
| `Store`, `Erase`, `Retry` | the API server: it writes if the version is still the one that was shown, and asks the webhook again if not |
| `Start`, `Finish`, `Abandon` | the operator |
| `Withdraw`, `Provide`, `PodFails`, `PodRecovers`, `ProxyChanges` | administrators, pods and the proxy |

That a claim, a config map with its key, or a secret exists, and that the base
configuration of the proxy has no server groups and no suffixes, are all facts:
they are looked up one at a time, may change between two look-ups, and refuse the
request when they are not so. `validateDocument` finds duplicates in the middle
of its look-ups; since any check may refuse at any time, their order among each
other makes no difference. `Pods` stands for all fields that
`validateDocumentUpdates` compares, `proxyClaim` for those it does not.

## 3. The runs

| Run | Checks | Bounds | Result |
|---|---|---|---|
| `lifecycle` | `TypeOK`, `FrozenWhileWorked`, `ImplementsGate`, `EveryEditAnswered`, `InProgressClears` | 4 user requests (changes of annotations included), 2 crashes, 1 logged error | holds, 15,792 states |
| `lifecycle_stuck` | `WaitingEnds` | 1 request, 1 logged error | violated |
| `replicas` | `TypeOK`, `RemovalIsSafe`, `SeedIsolation`, `AllServed`, `OneDirectory`, `FullMesh`, `ImplementsGate` | 3 claims, 5 lists, 4 edits, 1 deletion by a patient user, no other faults | holds, 2,295,019 states |
| `replicas_faults` | `Frozen`, `RemovalIsSafe`, `ProxyIsCurrent`, `ImplementsGate`, `Terminates` | 2 claims, 2 lists, 2 requests, 2 faults out of 2 crashes, 1 eviction, 1 ignored error, 1 deletion | holds, 673,674 states |
| `replicas_crash` | `NoSecondDirectory` | 2 claims, 1 crash | violated |
| `replicas_unlink` | `NoStaleAgreement` | 2 claims, no faults | violated |
| `replicas_recreate` | `ServedAgain` | 2 claims, 1 deletion by an impatient user | violated |
| `proxy` | `TypeOK`, `ObjectsAgree`, `RestartLoads`, `Served`, `RestartCompletes` | 2 lists of replicas, 2 pod settings, 2 ports, 2 pods, 2 edits, 1 crash | holds, 113,368 states |
| `proxy_rollback` | `ProxyFollows` | 2 pods, 2 edits, no crash | violated |
| `config` | `TypeOK`, `PortAgrees`, `OnlyValid`, `Reached`, `Recovers` | 9 ways to give the ports, each mistake in another entry, 2 replicas, 2 edits, crashes or ignored errors, any number of panics and of changes of the secret | holds, 406,418 states |
| `admission` | `TypeOK`, `ClaimsDistinct`, `References`, `ImplementsGate`, `PodsStay` | 2 users (symmetric), 4 requests, 4 contents, 1 change of the cluster, 1 crash | holds, 697,223 states |
| `admission_primary` | `PrimaryStays` | 1 user, 2 requests | violated |

Why the bounds are enough. In `lifecycle`, four requests allow a document to be
created, edited, deleted and created again while the cache still shows the first
version and two crashes fall in any two places; a change of an annotation may
take the place of any of them but the creation. In `replicas`, three claims are
the least with which a new replica is linked to another new one and to an old one
that is not the principal, and four edits allow the set to grow in one edit or in
two, to be replaced, to shrink and to grow again with volumes that were used
before; seed jobs may expire in all orders, and the deletion may fall between
any two reconciles and be followed by a document on volumes that were used before. In `replicas_faults` two claims and
two pods for each suffice for a replica to join or to leave while two pods of a
replica overlap, and two faults for a crash in the recovery from a crash or an
eviction, or for the deletion of a document whose seed config map a crash has
left behind. That one replica takes the place of another in a single edit is left
to `replicas`. In `proxy`, two pods allow a rollout to be half-way, and two
edits and a crash give up to four reconciles: one that creates the deployment,
one that restarts it, and two that meet the rollout of that restart. In `config`,
two edits let the config map change between two reconciles and the document
afterwards, or the other way round, and a crash or an ignored error takes the
place of either, so that a replica may be left half-way and met again by the
reconcile of an edit, with two replicas as the principal and as a new one; the
ways to give the ports are those that are told apart by the code, and 32 and 24 are a port that is truncated to
zero and one that becomes negative. In `admission`, four requests of two users
let a document be made, deleted and made again while an edit of the first one is
being validated; the contents are one, two and no replicas, a claim that is used
twice, and a claim for the proxy that does not exist at first.

Deadlock is not checked: when users stop asking and everything is settled, the
system stops.

### What the passing runs show

- `FrozenWhileWorked`: the operator's copy is *the* stored version, not merely an
  equal one, throughout its work; so the last status update cannot conflict.
- `EveryEditAnswered`: a conflict is dropped without requeue, and if an edit or a
  deletion caused it, that one leaves an event behind. A change of annotations
  leaves none: if it comes between the read of an edit and the first status update
  (`Overtaken`), the edit is not answered. This and an API error that is logged and
  dropped are the only ways; without the exception for `Overtaken` TLC finds the
  property violated.
- `InProgressClears`, `Terminates`: crashes alone never leave the document
  locked.
- `SeedIsolation`: no volume is copied while a server has it open, although pods
  terminate slowly and a failed reconcile leaves its jobs running.
- `AllServed`, `OneDirectory`, `FullMesh`: what a document that is reported as
  available has got, in a cluster without faults.
- `RemovalIsSafe`, `ProxyIsCurrent`: what remains true with faults.
- `ObjectsAgree`, `Served`: a success that is reported means that every step of
  `deployProxy` has been done for this document, also after a crash between two.
- `PortAgrees`: no secret, whenever it comes or goes, leads to a port nobody has
  written down: a secret is an error or the default.
- `OnlyValid`: no mistake in the configuration is passed over.
- `Reached`: without edits of the config map the proxy and all services use the port
  of the configuration. A service may be missing, but only of a replica that was
  left half-way; without this exception TLC finds the property violated, by a crash
  between replica set and service.
- `Recovers`: a panic in the middle of a reconcile does no lasting harm once the
  configuration is repaired, since the new process takes up every document.
- `ClaimsDistinct`, `References`, `PodsStay`: what the webhook checks is true of
  what is stored, although it checked another moment; the comparison of versions
  and the second validation after a conflict are what makes it so. `References`
  is as strong as it can be: what somebody removes meanwhile is missing.
- `RestartLoads`, `RestartCompletes`: a restart does what it is for, whatever
  came before; it is the reconciles that do not restart which go wrong.

### Where the code and its documentation disagree

1. `lifecycle_stuck`: a final status update that fails leaves `InProgress`
   raised. The webhook then refuses edits and deletions, so that the advice of
   README line 339, to delete the document, cannot be followed until the
   operator is restarted.
2. `replicas_crash`: after a crash with the only replica stopped, the next
   reconcile starts the first replica of the list on its own volume as if there
   were no directory.
3. `replicas_unlink`: `deleteReplicas` runs the command that removes agreements
   in the pod of the replica that goes, once for each that stays, instead of in
   the pods of those that stay.
4. `replicas_recreate`: users are told to delete a document and to recreate it
   when they change its pods. A document that is made again while the pods of the
   first one are terminating takes these for its replicas, is reported available,
   and then loses them.
5. `proxy_rollback`: the reconcile after a restart, if the configuration is the
   same, updates the deployment without the annotation and so takes it back to
   the revision before the restart. Proxies that had not been replaced yet stay,
   with the replicas of before, although README line 149 says that the
   configuration follows the replicas.
6. `admission_primary`: `validatePods` asks for the labels of services and
   replica sets, which no pod carries. So it sees no replica to be removed, and
   the primary write master can be, whatever the message at line 755 says.

Others that were met and that no run repeats:

- The comment at `..._controller.go:143` announces a requeue; the branch returns
  no error and none takes place (`GetFails` of `DocumentLifecycle`).
- A change of an annotation between the read of the document and the first status
  update makes that update fail. `..._controller.go:207-211` returns without a
  requeue, and the event filter (lines 459-461) drops the event of the change: the
  edit that was to be answered never is, until the next one or a restart
  (`Annotate` and `MarkConflict` of `DocumentLifecycle`).
- A crash between a replica set and its service leaves a replica without
  service. The reconcile that follows finds the pod, has nothing to add
  (`..._controller.go:227`) and reports success; so it is with the creation of a
  replica set whose error is ignored (`halfway` in `Reached`; `AllServed` does not
  hold with a crash).
- README line 35 promises no down-time; adding a replica to a single one stops
  it (`Undeploy`, before `Seed`).
- README line 101 promises that an entry of the configuration may be kept in a
  secret; the operator rejects a port that is (`ReadLdap`), and takes the default
  when it cannot read the secret.
- A number where a text is expected (password, license key) makes the operator
  panic after it has raised `InProgress`, and panic again after each restart, so
  that no document at all is processed until the config map is repaired (`Panic`).
- Since `validatePods` sees no pod, it believes that every replica is to be added
  and asks the proxy on every edit: while the proxy is down no edit is admitted,
  not even one that leaves the replicas alone (`ListPods`, `AskProxy`).
- The service of the proxy keeps its port when the base configuration changes it
  (`UpdateDeployment` has no step for the service).

### Fairness

`lifecycle` assumes that the watch delivers (`Deliver`), that the worker goes on
(`Worker`) and that the kubelet restarts the operator (`Restart`). Nothing is
assumed about users, crashes and errors. `Worker` is one weakly fair disjunction:
whether a reconcile succeeds or fails is not subject to fairness.

`replicas_faults` assumes the same of `Reconcile` and `Restart`; every wait of
Reconcile has a time limit, after which `Fail` is taken, so that a worker is
never stuck: this is why weak fairness of the whole of Reconcile is justified.
The places without a time limit of their own, `lookup`, `find`, `newLookup` and
`unlink`, look a pod up for two minutes and then panic. Fairness of `PodEvents`
says that Kubernetes brings up the pods of a replica set in that time; the case
that it does not is the crash.

`config` assumes fairness of `Reconcile` and `Restart`, for the same reasons. That
the config map is repaired is a premise of `Recovers` and not an assumption on
the administrator. `admission` has no liveness property, since nothing obliges
users, the webhook or the proxy to answer.

`proxy` assumes fairness of `Reconcile`, for the same reason, and of `RollOut` for
each pod: the deployment controller goes on replacing pods, one after the other,
as long as the revision stays the same.

## 4. The proofs

Every invariant of every passing run is proved, for all values of the constants,
and so are the three refinements; four of the invariants under a condition on what
has happened so far, explained below. The modules with theorems are `UpdateGate`,
`DocumentLifecycleProofs`, `ReplicasProofs`, `ReplicasCalmProofs`, `ProxyProofs`,
`ServerConfigProofs`, `NamesProofs` and `AdmissionProofs`. TLAPS checks them
without assumptions other than those named in the modules: `LifecycleAssumption`
and `AbsentAssumption` (the bounds are naturals; the value that stands for no
document is no document), `ProxyAssumption` (likewise), `ConfigAssumption` (the
default ports are ports, and a port fits into an integer of the code),
`AdmissionAssumption` (names are sequences of words, claims are among the things
that can be looked up), and `ReplicasAssumption` (the lists users ask for have
no duplicates, which `validateDocument` ensures, and the special values are
distinct from all others). TLC evaluates them in every run. Each inductive
invariant was checked by TLC on small instances before it was proved.

**UpdateGate.** While the operator works the stored document is the one it works
on (`GateHolds`); from this it follows that only a deletion leads out of the
failing state (`FailureIsFinal`), because a report that could set `Available` to
true belongs to a reconcile that began before the failure, and there is none. The
three modules that implement the gate inherit this by their `Refinement`
(`FailureStays` in each).

**DocumentLifecycle.** `FrozenWhileWorked` is not inductive. What protects the
document between the two status updates is the webhook, which refuses edits
because `InProgress` is up; but why is the version that Reconcile marks the
stored one? Because the update carries the version it read. So the invariant
adds that versions are unique: whatever the cache, the watch or the worker holds
with the version of the stored document is that document, and no version is
newer than the clock. The strengthened invariant `IInv` is the conjunction of
`TypeOK`, these facts and the property. From it follow `TypeCorrect`, `Frozen`,
and `Refinement`: each step of the protocol is a step of the gate or leaves the
gate alone. A write of the status is `Start`, `Report` or `Refuse`; a crash or a
lost update in the middle is `Abandon`; everything else is invisible.

**Replicas.** `RemovalIsSafe` speaks about the replicas still to be removed. It is
true because the list of those is disjoint from the document that was read
(established in `Begin`, and kept by every step until `Proxy`, which starts the
removal and at the same time sets the proxy to that document), and because the
document that was read is the stored one (`Frozen`). The garbage collector may
take the configuration of the proxy away meanwhile, so that the proxy knows the
document's replicas *at most*; the proof is for users who wait and for users who
do not. So `IInv` has a part for
each place: outside of the reconcile there is no plan; while replicas are being
built the list to be removed is disjoint from the document; while they are being
removed the rest of the list and the target are parts of it. `Refinement` again
maps `Mark` to `Start`, every end of the reconcile to `Report`, and a crash to
`Abandon`. The proof does not need the types of the cluster's variables: nothing
a cluster does, however it behaves, can break these three properties.

*Types.* That the variables have their types is not inductive either: a loop
takes the first of the replicas it has still to visit, and a service is named
after a pod that was looked up. `TInv` adds that the loops are not empty in the
places where an element is taken, that what they visit is in the document, that
a principal has been chosen, and that pods have been looked up where their
names are used; that a set of places in a list has a first one is the lemma `Least`.

*The proxy.* `ProxyStaysCurrent` holds with crashes and evictions, which is
why it does not need what follows: `Told` says that the proxy lists the document's
replicas from the moment the removal begins, and that its configuration does not
wait to be collected while there is a document, provided the objects of an earlier
one had gone when it was made. A reconcile that is cut short leaves the document in
a state that does not count as settled.

**Replicas, calm.** `SeedIsolation`, `AllServed`, `OneDirectory` and `FullMesh` do
not hold when something happens behind the back of the operator: with two claims
and two pods for each, TLC finds each of the four violated after a single crash, after a
single eviction, and after a single ignored error, and `replicas_recreate` shows
what a document that is made again too early does to `AllServed`. So the theorems of
`ReplicasCalmProofs` have the form `Spec => [](Calm => P)`, where `Calm` says that
there has been no crash, no eviction and no ignored error, and that users wait
until a deleted document has been cleaned up, or have deleted none. Calls may
fail, waits may time out and jobs may fail, tear a volume or expire; and
`Calm` is about the past only, so that the theorems say that all is well up to the
first fault. `WithoutFaults` puts it in terms of the constants: where the bounds
admit no fault, as in the run `replicas`, the four properties hold throughout.

The invariant has layers, each proved with the ones below it.

1. `CInv`: the cluster is what the local variables of Reconcile take it to be.
   A claim has at most one pod, coming up while there is a replica set and going
   down while there is none (`Shape`); while a volume is copied, neither its
   server nor the new one exists (`Jobs`); between two reconciles every replica
   set has a ready pod and a service (`Between`); and for each place of Reconcile
   there is one set of replicas that run and one of services (`Built`, `Taken`).
   What makes it inductive is, above all, that Reconcile waits: for the pod to be
   gone before it copies, for the pod to be ready before it links; and that any
   failure on its way leaves the document failing, so that nobody trusts what is
   left behind. A document that is made again needs `Ownership`: everything in
   the cluster belongs to the document or is still to be collected.
2. `DInv`: the replicas that exist hold the same directory, and the new ones hold
   the principal's from the moment their job has succeeded. It matters that what
   is copied is never empty, since a server makes a directory of its own on an
   empty volume; it is not, because the principal has been ready (`Written`).
3. `OInv`: a server is started on an empty volume only when it is the first of
   all (`Virgin`, `Founding`), and no replica that exists has a torn copy
   (`Whole`). It holds while no document was deleted (`Single`), since a new
   document may find the volumes of two old ones, and while no list of claims is
   empty, since a document that asks for nothing gives all its volumes up and may
   be edited to ask for fresh ones: this case came up in the proof, and it is why
   `OneDirectory` excepts the empty list.
4. `MInv`: the replicas that exist are linked (`Meshed`), the principal has an
   agreement with each new one before that is copied (`Agreed`), and each of the
   loops has done the part it has passed (`Sourcing`). A copy replaces the
   agreements the new replica holds by those of the principal, which are none
   that any of the others needs.

For the proofs the slices `toBeAdded` and the rest of a loop over it are sets, of
which `First` takes the element that comes first in the document: in the code
these slices always have the order of the document, from which they are filtered.

**Proxy.** `TypeCorrect`, `Agreement`, `RestartedLoads` and `ServiceServed` follow
from one invariant. `Working` says that what `deployProxy` has constructed is made
from the stored document, which stands still as long as `InProgress` is up;
`Agreed` has, for each place, what the steps before it have written; `Ordered`
that the objects come into being in their order. For the restart, `Stamps` says
that no pod has an annotation from the future, so that a restart makes a revision
no pod is of, and `Loading` that whenever a pod of the current, restarted revision
has an older configuration, the reconcile is before its update of the deployment,
or has left a request in the queue or a failure in the status.

**ServerConfig.** The invariant follows the port through the code: once the ports
have been read, `secure` and `port` are a function (`Effective`) of the body that
was read, since a secret is never an integer; and what `Proxy` is told has passed
each check before; `Loops` says what is left to do at each place. For
`RepliesReachable` there is a second invariant, `RInv`. As long as the config map
has not been edited, every service was made with the port of the present one,
whichever reconcile made it, and a port that is out of range never got as far as a
pod (`Unedited`); what the proxy was told stays until it is reported (`Told`). And
of each replica that is asked for or has a pod, it is true that it has its service,
that it was left half-way, or that its turn is still to come (`Complete`,
`Pending`): `toBeAdded`, `replicaPods` and `atHand` hold what was taken down or not
put up yet. After a failure nothing of the kind is claimed, since nothing is done
any more for such a document. `ValidPorts` says that the truncation to 32 bits is
harmless for any port of TCP.

**Names.** Pure facts about sequences of words: replicas of one document never
share a name, a replica has the name of the proxy only if its claim is called
`proxy`, and cutting the last word off a pod's name gives its replica. A document
`a` with the claim `b-c` and a document `a-b` with the claim `c` do share the
names of their objects (`NamesRunTogether`). The selector of `getExistingPods`
finds the pods of the document's replicas, that of the proxy no pod of a replica,
unless this has the proxy's name, and that of `validatePods` none
(`AppSelectsNoPod`).

**Admission.** The verdict of the webhook is about an old object; the invariant
ties each request to the version it was shown: if that version is still the
stored one when the request is written, the object it was compared with is the
stored object. With it `PodsStay` and `ImplementsGate` follow for any number of
users: a write with the current version is a step of the gate, because the
conditions that were checked are those of that version. `NothingMissing` carries
what has been looked up through the look-ups that follow.

Model-checked only: the liveness properties `EveryEditAnswered`, `InProgressClears`,
`Terminates`, `RestartCompletes` and `Recovers`, since they need fairness, about
which TLAPS does not reason here. That the properties of the violated runs fail is
shown by TLC's counterexamples.

## 5. Not modelled

- The time limits as such: a wait ends at any time, or never.
- In `Replicas`: an empty list of replicas, which the module and the proofs admit and no
  instance has; the lag of the pod cache; more than one
  document. A claim has at most one seed job at a time, which its name ensures.
- The data plane: how servers replicate, and what an agreement does.
- Contents of specifications: images, environment, probes, resources.
- In `Proxy`: status updates that are lost or refused, and a lag of the cached reads of its objects;
  the number of proxies is fixed.
- Permissions: every call is assumed to be permitted. The markers above Reconcile
  (`..._controller.go:55`) ask for less than the code uses (no update of config
  maps, nothing for replica sets).
- In `Admission`: the parsing of the base configuration of the proxy and the LDAP
  search, which are taken for their results; two documents that share a claim,
  which no code looks for.
- In `ServerConfig`: what the directory server itself makes of the configuration,
  status updates that are lost other than by `MarkConflict`, and the deletion of
  the document.
- Build scripts, manifests, generated code, logging.

## 6. Plan

Done: all components of the operator, the life of a document with deletion and
recreation, and theorems for every invariant that a run checks. Next, in this
order:

1. Proofs: what a fault leaves true of the layers (a crash in a place where
   nothing is taken down keeps `DInv` and `MInv`), and the conditions under which
   the next reconcile restores `CInv`.
2. `Replicas` and `Proxy` composed: the step `Proxy` of `Replicas` shown to be
   what the steps of `Proxy` implement, and the removal of a replica that a
   running proxy still knows.
3. Larger instances for faults: in `replicas_faults` three lists instead of two
   make a run of four minutes, and three claims are out of reach; the theorems
   hold for any number.
