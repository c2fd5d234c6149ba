-------------------------- MODULE ReplicasCalmProofs --------------------------
(***************************************************************************)
(* What Replicas guarantees as long as nothing happens behind the back of  *)
(* the operator: a crash, an eviction or an error that is ignored makes    *)
(* each of these properties fail.                                          *)
(*                                                                         *)
(* CInv, the first layer, says that the cluster is what the local          *)
(* variables of Reconcile take it to be: which replica sets, services and  *)
(* pods there are at each place. From it follow SeedIsolation and          *)
(* AllServed. DInv adds what is on the volumes of the replicas that exist, *)
(* OInv where that came from, and MInv who is linked to whom; OneDirectory *)
(* and FullMesh follow from these. Each layer is proved with the ones      *)
(* before it as invariants.                                                *)
(***************************************************************************)
EXTENDS ReplicasProofs

\* Nothing happened that the operator cannot see: no crash, no eviction, no
\* error it ignored, and no document made again before the old one had gone.
Calm == crashes = 0 /\ disruptions = 0 /\ lost = 0 /\ (Patient \/ deletes = 0)

Down(p) == p \notin rs /\ \A i \in PodId : pods[p][i] = "none"
Runs(p) == p \in rs /\ \E i \in PodId : pods[p][i] = "ready"

\* A claim has at most one pod, which comes up while there is a replica set
\* and goes down while there is none.
Shape ==
  \A p \in PVC :
    /\ \A i, j \in PodId : pods[p][i] # "none" /\ pods[p][j] # "none" => i = j
    /\ \A i \in PodId :
         pods[p][i] \in IF p \in rs THEN {"none", "starting", "ready"}
                                    ELSE {"none", "terminating", "stopping"}

\* What is in the cluster belongs to the document.
Ownership ==
  /\ spec # None => orphans = {}
  /\ spec = None => Owned \subseteq orphans /\ available = "unset"
  /\ spec = None /\ deletes = 0 => CleanedUp
  /\ pc = "mark" => available # "false"
  /\ pc # "down"
  /\ seedMap => pc \in {"seed", "seedWait", "seeded"}

\* A document Reconcile may act upon.
Eligible == spec # None /\ available # "false"

\* Nobody is near the two volumes while a job copies one to the other.
Jobs ==
  \A p \in PVC : job[p].state = "running" =>
    /\ Down(p) /\ Down(job[p].source)
    /\ pc \in Acting => /\ p \in toBeAdded /\ job[p].source = principal
                        /\ \/ pc = "seed" /\ p \notin todo
                           \/ pc = "seedWait" /\ p \in todo
    /\ pc \notin Acting => ~Eligible

\* The claims S have replica sets and T have services; all run but those of U.
World(S, T, U) ==
  /\ rs = S /\ svc = T
  /\ \A p \in S \ U : Runs(p)
  /\ \A p \in PVC \ S : Down(p)

\* Between two reconciles.
Between ==
  pc \in {"idle", "mark"} /\ Eligible =>
    /\ World(rs, rs, {})
    /\ available = "unset" => rs = {}
    /\ pc = "idle" /\ available = "true" /\ ~queued => rs = ToSet(spec)

Starting == {"deploy", "lookup", "service", "ready"}
Stopping == {"find", "unserve", "undeploy", "gone"}
Copying == {"seedMap", "seed", "seedWait", "seeded"}
Renewing == {"new", "newLookup"}
Linking == {"newReady", "link", "newService"}

\* What the local variables of Reconcile say of one another.
Planned ==
  /\ pc = "mark" /\ ~queued => existing = rs
  /\ (pc = "mark" /\ ~queued) \/ pc = "config" =>
       toBeAdded = ToSet(doc) \ existing
  /\ (pc = "mark" /\ ~queued) \/ pc \in Acting =>
       toBeDeleted = existing \ ToSet(doc)
  /\ pc \in Acting \ {"config", "proxy"} /\ ~removing =>
       /\ principal \notin toBeAdded
       /\ ToSet(doc) \subseteq existing \cup toBeAdded \cup {principal}
  /\ pc = "proxy" => ToSet(doc) \subseteq existing

InStarting ==
  pc \in Starting =>
    /\ target = principal
    /\ \/ /\ principal \notin existing /\ existing = {}
          /\ principal \in ToSet(doc) /\ todo = toBeAdded
       \/ principal \in existing /\ toBeAdded \subseteq existing

InStopping ==
  /\ pc \in Stopping /\ ~removing => target = principal
  /\ pc \in {"agree"} \cup Copying \/ (pc \in Stopping /\ ~removing) =>
       toBeAdded \cap existing = {} /\ principal \in existing

InLinking ==
  /\ pc \in Renewing => toBeAdded \ existing = todo
  /\ pc \in Linking => toBeAdded \subseteq existing
  /\ pc \in Renewing \cup Linking => principal \in existing
  /\ pc \in Renewing => \A p \in toBeAdded \ todo : replicaPods[p] = p
  /\ pc \in Linking => \A p \in toBeAdded : replicaPods[p] = p

\* The pod Reconcile has looked up.
Looked ==
  /\ pc \in {"service", "ready"} => \E i \in PodId : pod = <<principal, i>>
  /\ pc \in {"unserve", "undeploy"} =>
       \E i \in PodId : pod = <<target, i>> /\ pods[target][i] # "none"
  /\ pc = "gone" =>
       \A i \in PodId : pods[target][i] # "none" => pod = <<target, i>>

\* The replicas that exist, but for the principal; those that are left.
Old == existing \ {principal}
Rem == ToSet(doc) \cup left

Built ==
  /\ pc \in {"config", "proxy", "agree"} => World(existing, existing, {})
  /\ pc = "deploy" => World(Old, Old, {})
  /\ pc \in {"lookup", "service"} =>
       World(existing \cup {principal}, Old, {principal})
  /\ pc = "ready" =>
       World(existing \cup {principal}, existing \cup {principal}, {principal})
  /\ pc \in Copying => World(Old, Old, {})
  /\ pc = "new" => World(Old, Old \ toBeAdded, toBeAdded)
  /\ pc = "newLookup" =>
       World(Old \cup {First(todo)}, Old \ toBeAdded, toBeAdded)
  /\ pc = "newReady" => World(Old, Old \ toBeAdded, left)
  /\ pc = "link" => World(Old, Old \ toBeAdded, {})
  /\ pc = "newService" => World(Old, Old \ left, {})
  /\ pc \in {"remove", "unlink", "report"} => World(Rem, Rem, {})
  /\ pc = "report" => left = {}

\* The claims that have a replica set while one is taken down.
Kept == IF removing THEN Rem ELSE existing

Taken ==
  /\ pc \in {"find", "unserve"} => World(Kept, Kept, {})
  /\ pc = "undeploy" => World(Kept, Kept \ {target}, {})
  /\ pc = "gone" =>
       /\ rs = Kept \ {target} /\ svc = Kept \ {target}
       /\ \A p \in rs : Runs(p)
       /\ \A p \in PVC \ (rs \cup {target}) : Down(p)

CInv == /\ Shape /\ Ownership /\ Jobs /\ Between /\ Planned
        /\ InStarting /\ InStopping /\ InLinking /\ Looked /\ Built /\ Taken
-----------------------------------------------------------------------------
(* Calm steps. *)

LEMMA NoLoss == TypeOK /\ Calm' => ~Lose
  BY DEF TypeOK, Lose, Calm

\* After a storm there is no calm.
LEMMA CalmBefore == TypeOK /\ [Next]_vars /\ Calm' => Calm
<1> SUFFICES ASSUME TypeOK, [Next]_vars, Calm' PROVE Calm
  OBVIOUS
<1> USE DEF bounds
<1>1. /\ crashes' \in {crashes, crashes + 1} /\ lost' \in {lost, lost + 1}
      /\ disruptions' \in {disruptions, disruptions + 1}
      /\ deletes' \in {deletes, deletes + 1}
  <2>1. CASE User
    BY <2>1 DEF User, Create, Edit, Ask, Delete
  <2>2. CASE Reconcile
    <3>1. CASE Skip \/ Begin \/ Mark \/ MarkConflict \/ Refuse \/ Plan
      BY <3>1 DEF Skip, Begin, Mark, MarkConflict, Refuse, Plan
    <3>2. CASE Deploy \/ Lookup \/ Service \/ Ready \/ Agree \/ Link \/ AgreementFails
      BY <3>2 DEF Deploy, Lookup, Service, Ready, Agree, Link, AgreementFails,
                  CreateReplicaSet, Lose
    <3>3. CASE Find \/ Unserve \/ Undeploy \/ Gone
      BY <3>3 DEF Find, Unserve, Undeploy, Gone, Lose
    <3>4. CASE SeedMap \/ Seed \/ SeedWait \/ Seeded
      BY <3>4 DEF SeedMap, Seed, SeedWait, Seeded, DeleteSeedMap, Lose
    <3>5. CASE New \/ NewLookup \/ NewReady \/ NewService
      BY <3>5 DEF New, NewLookup, NewReady, NewService, CreateReplicaSet, Lose
    <3>6. CASE Proxy \/ NextRemoval \/ Unlink \/ Report
      BY <3>6 DEF Proxy, StartRemoval, NextRemoval, Unlink, Report
    <3>7. CASE Fail
      BY <3>7 DEF Fail, DeleteSeedMap, Lose
    <3> QED BY <2>2, <3>1, <3>2, <3>3, <3>4, <3>5, <3>6, <3>7 DEF Reconcile
  <2>3. CASE Unnoticed
    BY <2>3 DEF Unnoticed, MarkFails, ReportFails, Lose
  <2>4. CASE PodEvents \/ JobEvents \/ Disruption
    BY <2>4 DEF PodEvents, PodCreated, PodStarts, PodEnds, JobEvents, JobSucceeds,
                JobFails, JobExpires, Disruption, Disrupt
  <2>5. CASE GarbageCollection
    BY <2>5 DEF GarbageCollection, CollectReplicaSet, CollectJob, CollectService,
                CollectMap, CollectProxy
  <2>6. CASE Crash \/ Restart \/ UNCHANGED vars
    BY <2>6 DEF Crash, Restart, vars
  <2> QED BY <2>1, <2>2, <2>3, <2>4, <2>5, <2>6 DEF Next
<1> QED BY <1>1 DEF TypeOK, Calm

LEMMA NoStorm ==
  ASSUME TypeOK, Calm', Unnoticed \/ Disruption \/ Crash
  PROVE  FALSE
<1>1. ~Unnoticed
  BY NoLoss DEF Unnoticed, MarkFails, ReportFails
<1>2. ~Disruption
  BY DEF Disruption, Disrupt, TypeOK, Calm
<1>3. ~Crash
  BY DEF Crash, TypeOK, Calm
<1> QED BY <1>1, <1>2, <1>3
-----------------------------------------------------------------------------
(* The pods. *)

LEMMA PodsKeepShape == TypeOK /\ Shape /\ PodEvents => Shape'
<1> SUFFICES ASSUME TypeOK, Shape, PodEvents PROVE Shape'
  OBVIOUS
<1>1. PICK p \in PVC, i \in PodId : PodCreated(p, i) \/ PodStarts(p, i) \/ PodEnds(p, i)
  BY DEF PodEvents
<1>2. PICK state \in PodState : /\ SetPod(p, i, state) /\ rs' = rs
                                /\ state # "none" => pods[p][i] # "none"
                                     \/ \A j \in PodId : pods[p][j] = "none"
                                /\ state \in IF p \in rs THEN {"starting", "ready"}
                                                         ELSE {"none"}
  <2>1. CASE PodCreated(p, i)
    <3>1. \A j \in PodId : pods[p][j] = "none"
      BY <2>1 DEF PodCreated, Active, Shape
    <3> QED BY <2>1, <3>1 DEF PodCreated, PodState
  <2>2. CASE PodStarts(p, i)
    BY <2>2 DEF PodStarts, Shape, PodState
  <2>3. CASE PodEnds(p, i)
    BY <2>3 DEF PodEnds, Shape, PodState
  <2> QED BY <1>1, <2>1, <2>2, <2>3
<1>3. \A q \in PVC, j \in PodId :
        pods'[q][j] = IF q = p /\ j = i THEN state ELSE pods[q][j]
  BY <1>2 DEF SetPod, TypeOK
<1> QED BY <1>2, <1>3 DEF Shape

\* A pod that is ready stays ready, and a volume nobody is near stays alone.
LEMMA PodsKeepRuns ==
  ASSUME TypeOK, PodEvents, rs' = rs, NEW p \in PVC
  PROVE  (Runs(p) => Runs(p)') /\ (Down(p) => Down(p)')
<1>1. PICK q \in PVC, i \in PodId : PodCreated(q, i) \/ PodStarts(q, i) \/ PodEnds(q, i)
  BY DEF PodEvents
<1>2. \A j \in PodId : ~(p = q /\ i = j) => pods'[p][j] = pods[p][j]
  BY <1>1 DEF PodCreated, PodStarts, PodEnds, SetPod, TypeOK
<1>3. pods[q][i] # "ready" /\ (pods[q][i] = "none" => q \in rs)
  BY <1>1 DEF PodCreated, PodStarts, PodEnds
<1> QED BY <1>2, <1>3 DEF Runs, Down

LEMMA PodsKeepWorld ==
  ASSUME TypeOK, PodEvents, svc' = svc, rs' = rs, NEW S, NEW T, NEW U,
         World(S, T, U)
  PROVE  World(S, T, U)'
<1>1. S \subseteq PVC
  BY DEF World, TypeOK
<1> QED BY <1>1, PodsKeepRuns DEF World

\* What has been looked up stays there until it is deleted.
LEMMA PodsKeepLooked ==
  ASSUME TypeOK, Shape, Looked, PodEvents, UNCHANGED <<pc, plan, loops, rs>>,
         pc \in {"unserve", "undeploy"} => target \in rs,
         pc = "gone" => target \in PVC \ rs
  PROVE  Looked'
<1> USE DEF plan, loops
<1>1. PICK p \in PVC, i \in PodId : PodCreated(p, i) \/ PodStarts(p, i) \/ PodEnds(p, i)
  BY DEF PodEvents
<1>2. \A q \in PVC, j \in PodId : ~(q = p /\ j = i) => pods'[q][j] = pods[q][j]
  BY <1>1 DEF PodCreated, PodStarts, PodEnds, SetPod, TypeOK
<1>3. CASE pc \in {"service", "ready"}
  BY <1>3 DEF Looked
<1>4. CASE pc \in {"unserve", "undeploy"}
  <2>1. PICK j \in PodId : pod = <<target, j>> /\ pods[target][j] # "none"
    BY <1>4 DEF Looked
  <2>2. target \in PVC /\ target \in rs
    BY <1>4 DEF TypeOK
  <2>3. pods'[target][j] # "none"
    BY <1>1, <1>2, <2>1, <2>2
       DEF PodCreated, PodStarts, PodEnds, SetPod, TypeOK, Shape
  <2> QED BY <1>4, <2>1, <2>3 DEF Looked
<1>5. CASE pc = "gone"
  <2>1. ASSUME NEW j \in PodId, pods'[target][j] # "none" PROVE pods[target][j] # "none"
    BY <1>1, <1>2, <1>5, <2>1 DEF PodCreated, PodStarts, PodEnds, TypeOK
  <2> QED BY <1>5, <2>1 DEF Looked
<1>6. CASE pc \notin {"service", "ready", "unserve", "undeploy", "gone"}
  BY <1>6 DEF Looked
<1> QED BY <1>3, <1>4, <1>5, <1>6

\* Where the target of a removal is.
LEMMA TargetKept ==
  ASSUME IInv, TInv, CInv, pc \in Stopping
  PROVE  /\ target \in PVC /\ target \in Kept
         /\ pc \in {"find", "unserve", "undeploy"} => target \in rs
         /\ pc = "gone" => target \notin rs
<1>1. target \in PVC
  BY DEF TInv, Sound, Chosen, Stopping
<1>2. target \in Kept
  <2>1. CASE removing
    BY <1>1, <2>1, ReplicasAssumption DEF IInv, Removes, Kept, Rem
  <2>2. CASE ~removing
    BY <2>2 DEF CInv, InStopping, Kept
  <2> QED BY <2>1, <2>2
<1> QED BY <1>1, <1>2 DEF CInv, Taken, World, Stopping

LEMMA PodsKeepCalm ==
  ASSUME IInv, TInv, CInv, PodEvents
  PROVE  CInv'
<1>1. UNCHANGED <<document, rs, svc, job, seedMap, proxy, orphans, pc, plan, loops,
                  deletes>>
  BY DEF PodEvents, PodCreated, PodStarts, PodEnds, bounds
<1> USE DEF document, plan, loops
<1>t. TypeOK
  BY DEF TInv
<1>2. \A S, T, U : World(S, T, U) => World(S, T, U)'
  BY <1>1, <1>t, PodsKeepWorld DEF CInv
<1>3. \A p \in PVC : (Down(p) => Down(p)') /\ (Runs(p) => Runs(p)')
  BY <1>1, <1>t, PodsKeepRuns
<1>4. Shape'
  BY <1>t, PodsKeepShape DEF CInv
<1>5. Ownership'
  <2>1. spec = None /\ deletes = 0 => CleanedUp'
    <3> SUFFICES ASSUME spec = None, deletes = 0 PROVE CleanedUp'
      OBVIOUS
    <3>1. orphans = {} /\ rs = {}
      BY DEF CInv, Ownership, CleanedUp, Owned
    <3>2. \A p \in PVC : Down(p)
      BY <3>1 DEF CInv, Ownership, CleanedUp, Listed, Down
    <3> QED BY <1>1, <1>3, <3>1, <3>2 DEF CleanedUp, Listed, Down
  <2> QED BY <1>1, <2>1 DEF CInv, Ownership, Owned
<1>6. Jobs'
  BY <1>1, <1>3 DEF CInv, Jobs, TInv, Sound, Sourced, Eligible
<1>7. Between'
  BY <1>1, <1>2 DEF CInv, Between, Eligible
<1>8. Planned' /\ InStarting' /\ InStopping' /\ InLinking'
  BY <1>1 DEF CInv, Planned, InStarting, InStopping, InLinking
<1>9. Looked'
  BY <1>1, <1>t, PodsKeepLooked, TargetKept DEF CInv, Stopping
<1>10. Built'
  BY <1>1, <1>2 DEF CInv, Built, Old, Rem, First
<1>11. Taken'
  BY <1>1, <1>2, <1>3, <1>t DEF CInv, Taken, Kept, Rem, TypeOK
<1> QED BY <1>4, <1>5, <1>6, <1>7, <1>8, <1>9, <1>10, <1>11 DEF CInv
-----------------------------------------------------------------------------
(* The jobs, the garbage collector, the user. *)

\* Nothing else depends on the jobs, the seed map and what has an owner.
LEMMA Frame ==
  ASSUME CInv, UNCHANGED <<document, rs, svc, pods, pc, plan, loops>>
  PROVE  /\ Shape' /\ Between' /\ Planned' /\ InStarting' /\ InStopping'
         /\ InLinking' /\ Looked' /\ Built' /\ Taken'
<1> USE DEF document, plan, loops, CInv
<1>1. Shape'
  BY DEF Shape
<1>2. \A S, T, U : World(S, T, U) => World(S, T, U)'
  BY DEF World, Runs, Down
<1>3. \A p : (Down(p) => Down(p)') /\ (Runs(p) => Runs(p)')
  BY DEF Runs, Down
<1>4. Between'
  BY <1>2 DEF Between, Eligible
<1>5. Planned' /\ InStarting' /\ InStopping' /\ InLinking' /\ Looked'
  BY DEF Planned, InStarting, InStopping, InLinking, Looked
<1>6. Built'
  BY <1>2 DEF Built, Old, Rem, First
<1>7. Taken'
  BY <1>2, <1>3 DEF Taken, Kept, Rem
<1> QED BY <1>1, <1>4, <1>5, <1>6, <1>7

LEMMA JobsKeepCalm ==
  ASSUME TInv, CInv, JobEvents
  PROVE  CInv'
<1>1. PICK p \in PVC : JobSucceeds(p) \/ JobFails(p) \/ JobExpires(p)
  BY DEF JobEvents
<1>2. UNCHANGED <<document, rs, svc, pods, seedMap, proxy, pc, plan, loops, deletes>>
  BY <1>1 DEF JobSucceeds, JobFails, JobExpires, bounds
<1> USE DEF document, plan, loops
<1>t. TypeOK
  BY DEF TInv
<1>3. Ownership'
  <2>1. \A x : /\ x \in orphans' => x \in orphans
               /\ x \in Owned' => x \in Owned /\ (x \in orphans => x \in orphans')
    <3>1. CASE JobExpires(p)
      <4>1. orphans' = orphans \ {<<"job", p>>} /\ job'[p].state = "none"
        BY <1>t, <3>1 DEF JobExpires, TypeOK
      <4>2. \A q \in PVC : q # p => job'[q] = job[q]
        BY <1>t, <3>1 DEF JobExpires, TypeOK
      <4>3. <<"job", p>> \notin Owned'
        BY <1>2, <4>1 DEF Owned
      <4>4. \A x \in Owned' : x \in Owned
        BY <1>2, <4>1, <4>2 DEF Owned
      <4> QED BY <4>1, <4>3, <4>4
    <3>2. CASE JobSucceeds(p) \/ JobFails(p)
      <4>1. orphans' = orphans
        BY <3>2 DEF JobSucceeds, JobFails
      <4>2. \A q \in PVC : job'[q].state # "none" => job[q].state # "none"
        BY <1>t, <3>2 DEF JobSucceeds, JobFails, TypeOK
      <4>3. \A x \in Owned' : x \in Owned
        BY <1>2, <4>2 DEF Owned
      <4> QED BY <4>1, <4>3
    <3> QED BY <1>1, <3>1, <3>2
  <2>2. CleanedUp => CleanedUp'
    BY <1>2, <2>1 DEF CleanedUp, Listed
  <2> QED BY <1>2, <2>1, <2>2 DEF CInv, Ownership
<1>4. Jobs'
  <2> SUFFICES ASSUME NEW q \in PVC, job'[q].state = "running"
               PROVE  /\ Down(q)' /\ Down(job[q].source)'
                      /\ pc \in Acting => /\ q \in toBeAdded
                                          /\ job'[q].source = principal
                                          /\ \/ pc = "seed" /\ q \notin todo
                                             \/ pc = "seedWait" /\ q \in todo
                      /\ pc \notin Acting => ~Eligible
    BY <1>2 DEF Jobs, Eligible
  <2>1. job[q].state = "running" /\ job'[q].source = job[q].source
    BY <1>1, <1>t DEF JobSucceeds, JobFails, JobExpires, TypeOK
  <2> QED BY <1>2, <2>1 DEF CInv, Jobs, Down
<1> QED BY <1>2, <1>3, <1>4, Frame DEF CInv

\* The garbage collector is busy only while there is no document.
LEMMA CollectionKeepsCalm ==
  ASSUME IInv, TInv, CInv, GarbageCollection
  PROVE  CInv'
<1> USE DEF document, plan, loops
<1>t. TypeOK
  BY DEF TInv
<1>1. UNCHANGED <<document, pc, plan, loops, deletes>>
  BY DEF GarbageCollection, CollectReplicaSet, CollectJob, CollectService,
         CollectMap, CollectProxy, bounds
<1>2. PICK x \in orphans : orphans' = orphans \ {x}
  BY DEF GarbageCollection, CollectReplicaSet, CollectJob, CollectService,
         CollectMap, CollectProxy
<1>3. spec = None /\ pc \notin Acting /\ (pc = "mark" => queued)
  BY <1>2 DEF CInv, Ownership, IInv, Guarded
<1>4. Planned' /\ InStarting' /\ InStopping' /\ InLinking' /\ Looked' /\ Built'
      /\ Taken' /\ Between'
  BY <1>1, <1>3 DEF Planned, InStarting, InStopping, InLinking, Looked, Built, Taken,
                    Between, Eligible, Acting, Starting, Stopping, Copying, Renewing,
                    Linking
<1>5. CASE \E p \in PVC : CollectReplicaSet(p)
  <2>1. PICK p \in PVC : CollectReplicaSet(p)
    BY <1>5
  <2>2. \A q \in PVC, j \in PodId :
          pods'[q][j] = IF q = p THEN Deleted(pods[q][j]) ELSE pods[q][j]
    BY <1>t, <2>1 DEF CollectReplicaSet, TypeOK
  <2>3. Shape'
    BY <2>1, <2>2 DEF CInv, Shape, CollectReplicaSet, Deleted
  <2>4. \A q : Down(q) => Down(q)'
    <3>1. SUFFICES ASSUME NEW q, Down(q) PROVE Down(q)'
      OBVIOUS
    <3> QED BY <1>t, <2>1, <3>1 DEF CollectReplicaSet, Down, Deleted, TypeOK
  <2>5. Jobs'
    BY <1>1, <1>3, <2>1, <2>4 DEF CollectReplicaSet, CInv, Jobs, Eligible
  <2>6. Ownership'
    <3>1. orphans' = orphans \ {<<"rs", p>>} /\ Owned' = Owned \ {<<"rs", p>>}
      BY <2>1 DEF CollectReplicaSet, Owned
    <3>2. orphans # {}
      BY <1>2
    <3> QED BY <1>1, <1>3, <2>1, <3>1, <3>2
            DEF CollectReplicaSet, CInv, Ownership, CleanedUp, Acting
  <2> QED BY <1>4, <2>3, <2>5, <2>6 DEF CInv
<1>6. CASE ~\E p \in PVC : CollectReplicaSet(p)
  <2>1. UNCHANGED <<rs, pods>>
    BY <1>6 DEF GarbageCollection, CollectJob, CollectService, CollectMap, CollectProxy
  <2>2. Shape'
    BY <2>1 DEF CInv, Shape
  <2>3. Jobs'
    <3>1. \A q \in PVC : job'[q].state = "running" => job'[q] = job[q]
      <4>1. ASSUME NEW p \in PVC, CollectJob(p)
            PROVE  \A q \in PVC : job'[q].state = "running" => job'[q] = job[q]
        BY <4>1, <1>t DEF CollectJob, TypeOK
      <4>2. CASE job' = job
        BY <4>2
      <4> QED BY <1>6, <4>1, <4>2
              DEF GarbageCollection, CollectService, CollectMap, CollectProxy
    <3> QED BY <1>1, <1>3, <2>1, <3>1 DEF CInv, Jobs, Down, Eligible
  <2>4. Ownership'
    <3>1. Owned' \subseteq orphans'
      <4>1. CASE \E p \in PVC : CollectJob(p)
        <5>1. PICK p \in PVC : CollectJob(p)
          BY <4>1
        <5>2. /\ job'[p].state = "none" /\ \A q \in PVC : q # p => job'[q] = job[q]
              /\ orphans' = orphans \ {<<"job", p>>}
              /\ UNCHANGED <<rs, svc, seedMap, proxy>>
          BY <1>t, <5>1 DEF CollectJob, TypeOK
        <5>3. \A o \in Owned' : o \in Owned /\ o # <<"job", p>>
          BY <5>2 DEF Owned
        <5> QED BY <1>3, <5>2, <5>3 DEF CInv, Ownership
      <4>2. CASE \E n : CollectService(n)
        <5>1. PICK n : CollectService(n)
          BY <4>2
        <5>2. \A o \in Owned' : o \in Owned /\ o # <<"svc", n>>
          BY <5>1 DEF CollectService, Owned
        <5> QED BY <1>3, <5>1, <5>2 DEF CInv, Ownership, CollectService
      <4>3. CASE CollectMap
        <5>2. \A o \in Owned' : o \in Owned /\ o # <<"map", None>>
          BY <4>3 DEF CollectMap, Owned
        <5> QED BY <1>3, <4>3, <5>2 DEF CInv, Ownership, CollectMap
      <4>4. CASE CollectProxy
        <5>2. \A o \in Owned' : o \in Owned /\ o # <<"proxy", None>>
          BY <4>4 DEF CollectProxy, Owned
        <5> QED BY <1>3, <4>4, <5>2 DEF CInv, Ownership, CollectProxy
      <4> QED BY <1>6, <4>1, <4>2, <4>3, <4>4 DEF GarbageCollection
    <3>2. orphans # {}
      BY <1>2
    <3>3. seedMap' => seedMap
      BY <1>6 DEF GarbageCollection, CollectJob, CollectService, CollectMap, CollectProxy
    <3> QED BY <1>1, <1>3, <3>1, <3>2, <3>3
            DEF CInv, Ownership, CleanedUp
  <2> QED BY <1>4, <2>2, <2>3, <2>4 DEF CInv
<1> QED BY <1>5, <1>6

\* A document that is made again finds nothing of the old one.
LEMMA UserKeepsCalm ==
  ASSUME IInv, TInv, CInv, Calm, Calm', User
  PROVE  CInv'
<1> USE DEF document, plan, loops, cluster
<1>t. TypeOK
  BY DEF TInv
<1>1. /\ UNCHANGED <<rs, svc, pods, job, seedMap, proxy, pc, plan, loops>>
      /\ queued'
  BY DEF User, Create, Edit, Ask, Delete
<1>2. pc \notin Acting
  <2>1. ~inProgress \/ spec = None
    BY DEF User, Create, Edit, Delete
  <2> QED BY <2>1 DEF IInv, Frozen, Guarded
<1>3. Shape' /\ Planned' /\ InStarting' /\ InStopping' /\ InLinking' /\ Looked'
      /\ Built' /\ Taken'
  BY <1>1, <1>2 DEF CInv, Shape, Planned, InStarting, InStopping, InLinking, Looked,
                    Built, Taken, Acting, Starting, Stopping, Copying, Renewing, Linking
<1>4. ASSUME NEW d \in Docs, Create(d) PROVE Ownership' /\ Jobs' /\ Between'
  <2>1. spec = None /\ spec' = d /\ d # None /\ available' = available
        /\ orphans' = orphans
    BY <1>4, ReplicasAssumption DEF Create, Ask
  <2>2. CleanedUp
    BY <1>4, <2>1 DEF Create, Calm, CInv, Ownership
  <2>3. /\ orphans = {} /\ available = "unset" /\ rs = {} /\ svc = {}
        /\ \A p \in PVC : job[p].state = "none"
    BY <2>1, <2>2 DEF CInv, Ownership, CleanedUp, Owned
  <2>4. \A p \in PVC : Down(p)'
    BY <1>1, <2>2, <2>3 DEF CleanedUp, Listed, Down
  <2> QED BY <1>1, <2>1, <2>3, <2>4 DEF CInv, Ownership, Jobs, Between, World
<1>5. ASSUME NEW d \in Docs, Edit(d) PROVE Ownership' /\ Jobs' /\ Between'
  <2>1. spec # None /\ spec' = d /\ d # None /\ available' = available
        /\ orphans' = orphans /\ available # "false"
    BY <1>5, ReplicasAssumption DEF Edit, Ask
  <2> QED BY <1>1, <1>2, <2>1
          DEF CInv, Ownership, Jobs, Between, Eligible, World, Down, Runs
<1>6. CASE Delete
  <2>1. /\ spec # None /\ spec' = None /\ available' = "unset"
        /\ orphans' = orphans \cup Owned /\ deletes' # 0
    BY <1>6, <1>t DEF Delete, TypeOK
  <2>2. Owned' = Owned
    BY <1>1 DEF Owned
  <2>3. Ownership'
    BY <1>1, <2>1, <2>2 DEF CInv, Ownership
  <2>4. Jobs' /\ Between'
    BY <1>1, <1>2, <2>1 DEF CInv, Jobs, Between, Eligible, Down
  <2> QED BY <1>3, <2>3, <2>4 DEF CInv
<1> QED BY <1>3, <1>4, <1>5, <1>6 DEF User, CInv

-----------------------------------------------------------------------------
(* Reconcile, outside of the work on a document. *)

\* What the places have to do with each other.
Vacant == /\ Planned /\ InStarting /\ InStopping /\ InLinking /\ Looked /\ Built
          /\ Taken

LEMMA VacantWhenIdle == pc = "idle" => Vacant
  BY DEF Vacant, Planned, InStarting, InStopping, InLinking, Looked, Built, Taken,
         Acting, Starting, Stopping, Copying, Renewing, Linking

LEMMA VacantAfter == pc' = "idle" => Vacant'
  BY DEF Vacant, Planned, InStarting, InStopping, InLinking, Looked, Built, Taken,
         Acting, Starting, Stopping, Copying, Renewing, Linking

\* A reconcile that ends with an outcome, or that was in vain.
LEMMA FailingCalm ==
  ASSUME IInv, TInv, CInv, spec # None, pc' = "idle", spec' = spec,
         available' = "false", UNCHANGED <<rs, pods, job>>, orphans' = orphans,
         seedMap' => seedMap /\ pc \notin {"seed", "seedWait", "seeded"}
  PROVE  CInv'
<1>1. Vacant'
  BY VacantAfter
<1>2. Shape' /\ Ownership' /\ Jobs' /\ Between'
  BY DEF CInv, Shape, Ownership, Jobs, Between, Down, Eligible, Acting
<1> QED BY <1>1, <1>2 DEF CInv, Vacant

LEMMA ReconcileEndsCalm ==
  ASSUME IInv, TInv, CInv, Calm', Fail \/ AgreementFails \/ Refuse \/ MarkConflict \/ Report
  PROVE  CInv'
<1> USE DEF document, cluster, volumes
<1>1. CASE Fail
  <2>1. seedMap' => seedMap /\ pc \notin {"seed", "seedWait"}
    BY <1>1, NoLoss DEF Fail, DeleteSeedMap, TInv
  <2>2. spec # None /\ pc # "seeded"
    BY <1>1 DEF Fail, MayFail, IInv, Guarded, Acting
  <2> QED BY <1>1, <2>1, <2>2, FailingCalm DEF Fail, SetCondition, GoTo
<1>2. CASE AgreementFails
  <2>1. spec # None /\ pc \in {"agree", "link"}
    BY <1>2 DEF AgreementFails, IInv, Guarded, Acting
  <2> QED BY <1>2, <2>1, FailingCalm
          DEF AgreementFails, SetCondition, GoTo, CInv, Ownership
<1>3. CASE Refuse /\ ~queued
  BY <1>3, FailingCalm DEF Refuse, SetCondition, GoTo, IInv, Guarded
<1>4. CASE MarkConflict \/ (Refuse /\ queued)
  <2>1. /\ pc = "mark" /\ pc' = "idle" /\ queued
        /\ UNCHANGED <<document, cluster, volumes, orphans, deletes>>
    BY <1>4 DEF MarkConflict, Refuse, GoTo, bounds
  <2>2. Vacant'
    BY <2>1, VacantAfter
  <2>3. Shape' /\ Ownership' /\ Jobs' /\ Between'
    BY <2>1 DEF CInv, Shape, Ownership, Jobs, Between, Down, Runs, World, Eligible,
                Acting, Owned, CleanedUp, Listed
  <2> QED BY <2>2, <2>3 DEF CInv, Vacant
<1>5. CASE Report
  <2>1. /\ pc = "report" /\ pc' = "idle" /\ spec' = spec /\ available' = "true"
        /\ UNCHANGED <<cluster, volumes, orphans, deletes>>
    BY <1>5 DEF Report, SetCondition, GoTo, bounds
  <2>2. Vacant'
    BY <2>1, VacantAfter
  <2>3. spec # None /\ spec = doc
    BY <2>1 DEF IInv, Guarded, Frozen, Acting
  <2>4. World(ToSet(spec), ToSet(spec), {})
    BY <2>1, <2>3 DEF CInv, Built, Rem
  <2>5. Between'
    BY <2>1, <2>4 DEF Between, World, Runs, Down
  <2>6. Shape' /\ Ownership' /\ Jobs'
    BY <2>1, <2>3 DEF CInv, Shape, Ownership, Jobs, Down, Acting
  <2> QED BY <2>2, <2>5, <2>6 DEF CInv, Vacant
<1> QED BY <1>1, <1>2, <1>3, <1>4, <1>5

LEMMA ReconcileBeginsCalm ==
  ASSUME IInv, TInv, CInv, Skip \/ Begin \/ Mark
  PROVE  CInv'
<1> USE DEF document, cluster, volumes, plan, loops, bounds
<1>t. TypeOK
  BY DEF TInv
<1>1. CASE Skip
  <2>1. /\ pc = "idle" /\ pc' = "idle" /\ ~Eligible
        /\ UNCHANGED <<spec, available, cluster, orphans, deletes>>
    BY <1>1 DEF Skip, Eligible
  <2>2. Vacant'
    BY <2>1, VacantAfter
  <2>3. Shape' /\ Ownership' /\ Jobs' /\ Between'
    BY <2>1 DEF CInv, Shape, Ownership, Jobs, Between, Down, Eligible, Acting, Owned,
                CleanedUp, Listed
  <2> QED BY <2>2, <2>3 DEF CInv, Vacant
<1>2. CASE Begin
  <2>1. /\ pc = "idle" /\ pc' = "mark" /\ Eligible /\ spec # None /\ available # "false"
        /\ UNCHANGED <<spec, available, cluster, orphans, deletes>>
        /\ doc' = spec /\ ~queued'
    BY <1>2 DEF Begin, Eligible
  <2>2. World(rs, rs, {})
    BY <2>1 DEF CInv, Between
  <2>3. existing' = rs
    <3>1. existing' = {p \in PVC : Listed(p) # {}}
      BY <1>2 DEF Begin
    <3>2. \A p \in PVC : Listed(p) # {} <=> p \in rs
      BY <2>2 DEF World, Runs, Down, Listed
    <3> QED BY <1>t, <3>1, <3>2 DEF TypeOK
  <2>4. toBeAdded' = ToSet(spec) \ existing' /\ toBeDeleted' = existing' \ ToSet(spec)
    BY <1>2 DEF Begin
  <2>5. Vacant'
    BY <2>1, <2>3, <2>4
       DEF Vacant, Planned, InStarting, InStopping, InLinking, Looked, Built, Taken,
           Acting, Starting, Stopping, Copying, Renewing, Linking
  <2>6. Shape' /\ Ownership' /\ Jobs' /\ Between'
    BY <2>1 DEF CInv, Shape, Ownership, Jobs, Between, Down, Runs, World, Eligible,
                Acting, Owned, CleanedUp, Listed
  <2> QED BY <2>5, <2>6 DEF CInv, Vacant
<1>3. CASE Mark
  <2>1. /\ pc = "mark" /\ pc' = "config" /\ Eligible /\ spec # None /\ ~queued
        /\ UNCHANGED <<spec, available, cluster, orphans, plan, loops, deletes>>
    BY <1>3 DEF Mark, Eligible, IInv, Guarded
  <2>2. World(rs, rs, {}) /\ existing = rs
    BY <2>1 DEF CInv, Between, Planned
  <2>3. Vacant'
    BY <2>1, <2>2
       DEF CInv, Vacant, Planned, InStarting, InStopping, InLinking, Looked, Built,
           Taken, Acting, Starting, Stopping, Copying, Renewing, Linking, World, Runs,
           Down
  <2>4. Shape' /\ Ownership' /\ Jobs' /\ Between'
    BY <2>1 DEF CInv, Shape, Ownership, Jobs, Between, Acting
  <2> QED BY <2>3, <2>4 DEF CInv, Vacant
<1> QED BY <1>1, <1>2, <1>3
-----------------------------------------------------------------------------
(* Reconcile at work. *)

\* What a step between the first status update and the last has to show.
LEMMA Within ==
  ASSUME IInv, CInv, pc \in Acting, pc' \in Acting, UNCHANGED document,
         orphans' \subseteq orphans,
         seedMap' => pc' \in {"seed", "seedWait", "seeded"},
         Shape', Jobs', Vacant'
  PROVE  CInv'
<1>1. Ownership'
  BY DEF CInv, Ownership, IInv, Guarded, document, Acting
<1>2. Between'
  BY DEF Between, Acting
<1> QED BY <1>1, <1>2 DEF CInv, Vacant

\* While no volume is copied, no job runs.
LEMMA NoJob ==
  ASSUME CInv, pc \in Acting \ {"seed", "seedWait"}, job' = job
  PROVE  Jobs'
  BY DEF CInv, Jobs

\* A step that leaves replica sets and pods alone.
LEMMA Unmoved ==
  ASSUME CInv, UNCHANGED <<rs, pods>>
  PROVE  /\ Shape'
         /\ \A S, T, U : World(S, T, U) /\ svc' = svc => World(S, T, U)'
         /\ \A p : (Down(p) => Down(p)') /\ (Runs(p) => Runs(p)')
  BY DEF CInv, Shape, World, Runs, Down

LEMMA PlanCalm == ASSUME IInv, TInv, CInv, Plan PROVE CInv'
<1> USE DEF document, cluster, volumes, bounds
<1>1. /\ pc = "config" /\ ~removing /\ pc' \in {"proxy", "agree", "deploy"}
      /\ UNCHANGED <<document, cluster, orphans, doc, existing, toBeDeleted, removing>>
  BY DEF Plan, IInv, Removes, RemovalPlace
<1>2. World(existing, existing, {})' /\ Shape' /\ existing \subseteq PVC
  BY <1>1, Unmoved DEF CInv, Built, TInv, TypeOK
<1>3. toBeAdded = ToSet(doc) \ existing /\ toBeDeleted = existing \ ToSet(doc)
  BY <1>1 DEF CInv, Planned, Acting
<1>4. CASE pc' = "proxy"
  BY <1>1, <1>2, <1>3, <1>4, Within, NoJob
     DEF Plan, Vacant, Planned, InStarting, InStopping, InLinking, Looked, Built,
         Taken, Acting, Starting, Stopping, Copying, Renewing, Linking,
         CInv, Ownership
<1>5. CASE pc' = "agree"
  BY <1>1, <1>2, <1>3, <1>5, Within, NoJob
     DEF Plan, Vacant, Planned, InStarting, InStopping, InLinking, Looked, Built,
         Taken, Acting, Starting, Stopping, Copying, Renewing, Linking,
         CInv, Ownership
<1>6. CASE pc' = "deploy"
  <2>1. First(toBeAdded) \in toBeAdded
    BY <1>1, <1>6, DocsAre, FirstOne DEF Plan, TInv, TypeOK, Sound, Reading, Acting
  <2>2. /\ existing = {} /\ principal' \in toBeAdded /\ target' = principal'
        /\ toBeAdded' = toBeAdded \ {principal'} /\ todo' = toBeAdded'
    BY <1>1, <1>6, <2>1 DEF Plan
  <2>3. World(Old, Old, {})'
    BY <1>1, <1>2, <2>2 DEF World, Old
  <2> QED BY <1>1, <1>2, <1>3, <1>6, <2>2, <2>3, Within, NoJob
          DEF Vacant, Planned, InStarting, InStopping, InLinking, Looked, Built,
              Taken, Acting, Starting, Stopping, Copying, Renewing, Linking,
              CInv, Ownership
<1> QED BY <1>1, <1>4, <1>5, <1>6
\* A replica set that is made for a volume nobody is near.
LEMMA Deployed ==
  ASSUME TInv, CInv, NEW p \in PVC, p \in rs \/ Down(p), Calm', CreateReplicaSet(p),
         pods' = pods, NEW S, NEW T, NEW U, World(S, T, U), svc' = svc
  PROVE  Shape' /\ World(S \cup {p}, T, U \cup {p})'
<1>1. rs' = rs \cup {p}
  BY NoLoss DEF CreateReplicaSet, TInv
<1> QED BY <1>1 DEF CInv, Shape, Down, World, Runs

LEMMA DeployCalm == ASSUME IInv, TInv, CInv, Calm', Deploy PROVE CInv'
<1> USE DEF document, cluster, volumes, plan, loops
<1>1. /\ pc = "deploy" /\ ~removing /\ pc' = "lookup"
      /\ UNCHANGED <<document, svc, pods, job, seedMap, orphans, plan, loops>>
  BY DEF Deploy, IInv, Removes, RemovalPlace
<1>2. target = principal /\ principal \in PVC /\ World(Old, Old, {})
  BY <1>1 DEF CInv, InStarting, Built, TInv, Sound, Chosen, Acting, Starting
<1>3. Down(principal)
  BY <1>2 DEF World, Old
<1>4. Shape' /\ World(Old \cup {principal}, Old, {principal})'
  <2>1. CreateReplicaSet(principal)
    BY <1>2 DEF Deploy
  <2>2. Shape' /\ World(Old \cup {principal}, Old, {} \cup {principal})'
    BY <1>1, <1>2, <1>3, <2>1, Deployed DEF Old
  <2> QED BY <2>2 DEF World, Old
<1>5. World(existing \cup {principal}, Old, {principal})'
  BY <1>1, <1>4 DEF World, Old
<1>6. Vacant'
  BY <1>1, <1>5 DEF CInv, Vacant, Planned, InStarting, InStopping, InLinking, Looked, Built,
         Taken, Acting, Starting, Stopping, Copying, Renewing, Linking
<1> QED BY <1>1, <1>4, <1>6, Within, NoJob DEF CInv, Ownership, Acting

LEMMA LookupCalm == ASSUME IInv, TInv, CInv, Lookup PROVE CInv'
<1> USE DEF document, cluster, volumes, plan
<1>1. /\ pc = "lookup" /\ ~removing /\ pc' = "service" /\ pod' \in Found(target)
      /\ UNCHANGED <<document, cluster, orphans, plan, todo, left, replicaPods, target>>
  BY DEF Lookup, IInv, Removes, RemovalPlace
<1>2. World(existing \cup {principal}, Old, {principal}) /\ target = principal
  BY <1>1 DEF CInv, InStarting, Built, Starting
<1>3. \E i \in PodId : pod' = <<principal, i>>
  BY <1>1, <1>2 DEF Found, Listed, World
<1>4. Shape' /\ World(existing \cup {principal}, Old, {principal})'
  BY <1>1, <1>2, Unmoved DEF World, Runs, Down, Old
<1>5. Vacant'
  BY <1>1, <1>3, <1>4 DEF CInv, Vacant, Planned, InStarting, InStopping, InLinking, Looked, Built,
         Taken, Acting, Starting, Stopping, Copying, Renewing, Linking
<1> QED BY <1>1, <1>4, <1>5, Within, NoJob DEF CInv, Ownership, Acting

LEMMA ServiceCalm == ASSUME IInv, TInv, CInv, Service PROVE CInv'
<1> USE DEF document, cluster, volumes, plan, loops
<1>1. /\ pc = "service" /\ ~removing /\ pc' = "ready" /\ svc' = svc \cup {Owner(pod)}
      /\ UNCHANGED <<document, rs, pods, job, seedMap, orphans, plan, loops>>
  BY DEF Service, IInv, Removes, RemovalPlace
<1>2. World(existing \cup {principal}, Old, {principal}) /\ principal \in PVC
  BY <1>1 DEF CInv, Built, TInv, Sound, Chosen, Acting
<1>3. Owner(pod) = principal
  BY <1>1, <1>2, ReplicasAssumption DEF CInv, Looked, Owner
<1>4. Shape' /\ World(existing \cup {principal}, existing \cup {principal}, {principal})'
  BY <1>1, <1>2, <1>3, Unmoved DEF World, Runs, Down, Old
<1>5. Vacant'
  BY <1>1, <1>4 DEF CInv, Vacant, Planned, InStarting, InStopping, InLinking, Looked, Built,
         Taken, Acting, Starting, Stopping, Copying, Renewing, Linking
<1> QED BY <1>1, <1>4, <1>5, Within, NoJob DEF CInv, Ownership, Acting

LEMMA ReadyCalm == ASSUME IInv, TInv, CInv, Ready PROVE CInv'
<1> USE DEF document, cluster, volumes, bounds
<1>1. /\ pc = "ready" /\ ~removing /\ IsReady(pod)
      /\ existing' = existing \cup {principal}
      /\ pc' = IF principal \notin existing /\ todo # {} THEN "agree" ELSE "proxy"
      /\ UNCHANGED <<document, cluster, orphans, doc, toBeDeleted, toBeAdded,
                     principal, removing>>
  BY DEF Ready, IInv, Removes, RemovalPlace
<1>2. /\ World(existing \cup {principal}, existing \cup {principal}, {principal})
      /\ principal \in PVC
  BY <1>1 DEF CInv, Built, TInv, Sound, Chosen, Acting
<1>3. Runs(principal)
  <2>1. PICK i \in PodId : pod = <<principal, i>>
    BY <1>1 DEF CInv, Looked
  <2>2. pods[principal][i] \in {"ready", "terminating"}
    BY <1>1, <1>2, <2>1, ReplicasAssumption DEF IsReady, Answers
  <2>3. principal \in rs
    BY <1>2 DEF World
  <2> QED BY <1>2, <2>2, <2>3 DEF CInv, Shape, Runs
<1>4. World(existing, existing, {})' /\ Shape'
  BY <1>1, <1>2, <1>3, Unmoved DEF World, Runs, Down
<1>5. /\ toBeDeleted = existing' \ ToSet(doc)
      /\ principal \notin toBeAdded
      /\ ToSet(doc) \subseteq existing' \cup toBeAdded
  BY <1>1 DEF CInv, Planned, InStarting, Starting, Acting
<1>6. CASE pc' = "agree"
  <2>1. toBeAdded \cap existing' = {}
    BY <1>1, <1>5, <1>6 DEF CInv, InStarting, Starting
  <2>2. Vacant'
    BY <1>1, <1>4, <1>5, <1>6, <2>1 DEF Vacant, Planned, InStarting, InStopping, InLinking, Looked, Built,
         Taken, Acting, Starting, Stopping, Copying, Renewing, Linking
  <2> QED BY <1>1, <1>4, <1>6, <2>2, Within, NoJob DEF CInv, Ownership, Acting
<1>7. CASE pc' = "proxy"
  <2>1. toBeAdded \subseteq existing'
    BY <1>1, <1>7 DEF CInv, InStarting, Starting
  <2>2. Vacant'
    BY <1>1, <1>4, <1>5, <1>7, <2>1 DEF Vacant, Planned, InStarting, InStopping, InLinking, Looked, Built,
         Taken, Acting, Starting, Stopping, Copying, Renewing, Linking
  <2> QED BY <1>1, <1>4, <1>7, <2>2, Within, NoJob DEF CInv, Ownership, Acting
<1> QED BY <1>1, <1>6, <1>7

LEMMA AgreeCalm == ASSUME IInv, TInv, CInv, Agree PROVE CInv'
<1> USE DEF document, cluster, volumes, plan, bounds
<1>1. /\ pc = "agree" /\ ~removing
      /\ \/ pc' = "agree" /\ target' = target
         \/ pc' = "find" /\ target' = principal
      /\ UNCHANGED <<document, cluster, orphans, plan, left, replicaPods, pod>>
  BY DEF Agree, IInv, Removes, RemovalPlace
<1>2. World(existing, existing, {})' /\ Shape'
  BY <1>1, Unmoved DEF CInv, Built
<1>3. Vacant'
  BY <1>1, <1>2 DEF CInv, Kept, Vacant, Planned, InStarting, InStopping, InLinking, Looked, Built,
         Taken, Acting, Starting, Stopping, Copying, Renewing, Linking
<1> QED BY <1>1, <1>2, <1>3, Within, NoJob DEF CInv, Ownership, Acting

\* Where the loop over the sources of the new replicas goes.
LEMMA NextLinkPlaces ==
  ASSUME NEW rest, NextLink(rest)
  PROVE  \/ pc' = "link"
         \/ pc' = "newService" /\ left' = toBeAdded
  BY DEF NextLink

LEMMA LinkCalm == ASSUME IInv, TInv, CInv, Link PROVE CInv'
<1> USE DEF document, cluster, volumes, plan, bounds
<1>1. /\ pc = "link" /\ ~removing
      /\ \/ pc' = "link"
         \/ pc' = "newService" /\ left' = toBeAdded
      /\ UNCHANGED <<document, cluster, orphans, plan, replicaPods, target, pod>>
  BY NextLinkPlaces DEF Link, IInv, Removes, RemovalPlace
<1>2. World(Old, Old \ toBeAdded, {})' /\ Shape'
  BY <1>1, Unmoved DEF CInv, Built, Old
<1>3. Vacant'
  BY <1>1, <1>2 DEF CInv, Old, Vacant, Planned, InStarting, InStopping, InLinking, Looked, Built,
         Taken, Acting, Starting, Stopping, Copying, Renewing, Linking
<1> QED BY <1>1, <1>2, <1>3, Within, NoJob DEF CInv, Ownership, Acting

LEMMA FindCalm == ASSUME IInv, TInv, CInv, Find PROVE CInv'
<1> USE DEF document, cluster, volumes, plan, bounds
<1>1. /\ pc = "find" /\ pc' = "unserve" /\ pod' \in Found(target)
      /\ UNCHANGED <<document, cluster, orphans, plan, todo, left, replicaPods, target>>
  BY DEF Find
<1>2. target \in rs /\ target \in PVC
  BY <1>1, TargetKept DEF Stopping
<1>3. \E i \in PodId : pod' = <<target, i>> /\ pods[target][i] # "none"
  BY <1>1, <1>2 DEF Found, Listed
<1>4. World(Kept, Kept, {})' /\ Shape'
  BY <1>1, Unmoved DEF CInv, Taken, Kept, Rem
<1>5. Vacant'
  BY <1>1, <1>3, <1>4 DEF CInv, Kept, Rem, Vacant, Planned, InStarting, InStopping, InLinking, Looked, Built,
         Taken, Acting, Starting, Stopping, Copying, Renewing, Linking
<1> QED BY <1>1, <1>4, <1>5, Within, NoJob DEF CInv, Ownership, Acting

LEMMA UnserveCalm == ASSUME IInv, TInv, CInv, Unserve PROVE CInv'
<1> USE DEF document, cluster, volumes, plan, loops, bounds
<1>1. /\ pc = "unserve" /\ pc' = "undeploy" /\ svc' = svc \ {target}
      /\ orphans' \subseteq orphans
      /\ UNCHANGED <<document, rs, pods, job, seedMap, plan, loops>>
  BY DEF Unserve
<1>2. World(Kept, Kept \ {target}, {})' /\ Shape'
  BY <1>1, Unmoved DEF CInv, Taken, Kept, Rem, World, Runs, Down
<1>3. Vacant'
  BY <1>1, <1>2 DEF CInv, Kept, Rem, Vacant, Planned, InStarting, InStopping, InLinking, Looked, Built,
         Taken, Acting, Starting, Stopping, Copying, Renewing, Linking
<1> QED BY <1>1, <1>2, <1>3, Within, NoJob DEF CInv, Ownership, Acting

LEMMA UndeployCalm == ASSUME IInv, TInv, CInv, Undeploy PROVE CInv'
<1> USE DEF document, cluster, volumes, plan, loops, bounds
<1>t. TypeOK
  BY DEF TInv
<1>1. /\ pc = "undeploy" /\ pc' = "gone" /\ rs' = rs \ {target}
      /\ orphans' \subseteq orphans
      /\ pods' = [pods EXCEPT ![target] = [i \in PodId |-> Deleted(@[i])]]
      /\ UNCHANGED <<document, svc, job, seedMap, plan, loops>>
  BY DEF Undeploy
<1>2. target \in rs /\ target \in PVC
  BY <1>1, TargetKept DEF Stopping
<1>3. \A p \in PVC, i \in PodId :
        pods'[p][i] = IF p = target THEN Deleted(pods[p][i]) ELSE pods[p][i]
  BY <1>t, <1>1, <1>2 DEF TypeOK
<1>4. Shape'
  BY <1>1, <1>2, <1>3 DEF CInv, Shape, Deleted
<1>5. \A i \in PodId : pods'[target][i] # "none" => pod = <<target, i>>
  <2>1. PICK j \in PodId : pod = <<target, j>> /\ pods[target][j] # "none"
    BY <1>1 DEF CInv, Looked
  <2> QED BY <1>2, <1>3, <2>1 DEF CInv, Shape, Deleted
<1>6. World(Kept, Kept \ {target}, {})
  BY <1>1 DEF CInv, Taken
<1>7. /\ rs' = Kept \ {target} /\ svc' = Kept \ {target}
      /\ \A p \in rs' : Runs(p)'
      /\ \A p \in PVC \ (rs' \cup {target}) : Down(p)'
  BY <1>t, <1>1, <1>3, <1>6 DEF World, Runs, Down, TypeOK
<1>8. Taken'
  BY <1>1, <1>7 DEF Taken, Kept, Rem
<1>9. Vacant'
  BY <1>1, <1>5, <1>8
     DEF CInv, Vacant, Planned, InStarting, InStopping, InLinking, Looked, Built,
         Acting, Starting, Stopping, Copying, Renewing, Linking
<1> QED BY <1>1, <1>4, <1>9, Within, NoJob DEF CInv, Ownership, Acting

LEMMA GoneCalm == ASSUME IInv, TInv, CInv, Calm', Gone PROVE CInv'
<1> USE DEF document, cluster, volumes, plan, bounds
<1>t. TypeOK
  BY DEF TInv
<1>1. /\ pc = "gone" /\ IsGone(pod)
      /\ UNCHANGED <<document, cluster, orphans, plan, todo, replicaPods>>
  BY NoLoss DEF Gone, TInv
<1>2. target \in Kept /\ target \in PVC /\ target \notin rs
  BY <1>1, TargetKept DEF Stopping
<1>3. Down(target)
  <2> SUFFICES ASSUME NEW i \in PodId, pods[target][i] # "none" PROVE FALSE
    BY <1>2 DEF Down
  <2>1. pod = <<target, i>>
    BY <1>1 DEF CInv, Looked
  <2> QED BY <1>1, <2>1 DEF IsGone
<1>4. World(Kept \ {target}, Kept \ {target}, {})
  <2>1. /\ rs = Kept \ {target} /\ svc = Kept \ {target}
        /\ \A p \in rs : Runs(p)
        /\ \A p \in PVC \ (rs \cup {target}) : Down(p)
    BY <1>1 DEF CInv, Taken
  <2> QED BY <1>3, <2>1 DEF World
<1>5. Shape' /\ \A S, T, U : World(S, T, U) => World(S, T, U)'
  BY <1>1, Unmoved
<1>6. CASE removing
  <2>1. pc' = "remove" /\ left' = left \ {target}
    BY <1>6 DEF Gone
  <2>2. target \notin ToSet(doc)
    BY <1>1, <1>2, <1>6, ReplicasAssumption DEF IInv, Removes, Decided, Acting
  <2>3. Rem' = Kept \ {target}
    BY <1>1, <1>6, <2>1, <2>2 DEF Rem, Kept
  <2>4. World(Rem, Rem, {})'
    BY <1>4, <1>5, <2>3 DEF World
  <2>5. Vacant'
    BY <1>1, <1>6, <2>1, <2>4 DEF CInv, Vacant, Planned, InStarting, InStopping, InLinking, Looked, Built,
         Taken, Acting, Starting, Stopping, Copying, Renewing, Linking
  <2> QED BY <1>1, <1>5, <2>1, <2>5, Within, NoJob DEF CInv, Ownership, Acting
<1>7. CASE ~removing
  <2>1. pc' = "seedMap" /\ left' = left
    BY <1>7 DEF Gone
  <2>2. target = principal /\ Kept = existing
    BY <1>1, <1>7 DEF CInv, InStopping, Kept, Stopping
  <2>3. World(Old, Old, {})'
    BY <1>1, <1>4, <1>5, <2>2 DEF Old
  <2>4. Vacant'
    BY <1>1, <1>7, <2>1, <2>3 DEF CInv, Vacant, Planned, InStarting, InStopping, InLinking, Looked, Built,
         Taken, Acting, Starting, Stopping, Copying, Renewing, Linking
  <2> QED BY <1>1, <1>5, <2>1, <2>4, Within, NoJob DEF CInv, Ownership, Acting
<1> QED BY <1>6, <1>7

LEMMA SeedMapCalm == ASSUME IInv, TInv, CInv, SeedMap PROVE CInv'
<1> USE DEF document, cluster, volumes, plan, bounds
<1>1. /\ pc = "seedMap" /\ ~removing /\ pc' = "seed" /\ orphans' \subseteq orphans
      /\ UNCHANGED <<document, rs, svc, pods, job, plan, left, replicaPods, target, pod>>
  BY DEF SeedMap, IInv, Removes, RemovalPlace
<1>2. World(Old, Old, {})' /\ Shape'
  BY <1>1, Unmoved DEF CInv, Built, Copying, Old
<1>3. Vacant'
  BY <1>1, <1>2 DEF CInv, Vacant, Planned, InStarting, InStopping, InLinking, Looked, Built,
         Taken, Acting, Starting, Stopping, Copying, Renewing, Linking
<1> QED BY <1>1, <1>2, <1>3, Within, NoJob DEF Acting

LEMMA SeedCalm == ASSUME IInv, TInv, CInv, Seed PROVE CInv'
<1> USE DEF document, cluster, volumes, plan, bounds
<1>t. TypeOK
  BY DEF TInv
<1>1. /\ pc = "seed" /\ ~removing
      /\ job' = [job EXCEPT ![First(todo)] = [state |-> "running",
                                              source |-> principal]]
      /\ \/ pc' = "seedWait" /\ todo' = toBeAdded
         \/ pc' = "seed" /\ todo' = Rest
      /\ UNCHANGED <<document, rs, svc, pods, seedMap, orphans, plan, left,
                     replicaPods, target, pod>>
  BY DEF Seed, IInv, Removes, RemovalPlace
<1>2. World(Old, Old, {}) /\ toBeAdded \cap existing = {} /\ principal \in existing
  BY <1>1 DEF CInv, Built, InStopping, Copying
<1>3. World(Old, Old, {})' /\ Shape'
  BY <1>1, <1>2, Unmoved DEF Old
<1>4. /\ First(todo) \in todo /\ First(todo) \in PVC /\ todo \subseteq toBeAdded
      /\ principal \in PVC
  BY <1>1, <1>t, <1>2, NextOne DEF TInv, Sound, Visiting, TypeOK
<1>5. Down(First(todo)) /\ Down(principal)
  BY <1>2, <1>4 DEF World, Old
<1>6. Jobs'
  <2> SUFFICES ASSUME NEW p \in PVC, job'[p].state = "running"
               PROVE  /\ Down(p) /\ Down(job'[p].source)
                      /\ p \in toBeAdded /\ job'[p].source = principal
                      /\ \/ pc' = "seed" /\ p \notin todo'
                         \/ pc' = "seedWait" /\ p \in todo'
    BY <1>1 DEF Jobs, Down, Acting
  <2>1. CASE p = First(todo)
    BY <1>1, <1>4, <1>5, <1>t, <2>1 DEF TypeOK, Rest
  <2>2. CASE p # First(todo)
    <3>1. job'[p] = job[p]
      BY <1>1, <1>t, <2>2 DEF TypeOK
    <3> QED BY <1>1, <3>1 DEF CInv, Jobs, Rest, Acting
  <2> QED BY <2>1, <2>2
<1>7. Vacant'
  BY <1>1, <1>3 DEF CInv, Vacant, Planned, InStarting, InStopping, InLinking, Looked, Built,
         Taken, Acting, Starting, Stopping, Copying, Renewing, Linking
<1> QED BY <1>1, <1>3, <1>6, <1>7, Within DEF CInv, Ownership, Acting

LEMMA SeedWaitCalm == ASSUME IInv, TInv, CInv, SeedWait PROVE CInv'
<1> USE DEF document, cluster, volumes, plan, bounds
<1>1. /\ pc = "seedWait" /\ ~removing /\ todo' = Rest
      /\ job[First(todo)].state = "succeeded"
      /\ pc' = IF Rest = {} THEN "seeded" ELSE "seedWait"
      /\ UNCHANGED <<document, cluster, orphans, plan, left, replicaPods, target, pod>>
  BY DEF SeedWait, IInv, Removes, RemovalPlace
<1>2. World(Old, Old, {})' /\ Shape'
  BY <1>1, Unmoved DEF CInv, Built, Copying, Old
<1>3. Jobs'
  BY <1>1 DEF CInv, Jobs, Rest, Acting, Down
<1>4. Vacant'
  BY <1>1, <1>2 DEF CInv, Vacant, Planned, InStarting, InStopping, InLinking, Looked, Built,
         Taken, Acting, Starting, Stopping, Copying, Renewing, Linking
<1> QED BY <1>1, <1>2, <1>3, <1>4, Within DEF CInv, Ownership, Acting

LEMMA SeededCalm == ASSUME IInv, TInv, CInv, Calm', Seeded PROVE CInv'
<1> USE DEF document, cluster, volumes, plan, bounds
<1>1. /\ pc = "seeded" /\ ~removing /\ pc' = "new" /\ todo' = toBeAdded /\ ~seedMap'
      /\ UNCHANGED <<document, rs, svc, pods, job, orphans, plan, left, replicaPods,
                     target, pod>>
  BY NoLoss DEF Seeded, DeleteSeedMap, TInv, IInv, Removes, RemovalPlace
<1>2. World(Old, Old, {}) /\ toBeAdded \cap existing = {}
  BY <1>1 DEF CInv, Built, InStopping, Copying
<1>3. World(Old, Old \ toBeAdded, toBeAdded)' /\ Shape'
  BY <1>1, <1>2, Unmoved DEF Old, World, Runs, Down
<1>4. Vacant'
  BY <1>1, <1>2, <1>3 DEF CInv, Vacant, Planned, InStarting, InStopping, InLinking, Looked, Built,
         Taken, Acting, Starting, Stopping, Copying, Renewing, Linking
<1> QED BY <1>1, <1>3, <1>4, Within, NoJob DEF Acting

LEMMA NewCalm == ASSUME IInv, TInv, CInv, Calm', New PROVE CInv'
<1> USE DEF document, cluster, volumes, plan, loops, bounds
<1>1. /\ pc = "new" /\ ~removing /\ pc' = "newLookup" /\ CreateReplicaSet(First(todo))
      /\ UNCHANGED <<document, svc, pods, job, seedMap, orphans, plan, loops>>
  BY DEF New, IInv, Removes, RemovalPlace
<1>2. PICK f \in todo : f = First(todo) /\ First(todo)' = f
  <2>1. First(todo)' = First(todo)
    BY <1>1 DEF First
  <2> QED BY <1>1, <2>1, NextOne
<1>3. f \in PVC /\ todo \subseteq toBeAdded /\ CreateReplicaSet(f)
  BY <1>1, <1>2 DEF TInv, TypeOK, Sound, Visiting
<1>4. World(Old, Old \ toBeAdded, toBeAdded) /\ f \notin existing
  BY <1>1, <1>2, <1>3 DEF CInv, Built, InLinking, Renewing
<1>5. Down(f)
  BY <1>3, <1>4 DEF World, Old
<1>6. Shape' /\ World(Old \cup {f}, Old \ toBeAdded, toBeAdded \cup {f})'
  BY <1>1, <1>3, <1>4, <1>5, Deployed DEF Old
<1>7. World(Old \cup {First(todo)}, Old \ toBeAdded, toBeAdded)'
  BY <1>1, <1>2, <1>3, <1>6 DEF World, Old
<1>8. Vacant'
  BY <1>1, <1>7 DEF CInv, Vacant, Planned, InStarting, InStopping, InLinking, Looked, Built,
         Taken, Acting, Starting, Stopping, Copying, Renewing, Linking
<1> QED BY <1>1, <1>6, <1>8, Within, NoJob DEF CInv, Ownership, Acting

LEMMA NewLookupCalm == ASSUME IInv, TInv, CInv, NewLookup PROVE CInv'
<1> USE DEF document, cluster, volumes, bounds
<1>t. TypeOK
  BY DEF TInv
<1> DEFINE f == First(todo)
<1>1. /\ pc = "newLookup" /\ ~removing /\ todo' = todo \ {f}
      /\ existing' = existing \cup {f}
      /\ \/ todo' = {} /\ pc' = "newReady" /\ left' = toBeAdded
         \/ pc' = "new"
      /\ UNCHANGED <<document, cluster, orphans, doc, toBeDeleted, toBeAdded,
                     principal, removing, target, pod>>
  BY DEF NewLookup, Rest, IInv, Removes, RemovalPlace
<1>2. /\ f \in todo /\ f \in PVC /\ todo \subseteq toBeAdded
      /\ toBeAdded \subseteq ToSet(doc)
  BY <1>1, NextOne DEF TInv, Sound, Visiting, Reading, Acting
<1>3. /\ World(Old \cup {f}, Old \ toBeAdded, toBeAdded)
      /\ toBeAdded \ existing = todo /\ principal \in existing
      /\ \A p \in toBeAdded \ todo : replicaPods[p] = p
      /\ principal \notin toBeAdded
      /\ ToSet(doc) \subseteq existing \cup toBeAdded \cup {principal}
      /\ toBeDeleted = existing \ ToSet(doc)
  BY <1>1 DEF CInv, Built, InLinking, Planned, Renewing, Acting
<1>4. \A p \in toBeAdded \ todo' : replicaPods'[p] = p
  <2>1. PICK h \in Found(f) : replicaPods' = [replicaPods EXCEPT ![f] = Owner(h)]
    BY DEF NewLookup
  <2>2. \E i \in PodId : h = <<f, i>>
    BY <1>3 DEF Found, Listed, World
  <2>3. Owner(h) = f
    BY <1>2, <2>2, ReplicasAssumption DEF Owner
  <2>4. replicaPods'[f] = f /\ \A p \in PVC \ {f} : replicaPods'[p] = replicaPods[p]
    BY <1>t, <1>2, <2>1, <2>3 DEF TypeOK
  <2> HIDE DEF f
  <2> QED BY <1>t, <1>1, <1>3, <2>4 DEF TypeOK
<1> HIDE DEF f
<1>5. Old' = Old \cup {f} /\ Old' \ toBeAdded = Old \ toBeAdded
  BY <1>1, <1>2, <1>3 DEF Old
<1>6. World(Old, Old \ toBeAdded, toBeAdded)' /\ Shape'
  BY <1>1, <1>3, <1>5, Unmoved DEF World, Runs, Down
<1>7. /\ toBeAdded \ existing' = todo'
      /\ ToSet(doc) \subseteq existing' \cup toBeAdded \cup {principal}
      /\ toBeDeleted = existing' \ ToSet(doc) /\ principal \in existing'
      /\ pc' = "newReady" => toBeAdded \subseteq existing'
  BY <1>1, <1>2, <1>3
<1>8. Vacant'
  <2>1. CASE pc' = "new"
    BY <1>1, <1>3, <1>4, <1>6, <1>7, <2>1 DEF Vacant, Planned, InStarting, InStopping, InLinking, Looked, Built,
         Taken, Acting, Starting, Stopping, Copying, Renewing, Linking
  <2>2. CASE pc' = "newReady"
    BY <1>1, <1>3, <1>4, <1>6, <1>7, <2>2 DEF Vacant, Planned, InStarting, InStopping, InLinking, Looked, Built,
         Taken, Acting, Starting, Stopping, Copying, Renewing, Linking
  <2> QED BY <1>1, <2>1, <2>2
<1> QED BY <1>1, <1>6, <1>8, Within, NoJob DEF CInv, Ownership, Acting

LEMMA NewReadyCalm == ASSUME IInv, TInv, CInv, NewReady PROVE CInv'
<1> USE DEF document, cluster, volumes, plan, bounds
<1>1. PICK p \in left :
        /\ \E h \in Found(replicaPods[p]) : IsReady(h)
        /\ IF left = {p} THEN NextLink(toBeAdded)
                         ELSE left' = left \ {p} /\ UNCHANGED <<pc, todo>>
  BY DEF NewReady
<1>2. /\ pc = "newReady" /\ ~removing
      /\ UNCHANGED <<document, cluster, orphans, plan, replicaPods, target, pod>>
  BY DEF NewReady, IInv, Removes, RemovalPlace
<1>3. /\ World(Old, Old \ toBeAdded, left) /\ replicaPods[p] = p
      /\ p \in toBeAdded /\ p \in existing /\ p \in PVC /\ p # principal
  BY <1>1, <1>2 DEF CInv, Built, InLinking, Planned, Linking, Acting, TInv, Sound,
                    LookedUp, TypeOK
<1>4. Runs(p)
  <2>1. p \in rs
    BY <1>3 DEF World, Old
  <2>2. PICK i \in PodId : IsReady(<<p, i>>)
    BY <1>1, <1>3, <2>1 DEF Found, Listed
  <2>3. pods[p][i] \in {"ready", "terminating"}
    BY <1>3, <2>2, ReplicasAssumption DEF IsReady, Answers
  <2> QED BY <1>3, <2>1, <2>3 DEF CInv, Shape, Runs
<1>5. World(Old, Old \ toBeAdded, left \ {p})
  BY <1>3, <1>4 DEF World
<1>6. Shape' /\ \A S, T, U : World(S, T, U) => World(S, T, U)'
  BY <1>2, Unmoved
<1>7. CASE left # {p}
  <2>1. World(Old, Old \ toBeAdded, left)' /\ pc' = "newReady"
    BY <1>1, <1>2, <1>5, <1>6, <1>7 DEF Old
  <2>2. Vacant'
    BY <1>2, <2>1 DEF CInv, Vacant, Planned, InStarting, InStopping, InLinking, Looked, Built,
         Taken, Acting, Starting, Stopping, Copying, Renewing, Linking
  <2> QED BY <1>2, <1>6, <2>1, <2>2, Within, NoJob DEF CInv, Ownership, Acting
<1>8. CASE left = {p}
  <2>1. pc' = "link" \/ (pc' = "newService" /\ left' = toBeAdded)
    BY <1>1, <1>8, NextLinkPlaces
  <2>2. World(Old, Old \ toBeAdded, {})
    BY <1>5, <1>8 DEF World
  <2>3. World(Old, Old \ toBeAdded, {})'
    BY <1>2, <2>2, <1>6 DEF Old
  <2>4. Vacant'
    BY <1>2, <2>1, <2>3 DEF CInv, Vacant, Planned, InStarting, InStopping, InLinking, Looked, Built,
         Taken, Acting, Starting, Stopping, Copying, Renewing, Linking
  <2> QED BY <1>2, <1>6, <2>1, <2>4, Within, NoJob DEF CInv, Ownership, Acting
<1> QED BY <1>7, <1>8

LEMMA NewServiceCalm == ASSUME IInv, TInv, CInv, NewService PROVE CInv'
<1> USE DEF document, cluster, volumes, plan, bounds
<1>1. PICK p \in left :
        /\ svc' = svc \cup {replicaPods[p]}
        /\ left' = left \ {p}
        /\ \/ left = {p} /\ pc' = "deploy" /\ target' = principal
           \/ pc' = "newService"
  BY DEF NewService
<1>2. /\ pc = "newService" /\ ~removing
      /\ UNCHANGED <<document, rs, pods, job, seedMap, orphans, plan, todo,
                     replicaPods, pod>>
  BY DEF NewService, IInv, Removes, RemovalPlace
<1>3. /\ World(Old, Old \ left, {}) /\ replicaPods[p] = p
      /\ p \in toBeAdded /\ p \in existing /\ p # principal
      /\ toBeAdded \subseteq existing /\ principal \in existing
  BY <1>1, <1>2 DEF CInv, Built, InLinking, Planned, Linking, Acting, TInv, Sound,
                    LookedUp, TypeOK
<1>4. World(Old, Old \ left, {})' /\ Shape'
  BY <1>1, <1>2, <1>3, Unmoved DEF World, Runs, Down, Old
<1>5. CASE pc' = "newService"
  BY <1>1, <1>2, <1>4, <1>5, Within, NoJob DEF CInv, Ownership, Vacant, Planned, InStarting, InStopping, InLinking, Looked, Built,
         Taken, Acting, Starting, Stopping, Copying, Renewing, Linking
<1>6. CASE pc' = "deploy" /\ left' = {} /\ target' = principal
  <2>1. World(Old, Old, {})'
    BY <1>4, <1>6 DEF World
  <2> QED BY <1>2, <1>3, <1>4, <1>6, <2>1, Within, NoJob DEF CInv, Ownership, Vacant, Planned, InStarting, InStopping, InLinking, Looked, Built,
         Taken, Acting, Starting, Stopping, Copying, Renewing, Linking
<1> QED BY <1>1, <1>5, <1>6

LEMMA ProxyCalm == ASSUME IInv, TInv, CInv, Proxy PROVE CInv'
<1> USE DEF document, cluster, volumes, plan, bounds
<1>1. /\ pc = "proxy" /\ pc' = "remove" /\ removing' /\ left' = toBeDeleted
      /\ orphans' \subseteq orphans
      /\ UNCHANGED <<document, rs, svc, pods, job, seedMap, doc, existing, toBeDeleted>>
  BY DEF Proxy, SaveProxy, StartRemoval
<1>2. /\ World(existing, existing, {}) /\ ToSet(doc) \subseteq existing
      /\ toBeDeleted = existing \ ToSet(doc)
  BY <1>1 DEF CInv, Built, Planned, Acting
<1>3. Rem' = existing
  BY <1>1, <1>2 DEF Rem
<1>4. World(Rem, Rem, {})' /\ Shape'
  BY <1>1, <1>2, <1>3, Unmoved DEF World, Runs, Down
<1>5. Vacant'
  BY <1>1, <1>2, <1>4 DEF Vacant, Planned, InStarting, InStopping, InLinking, Looked, Built,
         Taken, Acting, Starting, Stopping, Copying, Renewing, Linking
<1> QED BY <1>1, <1>4, <1>5, Within, NoJob DEF CInv, Ownership, Acting

LEMMA NextRemovalCalm == ASSUME IInv, TInv, CInv, NextRemoval PROVE CInv'
<1> USE DEF document, cluster, volumes, plan, bounds
<1>1. /\ pc = "remove" /\ removing
      /\ pc' = "unlink" \/ (pc' = "report" /\ left = {})
      /\ UNCHANGED <<document, cluster, orphans, plan, todo, left, replicaPods, pod>>
  BY DEF NextRemoval, TInv, Sound, Adding
<1>2. World(Rem, Rem, {})' /\ Shape'
  BY <1>1, Unmoved DEF CInv, Built, Rem
<1>3. Vacant'
  BY <1>1, <1>2 DEF CInv, Vacant, Planned, InStarting, InStopping, InLinking, Looked, Built,
         Taken, Acting, Starting, Stopping, Copying, Renewing, Linking
<1> QED BY <1>1, <1>2, <1>3, Within, NoJob DEF CInv, Ownership, Acting

LEMMA UnlinkCalm == ASSUME IInv, TInv, CInv, Unlink PROVE CInv'
<1> USE DEF document, cluster, volumes, plan, loops, bounds
<1>1. /\ pc = "unlink" /\ removing /\ pc' = "find"
      /\ UNCHANGED <<document, cluster, orphans, plan, loops>>
  BY DEF Unlink, TInv, Sound, Adding
<1>2. World(Rem, Rem, {})' /\ Shape'
  BY <1>1, Unmoved DEF CInv, Built, Rem
<1>3. Vacant'
  BY <1>1, <1>2 DEF CInv, Kept, Rem, Vacant, Planned, InStarting, InStopping, InLinking, Looked, Built,
         Taken, Acting, Starting, Stopping, Copying, Renewing, Linking
<1> QED BY <1>1, <1>2, <1>3, Within, NoJob DEF CInv, Ownership, Acting
-----------------------------------------------------------------------------
LEMMA ReconcileKeepsCalm == ASSUME IInv, TInv, CInv, Calm', Reconcile PROVE CInv'
<1>1. CASE Skip \/ Begin \/ Mark
  BY <1>1, ReconcileBeginsCalm
<1>2. CASE MarkConflict \/ Refuse \/ Fail \/ AgreementFails \/ Report
  BY <1>2, ReconcileEndsCalm
<1>3. CASE Plan \/ Deploy \/ Lookup \/ Service \/ Ready
  BY <1>3, PlanCalm, DeployCalm, LookupCalm, ServiceCalm, ReadyCalm
<1>4. CASE Agree \/ Link \/ Find \/ Unserve \/ Undeploy \/ Gone
  BY <1>4, AgreeCalm, LinkCalm, FindCalm, UnserveCalm, UndeployCalm, GoneCalm
<1>5. CASE SeedMap \/ Seed \/ SeedWait \/ Seeded
  BY <1>5, SeedMapCalm, SeedCalm, SeedWaitCalm, SeededCalm
<1>6. CASE New \/ NewLookup \/ NewReady \/ NewService
  BY <1>6, NewCalm, NewLookupCalm, NewReadyCalm, NewServiceCalm
<1>7. CASE Proxy \/ NextRemoval \/ Unlink
  BY <1>7, ProxyCalm, NextRemovalCalm, UnlinkCalm
<1> QED BY <1>1, <1>2, <1>3, <1>4, <1>5, <1>6, <1>7 DEF Reconcile

LEMMA StaysCalm == ASSUME IInv, TInv, CInv, [Next]_vars, Calm' PROVE CInv'
<1>1. Calm /\ TypeOK
  BY CalmBefore DEF TInv
<1>2. CASE UNCHANGED vars
  <2>1. UNCHANGED <<document, rs, svc, pods, job, seedMap, proxy, orphans, pc, plan,
                    loops, deletes>>
    BY <1>2 DEF vars, cluster, bounds
  <2>2. Ownership' /\ Jobs'
    BY <2>1 DEF CInv, Ownership, Jobs, Owned, CleanedUp, Listed, Down, Eligible,
                document, plan, loops
  <2> QED BY <2>1, <2>2, Frame DEF CInv
<1>3. CASE Restart
  BY <1>3 DEF Restart, CInv, Ownership
<1> QED BY <1>1, <1>2, <1>3, NoStorm, UserKeepsCalm, ReconcileKeepsCalm,
           PodsKeepCalm, JobsKeepCalm, CollectionKeepsCalm DEF Next

LEMMA CalmInitially == Init => CInv
<1> SUFFICES ASSUME Init PROVE CInv
  OBVIOUS
<1>1. Vacant
  BY VacantWhenIdle DEF Init
<1>2. Shape /\ Ownership /\ Jobs /\ Between
  BY DEF Init, Shape, Ownership, Jobs, Between, Owned, CleanedUp, Listed, Eligible
<1> QED BY <1>1, <1>2 DEF CInv, Vacant

(* As long as nothing happens behind its back, the cluster is what the     *)
(* operator takes it to be, at every step.                                 *)
THEOREM CalmInvariance == Spec => [](Calm => CInv)
<1>1. Init => (Calm => CInv)
  BY CalmInitially
<1>2. IInv /\ TInv /\ (Calm => CInv) /\ [Next]_vars => (Calm => CInv)'
  BY StaysCalm, CalmBefore DEF TInv
<1> QED BY <1>1, <1>2, Invariance, Typed, PTL DEF Spec

(* As long as nothing happens behind the back of the operator, no server   *)
(* has a volume open that a seed job reads or writes: the principal and    *)
(* the new replica are down, and stay so until the job has ended.          *)
THEOREM CopiesAreAlone == Spec => [](Calm => SeedIsolation)
<1>1. TInv /\ CInv => SeedIsolation
  BY DEF CInv, Jobs, Down, InUse, SeedIsolation, TInv, Sound, Sourced
<1> QED BY <1>1, CalmInvariance, Typed, PTL

(* As long as nothing happens behind the back of the operator, it is done  *)
(* only when the replicas asked for, and no others, have their replica     *)
(* sets, services and ready pods, and the proxy lists just them.           *)
THEOREM WorkIsDone == Spec => [](Calm => AllServed)
<1>1. Calm /\ CInv /\ ProxyIsCurrent => AllServed
  <2> SUFFICES ASSUME Calm, CInv, ProxyIsCurrent, Settled
               PROVE  /\ rs = ToSet(spec) /\ svc = ToSet(spec)
                      /\ proxy = ToSet(spec) /\ ~seedMap
                      /\ \A p \in rs : \E i \in PodId : pods[p][i] = "ready"
    BY DEF AllServed
  <2>1. Eligible
    BY DEF CInv, Ownership, Settled, Eligible
  <2>2. rs = ToSet(spec) /\ World(rs, rs, {})
    BY <2>1 DEF CInv, Between, Settled
  <2>3. proxy = ToSet(spec)
    BY DEF ProxyIsCurrent, Calm
  <2> QED BY <2>2, <2>3 DEF World, Runs, CInv, Ownership, Settled
<1> QED BY <1>1, CalmInvariance, ProxyStaysCurrent, PTL
-----------------------------------------------------------------------------
(* The directories.                                                        *)
(*                                                                         *)
(* While the operator works, the replicas that exist hold the same         *)
(* directory, and the new ones hold a copy of the principal's from the     *)
(* moment their seed job has succeeded.  It matters that what is copied is *)
(* not empty: a server makes a directory of its own on an empty volume.    *)

Same(S) == \A p, q \in S : data[p] = data[q]

\* A server that has answered has a directory on its volume.
Written == \A p \in PVC, i \in PodId :
             pods[p][i] \in {"ready", "terminating"} => data[p] # "empty"

\* What is copied is a directory, or what is left of one.
Filled == \A p \in PVC : job[p].state = "running" => data[job[p].source] # "empty"

Copied(p) == data[p] = data[principal]

\* The new replicas that have a copy of the principal's directory.
Seeding ==
  /\ pc = "seed" =>
       \A p \in toBeAdded \ todo : job[p].state = "succeeded" => Copied(p)
  /\ pc = "seedWait" =>
       \A p \in toBeAdded : p \notin todo \/ job[p].state = "succeeded" => Copied(p)
  /\ pc \in {"seeded"} \cup Renewing => \A p \in toBeAdded : Copied(p)

\* The replicas that exist hold the same directory.
Alike ==
  /\ pc \in {"idle", "mark"} /\ Eligible => Same(rs)
  /\ pc \in Acting => Same(existing) /\ \A p \in existing : data[p] # "empty"
  /\ pc \in Acting /\ removing => ToSet(doc) \subseteq existing

DInv == Written /\ Filled /\ Seeding /\ Alike

\* A volume that is not empty is left as it is.
LEMMA FilledStays ==
  ASSUME TInv, CInv, DInv, UNCHANGED <<spec, available, rs, job, pc, plan, todo>>, Written',
         \A q \in PVC : data[q] # "empty" => data'[q] = data[q]
  PROVE  DInv'
<1> USE DEF plan
<1>t. TypeOK
  BY DEF TInv
<1>1. Filled'
  BY DEF DInv, Filled, TInv, Sound, Sourced
<1>2. Seeding'
  <2>1. CASE pc \in Copying \cup Renewing
    <3>1. principal \in existing /\ existing \subseteq PVC /\ toBeAdded \subseteq PVC
      BY <1>t, <2>1 DEF CInv, InStopping, InLinking, TypeOK, Renewing
    <3>2. data[principal] # "empty"
      BY <2>1, <3>1 DEF DInv, Alike, Acting, Copying, Renewing
    <3>3. \A p \in PVC : Copied(p) => Copied(p)'
      BY <3>1, <3>2 DEF Copied
    <3> QED BY <3>1, <3>3 DEF DInv, Seeding
  <2>2. CASE pc \notin Copying \cup Renewing
    BY <2>2 DEF Seeding, Copying
  <2> QED BY <2>1, <2>2
<1>3. Alike'
  <2>1. CASE pc \in {"idle", "mark"} /\ Eligible
    <3>1. \A p \in rs : p \in PVC /\ data[p] # "empty"
      BY <1>t, <2>1 DEF CInv, Between, World, Runs, DInv, Written, TypeOK
    <3> QED BY <2>1, <3>1 DEF DInv, Alike, Same, Acting
  <2>2. CASE pc \in Acting
    BY <1>t, <2>2 DEF DInv, Alike, Same, Acting, TypeOK
  <2>3. CASE ~(pc \in {"idle", "mark"} /\ Eligible) /\ pc \notin Acting
    BY <2>3 DEF Alike, Eligible
  <2> QED BY <2>1, <2>2, <2>3
<1> QED BY <1>1, <1>2, <1>3 DEF DInv

LEMMA PodsKeepData ==
  ASSUME TInv, CInv, DInv, PodEvents
  PROVE  DInv'
<1>t. TypeOK
  BY DEF TInv
<1>1. PICK p \in PVC, i \in PodId : PodCreated(p, i) \/ PodStarts(p, i) \/ PodEnds(p, i)
  BY DEF PodEvents
<1>2. UNCHANGED <<spec, available, rs, job, pc, plan, todo>>
  BY <1>1 DEF PodCreated, PodStarts, PodEnds, document, loops
<1>3. \A q \in PVC, j \in PodId : ~(q = p /\ j = i) => pods'[q][j] = pods[q][j]
  BY <1>1, <1>t DEF PodCreated, PodStarts, PodEnds, SetPod, TypeOK
<1>4. \A q \in PVC : data[q] # "empty" => data'[q] = data[q]
  BY <1>1, <1>t DEF PodCreated, PodStarts, PodEnds, volumes, TypeOK
<1>5. Written'
  <2>1. pods'[p][i] \in {"ready", "terminating"} => data'[p] # "empty"
    BY <1>1, <1>t, ReplicasAssumption
       DEF PodCreated, PodStarts, PodEnds, SetPod, TypeOK
  <2> QED BY <1>3, <1>4, <2>1 DEF DInv, Written
<1> QED BY <1>2, <1>4, <1>5, FilledStays

\* A job touches only the volume of its own, which is not in use.
LEMMA JobsKeepData ==
  ASSUME TInv, CInv, DInv, JobEvents
  PROVE  DInv'
<1> USE DEF document, plan, loops, volumes
<1>t. TypeOK
  BY DEF TInv
<1>1. PICK p \in PVC : JobSucceeds(p) \/ JobFails(p) \/ JobExpires(p)
  BY DEF JobEvents
<1>2. UNCHANGED <<document, rs, pods, pc, plan, loops>>
  BY <1>1 DEF JobSucceeds, JobFails, JobExpires
<1>3. CASE JobExpires(p)
  <2>1. data' = data /\ \A q \in PVC : job'[q] = job[q] \/ job'[q].state = "none"
    BY <1>3, <1>t DEF JobExpires, TypeOK
  <2>2. Written' /\ Alike'
    BY <1>2, <2>1 DEF DInv, Written, Alike, Same, Eligible
  <2>3. Filled'
    BY <2>1 DEF DInv, Filled
  <2>4. Seeding'
    BY <1>2, <1>t, <2>1 DEF DInv, Seeding, Copied, TypeOK
  <2> QED BY <2>2, <2>3, <2>4 DEF DInv
<1>4. CASE JobSucceeds(p) \/ JobFails(p)
  <2> DEFINE s == job[p].source
  <2>1. job[p].state = "running" /\ s \in PVC /\ data[s] # "empty" /\ Down(p) /\ Down(s)
    BY <1>4 DEF JobSucceeds, JobFails, TInv, Sound, Sourced, DInv, Filled, CInv, Jobs
  <2>2. /\ job'[p].state # "running" /\ \A q \in PVC \ {p} : job'[q] = job[q]
        /\ job'[p].state = "succeeded" => JobSucceeds(p)
    BY <1>4, <1>t DEF JobSucceeds, JobFails, TypeOK
  <2>3. /\ \A q \in PVC \ {p} : data'[q] = data[q]
        /\ data'[p] \in {data[p], "partial", data[s]}
        /\ JobSucceeds(p) => data'[p] = data[s]
    BY <1>4, <1>t, <2>1 DEF JobSucceeds, JobFails, TypeOK, InUse, Down
  <2> HIDE DEF s
  <2>4. Written'
    BY <1>2, <2>1, <2>3 DEF DInv, Written, Down
  <2>5. Filled'
    <3> SUFFICES ASSUME NEW q \in PVC, job'[q].state = "running"
                 PROVE  data'[job'[q].source] # "empty"
      BY DEF Filled
    <3>1. /\ q # p /\ job'[q] = job[q] /\ job[q].source \in PVC
          /\ data[job[q].source] # "empty"
      BY <2>2 DEF TInv, Sound, Sourced, DInv, Filled
    <3>2. CASE job[q].source = p
      BY <2>1, <2>3, <3>1, <3>2
    <3>3. CASE job[q].source # p
      BY <2>3, <3>1, <3>3
    <3> QED BY <3>2, <3>3
  <2>6. CASE pc \in Acting
    <3>1. /\ p \in toBeAdded /\ s = principal /\ pc \in {"seed", "seedWait"}
          /\ pc = "seed" => p \notin todo
          /\ pc = "seedWait" => p \in todo
      BY <2>1, <2>6 DEF CInv, Jobs, s
    <3>2. toBeAdded \cap existing = {} /\ principal \in existing
      BY <3>1 DEF CInv, InStopping, Copying
    <3>3. p \notin existing /\ principal # p /\ principal \in PVC /\ existing \subseteq PVC
          /\ toBeAdded \subseteq PVC
      BY <1>t, <3>1, <3>2 DEF TypeOK
    <3>4. \A q \in PVC \ {p} : Copied(q) => Copied(q)'
      BY <1>2, <2>3, <3>3 DEF Copied
    <3>5. job'[p].state = "succeeded" => Copied(p)'
      BY <1>2, <2>2, <2>3, <3>1, <3>3 DEF Copied
    <3>6. Seeding'
      BY <1>2, <2>2, <3>1, <3>3, <3>4, <3>5 DEF DInv, Seeding, Renewing
    <3>7. Alike'
      BY <1>2, <2>3, <2>6, <3>3 DEF DInv, Alike, Same, Acting
    <3> QED BY <2>4, <2>5, <3>6, <3>7 DEF DInv
  <2>7. CASE pc \notin Acting
    <3>1. ~Eligible
      BY <2>1, <2>7 DEF CInv, Jobs
    <3>2. Alike' /\ Seeding'
      BY <1>2, <2>7, <3>1 DEF Alike, Seeding, Eligible, Acting, Renewing
    <3> QED BY <2>4, <2>5, <3>2 DEF DInv
  <2> QED BY <2>6, <2>7
<1> QED BY <1>1, <1>3, <1>4

\* What a step outside of the work on a document has to show.
LEMMA DataAtRest ==
  ASSUME DInv, data' = data, pods' = pods, job' = job, pc' \in {"idle", "mark"},
         Eligible' => Same(rs)'
  PROVE  DInv'
  BY DEF DInv, Written, Filled, Seeding, Alike, Acting, Renewing

LEMMA CollectionKeepsData ==
  ASSUME IInv, TInv, CInv, DInv, GarbageCollection
  PROVE  DInv'
<1> USE DEF volumes, document
<1>t. TypeOK
  BY DEF TInv
<1>1. spec' = spec /\ pc' = pc
  BY DEF GarbageCollection, CollectReplicaSet, CollectJob, CollectService,
         CollectMap, CollectProxy
<1>2. orphans # {}
  BY DEF GarbageCollection, CollectReplicaSet, CollectJob, CollectService,
         CollectMap, CollectProxy
<1>3. ~Eligible' /\ pc' \notin Acting
  BY <1>1, <1>2 DEF CInv, Ownership, IInv, Guarded, Eligible
<1>4. Seeding' /\ Alike'
  BY <1>3 DEF Seeding, Alike, Acting, Renewing
<1>5. \A p \in PVC : data[p] # "empty" => data'[p] # "empty"
  BY <1>t DEF GarbageCollection, CollectReplicaSet, CollectJob, CollectService,
              CollectMap, CollectProxy, TypeOK
<1>6. \A p \in PVC : job'[p].state = "running" => job'[p] = job[p]
  <2>1. ASSUME NEW q \in PVC, CollectJob(q)
        PROVE  \A p \in PVC : job'[p].state = "running" => job'[p] = job[p]
    BY <1>t, <2>1 DEF CollectJob, TypeOK
  <2>2. CASE job' = job
    BY <2>2
  <2> QED BY <2>1, <2>2 DEF GarbageCollection, CollectReplicaSet, CollectService,
                           CollectMap, CollectProxy
<1>7. \A p \in PVC, i \in PodId :
        pods'[p][i] \in {"ready", "terminating"} => pods[p][i] \in {"ready", "terminating"}
  <2>1. ASSUME NEW q \in PVC, CollectReplicaSet(q), NEW p \in PVC, NEW i \in PodId
        PROVE  pods'[p][i] \in {pods[p][i], Deleted(pods[p][i])}
    BY <1>t, <2>1 DEF CollectReplicaSet, TypeOK
  <2>2. CASE pods' = pods
    BY <2>2
  <2>3. \A state \in PodState : Deleted(state) \in {"ready", "terminating"}
                                => state \in {"ready", "terminating"}
    BY DEF Deleted, PodState
  <2>4. \A p \in PVC, i \in PodId : pods[p][i] \in PodState
    BY <1>t DEF TypeOK
  <2>5. CASE \E q \in PVC : CollectReplicaSet(q)
    BY <2>1, <2>3, <2>4, <2>5
  <2> QED BY <2>2, <2>5 DEF GarbageCollection, CollectJob, CollectService,
                           CollectMap, CollectProxy
<1>8. Written'
  BY <1>5, <1>7 DEF DInv, Written
<1>9. Filled'
  BY <1>5, <1>6 DEF DInv, Filled, TInv, Sound, Sourced
<1> QED BY <1>4, <1>8, <1>9 DEF DInv

LEMMA UserKeepsData ==
  ASSUME IInv, TInv, CInv, DInv, Calm, User
  PROVE  DInv'
<1> USE DEF cluster, volumes
<1>1. UNCHANGED <<rs, pods, job, data, pc, orphans>> \/ Delete
  BY DEF User, Create, Edit, Ask
<1>2. pc \notin Acting
  BY DEF User, Create, Edit, Delete, IInv, Frozen, Guarded
<1>3. pc \in {"idle", "mark"}
  BY <1>2 DEF TInv, TypeOK, Place, CInv, Ownership
<1>4. CASE Delete
  BY <1>3, <1>4, DataAtRest DEF Delete, Eligible
<1>5. ASSUME NEW d \in Docs, Create(d) PROVE DInv'
  <2>1. rs = {}
    BY <1>5 DEF Create, Calm, CInv, Ownership, CleanedUp, Owned
  <2> QED BY <1>3, <1>5, <2>1, DataAtRest DEF Create, Ask, Same
<1>6. ASSUME NEW d \in Docs, Edit(d) PROVE DInv'
  BY <1>3, <1>6, DataAtRest DEF Edit, Ask, Same, Eligible, DInv, Alike
<1> QED BY <1>4, <1>5, <1>6 DEF User
-----------------------------------------------------------------------------
(* The directories, while Reconcile is at work.                            *)

\* A step that does not count what it found as existing.
LEMMA DataWithin ==
  ASSUME DInv, pc \in Acting, pc' \in Acting,
         UNCHANGED <<data, pods, job, existing>>,
         \/ UNCHANGED <<removing, doc>>
         \/ ToSet(doc)' \subseteq existing,
         pc' \in {"seed", "seedWait", "seeded"} \cup Renewing => Seeding'
  PROVE  DInv'
<1>1. Seeding'
  BY DEF Seeding
<1>2. Alike'
  BY DEF DInv, Alike, Same, Acting
<1> QED BY <1>1, <1>2 DEF DInv, Written, Filled

LEMMA BeginKeepsData ==
  ASSUME IInv, TInv, CInv, DInv, Skip \/ Begin \/ Mark
  PROVE  DInv'
<1> USE DEF document, cluster, volumes
<1>1. UNCHANGED <<rs, pods, job, data, spec, available>>
  BY DEF Skip, Begin, Mark
<1>2. CASE Skip \/ Begin
  BY <1>1, <1>2, DataAtRest DEF Skip, Begin, Same, Eligible, DInv, Alike
<1>3. CASE Mark
  <2>1. /\ pc = "mark" /\ pc' = "config" /\ Eligible /\ ~queued
        /\ existing' = existing /\ removing' = removing
    BY <1>3 DEF Mark, Eligible, IInv, Guarded, plan
  <2>2. World(rs, rs, {}) /\ existing = rs /\ ~removing
    BY <2>1 DEF CInv, Between, Planned, IInv, Removes, RemovalPlace
  <2>3. \A p \in rs : data[p] # "empty"
    BY <2>2 DEF World, Runs, DInv, Written, TInv, TypeOK
  <2> QED BY <1>1, <2>1, <2>2, <2>3
          DEF DInv, Alike, Same, Written, Filled, Seeding, Renewing
<1> QED BY <1>2, <1>3

LEMMA EndKeepsData ==
  ASSUME IInv, TInv, CInv, DInv,
         Fail \/ AgreementFails \/ Refuse \/ MarkConflict \/ Report
  PROVE  DInv'
<1> USE DEF document, cluster, volumes
<1>1. UNCHANGED <<rs, pods, job, data, spec>> /\ pc' = "idle"
  BY DEF Fail, AgreementFails, Refuse, MarkConflict, Report, SetCondition, GoTo
<1>2. CASE available' = "false"
  BY <1>1, <1>2, DataAtRest DEF Eligible
<1>3. CASE pc = "mark" /\ available' = available
  BY <1>1, <1>3, DataAtRest DEF Same, Eligible, DInv, Alike
<1>4. CASE Report
  <2>1. pc = "report" /\ removing
    BY <1>4 DEF Report, TInv, Sound, Adding
  <2>2. rs = ToSet(doc) /\ ToSet(doc) \subseteq existing
    BY <2>1 DEF CInv, Built, World, Rem, DInv, Alike, Acting
  <2>3. Same(rs)
    BY <2>1, <2>2 DEF DInv, Alike, Same, Acting
  <2> QED BY <1>1, <2>3, DataAtRest DEF Same
<1> QED BY <1>2, <1>3, <1>4 DEF Fail, AgreementFails, Refuse, MarkConflict, SetCondition

LEMMA ReadyKeepsData == ASSUME IInv, TInv, CInv, DInv, Ready PROVE DInv'
<1> USE DEF document, cluster, volumes
<1>1. /\ pc = "ready" /\ pc' \in {"agree", "proxy"} /\ ~removing
      /\ existing' = existing \cup {principal} /\ IsReady(pod)
      /\ UNCHANGED <<data, pods, job, removing, doc>>
  BY DEF Ready, IInv, Removes, RemovalPlace
<1>2. principal \in PVC /\ (principal \in existing \/ existing = {})
  BY <1>1 DEF CInv, InStarting, Starting, TInv, Sound, Chosen, Acting
<1>3. data[principal] # "empty"
  <2>1. PICK i \in PodId : pod = <<principal, i>>
    BY <1>1 DEF CInv, Looked
  <2>2. pods[principal][i] \in {"ready", "terminating"}
    BY <1>1, <1>2, <2>1, ReplicasAssumption DEF IsReady, Answers
  <2> QED BY <1>2, <2>2 DEF DInv, Written
<1>4. Alike'
  BY <1>1, <1>2, <1>3 DEF DInv, Alike, Same, Acting
<1> QED BY <1>1, <1>4 DEF DInv, Written, Filled, Seeding, Renewing

LEMMA SeedKeepsData == ASSUME IInv, TInv, CInv, DInv, Seed PROVE DInv'
<1> USE DEF document, cluster, volumes, plan
<1>t. TypeOK
  BY DEF TInv
<1> DEFINE f == First(todo)
<1>1. /\ pc = "seed"
      /\ job' = [job EXCEPT ![f] = [state |-> "running", source |-> principal]]
      /\ \/ pc' = "seedWait" /\ todo' = toBeAdded /\ todo \ {f} = {}
         \/ pc' = "seed" /\ todo' = todo \ {f}
      /\ UNCHANGED <<data, pods, plan>>
  BY DEF Seed, Rest
<1>2. f \in todo /\ f \in PVC /\ todo \subseteq toBeAdded /\ toBeAdded \subseteq PVC
  BY <1>1, <1>t, NextOne DEF TInv, Sound, Visiting, TypeOK
<1>3. principal \in existing
  BY <1>1 DEF CInv, InStopping, Copying
<1> HIDE DEF f
<1>4. /\ job'[f].state = "running" /\ job'[f].source = principal
      /\ \A q \in PVC \ {f} : job'[q] = job[q]
  BY <1>1, <1>2, <1>t DEF TypeOK
<1>5. data[principal] # "empty"
  BY <1>1, <1>3 DEF DInv, Alike, Acting
<1>6. Filled'
  BY <1>1, <1>2, <1>4, <1>5 DEF DInv, Filled
<1>7. Seeding'
  <2>1. ASSUME NEW q \in toBeAdded, q \notin todo \/ q = f, job'[q].state = "succeeded"
        PROVE  Copied(q)
    BY <1>1, <1>2, <1>4, <2>1 DEF DInv, Seeding
  <2>2. \A q : Copied(q) => Copied(q)'
    BY <1>1 DEF Copied
  <2> QED BY <1>1, <2>1, <2>2 DEF Seeding, Renewing
<1>8. Written' /\ Alike'
  BY <1>1 DEF DInv, Written, Alike, Same, Acting
<1> QED BY <1>6, <1>7, <1>8 DEF DInv

LEMMA SeedWaitKeepsData == ASSUME IInv, TInv, CInv, DInv, SeedWait PROVE DInv'
<1> USE DEF document, cluster, volumes, plan
<1>1. /\ pc = "seedWait" /\ job[First(todo)].state = "succeeded" /\ todo' = Rest
      /\ pc' = IF Rest = {} THEN "seeded" ELSE pc
      /\ UNCHANGED <<data, pods, job, plan>>
  BY DEF SeedWait
<1>2. Seeding'
  BY <1>1 DEF DInv, Seeding, Copied, Rest, Renewing
<1> QED BY <1>1, <1>2, DataWithin DEF Acting

LEMMA NewLookupKeepsData == ASSUME IInv, TInv, CInv, DInv, NewLookup PROVE DInv'
<1> USE DEF document, cluster, volumes
<1>1. /\ pc = "newLookup" /\ pc' \in {"new", "newReady"}
      /\ existing' = existing \cup {First(todo)}
      /\ UNCHANGED <<data, pods, job, removing, doc, principal, toBeAdded>>
  BY DEF NewLookup
<1>2. First(todo) \in toBeAdded /\ principal \in existing
  BY <1>1, NextOne DEF TInv, Sound, Visiting, CInv, InLinking, Renewing
<1>3. Copied(First(todo)) /\ data[principal] # "empty" /\ Same(existing)
  BY <1>1, <1>2 DEF DInv, Seeding, Alike, Acting, Renewing
<1>4. \A p \in existing' : data[p] = data[principal]
  BY <1>1, <1>2, <1>3 DEF Same, Copied
<1>5. Alike'
  BY <1>1, <1>3, <1>4 DEF DInv, Alike, Same, Acting
<1>6. Seeding'
  BY <1>1 DEF DInv, Seeding, Copied, Renewing
<1> QED BY <1>1, <1>5, <1>6 DEF DInv, Written, Filled

LEMMA ReconcileKeepsData ==
  ASSUME IInv, TInv, CInv, DInv, Reconcile
  PROVE  DInv'
<1> USE DEF document, cluster, volumes, plan
<1>1. CASE Skip \/ Begin \/ Mark
  BY <1>1, BeginKeepsData
<1>2. CASE MarkConflict \/ Refuse \/ Fail \/ AgreementFails \/ Report
  BY <1>2, EndKeepsData
<1>3. CASE Plan \/ Deploy \/ Lookup \/ Service \/ Agree \/ Link
  <2>1. CASE Agree \/ Link
    BY <2>1, DataWithin DEF Agree, Link, NextLink, Acting, Renewing
  <2>2. CASE Plan \/ Deploy \/ Lookup \/ Service
    BY <2>2, DataWithin DEF Plan, Deploy, Lookup, Service, Acting, Renewing
  <2> QED BY <1>3, <2>1, <2>2
<1>4. CASE Find \/ Unserve \/ Gone
  BY <1>4, DataWithin DEF Find, Unserve, Gone, Acting, Renewing, Seeding
<1>5. CASE Undeploy
  <2>1. /\ pc = "undeploy" /\ pc' = "gone"
        /\ UNCHANGED <<data, job, existing, removing, doc>>
    BY <1>5 DEF Undeploy
  <2>2. ASSUME NEW p \in PVC, NEW i \in PodId,
               pods'[p][i] \in {"ready", "terminating"}
        PROVE  pods[p][i] \in {"ready", "terminating"}
    <3>1. pods'[p][i] \in {pods[p][i], Deleted(pods[p][i])}
      BY <1>5 DEF Undeploy, TInv, TypeOK
    <3>2. pods[p][i] \in PodState
      BY DEF TInv, TypeOK
    <3> QED BY <2>2, <3>1, <3>2 DEF Deleted, PodState
  <2> QED BY <2>1, <2>2 DEF DInv, Written, Filled, Seeding, Alike, Same, Acting, Renewing
<1>6. CASE SeedMap
  BY <1>6, DataWithin DEF SeedMap, Acting, Renewing, Seeding
<1>7. CASE Seeded \/ New
  BY <1>7, DataWithin DEF Seeded, New, Acting, Renewing, DInv, Seeding, Copied
<1>8. CASE NewReady \/ NewService
  BY <1>8, DataWithin DEF NewReady, NewService, NextLink, Acting, Renewing
<1>9. CASE Proxy
  BY <1>9, DataWithin DEF Proxy, StartRemoval, Acting, Renewing, CInv, Planned
<1>10. CASE NextRemoval \/ Unlink
  BY <1>10, DataWithin DEF NextRemoval, Unlink, Acting, Renewing
<1>11. CASE Ready \/ Seed \/ SeedWait \/ NewLookup
  BY <1>11, ReadyKeepsData, SeedKeepsData, SeedWaitKeepsData, NewLookupKeepsData
<1> QED BY <1>1, <1>2, <1>3, <1>4, <1>5, <1>6, <1>7, <1>8, <1>9, <1>10, <1>11 DEF Reconcile

LEMMA DataKept == ASSUME IInv, TInv, CInv, DInv, [Next]_vars, Calm' PROVE DInv'
<1>1. Calm /\ TypeOK
  BY CalmBefore DEF TInv
<1>2. CASE UNCHANGED vars
  BY <1>2 DEF vars, document, cluster, volumes, plan, loops, DInv, Written, Filled,
              Seeding, Copied, Alike, Same, Eligible
<1>3. ~Restart
  BY DEF Restart, CInv, Ownership
<1> QED BY <1>1, <1>2, <1>3, NoStorm, UserKeepsData, ReconcileKeepsData,
           PodsKeepData, JobsKeepData, CollectionKeepsData DEF Next

LEMMA DataInitially == Init => DInv
  BY DEF Init, DInv, Written, Filled, Seeding, Alike, Same, Eligible, Acting, Renewing

(* As long as nothing happens behind the back of the operator, the         *)
(* replicas that exist hold the same directory at every step, and what a   *)
(* seed job copies is not empty.                                           *)
THEOREM DataInvariance == Spec => [](Calm => DInv)
<1>1. Init => (Calm => DInv)
  BY DataInitially
<1>2. IInv /\ TInv /\ (Calm => CInv) /\ (Calm => DInv) /\ [Next]_vars => (Calm => DInv)'
  BY DataKept, CalmBefore DEF TInv
<1> QED BY <1>1, <1>2, Invariance, Typed, CalmInvariance, PTL DEF Spec
-----------------------------------------------------------------------------
(* There is only one directory.                                            *)
(*                                                                         *)
(* A server makes a directory only on an empty volume, and it must be the  *)
(* only server when it does, with all other volumes empty too.  Nothing is *)
(* on the volumes when the first principal is deployed, unless a document  *)
(* was deleted, or asked for nothing and had its volumes abandoned.        *)

\* No document was deleted, and each one asks for a replica.
Single == deletes = 0 /\ <<>> \notin Docs

AllEmpty == \A p \in PVC : data[p] = "empty"

\* A server starts on an empty volume only when it is the first one of all.
Virgin == \A p \in rs : data[p] = "empty" => rs = {p} /\ AllEmpty

\* The first principal.
Founding ==
  /\ pc \in {"idle", "mark"} /\ available = "unset" => AllEmpty
  /\ pc \in {"idle", "mark"} /\ Eligible /\ available = "true" => rs # {}
  /\ pc = "config" /\ existing = {} => AllEmpty
  /\ pc = "deploy" /\ principal \notin existing => AllEmpty
  /\ pc \in Starting /\ principal \notin existing =>
       \A q \in PVC : data[q] = "empty" \/ (q = principal /\ data[q] = q)

\* The replicas that exist hold a directory, and no part of one.
Whole ==
  /\ pc \in {"idle", "mark"} /\ Eligible => \A p \in rs : data[p] \in PVC
  /\ pc \in Acting => \A p \in existing : data[p] \in PVC

OInv == NoSecondDirectory /\ Virgin /\ Founding /\ Whole

\* Nothing is collected when nothing was deleted.
LEMMA NothingToCollect ==
  ASSUME CInv, Single
  PROVE  orphans = {} /\ (spec = None => rs = {})
  BY DEF CInv, Ownership, CleanedUp, Single, Owned

LEMMA SingleBefore == TypeOK /\ [Next]_vars /\ Single' => Single
<1> SUFFICES ASSUME TypeOK, [Next]_vars, Single' PROVE Single
  OBVIOUS
<1>1. deletes' = deletes \/ deletes' = deletes + 1
  <2>1. CASE User \/ Unnoticed \/ Disruption \/ Crash \/ Restart \/ UNCHANGED vars
    BY <2>1 DEF User, Create, Edit, Ask, Delete, Unnoticed, MarkFails, ReportFails,
                Disruption, Disrupt, Crash, Restart, vars, bounds
  <2>2. CASE PodEvents \/ JobEvents \/ GarbageCollection
    BY <2>2 DEF PodEvents, PodCreated, PodStarts, PodEnds, JobEvents, JobSucceeds,
                JobFails, JobExpires, GarbageCollection, CollectReplicaSet,
                CollectJob, CollectService, CollectMap, CollectProxy, bounds
  <2>3. CASE Reconcile
    BY <2>3 DEF Reconcile, Skip, Begin, Mark, MarkConflict, Refuse, Plan, Deploy,
                Lookup, Service, Ready, Agree, Link, AgreementFails, Find, Unserve,
                Undeploy, Gone, SeedMap, Seed, SeedWait, Seeded, New, NewLookup,
                NewReady, NewService, Proxy, StartRemoval, NextRemoval, Unlink,
                Report, Fail, bounds
  <2> QED BY <2>1, <2>2, <2>3 DEF Next
<1> QED BY <1>1 DEF TypeOK, Single

\* The first server makes the directory; any other finds one.
LEMMA PodsKeepOne ==
  ASSUME TInv, CInv, DInv, OInv, Single, PodEvents
  PROVE  OInv'
<1> USE DEF document, plan, loops, volumes
<1>t. TypeOK
  BY DEF TInv
<1>1. PICK p \in PVC, i \in PodId : PodCreated(p, i) \/ PodStarts(p, i) \/ PodEnds(p, i)
  BY DEF PodEvents
<1>2. UNCHANGED <<spec, available, rs, pc, plan>>
  BY <1>1 DEF PodCreated, PodStarts, PodEnds
<1>3. CASE data' = data
  BY <1>2, <1>3 DEF OInv, NoSecondDirectory, Virgin, Founding, Whole, AllEmpty, Eligible
<1>4. CASE data' # data
  <2>1. /\ pods[p][i] = "starting"
        /\ data' = [data EXCEPT ![p] = IF @ = "empty" THEN p ELSE @]
    BY <1>1, <1>4 DEF PodCreated, PodStarts, PodEnds
  <2>2. data[p] = "empty" /\ data' = [data EXCEPT ![p] = p]
    BY <1>t, <1>4, <2>1 DEF TypeOK
  <2>3. data'[p] = p /\ \A q \in PVC \ {p} : data'[q] = data[q]
    BY <1>t, <2>2 DEF TypeOK
  <2>4. p \in rs
    BY <2>1 DEF CInv, Shape
  <2>5. rs = {p} /\ \A q \in PVC \ {p} : data'[q] = "empty"
    BY <2>2, <2>3, <2>4 DEF OInv, Virgin, AllEmpty
  <2>6. p # "empty" /\ "empty" \notin PVC
    BY ReplicasAssumption
  <2>7. NoSecondDirectory'
    BY <2>3, <2>5, <2>6 DEF NoSecondDirectory
  <2>8. Virgin'
    BY <1>2, <2>3, <2>5, <2>6 DEF Virgin
  <2>9. Founding'
    <3>1. pc \in {"idle", "mark"} => available # "unset"
      BY <2>4, NothingToCollect DEF CInv, Between, Eligible
    <3>2. pc = "config" => existing # {}
      BY <2>4 DEF CInv, Built, World
    <3>3. pc \in Starting /\ principal \notin existing => p = principal /\ pc # "deploy"
      BY <2>5 DEF CInv, Built, World, Old, InStarting, Starting
    <3>4. principal \notin existing /\ pc \in Starting =>
            \A q \in PVC : data'[q] = "empty" \/ (q = principal /\ data'[q] = q)
      BY <2>3, <2>5, <3>3
    <3> QED BY <1>2, <2>5, <3>1, <3>2, <3>3, <3>4 DEF OInv, Founding, Eligible, Starting
  <2>10. Whole'
    <3>1. \A q \in PVC : data[q] \in PVC => data'[q] \in PVC
      BY <2>3
    <3> QED BY <1>2, <1>t, <3>1 DEF OInv, Whole, Eligible, TypeOK
  <2> QED BY <2>7, <2>8, <2>9, <2>10 DEF OInv
<1> QED BY <1>3, <1>4

LEMMA JobsKeepOne ==
  ASSUME TInv, CInv, DInv, OInv, JobEvents
  PROVE  OInv'
<1> USE DEF document, plan, loops, volumes
<1>t. TypeOK
  BY DEF TInv
<1>1. PICK p \in PVC : JobSucceeds(p) \/ JobFails(p) \/ JobExpires(p)
  BY DEF JobEvents
<1>2. UNCHANGED <<spec, available, rs, pc, plan>>
  BY <1>1 DEF JobSucceeds, JobFails, JobExpires
<1>3. CASE data' = data
  BY <1>2, <1>3 DEF OInv, NoSecondDirectory, Virgin, Founding, Whole, AllEmpty, Eligible
<1>4. CASE data' # data
  <2> DEFINE s == job[p].source
  <2>1. JobSucceeds(p) \/ JobFails(p)
    BY <1>1, <1>4 DEF JobExpires
  <2>2. job[p].state = "running" /\ s \in PVC /\ data[s] # "empty" /\ Down(p) /\ Down(s)
    BY <2>1 DEF JobSucceeds, JobFails, TInv, Sound, Sourced, DInv, Filled, CInv, Jobs
  <2>3. /\ \A q \in PVC \ {p} : data'[q] = data[q]
        /\ data'[p] \in {data[p], "partial", data[s]}
    BY <2>1, <1>t, <2>2 DEF JobSucceeds, JobFails, TypeOK, InUse, Down
  <2>4. /\ pc \in Acting => p \in toBeAdded /\ pc \in {"seed", "seedWait"}
        /\ pc \notin Acting => ~Eligible
    BY <2>2 DEF CInv, Jobs
  <2> HIDE DEF s
  <2>5. ~AllEmpty /\ "partial" \notin PVC
    BY <2>2, ReplicasAssumption DEF AllEmpty
  <2>6. NoSecondDirectory'
    BY <2>2, <2>3, <2>5 DEF OInv, NoSecondDirectory
  <2>7. \A q \in rs : q # p /\ q \in PVC /\ data'[q] = data[q]
    BY <1>t, <2>2, <2>3 DEF Down, TypeOK
  <2>8. Virgin'
    BY <1>2, <2>5, <2>7 DEF OInv, Virgin
  <2>9. Founding'
    BY <1>2, <2>4, <2>5 DEF OInv, Founding, Starting, Acting, Eligible
  <2>10. Whole'
    <3>1. pc \in Acting => p \notin existing
      BY <2>4 DEF CInv, InStopping, Copying
    <3> QED BY <1>2, <1>t, <2>3, <2>4, <3>1 DEF OInv, Whole, Eligible, TypeOK, Acting
  <2> QED BY <2>6, <2>8, <2>9, <2>10 DEF OInv
<1> QED BY <1>3, <1>4

LEMMA UserKeepsOne ==
  ASSUME IInv, CInv, OInv, Calm, Single, Single', User
  PROVE  OInv'
<1> USE DEF cluster, volumes, plan
<1>1. UNCHANGED <<rs, data, pc, existing, principal, available>>
  BY DEF User, Create, Edit, Ask, Delete, Single
<1>2. pc \notin Acting
  BY DEF User, Create, Edit, Delete, IInv, Frozen, Guarded
<1>3. Eligible' => Eligible \/ (rs = {} /\ available = "unset")
  BY NothingToCollect DEF User, Create, Edit, Ask, Delete, CInv, Ownership, Eligible, Single
<1> QED BY <1>1, <1>2, <1>3
        DEF OInv, NoSecondDirectory, Virgin, AllEmpty, Founding, Whole, Starting, Acting,
            Eligible

\* A step that deploys nothing, from the first status update to the last.
LEMMA OneWithin ==
  ASSUME TInv, CInv, OInv, pc \in Acting, pc' \in Acting,
         UNCHANGED <<data, existing>>, rs' = rs \/ rs' = rs \ {target},
         pc' \in Starting /\ principal' \notin existing =>
           pc \in Starting \ {"deploy"} /\ pc' # "deploy" /\ principal' = principal,
         pc' # "config"
  PROVE  OInv'
<1>1. NoSecondDirectory' /\ Virgin' /\ Whole'
  BY DEF OInv, NoSecondDirectory, Virgin, AllEmpty, Whole, Acting
<1>2. Founding'
  BY DEF OInv, Founding, Acting, Starting, AllEmpty
<1> QED BY <1>1, <1>2 DEF OInv

\* A step that deploys a replica.
LEMMA OneDeployed ==
  ASSUME TInv, CInv, DInv, OInv, Calm', NEW p \in PVC, CreateReplicaSet(p), data' = data,
         rs \subseteq existing, pc \in Acting, data[p] = "empty" => rs = {} /\ AllEmpty
  PROVE  NoSecondDirectory' /\ Virgin'
<1>1. rs' = rs \cup {p}
  BY NoLoss DEF CreateReplicaSet, TInv
<1>2. \A q \in rs : data[q] # "empty"
  BY DEF DInv, Alike
<1>3. Virgin'
  BY <1>1, <1>2 DEF Virgin, AllEmpty
<1> QED BY <1>3 DEF OInv, NoSecondDirectory

LEMMA BeginKeepsOne ==
  ASSUME IInv, TInv, CInv, OInv, Skip \/ Begin \/ Mark \/ MarkConflict \/ Refuse
  PROVE  OInv'
<1> USE DEF document, cluster, volumes
<1>1. UNCHANGED <<rs, data, spec>>
  BY DEF Skip, Begin, Mark, MarkConflict, Refuse, SetCondition
<1>2. NoSecondDirectory' /\ Virgin'
  BY <1>1 DEF OInv, NoSecondDirectory, Virgin, AllEmpty
<1>3. CASE /\ pc \in {"idle", "mark"} /\ pc' \in {"idle", "mark"}
           /\ available' \in {available, "false"}
  BY <1>1, <1>2, <1>3 DEF OInv, Founding, Whole, Eligible, AllEmpty, Acting, Starting
<1>4. CASE Mark
  <2>1. /\ pc = "mark" /\ pc' = "config" /\ Eligible /\ ~queued /\ existing' = existing
    BY <1>4 DEF Mark, Eligible, IInv, Guarded, plan
  <2>2. existing = rs /\ (existing = {} => available = "unset")
    BY <2>1 DEF CInv, Planned, OInv, Founding, TInv, TypeOK, Eligible
  <2> QED BY <1>1, <1>2, <2>1, <2>2
          DEF OInv, Founding, Whole, AllEmpty, Starting
<1> QED BY <1>3, <1>4 DEF Skip, Begin, MarkConflict, Refuse, SetCondition, GoTo

LEMMA EndKeepsOne ==
  ASSUME IInv, TInv, CInv, DInv, OInv, Single, Fail \/ AgreementFails \/ Report
  PROVE  OInv'
<1> USE DEF document, cluster, volumes
<1>1. UNCHANGED <<rs, data, spec>> /\ pc' = "idle"
  BY DEF Fail, AgreementFails, Report, SetCondition, GoTo
<1>2. NoSecondDirectory' /\ Virgin'
  BY <1>1 DEF OInv, NoSecondDirectory, Virgin, AllEmpty
<1>3. CASE available' = "false"
  BY <1>1, <1>2, <1>3 DEF OInv, Founding, Whole, Eligible, Acting, Starting
<1>4. CASE Report
  <2>1. pc = "report" /\ removing /\ available' = "true"
    BY <1>4 DEF Report, SetCondition, TInv, Sound, Adding
  <2>2. rs = ToSet(doc) /\ ToSet(doc) \subseteq existing
    BY <2>1 DEF CInv, Built, World, Rem, DInv, Alike, Acting
  <2>3. doc \in Seq(PVC) /\ doc # <<>>
    BY <2>1, DocsAre DEF TInv, Sound, Reading, Acting, Single
  <2>4. ToSet(doc) # {}
    <3>1. Len(doc) \in Nat /\ Len(doc) # 0 /\ DOMAIN doc = 1 .. Len(doc)
      BY <2>3
    <3>2. 1 \in DOMAIN doc
      BY <3>1
    <3>3. doc[1] \in ToSet(doc)
      BY <3>2, Zenon DEF ToSet
    <3> QED BY <3>3
  <2>5. \A p \in rs : data[p] \in PVC
    BY <2>1, <2>2 DEF OInv, Whole, Acting
  <2> QED BY <1>1, <1>2, <2>1, <2>2, <2>4, <2>5
          DEF OInv, Founding, Whole, Acting, Starting
<1> QED BY <1>3, <1>4 DEF Fail, AgreementFails, SetCondition

LEMMA DeployKeepsOne == ASSUME IInv, TInv, CInv, DInv, OInv, Calm', Deploy PROVE OInv'
<1> USE DEF document, cluster, volumes, plan
<1>1. /\ pc = "deploy" /\ pc' = "lookup" /\ CreateReplicaSet(target)
      /\ UNCHANGED <<data, existing, principal>>
  BY DEF Deploy
<1>2. /\ target = principal /\ principal \in PVC /\ rs = existing \ {principal}
      /\ principal \notin existing => existing = {}
  BY <1>1 DEF CInv, InStarting, Built, World, Old, Starting, TInv, Sound, Chosen, Acting
<1>3. data[principal] = "empty" => rs = {} /\ AllEmpty
  BY <1>1, <1>2 DEF DInv, Alike, Acting, OInv, Founding
<1>4. NoSecondDirectory' /\ Virgin'
  BY <1>1, <1>2, <1>3, OneDeployed DEF Acting
<1> QED BY <1>1, <1>4 DEF OInv, Founding, Whole, Acting, Starting, AllEmpty

LEMMA ReadyKeepsOne == ASSUME IInv, TInv, CInv, DInv, OInv, Ready PROVE OInv'
<1> USE DEF document, cluster, volumes
<1>1. /\ pc = "ready" /\ pc' \in {"agree", "proxy"} /\ IsReady(pod) /\ ~removing
      /\ existing' = existing \cup {principal}
      /\ UNCHANGED <<data, rs>>
  BY DEF Ready, IInv, Removes, RemovalPlace
<1>2. principal \in PVC /\ (principal \in existing \/ existing = {})
  BY <1>1 DEF CInv, InStarting, Starting, TInv, Sound, Chosen, Acting
<1>3. data[principal] # "empty"
  <2>1. PICK i \in PodId : pod = <<principal, i>>
    BY <1>1 DEF CInv, Looked
  <2>2. pods[principal][i] \in {"ready", "terminating"}
    BY <1>1, <1>2, <2>1, ReplicasAssumption DEF IsReady, Answers
  <2> QED BY <1>2, <2>2 DEF DInv, Written
<1>4. data[principal] \in PVC
  BY <1>1, <1>2, <1>3 DEF OInv, Founding, Whole, Starting, Acting
<1>5. Whole'
  BY <1>1, <1>4 DEF OInv, Whole, Acting
<1> QED BY <1>1, <1>5 DEF OInv, NoSecondDirectory, Virgin, AllEmpty, Founding, Starting

LEMMA NewKeepsOne == ASSUME IInv, TInv, CInv, DInv, OInv, Calm', New PROVE OInv'
<1> USE DEF document, cluster, volumes, plan, loops
<1>1. /\ pc = "new" /\ pc' = "newLookup" /\ CreateReplicaSet(First(todo))
      /\ UNCHANGED <<data, existing>>
  BY DEF New
<1>2. /\ First(todo) \in toBeAdded /\ First(todo) \in PVC
      /\ rs = Old /\ principal \in existing
  BY <1>1, NextOne DEF TInv, Sound, Visiting, CInv, Built, World, InLinking, Renewing
<1>3. data[First(todo)] # "empty"
  BY <1>1, <1>2 DEF DInv, Seeding, Copied, Alike, Acting, Renewing
<1>4. NoSecondDirectory' /\ Virgin'
  BY <1>1, <1>2, <1>3, OneDeployed DEF Acting, Old
<1> QED BY <1>1, <1>4 DEF OInv, Founding, Whole, Acting, Starting

LEMMA NewLookupKeepsOne == ASSUME IInv, TInv, CInv, DInv, OInv, NewLookup PROVE OInv'
<1> USE DEF document, cluster, volumes
<1>1. /\ pc = "newLookup" /\ pc' \in {"new", "newReady"}
      /\ existing' = existing \cup {First(todo)}
      /\ UNCHANGED <<data, rs>>
  BY DEF NewLookup
<1>2. First(todo) \in toBeAdded /\ principal \in existing
  BY <1>1, NextOne DEF TInv, Sound, Visiting, CInv, InLinking, Renewing
<1>3. data[First(todo)] \in PVC
  BY <1>1, <1>2 DEF DInv, Seeding, Copied, OInv, Whole, Acting, Renewing
<1>4. Whole'
  BY <1>1, <1>3 DEF OInv, Whole, Acting
<1> QED BY <1>1, <1>4 DEF OInv, NoSecondDirectory, Virgin, AllEmpty, Founding, Starting

LEMMA ReconcileKeepsOne ==
  ASSUME IInv, TInv, CInv, DInv, OInv, Single, Calm', Reconcile
  PROVE  OInv'
<1> USE DEF document, cluster, volumes, plan
<1>1. CASE Skip \/ Begin \/ Mark \/ MarkConflict \/ Refuse
  BY <1>1, BeginKeepsOne
<1>2. CASE Fail \/ AgreementFails \/ Report
  BY <1>2, EndKeepsOne
<1>3. CASE Plan
  <2>1. /\ pc = "config" /\ pc' \in {"proxy", "agree", "deploy"}
        /\ pc' = "deploy" => existing = {}
        /\ UNCHANGED <<data, rs, existing>>
    BY <1>3 DEF Plan
  <2>2. pc' = "deploy" => AllEmpty
    BY <2>1 DEF OInv, Founding
  <2> QED BY <2>1, <2>2 DEF OInv, NoSecondDirectory, Virgin, Founding, Whole, AllEmpty,
                            Acting, Starting
<1>4. CASE Lookup \/ Service \/ Agree \/ Link
  BY <1>4, OneWithin DEF Lookup, Service, Agree, Link, NextLink, Acting, Starting
<1>5. CASE Find \/ Unserve \/ Undeploy \/ Gone
  BY <1>5, OneWithin DEF Find, Unserve, Undeploy, Gone, Acting, Starting
<1>6. CASE SeedMap \/ Seed \/ SeedWait \/ Seeded
  BY <1>6, OneWithin DEF SeedMap, Seed, SeedWait, Seeded, Acting, Starting
<1>7. CASE NewReady
  BY <1>7, OneWithin DEF NewReady, NextLink, Acting, Starting
<1>8. CASE NewService
  <2>1. principal \in existing
    BY <1>8 DEF NewService, CInv, InLinking, Linking
  <2> QED BY <1>8, <2>1, OneWithin DEF NewService, Acting, Starting
<1>9. CASE Proxy \/ NextRemoval \/ Unlink
  BY <1>9, OneWithin DEF Proxy, StartRemoval, NextRemoval, Unlink, Acting, Starting
<1>10. CASE Deploy \/ Ready \/ New \/ NewLookup
  BY <1>10, DeployKeepsOne, ReadyKeepsOne, NewKeepsOne, NewLookupKeepsOne
<1> QED BY <1>1, <1>2, <1>3, <1>4, <1>5, <1>6, <1>7, <1>8, <1>9, <1>10 DEF Reconcile

LEMMA OneKept ==
  ASSUME IInv, TInv, CInv, DInv, OInv, Single', [Next]_vars, Calm'
  PROVE  OInv'
<1>1. Calm /\ TypeOK /\ Single
  BY CalmBefore, SingleBefore DEF TInv
<1>2. CASE UNCHANGED vars
  BY <1>2 DEF vars, document, cluster, volumes, plan, loops, OInv, NoSecondDirectory,
              Virgin, AllEmpty, Founding, Whole, Eligible
<1>3. ~Restart /\ ~GarbageCollection
  BY <1>1, NothingToCollect
     DEF Restart, CInv, Ownership, GarbageCollection, CollectReplicaSet, CollectJob,
         CollectService, CollectMap, CollectProxy
<1> QED BY <1>1, <1>2, <1>3, NoStorm, UserKeepsOne, ReconcileKeepsOne,
           PodsKeepOne, JobsKeepOne DEF Next

LEMMA OneInitially == Init => OInv
  BY ReplicasAssumption DEF Init, OInv, NoSecondDirectory, Virgin, AllEmpty, Founding,
        Whole, Eligible, Acting, Starting

(* As long as nothing happens behind the back of the operator, the         *)
(* replicas hold the same directory when it is done; and if no document    *)
(* was deleted or asked for nothing, there never is a second one, and the  *)
(* replicas hold the whole of it: none was started on a volume that had    *)
(* not been seeded.                                                        *)
THEOREM OneDirectoryOnly == Spec => [](Calm => OneDirectory)
<1>1. Init => (Calm /\ Single => OInv)
  BY OneInitially
<1>2. IInv /\ TInv /\ (Calm => CInv) /\ (Calm => DInv) /\ (Calm /\ Single => OInv)
        /\ [Next]_vars => (Calm /\ Single => OInv)'
  BY OneKept, CalmBefore, SingleBefore DEF TInv
<1>3. Calm /\ TInv /\ CInv /\ DInv /\ (Single => OInv) => OneDirectory
  <2> SUFFICES ASSUME Calm, TInv, CInv, DInv, Single => OInv PROVE OneDirectory
    OBVIOUS
  <2>1. Settled => Eligible /\ rs = ToSet(spec)
    BY DEF CInv, Ownership, Between, Settled, Eligible
  <2>2. Settled => \A p, q \in ToSet(spec) : data[p] = data[q]
    BY <2>1 DEF DInv, Alike, Same, Settled
  <2>3. Settled /\ OInv => \A p \in ToSet(spec) : data[p] \in PVC
    BY <2>1 DEF OInv, Whole, Settled
  <2> QED BY <2>2, <2>3 DEF OneDirectory, OInv, Single
<1> QED BY <1>1, <1>2, <1>3, Invariance, Typed, CalmInvariance, DataInvariance, PTL DEF Spec
-----------------------------------------------------------------------------
(* The replication agreements.                                             *)
(*                                                                         *)
(* The replicas that existed before are linked; the principal has an       *)
(* agreement with each new one before it is copied, and a copy replaces    *)
(* only agreements of the new replica itself; then the others that exist   *)
(* get theirs.  Together these link all that exist.                        *)

Linked(S) ==
  \A p, q \in S : p # q => <<p, q>> \in agreements \/ <<q, p>> \in agreements

\* Who is linked.
Meshed ==
  /\ pc \in {"idle", "mark"} /\ Eligible => Linked(rs)
  /\ pc \in Acting /\ ~removing => Linked(existing \ toBeAdded)
  /\ pc \in Starting \cup {"proxy"} => Linked(existing)
  /\ pc \in Acting /\ removing => Linked(ToSet(doc))

\* The principal's agreements with the new replicas.
Agreed ==
  /\ pc = "agree" => \A p \in toBeAdded \ todo : <<principal, p>> \in agreements
  /\ (pc \in Stopping /\ ~removing) \/ pc \in Copying \cup Renewing \cup Linking =>
       \A p \in toBeAdded : <<principal, p>> \in agreements

AllSources(p) == \A s \in Sources(p) : <<s, p>> \in agreements

\* The agreements of the others with the new replicas.
Sourcing ==
  /\ pc = "link" => /\ \A p \in toBeAdded \ todo : AllSources(p)
                    /\ left \subseteq Sources(First(todo))
                    /\ \A s \in Sources(First(todo)) \ left :
                         <<s, First(todo)>> \in agreements
  /\ pc = "newService" => \A p \in toBeAdded : AllSources(p)

MInv == Meshed /\ Agreed /\ Sourcing

\* A step that is not about agreements.
LEMMA MeshWithin ==
  ASSUME MInv, UNCHANGED <<agreements, existing, toBeAdded, principal, doc, removing>>,
         pc \in Acting, pc' \in Acting,
         pc' \in Starting \cup {"proxy"} => Linked(existing),
         pc' = "agree" => toBeAdded \subseteq todo',
         (pc' \in Stopping /\ ~removing) \/ pc' \in Copying \cup Renewing \cup Linking =>
           (pc \in Stopping /\ ~removing) \/ pc \in Copying \cup Renewing \cup Linking,
         pc' \in {"link", "newService"} => Sourcing'
  PROVE  MInv'
<1>1. \A S : Linked(S) => Linked(S)'
  BY DEF Linked
<1>2. Meshed'
  BY <1>1 DEF MInv, Meshed, Acting
<1>3. Agreed'
  BY DEF MInv, Agreed
<1>4. Sourcing'
  BY DEF Sourcing
<1> QED BY <1>2, <1>3, <1>4 DEF MInv

LEMMA MeshFrame ==
  ASSUME MInv, UNCHANGED <<spec, available, rs, agreements, pc, plan, todo, left>>
  PROVE  MInv'
<1> USE DEF plan
<1>1. \A S : Linked(S) => Linked(S)'
  BY DEF Linked
<1>2. \A p : AllSources(p) => AllSources(p)'
  BY DEF AllSources, Sources
<1>3. Sources(First(todo))' = Sources(First(todo)) /\ First(todo)' = First(todo)
  BY DEF Sources, First
<1>4. Meshed'
  BY <1>1 DEF MInv, Meshed, Eligible
<1>5. Agreed'
  BY DEF MInv, Agreed
<1>6. Sourcing'
  BY <1>2, <1>3 DEF MInv, Sourcing
<1> QED BY <1>4, <1>5, <1>6 DEF MInv

\* A step outside of the work on a document.
LEMMA MeshAtRest ==
  ASSUME pc' \in {"idle", "mark"}, Eligible' => Linked(rs)'
  PROVE  MInv'
  BY DEF MInv, Meshed, Agreed, Sourcing, Acting, Starting, Stopping, Copying, Renewing,
         Linking

\* A volume that is replaced loses what the principal never has: agreements
\* of the new replica.
LEMMA JobsKeepMesh ==
  ASSUME TInv, CInv, MInv, JobEvents
  PROVE  MInv'
<1> USE DEF document, plan, loops, volumes
<1>1. PICK p \in PVC : JobSucceeds(p) \/ JobFails(p) \/ JobExpires(p)
  BY DEF JobEvents
<1>2. UNCHANGED <<document, rs, pc, plan, loops>>
  BY <1>1 DEF JobSucceeds, JobFails, JobExpires
<1>3. CASE agreements' = agreements
  BY <1>2, <1>3, MeshFrame
<1>4. CASE JobSucceeds(p)
  <2>1. job[p].state = "running" /\ agreements' = {a \in agreements : a[1] # p}
    BY <1>4 DEF JobSucceeds
  <2>2. CASE pc \in Acting
    <3>1. p \in toBeAdded /\ pc \in {"seed", "seedWait"} /\ ~removing
      BY <2>1, <2>2 DEF CInv, Jobs, TInv, Sound, Adding
    <3>2. principal # p
      BY <3>1 DEF CInv, InStopping, Copying
    <3>3. Linked(existing \ toBeAdded)'
      BY <1>2, <2>1, <2>2, <3>1 DEF MInv, Meshed, Linked
    <3>4. \A q \in toBeAdded : <<principal, q>> \in agreements'
      BY <2>1, <3>1, <3>2 DEF MInv, Agreed, Copying
    <3> QED BY <1>2, <3>1, <3>3, <3>4
            DEF MInv, Meshed, Agreed, Sourcing, Acting, Starting, Stopping
  <2>3. CASE pc \notin Acting
    <3>1. ~Eligible'
      BY <1>2, <2>1, <2>3 DEF CInv, Jobs, Eligible
    <3> QED BY <1>2, <2>3, <3>1
            DEF MInv, Meshed, Agreed, Sourcing, Acting, Starting, Stopping, Copying,
                Renewing, Linking
  <2> QED BY <2>2, <2>3
<1> QED BY <1>1, <1>3, <1>4 DEF JobFails, JobExpires

LEMMA OthersKeepMesh ==
  ASSUME IInv, TInv, CInv, MInv, Calm, User \/ PodEvents \/ GarbageCollection
  PROVE  MInv'
<1> USE DEF plan, loops, volumes, cluster
<1>1. CASE PodEvents
  <2>1. UNCHANGED <<document, rs, agreements, pc, plan, loops>>
    BY <1>1 DEF PodEvents, PodCreated, PodStarts, PodEnds
  <2> QED BY <2>1, MeshFrame DEF document
<1>2. CASE User \/ GarbageCollection
  <2>1. pc' = pc /\ agreements' = agreements
    BY <1>2 DEF User, Create, Edit, Ask, Delete, GarbageCollection, CollectReplicaSet,
                CollectJob, CollectService, CollectMap, CollectProxy
  <2>2. pc \notin Acting /\ pc # "down"
    <3>1. GarbageCollection => orphans # {}
      BY DEF GarbageCollection, CollectReplicaSet, CollectJob, CollectService,
             CollectMap, CollectProxy
    <3> QED BY <1>2, <3>1 DEF User, Create, Edit, Delete, IInv, Frozen, Guarded, CInv,
                              Ownership
  <2>3. pc' \in {"idle", "mark"}
    BY <2>1, <2>2 DEF TInv, TypeOK, Place
  <2>4. Eligible' => rs' = {} \/ (Eligible /\ rs' = rs)
    <3>1. CASE GarbageCollection
      <4>1. orphans # {} /\ spec' = spec
        BY <3>1 DEF GarbageCollection, CollectReplicaSet, CollectJob, CollectService,
                    CollectMap, CollectProxy, document
      <4> QED BY <4>1 DEF CInv, Ownership, Eligible
    <3>2. ASSUME NEW d \in Docs, Create(d) PROVE rs' = {}
      BY <3>2 DEF Create, Ask, Calm, CInv, Ownership, CleanedUp, Owned
    <3>3. ASSUME NEW d \in Docs, Edit(d) PROVE Eligible /\ rs' = rs
      BY <3>3 DEF Edit, Ask, Eligible
    <3>4. CASE Delete
      BY <3>4 DEF Delete, Eligible
    <3> QED BY <1>2, <3>1, <3>2, <3>3, <3>4 DEF User
  <2>5. Eligible' => Linked(rs)'
    BY <2>1, <2>2, <2>3, <2>4 DEF MInv, Meshed, Linked
  <2> QED BY <2>3, <2>5, MeshAtRest
<1> QED BY <1>1, <1>2

LEMMA BeginKeepsMesh ==
  ASSUME IInv, TInv, CInv, MInv, Skip \/ Begin \/ Mark
  PROVE  MInv'
<1> USE DEF document, cluster, volumes, plan
<1>1. UNCHANGED <<rs, agreements, spec, available>>
  BY DEF Skip, Begin, Mark
<1>2. CASE Skip \/ Begin
  <2>1. pc \in {"idle", "mark"} /\ pc' \in {"idle", "mark"}
    BY <1>2 DEF Skip, Begin
  <2> QED BY <1>1, <2>1, MeshAtRest DEF MInv, Meshed, Linked, Eligible
<1>3. CASE Mark
  <2>1. /\ pc = "mark" /\ pc' = "config" /\ Eligible /\ ~queued
        /\ UNCHANGED <<existing, toBeAdded>> /\ existing = rs
        /\ removing' = removing /\ ~removing
    BY <1>3 DEF Mark, Eligible, IInv, Guarded, CInv, Planned, Removes, RemovalPlace
  <2>2. Linked(existing \ toBeAdded)'
    BY <1>1, <2>1 DEF MInv, Meshed, Linked
  <2> QED BY <2>1, <2>2 DEF MInv, Meshed, Agreed, Sourcing, Starting, Stopping, Copying,
                            Renewing, Linking
<1> QED BY <1>2, <1>3

LEMMA EndKeepsMesh ==
  ASSUME IInv, TInv, CInv, MInv, Fail \/ AgreementFails \/ Refuse \/ MarkConflict \/ Report
  PROVE  MInv'
<1> USE DEF document, cluster, volumes
<1>1. rs' = rs /\ spec' = spec /\ pc' = "idle"
  BY DEF Fail, AgreementFails, Refuse, MarkConflict, Report, SetCondition, GoTo
<1>2. CASE available' = "false"
  BY <1>1, <1>2, MeshAtRest DEF Eligible
<1>3. CASE pc = "mark" /\ available' = available /\ agreements' = agreements
  BY <1>1, <1>3, MeshAtRest DEF Linked, Eligible, MInv, Meshed
<1>4. CASE Report
  <2>1. pc = "report" /\ removing /\ agreements' = agreements
    BY <1>4 DEF Report, TInv, Sound, Adding
  <2>2. rs = ToSet(doc)
    BY <2>1 DEF CInv, Built, World, Rem
  <2> QED BY <1>1, <2>1, <2>2, MeshAtRest DEF Linked, MInv, Meshed, Acting
<1> QED BY <1>2, <1>3, <1>4 DEF Fail, AgreementFails, Refuse, MarkConflict, SetCondition

LEMMA PlanKeepsMesh == ASSUME IInv, TInv, CInv, MInv, Plan PROVE MInv'
<1> USE DEF volumes
<1>1. /\ pc = "config" /\ ~removing /\ UNCHANGED <<agreements, existing, removing>>
      /\ \/ pc' = "proxy" /\ toBeAdded = {} /\ toBeAdded' = {}
         \/ pc' = "agree" /\ todo' = toBeAdded /\ toBeAdded' = toBeAdded
         \/ pc' = "deploy" /\ existing = {}
  BY DEF Plan, IInv, Removes, RemovalPlace
<1>2. Linked(existing \ toBeAdded)
  BY <1>1 DEF MInv, Meshed, Acting
<1>3. Linked(existing \ toBeAdded)' /\ (pc' # "agree" => Linked(existing)')
  BY <1>1, <1>2 DEF Linked
<1> QED BY <1>1, <1>3 DEF MInv, Meshed, Agreed, Sourcing, Starting, Stopping, Copying,
                          Renewing, Linking

LEMMA ReadyKeepsMesh == ASSUME IInv, TInv, CInv, MInv, Ready PROVE MInv'
<1> USE DEF volumes
<1>1. /\ pc = "ready" /\ ~removing /\ UNCHANGED <<agreements, toBeAdded, todo, removing>>
      /\ existing' = existing \cup {principal}
      /\ pc' = IF principal \notin existing /\ todo # {} THEN "agree" ELSE "proxy"
  BY DEF Ready, IInv, Removes, RemovalPlace
<1>2. Linked(existing)
  BY <1>1 DEF MInv, Meshed, Starting
<1>3. principal \in existing \/ (existing = {} /\ todo = toBeAdded)
  BY <1>1 DEF CInv, InStarting, Starting
<1>4. Linked(existing)' /\ Linked(existing \ toBeAdded)'
  BY <1>1, <1>2, <1>3 DEF Linked
<1> QED BY <1>1, <1>3, <1>4 DEF MInv, Meshed, Agreed, Sourcing, Starting, Stopping,
                                Copying, Renewing, Linking

\* What a pod of a replica that has a replica set is found for.
LEMMA FoundOwner ==
  ASSUME NEW p \in rs, p \in PVC, NEW h \in Found(p)
  PROVE  Owner(h) = p
<1>1. PICK i \in PodId : h = <<p, i>>
  BY DEF Found, Listed
<1> QED BY <1>1, ReplicasAssumption DEF Owner

LEMMA AgreeKeepsMesh == ASSUME IInv, TInv, CInv, MInv, Agree PROVE MInv'
<1> USE DEF volumes, plan
<1>1. /\ pc = "agree" /\ ~removing
      /\ Agreement(principal, First(todo)) /\ todo' = Rest
      /\ \/ Rest = {} /\ pc' = "find"
         \/ pc' = "agree"
      /\ UNCHANGED plan
  BY DEF Agree, IInv, Removes, RemovalPlace
<1>2. principal \in rs /\ principal \in PVC
  BY <1>1 DEF CInv, Built, InStopping, World, TInv, Sound, Chosen, Acting
<1>3. agreements' = agreements \cup {<<principal, First(todo)>>}
  BY <1>1, <1>2, FoundOwner DEF Agreement
<1>4. Linked(existing \ toBeAdded)'
  BY <1>1, <1>3 DEF MInv, Meshed, Linked, Acting
<1>5. \A p \in toBeAdded \ todo' : <<principal, p>> \in agreements'
  BY <1>1, <1>3 DEF MInv, Agreed, Rest
<1> QED BY <1>1, <1>4, <1>5 DEF MInv, Meshed, Agreed, Sourcing, Starting, Stopping,
                                Copying, Renewing, Linking

\* The loop over the new replicas leaves out those without other sources.
LEMMA NextLinkKeepsMesh ==
  ASSUME TInv, NEW rest, NextLink(rest), UNCHANGED plan,
         \A p \in toBeAdded \ rest : AllSources(p)'
  PROVE  Sourcing' /\ pc' \in {"link", "newService"}
<1> USE DEF plan
<1>1. \A p \in toBeAdded \ Linkable(rest) : AllSources(p)'
  BY DEF Linkable, AllSources, Sources
<1>2. CASE Linkable(rest) = {}
  BY <1>1, <1>2 DEF NextLink, Sourcing
<1>3. CASE Linkable(rest) # {}
  <2>1. /\ pc' = "link" /\ todo' = Linkable(rest)
        /\ left' = Sources(First(todo'))
    BY <1>3 DEF NextLink
  <2>2. left' = Sources(First(todo))'
    BY <2>1 DEF Sources, First
  <2> QED BY <1>1, <2>1, <2>2 DEF Sourcing
<1> QED BY <1>2, <1>3

LEMMA NewReadyKeepsMesh == ASSUME IInv, TInv, CInv, MInv, NewReady PROVE MInv'
<1> USE DEF volumes, plan
<1>1. PICK p \in left : IF left = {p} THEN NextLink(toBeAdded)
                                      ELSE left' = left \ {p} /\ UNCHANGED <<pc, todo>>
  BY DEF NewReady
<1>2. /\ pc = "newReady" /\ ~removing /\ UNCHANGED <<agreements, plan>>
  BY DEF NewReady, IInv, Removes, RemovalPlace
<1>3. pc' = "newReady" \/ (Sourcing' /\ pc' \in {"link", "newService"})
  <2>1. NextLink(toBeAdded) => Sourcing' /\ pc' \in {"link", "newService"}
    BY <1>2, NextLinkKeepsMesh
  <2> QED BY <1>1, <1>2, <2>1
<1> QED BY <1>2, <1>3, MeshWithin DEF Acting, Starting, Linking

LEMMA LinkKeepsMesh == ASSUME IInv, TInv, CInv, MInv, Link PROVE MInv'
<1> USE DEF volumes, plan
<1>1. pc = "link" /\ ~removing /\ UNCHANGED plan
  BY DEF Link, IInv, Removes, RemovalPlace
<1>2. PICK f \in todo : f = First(todo)
  BY <1>1, NextOne
<1>3. PICK s \in left : /\ Agreement(s, f)
                        /\ IF left = {s} THEN NextLink(Rest)
                           ELSE left' = left \ {s} /\ UNCHANGED <<pc, todo>>
  BY <1>2 DEF Link
<1>4. /\ \A p \in toBeAdded \ todo : AllSources(p)
      /\ left \subseteq Sources(f)
      /\ \A q \in Sources(f) \ left : <<q, f>> \in agreements
  BY <1>1, <1>2 DEF MInv, Sourcing
<1>5. s \in rs /\ s \in PVC
  BY <1>1, <1>3, <1>4 DEF Sources, CInv, Built, World, Old, TInv, TypeOK
<1>6. agreements' = agreements \cup {<<s, f>>}
  BY <1>3, <1>5, FoundOwner DEF Agreement
<1>7. \A p : Sources(p)' = Sources(p) /\ (AllSources(p) => AllSources(p)')
  BY <1>1, <1>6 DEF AllSources, Sources
<1>8. ASSUME left = {s} PROVE Sourcing' /\ pc' \in {"link", "newService"}
  <2>1. AllSources(f)'
    BY <1>4, <1>6, <1>7, <1>8 DEF AllSources
  <2>2. \A p \in toBeAdded \ Rest : AllSources(p)'
    BY <1>2, <1>4, <1>7, <2>1 DEF Rest
  <2>3. NextLink(Rest)
    BY <1>3, <1>8
  <2> QED BY <1>1, <2>2, <2>3, NextLinkKeepsMesh
<1>9. ASSUME left # {s} PROVE Sourcing' /\ pc' = "link"
  <2>1. left' = left \ {s} /\ pc' = "link" /\ todo' = todo
    BY <1>1, <1>3, <1>9
  <2>2. First(todo)' = f
    BY <1>1, <1>2, <2>1 DEF First
  <2>3. left' \subseteq Sources(f)' /\ \A q \in Sources(f)' \ left' : <<q, f>> \in agreements'
    BY <1>4, <1>6, <1>7, <2>1
  <2>4. \A p \in toBeAdded' \ todo' : AllSources(p)'
    BY <1>1, <1>4, <1>7, <2>1
  <2>5. Sources(First(todo))' = Sources(f)'
    BY <2>2 DEF Sources
  <2>6. Sourcing'
    BY <2>1, <2>2, <2>3, <2>4, <2>5 DEF Sourcing
  <2> QED BY <2>1, <2>6
<1>10. Linked(existing \ toBeAdded)' /\ Agreed'
  BY <1>1, <1>6, <1>8, <1>9 DEF MInv, Meshed, Linked, Agreed, Acting, Linking
<1> QED BY <1>1, <1>8, <1>9, <1>10 DEF MInv, Meshed, Starting

\* The principal is started again when all that exist are linked.
LEMMA NewServiceKeepsMesh == ASSUME IInv, TInv, CInv, MInv, NewService PROVE MInv'
<1> USE DEF volumes, plan
<1>1. /\ pc = "newService" /\ ~removing /\ pc' \in {"newService", "deploy"}
      /\ UNCHANGED <<agreements, plan>>
  BY DEF NewService, IInv, Removes, RemovalPlace
<1>2. /\ Linked(existing \ toBeAdded)
      /\ \A p \in toBeAdded : AllSources(p) /\ <<principal, p>> \in agreements
  BY <1>1 DEF MInv, Meshed, Agreed, Sourcing, Acting, Linking
<1>3. ASSUME NEW p \in toBeAdded, NEW q \in existing, p # q
      PROVE  <<q, p>> \in agreements
  BY <1>2, <1>3 DEF AllSources, Sources
<1>4. Linked(existing)
  BY <1>2, <1>3 DEF Linked
<1>5. Sourcing'
  BY <1>1, <1>2 DEF Sourcing, AllSources, Sources
<1> QED BY <1>1, <1>4, <1>5, MeshWithin DEF Acting, Linking, Copying, Renewing, Stopping

LEMMA NewLookupKeepsMesh == ASSUME IInv, TInv, CInv, MInv, NewLookup PROVE MInv'
<1> USE DEF volumes
<1>1. /\ pc = "newLookup" /\ ~removing /\ pc' \in {"new", "newReady"}
      /\ existing' = existing \cup {First(todo)}
      /\ UNCHANGED <<agreements, toBeAdded, principal, removing>>
  BY DEF NewLookup, IInv, Removes, RemovalPlace
<1>2. First(todo) \in toBeAdded
  BY <1>1, NextOne DEF TInv, Sound, Visiting
<1>3. Linked(existing \ toBeAdded)'
  BY <1>1, <1>2 DEF MInv, Meshed, Linked, Acting
<1>4. Agreed'
  BY <1>1 DEF MInv, Agreed, Renewing
<1> QED BY <1>1, <1>3, <1>4 DEF MInv, Meshed, Sourcing, Starting

\* The proxy is told when all are linked, and from then on it counts only
\* who stays.
LEMMA ProxyKeepsMesh == ASSUME IInv, TInv, CInv, MInv, Proxy PROVE MInv'
<1> USE DEF volumes, cluster
<1>1. /\ pc = "proxy" /\ pc' = "remove" /\ removing'
      /\ UNCHANGED <<agreements, doc>>
  BY DEF Proxy, StartRemoval
<1>2. Linked(existing) /\ ToSet(doc) \subseteq existing
  BY <1>1 DEF MInv, Meshed, CInv, Planned
<1>3. Linked(ToSet(doc))'
  BY <1>1, <1>2 DEF Linked
<1> QED BY <1>1, <1>3 DEF MInv, Meshed, Agreed, Sourcing, Starting, Stopping, Copying,
                          Renewing, Linking

\* The command removes what is never there, an agreement of the replica that
\* goes with itself.
LEMMA UnlinkKeepsMesh == ASSUME IInv, TInv, CInv, MInv, Unlink PROVE MInv'
<1> USE DEF volumes, plan
<1>1. pc = "unlink" /\ removing /\ pc' = "find" /\ UNCHANGED plan
  BY DEF Unlink, TInv, Sound, Adding
<1>2. target \in rs /\ target \in PVC
  BY <1>1, ReplicasAssumption
     DEF IInv, Removes, CInv, Built, World, Rem, TInv, Sound, Chosen
<1>3. agreements' = agreements \/ agreements' = agreements \ {<<target, target>>}
  BY <1>2, FoundOwner DEF Unlink
<1>4. Linked(ToSet(doc))'
  BY <1>1, <1>3 DEF MInv, Meshed, Linked, Acting
<1> QED BY <1>1, <1>4 DEF MInv, Meshed, Agreed, Sourcing, Starting, Stopping, Copying,
                          Renewing, Linking

LEMMA ReconcileKeepsMesh ==
  ASSUME IInv, TInv, CInv, MInv, Reconcile
  PROVE  MInv'
<1> USE DEF volumes, plan
<1> USE DEF Acting, Starting, Stopping, Copying, Renewing, Linking
<1>1. CASE Skip \/ Begin \/ Mark
  BY <1>1, BeginKeepsMesh
<1>2. CASE MarkConflict \/ Refuse \/ Fail \/ AgreementFails \/ Report
  BY <1>2, EndKeepsMesh
<1>3. CASE Deploy \/ Lookup \/ Service
  BY <1>3, MeshWithin DEF Deploy, Lookup, Service, MInv, Meshed
<1>4. CASE Find \/ Unserve \/ Undeploy \/ Gone
  BY <1>4, MeshWithin DEF Find, Unserve, Undeploy, Gone
<1>5. CASE SeedMap \/ Seed \/ SeedWait \/ Seeded
  BY <1>5, MeshWithin DEF SeedMap, Seed, SeedWait, Seeded
<1>6. CASE New \/ NextRemoval
  BY <1>6, MeshWithin DEF New, NextRemoval, TInv, Sound, Adding
<1>7. CASE Plan \/ Ready \/ Agree \/ Link
  BY <1>7, PlanKeepsMesh, ReadyKeepsMesh, AgreeKeepsMesh, LinkKeepsMesh
<1>8. CASE NewLookup \/ NewReady \/ NewService \/ Proxy \/ Unlink
  BY <1>8, NewLookupKeepsMesh, NewReadyKeepsMesh, NewServiceKeepsMesh, ProxyKeepsMesh,
     UnlinkKeepsMesh
<1> QED BY <1>1, <1>2, <1>3, <1>4, <1>5, <1>6, <1>7, <1>8 DEF Reconcile

LEMMA MeshKept == ASSUME IInv, TInv, CInv, MInv, [Next]_vars, Calm' PROVE MInv'
<1>1. Calm /\ TypeOK
  BY CalmBefore DEF TInv
<1>2. CASE UNCHANGED vars
  BY <1>2, MeshFrame DEF vars, document, cluster, volumes, loops
<1>3. ~Restart
  BY DEF Restart, CInv, Ownership
<1> QED BY <1>1, <1>2, <1>3, NoStorm, OthersKeepMesh, JobsKeepMesh, ReconcileKeepsMesh
        DEF Next

LEMMA MeshInitially == Init => MInv
  BY DEF Init, MInv, Meshed, Agreed, Sourcing, Linked, Eligible, Acting, Starting,
         Stopping, Copying, Renewing, Linking

(* As long as nothing happens behind the back of the operator, each two    *)
(* replicas are linked when it is done, in whatever steps they were added  *)
(* and whichever were removed.                                             *)
THEOREM MeshIsFull == Spec => [](Calm => FullMesh)
<1>1. Init => (Calm => MInv)
  BY MeshInitially
<1>2. IInv /\ TInv /\ (Calm => CInv) /\ (Calm => MInv) /\ [Next]_vars => (Calm => MInv)'
  BY MeshKept, CalmBefore DEF TInv
<1>3. CInv /\ MInv => FullMesh
  <2>1. Settled /\ CInv => Eligible /\ rs = ToSet(spec)
    BY DEF CInv, Ownership, Between, Settled, Eligible
  <2> QED BY <2>1 DEF MInv, Meshed, Linked, FullMesh, Settled
<1> QED BY <1>1, <1>2, <1>3, Invariance, Typed, CalmInvariance, PTL DEF Spec
-----------------------------------------------------------------------------
(* An operator that meets no faults. *)

Faultless == /\ MaxCrashes = 0 /\ MaxDisruptions = 0 /\ MaxLost = 0
             /\ Patient \/ MaxDeletes = 0

LEMMA CalmKept == ASSUME Faultless, TypeOK, Calm, [Next]_vars PROVE Calm'
<1> USE DEF bounds, Calm, Faultless
<1>1. ~Lose /\ ~Disruption /\ ~Crash /\ (Delete => Patient)
  <2>1. ~(0 < 0)
    OBVIOUS
  <2>2. ~Lose
    BY <2>1 DEF Lose
  <2>3. ~Disruption
    BY <2>1 DEF Disruption, Disrupt
  <2>4. ~Crash
    BY <2>1 DEF Crash
  <2>5. Delete => Patient
    <3>1. deletes \in Nat
      BY DEF TypeOK
    <3> QED BY <3>1 DEF Delete
  <2> QED BY <2>2, <2>3, <2>4, <2>5
<1>2. CASE User
  <2>1. ASSUME NEW d \in Docs, Create(d) \/ Edit(d) PROVE Calm'
    BY <2>1 DEF Create, Edit, Ask
  <2>2. CASE Delete
    BY <1>1, <2>2 DEF Delete
  <2> QED BY <1>2, <2>1, <2>2 DEF User
<1>3. CASE Reconcile
  <2>1. CASE Skip \/ Begin \/ Mark \/ MarkConflict \/ Refuse \/ Plan
    BY <2>1 DEF Skip, Begin, Mark, MarkConflict, Refuse, Plan
  <2>2. CASE Deploy \/ Lookup \/ Service \/ Ready \/ Agree \/ Link \/ AgreementFails
    BY <1>1, <2>2 DEF Deploy, Lookup, Service, Ready, Agree, Link, AgreementFails,
                      CreateReplicaSet
  <2>3. CASE Find \/ Unserve \/ Undeploy \/ Gone
    BY <1>1, <2>3 DEF Find, Unserve, Undeploy, Gone
  <2>4. CASE SeedMap \/ Seed \/ SeedWait \/ Seeded
    BY <1>1, <2>4 DEF SeedMap, Seed, SeedWait, Seeded, DeleteSeedMap
  <2>5. CASE New \/ NewLookup \/ NewReady \/ NewService
    BY <1>1, <2>5 DEF New, NewLookup, NewReady, NewService, CreateReplicaSet
  <2>6. CASE Proxy \/ NextRemoval \/ Unlink \/ Report
    BY <2>6 DEF Proxy, StartRemoval, NextRemoval, Unlink, Report
  <2>7. CASE Fail
    BY <1>1, <2>7 DEF Fail, DeleteSeedMap
  <2> QED BY <1>3, <2>1, <2>2, <2>3, <2>4, <2>5, <2>6, <2>7 DEF Reconcile
<1>4. CASE Unnoticed
  BY <1>1, <1>4 DEF Unnoticed, MarkFails, ReportFails
<1>5. CASE PodEvents \/ JobEvents
  BY <1>5 DEF PodEvents, PodCreated, PodStarts, PodEnds, JobEvents, JobSucceeds,
              JobFails, JobExpires
<1>6. CASE GarbageCollection
  BY <1>6 DEF GarbageCollection, CollectReplicaSet, CollectJob, CollectService,
              CollectMap, CollectProxy
<1>7. CASE Restart \/ UNCHANGED vars
  BY <1>7 DEF Restart, vars
<1> QED BY <1>1, <1>2, <1>3, <1>4, <1>5, <1>6, <1>7 DEF Next

(* In a cluster without crashes, evictions and ignored errors, and with    *)
(* users who do not make a document again too early, the four properties   *)
(* hold without a condition, for any number of claims, documents, pods,    *)
(* edits and, if users are patient, deletions.                             *)
THEOREM WithoutFaults ==
  ASSUME Faultless
  PROVE  Spec => [](SeedIsolation /\ AllServed /\ OneDirectory /\ FullMesh)
<1>1. Init => Calm
  BY DEF Init, Calm, Faultless
<1>2. TInv /\ Calm /\ [Next]_vars => Calm'
  BY CalmKept DEF TInv
<1>3. Spec => []Calm
  BY <1>1, <1>2, Typed, PTL DEF Spec
<1> QED BY <1>3, CopiesAreAlone, WorkIsDone, OneDirectoryOnly, MeshIsFull, PTL
=============================================================================
