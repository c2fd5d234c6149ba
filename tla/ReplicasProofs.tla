---------------------------- MODULE ReplicasProofs ----------------------------
(***************************************************************************)
(* Theorems about Replicas, for any claims, any documents and any number   *)
(* of crashes, disruptions and errors.                                     *)
(*                                                                         *)
(* Reconcile decides once, at its beginning, which replicas go; it acts on *)
(* that decision at its very end, after it has rebuilt half the cluster.   *)
(* The argument that it takes down nothing that is asked for has two       *)
(* parts: the document cannot change meanwhile (Guarded), and the list of  *)
(* removals is worked off and never added to (Decided, Removes).           *)
(***************************************************************************)
EXTENDS Replicas, WellFoundedInduction, TLAPS
-----------------------------------------------------------------------------
(* Types.  A loop over new replicas takes the first one that the document  *)
(* lists, and a service is named after the owner of a pod: for these to be *)
(* claims and names, the loops must not be empty and the pods must have    *)
(* been looked up, which depends on the place.                             *)


\* A set of naturals has a least element.
LEMMA Least ==
  ASSUME NEW T \in SUBSET Nat, T # {}
  PROVE  \E x \in T : \A y \in T : x <= y
<1>1. PICK x \in T : \A y \in T : <<y, x>> \notin OpToRel(<, Nat)
  BY NatLessThanWellFounded, WFMin
<1>2. \A y \in T : ~(y < x)
  BY <1>1, Zenon DEF OpToRel
<1>3. \A y \in T : x \in Nat /\ y \in Nat
  OBVIOUS
<1> QED BY <1>2, <1>3

\* What is taken from a part of the document is in that part.
LEMMA FirstOne ==
  ASSUME NEW S, doc \in Seq(PVC), S \subseteq ToSet(doc), S # {}
  PROVE  First(S) \in S
<1> DEFINE T == {i \in DOMAIN doc : doc[i] \in S}
<1>1. T \in SUBSET Nat
  OBVIOUS
<1>2. T # {}
  BY DEF ToSet
<1>3. \E i \in T : \A j \in T : i <= j
  BY <1>1, <1>2, Least
<1>4. \E i \in DOMAIN doc : /\ doc[i] \in S
                            /\ \A j \in DOMAIN doc : doc[j] \in S => i <= j
  BY <1>3
<1> QED BY <1>4 DEF First

\* The document Reconcile works with, and what it has to add.
Reading ==
  pc = "mark" \/ pc \in Acting =>
    /\ doc \in Docs
    /\ toBeAdded \subseteq ToSet(doc)

\* A loop over toBeAdded has something to visit.
Visiting ==
  /\ pc \in {"agree", "seed", "seedWait", "new", "newLookup", "link"} =>
       todo # {} /\ todo \subseteq toBeAdded
  /\ pc \in {"newService", "deploy", "lookup", "service", "ready"} => todo \subseteq toBeAdded

\* The principal is stopped for the sake of new replicas only.
Adding ==
  /\ pc \in {"find", "unserve", "undeploy", "gone"} /\ ~removing =>
       toBeAdded # {}
  /\ pc \in {"seedMap", "seeded"} => toBeAdded # {}
  /\ removing => pc \in {"remove", "unlink", "find", "unserve", "undeploy",
                         "gone", "report"}
  /\ pc \in {"remove", "unlink", "report"} => removing

\* Who is the principal, and which replica is deployed or deleted.
Chosen ==
  /\ pc \in Acting \ {"config", "proxy"} /\ ~removing => principal \in PVC
  /\ pc \in {"deploy", "lookup", "unlink", "find", "unserve", "undeploy", "gone"}
       => target \in PVC

\* The pods that have been looked up.
LookedUp ==
  /\ pc \in {"service", "ready"} => pod # None
  /\ pc \in {"new", "newLookup"} =>
       \A p \in toBeAdded \ todo : replicaPods[p] # None
  /\ pc \in {"newReady", "link", "newService"} =>
       \A p \in toBeAdded : replicaPods[p] # None
  /\ pc \in {"newReady", "newService"} => left \subseteq toBeAdded

\* A job that runs has a source.
Sourced == \A p \in PVC : job[p].state = "running" => job[p].source \in PVC

Sound == Reading /\ Visiting /\ Adding /\ Chosen /\ LookedUp /\ Sourced
TInv == TypeOK /\ Sound
-----------------------------------------------------------------------------
LEMMA DocsAre == \A d \in Docs : d \in Seq(PVC) /\ ToSet(d) \subseteq PVC
  BY ReplicasAssumption DEF ToSet

\* The next replica of a loop.
LEMMA NextOne ==
  ASSUME TInv, pc \in {"agree", "seed", "seedWait", "new", "newLookup", "link"}
  PROVE  First(todo) \in todo /\ First(todo) \in PVC
<1>1. doc \in Seq(PVC) /\ todo \subseteq ToSet(doc) /\ todo # {}
  BY DocsAre DEF TInv, Sound, Reading, Visiting, Acting
<1> QED BY <1>1, FirstOne DEF TInv, TypeOK

\* Pods of the namespace.
LEMMA FoundPods ==
  ASSUME TypeOK, NEW p, NEW h \in Found(p)
  PROVE  /\ h \in Pods \cup {OtherPod}
         /\ h # None
         /\ Owner(h) \in PVC \cup {OtherPod} /\ Owner(h) # None
         /\ h # OtherPod => Owner(h) \in PVC
<1>1. h \in Pods \cup {OtherPod}
  BY DEF Found, Listed, Pods, TypeOK
<1> QED BY <1>1, ReplicasAssumption DEF Pods, Owner
-----------------------------------------------------------------------------
(* Types, action by action. *)

LEMMA GoToTypes ==
  ASSUME NEW place \in {"idle", "down"}, GoTo(place)
  PROVE  /\ pc' \in Place /\ doc' \in Docs \cup {None}
         /\ existing' \subseteq PVC /\ toBeDeleted' \subseteq existing'
         /\ toBeAdded' \subseteq PVC /\ todo' \subseteq PVC
         /\ principal' \in PVC \cup {None} /\ target' \in PVC \cup {None}
         /\ left' \subseteq PVC
         /\ replicaPods' \in [PVC -> PVC \cup {OtherPod, None}]
         /\ pod' \in Pods \cup {OtherPod, None}
         /\ removing' \in BOOLEAN
  BY DEF GoTo, Place

LEMMA LoseTypes == TypeOK /\ Lose => lost' \in Nat
  BY DEF TypeOK, Lose

LEMMA SeedMapTypes ==
  TypeOK /\ DeleteSeedMap => seedMap' \in BOOLEAN /\ lost' \in Nat
<1> SUFFICES ASSUME TypeOK, DeleteSeedMap
             PROVE  seedMap' \in BOOLEAN /\ lost' \in Nat
  OBVIOUS
<1>1. CASE seedMap' = FALSE /\ UNCHANGED lost
  BY <1>1 DEF TypeOK
<1>2. CASE Lose /\ UNCHANGED seedMap
  BY <1>2, LoseTypes DEF TypeOK
<1> QED BY <1>1, <1>2 DEF DeleteSeedMap

LEMMA CreateTypes ==
  ASSUME TypeOK, NEW p \in PVC, CreateReplicaSet(p)
  PROVE  rs' \subseteq PVC /\ lost' \in Nat
<1>1. CASE rs' = rs \cup {p} /\ UNCHANGED lost
  BY <1>1 DEF TypeOK
<1>2. CASE Lose /\ UNCHANGED rs
  BY <1>2, LoseTypes DEF TypeOK
<1> QED BY <1>1, <1>2 DEF CreateReplicaSet

LEMMA AgreementTypes ==
  ASSUME TypeOK, NEW s, NEW p \in PVC, Agreement(s, p) \/ AgreementHalfMade(s, p)
  PROVE  agreements' \subseteq PVC \X PVC
<1>1. ASSUME NEW h \in Found(s), Answers(h) PROVE Owner(h) \in PVC
  BY <1>1, FoundPods DEF Answers
<1>2. CASE Agreement(s, p)
  BY <1>1, <1>2 DEF TypeOK, Agreement
<1>3. CASE AgreementHalfMade(s, p)
  BY <1>3 DEF TypeOK, AgreementHalfMade
<1> QED BY <1>2, <1>3

LEMMA NextLinkTypes ==
  ASSUME TypeOK, NEW rest \in SUBSET PVC, NextLink(rest)
  PROVE  /\ pc' \in {"link", "newService"} /\ todo' \subseteq rest
         /\ left' \subseteq PVC
  BY DEF TypeOK, NextLink, Linkable, Sources

LEMMA DeletedTypes == \A state \in PodState : Deleted(state) \in PodState
  BY DEF PodState, Deleted

LEMMA ReconcileTypes == TInv /\ Reconcile => TypeOK'
<1> SUFFICES ASSUME TInv, Reconcile PROVE TypeOK'
  OBVIOUS
<1> USE DEF document, cluster, volumes, plan, loops, bounds
<1>t. TypeOK
  BY DEF TInv
<1>1. CASE Skip
  BY <1>t, <1>1
     DEF TypeOK, Skip
<1>2. CASE Begin
  BY <1>t, <1>2, DocsAre
     DEF TypeOK, Begin, Place
<1>3. CASE Mark
  BY <1>t, <1>3
     DEF TypeOK, Mark, Place, Acting
<1>4. CASE MarkConflict
  BY <1>t, <1>4, GoToTypes
     DEF TypeOK, MarkConflict
<1>5. CASE Refuse
  BY <1>t, <1>5, GoToTypes
     DEF TypeOK, Refuse, SetCondition
<1>6. CASE Report
  BY <1>t, <1>6, GoToTypes
     DEF TypeOK, Report, SetCondition
<1>7. CASE Fail
  <2>1. seedMap' \in BOOLEAN /\ lost' \in Nat
    <3>1. CASE DeleteSeedMap
      BY <1>t, <3>1, SeedMapTypes
    <3>2. CASE UNCHANGED <<seedMap, lost>>
      BY <1>t, <3>2 DEF TypeOK
    <3> QED BY <1>7, <3>1, <3>2 DEF Fail
  <2> QED BY <1>t, <1>7, <2>1, GoToTypes DEF TypeOK, Fail, SetCondition
<1>8. CASE AgreementFails
  <2>1. agreements' \subseteq PVC \X PVC
    BY <1>t, <1>8, NextOne, AgreementTypes DEF AgreementFails
  <2> QED BY <1>t, <1>8, <2>1, GoToTypes DEF TypeOK, AgreementFails, SetCondition
<1>9. CASE Plan
  <2>1. toBeAdded # {} => First(toBeAdded) \in PVC
    BY <1>9, DocsAre, FirstOne DEF Plan, TInv, TypeOK, Sound, Reading, Acting
  <2> QED BY <1>t, <1>9, <2>1 DEF TypeOK, Plan, Place, Acting
<1>10. CASE Deploy
  <2>1. rs' \subseteq PVC /\ lost' \in Nat
    BY <1>t, <1>10, CreateTypes DEF Deploy, TInv, Sound, Chosen
  <2> QED BY <1>t, <1>10, <2>1 DEF TypeOK, Deploy, Place, Acting
<1>11. CASE Lookup \/ Find
  <2>1. pod' \in Pods \cup {OtherPod}
    BY <1>t, <1>11, FoundPods DEF Lookup, Find
  <2> QED BY <1>t, <1>11, <2>1 DEF TypeOK, Lookup, Find, Place, Acting
<1>12. CASE Service
  <2>1. Owner(pod) \in PVC \cup {OtherPod}
    BY <1>12 DEF Service, TInv, TypeOK, Sound, LookedUp, Owner, Pods
  <2> QED BY <1>t, <1>12, <2>1 DEF TypeOK, Service, Place, Acting
<1>13. CASE Ready
  <2>1. principal \in PVC
    BY <1>13 DEF Ready, TInv, Sound, Chosen, Adding, Acting
  <2> QED BY <1>t, <1>13, <2>1 DEF TypeOK, Ready, Place, Acting
<1>14. CASE Agree
  <2>1. agreements' \subseteq PVC \X PVC
    BY <1>t, <1>14, NextOne, AgreementTypes DEF Agree
  <2> QED BY <1>t, <1>14, <2>1 DEF TypeOK, Agree, Rest, Place, Acting
<1>15. CASE Link
  <2>1. agreements' \subseteq PVC \X PVC
    BY <1>t, <1>15, NextOne, AgreementTypes DEF Link
  <2>2. pc' \in Place /\ todo' \subseteq PVC /\ left' \subseteq PVC
    BY <1>t, <1>15, NextLinkTypes DEF Link, TypeOK, Rest, Place, Acting
  <2> QED BY <1>t, <1>15, <2>1, <2>2 DEF TypeOK, Link
<1>16. CASE Unserve
  BY <1>t, <1>16
     DEF TypeOK, Unserve, Place, Acting
<1>17. CASE Undeploy
  <2>1. pods' \in [PVC -> [PodId -> PodState]]
    BY <1>t, <1>17, DeletedTypes DEF TypeOK, Undeploy
  <2> QED BY <1>t, <1>17, <2>1 DEF TypeOK, Undeploy, Place, Acting
<1>18. CASE Gone
  <2>1. lost' \in Nat
    BY <1>t, <1>18, LoseTypes DEF Gone, TypeOK
  <2>2. pc' \in Place /\ left' \subseteq PVC
    BY <1>t, <1>18 DEF Gone, TypeOK, Place, Acting
  <2> QED BY <1>t, <1>18, <2>1, <2>2 DEF TypeOK, Gone
<1>19. CASE SeedMap
  BY <1>t, <1>19
     DEF TypeOK, SeedMap, Place, Acting
<1>20. CASE Seed
  <2>1. job' \in [PVC -> [state : JobState, source : PVC \cup {None}]]
    BY <1>t, <1>20 DEF TypeOK, Seed, JobState
  <2> QED BY <1>t, <1>20, <2>1 DEF TypeOK, Seed, Rest, Place, Acting
<1>21. CASE SeedWait
  BY <1>t, <1>21
     DEF TypeOK, SeedWait, Rest, Place, Acting
<1>22. CASE Seeded
  <2>1. seedMap' \in BOOLEAN /\ lost' \in Nat
    BY <1>t, <1>22, SeedMapTypes DEF Seeded
  <2> QED BY <1>t, <1>22, <2>1 DEF TypeOK, Seeded, Place, Acting
<1>23. CASE New
  <2>1. rs' \subseteq PVC /\ lost' \in Nat
    BY <1>t, <1>23, NextOne, CreateTypes DEF New
  <2> QED BY <1>t, <1>23, <2>1 DEF TypeOK, New, Place, Acting
<1>24. CASE NewLookup
  <2>1. replicaPods' \in [PVC -> PVC \cup {OtherPod, None}]
    <3>1. PICK h \in Found(First(todo)) :
            replicaPods' = [replicaPods EXCEPT ![First(todo)] = Owner(h)]
      BY <1>24 DEF NewLookup
    <3>2. Owner(h) \in PVC \cup {OtherPod}
      BY <1>t, FoundPods
    <3> QED BY <1>t, <3>1, <3>2 DEF TypeOK
  <2>2. existing' \subseteq PVC /\ toBeDeleted' \subseteq existing'
    BY <1>t, <1>24, NextOne DEF TypeOK, NewLookup
  <2> QED BY <1>t, <1>24, <2>1, <2>2 DEF TypeOK, NewLookup, Rest, Place, Acting
<1>25. CASE NewReady
  <2>1. pc' \in Place /\ todo' \subseteq PVC /\ left' \subseteq PVC
    BY <1>t, <1>25, NextLinkTypes DEF NewReady, TypeOK, Place, Acting
  <2> QED BY <1>t, <1>25, <2>1 DEF TypeOK, NewReady
<1>26. CASE NewService
  <2>1. svc' \subseteq PVC \cup {OtherPod}
    BY <1>26 DEF NewService, TInv, TypeOK, Sound, LookedUp
  <2> QED BY <1>t, <1>26, <2>1 DEF TypeOK, NewService, Place, Acting
<1>27. CASE Proxy
  <2>1. ToSet(doc) \subseteq PVC
    BY <1>27, DocsAre DEF Proxy, TInv, Sound, Reading, Acting
  <2> QED BY <1>t, <1>27, <2>1 DEF TypeOK, Proxy, SaveProxy, StartRemoval, Place, Acting
<1>28. CASE NextRemoval
  BY <1>t, <1>28
     DEF TypeOK, NextRemoval, Place, Acting
<1>29. CASE Unlink
  BY <1>t, <1>29
     DEF TypeOK, Unlink, Place, Acting
<1> QED BY <1>1, <1>2, <1>3, <1>4, <1>5, <1>6, <1>7, <1>8, <1>9, <1>10, <1>11, <1>12, <1>13, <1>14, <1>15, <1>16, <1>17, <1>18, <1>19, <1>20, <1>21, <1>22, <1>23, <1>24, <1>25, <1>26, <1>27, <1>28, <1>29 DEF Reconcile

LEMMA OtherTypes ==
  TInv /\ (User \/ Unnoticed \/ Crash \/ Restart) => TypeOK'
<1> SUFFICES ASSUME TInv, User \/ Unnoticed \/ Crash \/ Restart PROVE TypeOK'
  OBVIOUS
<1> USE DEF document, cluster, volumes, plan, loops, bounds
<1>t. TypeOK
  BY DEF TInv
<1>1. ASSUME NEW d \in Docs, Ask(d) PROVE TypeOK'
  BY <1>t, <1>1 DEF TypeOK, Ask
<1>2. CASE Delete
  <2>1. Owned \subseteq Object
    BY <1>t DEF TypeOK, Owned, Object
  <2> QED BY <1>t, <1>2, <2>1 DEF TypeOK, Delete
<1>3. CASE User
  BY <1>1, <1>2, <1>3 DEF User, Create, Edit
<1>4. CASE MarkFails
  BY <1>t, <1>4, GoToTypes, LoseTypes DEF TypeOK, MarkFails
<1>5. CASE ReportFails
  BY <1>t, <1>5, GoToTypes, LoseTypes DEF TypeOK, ReportFails
<1>6. CASE Crash
  <2>1. crashes' \in Nat
    BY <1>t, <1>6 DEF TypeOK, Crash
  <2>2. queued' \in BOOLEAN /\ inProgress' \in BOOLEAN /\ seedMap' \in BOOLEAN
    BY <1>t, <1>6 DEF TypeOK, Crash
  <2> QED BY <1>t, <1>6, <2>1, <2>2, GoToTypes DEF TypeOK, Crash
<1>7. CASE Restart
  BY <1>t, <1>7 DEF TypeOK, Restart, Place
<1> QED BY <1>3, <1>4, <1>5, <1>6, <1>7 DEF Unnoticed

LEMMA SetPodTypes ==
  ASSUME TypeOK, NEW p \in PVC, NEW i \in PodId, NEW state \in PodState,
         SetPod(p, i, state)
  PROVE  pods' \in [PVC -> [PodId -> PodState]]
  BY DEF TypeOK, SetPod

LEMMA ClusterTypes ==
  TInv /\ (PodEvents \/ JobEvents \/ GarbageCollection \/ Disruption) => TypeOK'
<1> SUFFICES ASSUME TInv,
                    PodEvents \/ JobEvents \/ GarbageCollection \/ Disruption
             PROVE  TypeOK'
  OBVIOUS
<1> USE DEF document, cluster, volumes, plan, loops, bounds
<1>t. TypeOK
  BY DEF TInv
<1>1. ASSUME NEW p \in PVC, NEW i \in PodId,
             PodCreated(p, i) \/ PodStarts(p, i) \/ PodEnds(p, i)
      PROVE  TypeOK'
  <2>1. pods' \in [PVC -> [PodId -> PodState]]
    BY <1>t, <1>1, SetPodTypes DEF PodCreated, PodStarts, PodEnds, PodState
  <2>2. data' \in [PVC -> PVC \cup {"empty", "partial"}]
    BY <1>t, <1>1 DEF TypeOK, PodCreated, PodStarts, PodEnds
  <2> QED BY <1>t, <1>1, <2>1, <2>2 DEF TypeOK, PodCreated, PodStarts, PodEnds
<1>2. ASSUME NEW p \in PVC, NEW i \in PodId, Disrupt(p, i) PROVE TypeOK'
  <2>1. pods' \in [PVC -> [PodId -> PodState]]
    BY <1>t, <1>2, SetPodTypes, DeletedTypes DEF TypeOK, Disrupt, PodState
  <2> QED BY <1>t, <1>2, <2>1 DEF TypeOK, Disrupt
<1>3. ASSUME NEW p \in PVC, JobSucceeds(p) PROVE TypeOK'
  <2>1. job[p].source \in PVC
    BY <1>3 DEF JobSucceeds, TInv, Sound, Sourced
  <2>2. job' \in [PVC -> [state : JobState, source : PVC \cup {None}]]
    BY <1>t, <1>3 DEF TypeOK, JobSucceeds, JobState
  <2>3. data' \in [PVC -> PVC \cup {"empty", "partial"}]
    BY <1>t, <1>3, <2>1 DEF TypeOK, JobSucceeds
  <2> QED BY <1>t, <1>3, <2>2, <2>3 DEF TypeOK, JobSucceeds
<1>4. ASSUME NEW p \in PVC, JobFails(p) \/ JobExpires(p) \/ CollectJob(p)
      PROVE  TypeOK'
  <2>1. job' \in [PVC -> [state : JobState, source : PVC \cup {None}]]
    <3>1. CASE JobFails(p)
      <4>1. /\ job \in [PVC -> [state : JobState, source : PVC \cup {None}]]
            /\ job' = [job EXCEPT ![p].state = "failed"]
        BY <1>t, <3>1 DEF TypeOK, JobFails
      <4> QED BY <4>1 DEF JobState
    <3>2. CASE JobExpires(p) \/ CollectJob(p)
      BY <1>t, <3>2 DEF TypeOK, JobExpires, CollectJob, JobState
    <3> QED BY <1>4, <3>1, <3>2
  <2>2. data' \in [PVC -> PVC \cup {"empty", "partial"}]
    BY <1>t, <1>4 DEF TypeOK, JobFails, JobExpires, CollectJob
  <2> QED BY <1>t, <1>4, <2>1, <2>2 DEF TypeOK, JobFails, JobExpires, CollectJob
<1>5. ASSUME NEW p \in PVC, CollectReplicaSet(p) PROVE TypeOK'
  <2>1. pods' \in [PVC -> [PodId -> PodState]]
    BY <1>t, <1>5, DeletedTypes DEF TypeOK, CollectReplicaSet
  <2> QED BY <1>t, <1>5, <2>1 DEF TypeOK, CollectReplicaSet
<1>6. ASSUME NEW n, CollectService(n) \/ CollectMap \/ CollectProxy PROVE TypeOK'
  BY <1>t, <1>6 DEF TypeOK, CollectService, CollectMap, CollectProxy
<1> QED BY <1>1, <1>2, <1>3, <1>4, <1>5, <1>6
        DEF PodEvents, JobEvents, GarbageCollection, Disruption
-----------------------------------------------------------------------------
(* What the types rest on, action by action. *)

LEMMA LeavingSound ==
  ASSUME TInv, NEW place \in {"idle", "down"}, GoTo(place), job' = job
  PROVE  Sound'
<1>1. pc' \notin Acting /\ pc' = place /\ removing' = FALSE
  BY DEF GoTo, Acting
<1> QED BY <1>1 DEF TInv, Sound, Reading, Visiting, Adding, Chosen, LookedUp,
                    Sourced, Acting

\* A step of the cluster or of the user.
LEMMA UnseenSound ==
  ASSUME TInv, UNCHANGED <<pc, plan, loops>>, Sourced'
  PROVE  Sound'
  BY DEF TInv, Sound, Reading, Visiting, Adding, Chosen, LookedUp, plan, loops

LEMMA NextLinkSound ==
  ASSUME NEW rest \in SUBSET toBeAdded, NextLink(rest), toBeAdded' = toBeAdded
  PROVE  /\ pc' \in {"link", "newService"} /\ todo' \subseteq toBeAdded
         /\ pc' = "link" => todo' # {}
         /\ pc' = "newService" => left' = toBeAdded
  BY DEF NextLink, Linkable

LEMMA ReconcileSound == TInv /\ Reconcile => Sound'
<1> SUFFICES ASSUME TInv, Reconcile PROVE Sound'
  OBVIOUS
<1> USE DEF document, cluster, volumes, plan, loops, bounds
<1>t. TypeOK
  BY DEF TInv
<1>s. Reading /\ Visiting /\ Adding /\ Chosen /\ LookedUp /\ Sourced
  BY DEF TInv, Sound
<1>1. CASE Skip
  BY <1>t, <1>s, <1>1, UnseenSound
     DEF Skip,
         Sound, Reading, Visiting, Adding, Chosen, LookedUp, Sourced, Acting
<1>2. CASE Begin
  BY <1>t, <1>s, <1>2, DocsAre
     DEF Begin, TypeOK,
         Sound, Reading, Visiting, Adding, Chosen, LookedUp, Sourced, Acting
<1>3. CASE Mark
  BY <1>t, <1>s, <1>3
     DEF Mark,
         Sound, Reading, Visiting, Adding, Chosen, LookedUp, Sourced, Acting
<1>4. CASE MarkConflict
  BY <1>4, LeavingSound DEF MarkConflict
<1>5. CASE Refuse
  BY <1>5, LeavingSound DEF Refuse
<1>6. CASE Report
  BY <1>6, LeavingSound DEF Report
<1>7. CASE Fail
  BY <1>7, LeavingSound DEF Fail
<1>8. CASE AgreementFails
  BY <1>8, LeavingSound DEF AgreementFails
<1>9. CASE Plan
  <2>1. toBeAdded # {} => First(toBeAdded) \in PVC
    BY <1>9, DocsAre, FirstOne DEF Plan, TInv, TypeOK, Sound, Reading, Acting
  <2> QED BY <1>t, <1>s, <1>9, <2>1
          DEF Plan, TypeOK, Sound, Reading, Visiting, Adding, Chosen, LookedUp,
              Sourced, Acting
<1>10. CASE Deploy
  BY <1>t, <1>s, <1>10
     DEF Deploy,
         Sound, Reading, Visiting, Adding, Chosen, LookedUp, Sourced, Acting
<1>11. CASE Lookup
  BY <1>t, <1>s, <1>11, FoundPods
     DEF Lookup,
         Sound, Reading, Visiting, Adding, Chosen, LookedUp, Sourced, Acting
<1>12. CASE Service
  BY <1>t, <1>s, <1>12
     DEF Service,
         Sound, Reading, Visiting, Adding, Chosen, LookedUp, Sourced, Acting
<1>13. CASE Ready
  BY <1>t, <1>s, <1>13
     DEF Ready,
         Sound, Reading, Visiting, Adding, Chosen, LookedUp, Sourced, Acting
<1>14. CASE Agree
  BY <1>t, <1>s, <1>14
     DEF Agree, Rest,
         Sound, Reading, Visiting, Adding, Chosen, LookedUp, Sourced, Acting
<1>15. CASE Link
  <2>1. /\ pc' \in {"link", "link", "newService"}
        /\ pc' = "link" => todo' # {}
        /\ pc' \in {"link", "newService"} => todo' \subseteq toBeAdded
        /\ pc' = "newService" => left' = toBeAdded
        /\ pc' = "newReady" => left' \subseteq toBeAdded
    BY <1>s, <1>15, NextLinkSound DEF Link, Visiting, LookedUp, Rest
  <2> QED BY <1>t, <1>s, <1>15, <2>1
          DEF Link, Sound, Reading, Visiting, Adding, Chosen, LookedUp, Sourced,
              Acting
<1>16. CASE Find
  BY <1>t, <1>s, <1>16, FoundPods
     DEF Find,
         Sound, Reading, Visiting, Adding, Chosen, LookedUp, Sourced, Acting
<1>17. CASE Unserve
  BY <1>t, <1>s, <1>17
     DEF Unserve,
         Sound, Reading, Visiting, Adding, Chosen, LookedUp, Sourced, Acting
<1>18. CASE Undeploy
  BY <1>t, <1>s, <1>18
     DEF Undeploy,
         Sound, Reading, Visiting, Adding, Chosen, LookedUp, Sourced, Acting
<1>19. CASE Gone
  BY <1>t, <1>s, <1>19
     DEF Gone,
         Sound, Reading, Visiting, Adding, Chosen, LookedUp, Sourced, Acting
<1>20. CASE SeedMap
  BY <1>t, <1>s, <1>20
     DEF SeedMap,
         Sound, Reading, Visiting, Adding, Chosen, LookedUp, Sourced, Acting
<1>21. CASE Seed
  <2>1. principal \in PVC
    BY <1>s, <1>21 DEF Seed, Chosen, Adding, Acting
  <2>2. Sourced'
    BY <1>t, <1>s, <1>21, <2>1, NextOne DEF Seed, TypeOK, Sourced
  <2> QED BY <1>t, <1>s, <1>21, <2>2
          DEF Seed, Rest, Sound, Reading, Visiting, Adding, Chosen, LookedUp,
              Acting
<1>22. CASE SeedWait
  BY <1>t, <1>s, <1>22
     DEF SeedWait, Rest,
         Sound, Reading, Visiting, Adding, Chosen, LookedUp, Sourced, Acting
<1>23. CASE Seeded
  BY <1>t, <1>s, <1>23
     DEF Seeded,
         Sound, Reading, Visiting, Adding, Chosen, LookedUp, Sourced, Acting
<1>24. CASE New
  BY <1>t, <1>s, <1>24
     DEF New,
         Sound, Reading, Visiting, Adding, Chosen, LookedUp, Sourced, Acting
<1>25. CASE NewLookup
  <2>1. PICK h \in Found(First(todo)) :
          replicaPods' = [replicaPods EXCEPT ![First(todo)] = Owner(h)]
    BY <1>25 DEF NewLookup
  <2>2. \A p \in toBeAdded \ Rest : replicaPods'[p] # None
    BY <1>t, <1>s, <1>25, <2>1, FoundPods, NextOne
       DEF NewLookup, TypeOK, LookedUp, Rest
  <2> QED BY <1>t, <1>s, <1>25, <2>2
          DEF NewLookup, Rest, Sound, Reading, Visiting, Adding, Chosen, LookedUp,
              Sourced, Acting
<1>26. CASE NewReady
  <2>1. /\ pc' \in {"newReady", "link", "newService"}
        /\ pc' = "link" => todo' # {}
        /\ pc' \in {"link", "newService"} => todo' \subseteq toBeAdded
        /\ pc' = "newService" => left' = toBeAdded
        /\ pc' = "newReady" => left' \subseteq toBeAdded
    <3>1. CASE NextLink(toBeAdded)
      BY <1>26, <3>1, NextLinkSound DEF NewReady
    <3>2. CASE \E p \in left : left' = left \ {p} /\ UNCHANGED <<pc, todo>>
      BY <1>s, <1>26, <3>2 DEF NewReady, LookedUp
    <3> QED BY <1>26, <3>1, <3>2 DEF NewReady
  <2> QED BY <1>t, <1>s, <1>26, <2>1
          DEF NewReady, Sound, Reading, Visiting, Adding, Chosen, LookedUp, Sourced,
              Acting
<1>27. CASE NewService
  BY <1>t, <1>s, <1>27
     DEF NewService,
         Sound, Reading, Visiting, Adding, Chosen, LookedUp, Sourced, Acting
<1>28. CASE Proxy
  BY <1>t, <1>s, <1>28
     DEF Proxy, StartRemoval,
         Sound, Reading, Visiting, Adding, Chosen, LookedUp, Sourced, Acting
<1>29. CASE NextRemoval
  <2>1. target' \in left => target' \in PVC
    BY <1>t DEF TypeOK
  <2> QED BY <1>t, <1>s, <1>29, <2>1
          DEF NextRemoval, Sound, Reading, Visiting, Adding, Chosen, LookedUp,
              Sourced, Acting
<1>30. CASE Unlink
  BY <1>t, <1>s, <1>30
     DEF Unlink,
         Sound, Reading, Visiting, Adding, Chosen, LookedUp, Sourced, Acting
<1> QED BY <1>1, <1>2, <1>3, <1>4, <1>5, <1>6, <1>7, <1>8, <1>9, <1>10, <1>11, <1>12, <1>13, <1>14, <1>15, <1>16, <1>17, <1>18, <1>19, <1>20, <1>21, <1>22, <1>23, <1>24, <1>25, <1>26, <1>27, <1>28, <1>29, <1>30 DEF Reconcile

\* The cluster and the user know nothing of Reconcile, and no job starts.
LEMMA OthersSound ==
  TInv /\ (User \/ Unnoticed \/ PodEvents \/ JobEvents \/ GarbageCollection
                \/ Disruption \/ Crash \/ Restart) => Sound'
<1> SUFFICES ASSUME TInv,
                    User \/ Unnoticed \/ PodEvents \/ JobEvents
                      \/ GarbageCollection \/ Disruption \/ Crash \/ Restart
             PROVE  Sound'
  OBVIOUS
<1> USE DEF document, cluster, volumes, bounds
<1>s. TypeOK /\ Sourced
  BY DEF TInv, Sound
<1>1. CASE User
  BY <1>1, <1>s, UnseenSound DEF User, Create, Edit, Ask, Delete, Sourced
<1>2. CASE Unnoticed
  BY <1>2, LeavingSound DEF Unnoticed, MarkFails, ReportFails
<1>3. CASE PodEvents
  BY <1>3, <1>s, UnseenSound
     DEF PodEvents, PodCreated, PodStarts, PodEnds, Sourced
<1>4. CASE JobEvents
  <2>1. Sourced'
    BY <1>4, <1>s DEF JobEvents, JobSucceeds, JobFails, JobExpires, Sourced, TypeOK
  <2> QED BY <1>4, <2>1, UnseenSound DEF JobEvents, JobSucceeds, JobFails, JobExpires
<1>5. CASE GarbageCollection
  <2>1. Sourced'
    <3>1. ASSUME NEW p \in PVC, CollectJob(p) PROVE Sourced'
      BY <3>1, <1>s DEF CollectJob, Sourced, TypeOK
    <3>2. CASE job' = job
      BY <3>2, <1>s DEF Sourced
    <3> QED BY <1>5, <3>1, <3>2 DEF GarbageCollection, CollectReplicaSet,
               CollectService, CollectMap, CollectProxy
  <2> QED BY <1>5, <2>1, UnseenSound
          DEF GarbageCollection, CollectReplicaSet, CollectJob, CollectService,
              CollectMap, CollectProxy
<1>6. CASE Disruption
  BY <1>6, <1>s, UnseenSound DEF Disruption, Disrupt, Sourced
<1>7. CASE Crash
  BY <1>7, LeavingSound DEF Crash
<1>8. CASE Restart
  BY <1>8 DEF Restart, TInv, Sound, Reading, Visiting, Adding, Chosen, LookedUp,
              Sourced, Acting, plan
<1> QED BY <1>1, <1>2, <1>3, <1>4, <1>5, <1>6, <1>7, <1>8

THEOREM TypeInductive == TInv /\ [Next]_vars => TInv'
<1> SUFFICES ASSUME TInv, [Next]_vars PROVE TInv'
  OBVIOUS
<1>1. CASE Reconcile
  BY <1>1, ReconcileTypes, ReconcileSound DEF TInv
<1>2. CASE User \/ Unnoticed \/ Crash \/ Restart
  BY <1>2, OtherTypes, OthersSound DEF TInv
<1>3. CASE PodEvents \/ JobEvents \/ GarbageCollection \/ Disruption
  BY <1>3, ClusterTypes, OthersSound DEF TInv
<1>4. CASE UNCHANGED vars
  BY <1>4 DEF vars, document, cluster, volumes, plan, loops, bounds, TInv, TypeOK,
              Sound, Reading, Visiting, Adding, Chosen, LookedUp, Sourced
<1> QED BY <1>1, <1>2, <1>3, <1>4 DEF Next

LEMMA TypeInitially == Init => TInv
<1> SUFFICES ASSUME Init PROVE TInv
  OBVIOUS
<1>1. TypeOK
  <2>1. {updates, crashes, disruptions, lost, deletes} \subseteq Nat
    BY DEF Init
  <2>2. /\ pods \in [PVC -> [PodId -> PodState]]
        /\ job \in [PVC -> [state : JobState, source : PVC \cup {None}]]
        /\ data \in [PVC -> PVC \cup {"empty", "partial"}]
    BY DEF Init, PodState, JobState
  <2> QED BY <2>1, <2>2 DEF Init, TypeOK, Place
<1>2. Sound
  BY DEF Init, Sound, Reading, Visiting, Adding, Chosen, LookedUp, Sourced, Acting
<1> QED BY <1>1, <1>2 DEF TInv

(* Every variable has its type, and no step of Reconcile takes a replica   *)
(* from an empty list, or the name of a pod that was not looked up.        *)
THEOREM Typed == Spec => []TInv
  BY TypeInitially, TypeInductive, PTL DEF Spec

(* The variables of Replicas have their types in every reachable state.    *)
THEOREM TypeCorrect == Spec => []TypeOK
<1>1. TInv => TypeOK
  BY DEF TInv
<1> QED BY <1>1, Typed, PTL
-----------------------------------------------------------------------------
(* The plan. *)

\* The places of deleteReplicas.
RemovalPlace == {"remove", "unlink", "find", "unserve", "undeploy", "gone",
                 "report"}

\* Reconcile acts on a document only if there is one, and goes on from its
\* first status update only if nothing changed.
Guarded ==
  /\ pc \in Acting => spec # None
  /\ pc = "mark" /\ ~queued => /\ spec = doc /\ spec # None
                              /\ available # "false"

\* What is to be deleted is not in the document Reconcile works with.
Decided == pc = "mark" \/ pc \in Acting => toBeDeleted \cap ToSet(doc) = {}

\* deleteReplicas works off what is left of toBeDeleted.
Removes ==
  removing => /\ pc \in RemovalPlace
              /\ proxy \subseteq ToSet(doc)
              /\ left \subseteq toBeDeleted
              /\ target # None => target \in left

\* Between deployments and deletions there is no target.
NoTarget == pc \in {"idle", "down", "mark", "config", "proxy"} => target = None

IInv == Frozen /\ Guarded /\ Decided /\ Removes /\ NoTarget
-----------------------------------------------------------------------------
\* A step of the cluster, which Reconcile does not notice.
LEMMA Unseen ==
  ASSUME IInv,
         proxy' \subseteq proxy,
         UNCHANGED <<document, pc, doc, toBeDeleted, removing, left, target>>
  PROVE  IInv'
  BY DEF IInv, Frozen, Guarded, Decided, Removes, NoTarget, document

\* A step of Reconcile before it deploys the proxy.
LEMMA Building ==
  ASSUME IInv, pc \in Acting, ~removing, pc' \in Acting,
         pc' \in {"config", "proxy"} => target' = None,
         UNCHANGED <<document, doc, toBeDeleted, removing>>
  PROVE  IInv'
  BY DEF IInv, Frozen, Guarded, Decided, Removes, NoTarget, document, Acting

\* A step of Reconcile after that.
LEMMA Removing ==
  ASSUME IInv, removing, pc' \in RemovalPlace,
         left' \subseteq left, target' # None => target' \in left',
         UNCHANGED <<document, doc, toBeDeleted, removing, proxy>>
  PROVE  IInv'
<1>1. pc \in Acting /\ pc' \in Acting
      /\ pc' \notin {"idle", "down", "mark", "config", "proxy"}
  BY DEF IInv, Removes, RemovalPlace, Acting
<1> QED BY <1>1 DEF IInv, Frozen, Guarded, Decided, Removes, NoTarget, document

\* Reconcile ends, or its process does.
LEMMA Leaving ==
  ASSUME IInv, NEW place \in {"idle", "down"}, GoTo(place),
         spec' = spec, queued' => queued
  PROVE  IInv'
<1>1. pc' \notin Acting /\ pc' # "mark"
  BY DEF GoTo, Acting
<1>2. removing' = FALSE /\ target' = None
  BY DEF GoTo
<1> QED BY <1>1, <1>2 DEF IInv, Frozen, Guarded, Decided, Removes, NoTarget
-----------------------------------------------------------------------------
\* One step for each action of Reconcile.
LEMMA ReconcileKeeps == IInv /\ Reconcile => IInv'
<1> SUFFICES ASSUME IInv, Reconcile PROVE IInv'
  OBVIOUS
<1>a. removing => pc \in RemovalPlace
  BY DEF IInv, Removes
<1>1. CASE Skip
  BY <1>1 DEF Skip, IInv, Frozen, Guarded, Decided, Removes, NoTarget, plan,
              loops, Acting, cluster
<1>2. CASE Begin
  <2>1. ~removing /\ target = None
    BY <1>2, <1>a DEF Begin, RemovalPlace, IInv, NoTarget
  <2>2. /\ pc' = "mark" /\ doc' = spec /\ spec' = spec /\ ~queued'
        /\ available' = available /\ available # "false" /\ spec # None
        /\ toBeDeleted' = existing' \ ToSet(spec)
        /\ removing' = removing /\ target' = target
    BY <1>2 DEF Begin, loops
  <2> QED BY <2>1, <2>2
          DEF IInv, Frozen, Guarded, Decided, Removes, NoTarget, Acting
<1>3. CASE Mark
  <2>1. ~removing /\ target = None
    BY <1>3, <1>a DEF Mark, RemovalPlace, IInv, NoTarget
  <2> QED BY <1>3, <2>1
          DEF Mark, IInv, Frozen, Guarded, Decided, Removes, NoTarget, plan, loops
<1>4. CASE MarkConflict
  BY <1>4, Leaving DEF MarkConflict, document
<1>5. CASE Refuse
  BY <1>5, Leaving DEF Refuse, document, SetCondition
<1>6. CASE Report \/ Fail \/ AgreementFails
  BY <1>6, Leaving DEF Report, Fail, AgreementFails, SetCondition
<1>7. CASE Plan
  <2>1. ~removing /\ target = None /\ pc \in Acting
    BY <1>7, <1>a DEF Plan, RemovalPlace, IInv, NoTarget, Acting
  <2>2. pc' \in {"proxy", "agree", "deploy"} /\ (pc' = "proxy" => target' = None)
    BY <1>7, <2>1 DEF Plan
  <2> QED BY <1>7, <2>1, <2>2, Building DEF Plan, Acting
<1>8. CASE Deploy \/ Lookup \/ Service
  BY <1>8, <1>a, Building
     DEF Deploy, Lookup, Service, RemovalPlace, Acting, plan, loops
<1>9. CASE Ready
  BY <1>9, <1>a, Building DEF Ready, RemovalPlace, Acting
<1>10. CASE Agree
  BY <1>10, <1>a, Building DEF Agree, RemovalPlace, Acting, plan
<1>11. CASE Link
  <2>1. pc' \in {"link", "newService"}
    BY <1>11 DEF Link, NextLink
  <2> QED BY <1>11, <1>a, <2>1, Building DEF Link, RemovalPlace, Acting, plan
<1>12. CASE Find
  <2>1. CASE removing
    BY <1>12, <2>1, Removing DEF Find, RemovalPlace, plan, IInv, Removes, cluster
  <2>2. CASE ~removing
    BY <1>12, <2>2, Building DEF Find, Acting, plan
  <2> QED BY <2>1, <2>2
<1>13. CASE Unserve
  <2>1. CASE removing
    BY <1>13, <2>1, Removing DEF Unserve, RemovalPlace, plan, loops, IInv, Removes
  <2>2. CASE ~removing
    BY <1>13, <2>2, Building DEF Unserve, Acting, plan
  <2> QED BY <2>1, <2>2
<1>14. CASE Undeploy
  <2>1. CASE removing
    BY <1>14, <2>1, Removing DEF Undeploy, RemovalPlace, plan, loops, IInv, Removes
  <2>2. CASE ~removing
    BY <1>14, <2>2, Building DEF Undeploy, Acting, plan
  <2> QED BY <2>1, <2>2
<1>15. CASE Gone
  <2>1. CASE removing
    BY <1>15, <2>1, Removing DEF Gone, RemovalPlace, plan, cluster
  <2>2. CASE ~removing
    BY <1>15, <2>2, Building DEF Gone, Acting, plan
  <2> QED BY <2>1, <2>2
<1>16. CASE SeedMap \/ Seed \/ SeedWait \/ Seeded
  BY <1>16, <1>a, Building
     DEF SeedMap, Seed, SeedWait, Seeded, RemovalPlace, Acting, plan
<1>17. CASE New \/ NewLookup
  BY <1>17, <1>a, Building DEF New, NewLookup, RemovalPlace, Acting, plan
<1>18. CASE NewReady
  <2>1. pc' \in {"newReady", "link", "newService"}
    BY <1>18 DEF NewReady, NextLink
  <2> QED BY <1>18, <1>a, <2>1, Building DEF NewReady, RemovalPlace, Acting, plan
<1>19. CASE NewService
  <2>1. pc' \in {"newService", "deploy"}
    BY <1>19 DEF NewService
  <2> QED BY <1>19, <1>a, <2>1, Building DEF NewService, RemovalPlace, Acting, plan
<1>20. CASE Proxy
  <2>1. /\ spec' = spec /\ inProgress' = inProgress /\ available' = available
        /\ queued' = queued /\ doc' = doc /\ toBeDeleted' = toBeDeleted
        /\ target' = target /\ target = None
    BY <1>20 DEF Proxy, StartRemoval, document, IInv, NoTarget
  <2>2. /\ removing' /\ left' = toBeDeleted /\ proxy' = ToSet(doc)
        /\ pc = "proxy" /\ pc' = "remove"
    BY <1>20 DEF Proxy, SaveProxy, StartRemoval
  <2> QED BY <2>1, <2>2 DEF IInv, Frozen, Guarded, Decided, Removes, NoTarget,
                            RemovalPlace, Acting
<1>21. CASE NextRemoval
  <2>1. CASE removing
    <3>1. target' # None => target' \in left'
      BY <1>21, <2>1 DEF NextRemoval, IInv, Removes
    <3> QED BY <1>21, <2>1, <3>1, Removing
            DEF NextRemoval, RemovalPlace, plan, cluster
  <2>2. CASE ~removing
    BY <1>21, <2>2, Building DEF NextRemoval, Acting, plan
  <2> QED BY <2>1, <2>2
<1>22. CASE Unlink
  <2>1. CASE removing
    BY <1>22, <2>1, Removing
       DEF Unlink, RemovalPlace, plan, loops, cluster, IInv, Removes
  <2>2. CASE ~removing
    BY <1>22, <2>2, Building DEF Unlink, Acting, plan
  <2> QED BY <2>1, <2>2
<1> QED BY <1>1, <1>2, <1>3, <1>4, <1>5, <1>6, <1>7, <1>8, <1>9, <1>10, <1>11,
           <1>12, <1>13, <1>14, <1>15, <1>16, <1>17, <1>18, <1>19, <1>20, <1>21,
           <1>22 DEF Reconcile

\* A new document, or none any more; Reconcile is not acting, or the webhook
\* would refuse it.
LEMMA UserKeeps == IInv /\ User => IInv'
<1> SUFFICES ASSUME IInv, User PROVE IInv'
  OBVIOUS
<1>1. ~inProgress \/ spec = None
  BY DEF User, Create, Edit, Delete
<1>2. /\ queued' /\ available' \in {available, "unset"} /\ pc' = pc
      /\ doc' = doc /\ toBeDeleted' = toBeDeleted /\ removing' = removing
      /\ target' = target
  BY DEF User, Create, Edit, Ask, Delete, plan, loops
<1>3. pc \notin Acting
  BY <1>1 DEF IInv, Frozen, Guarded
<1>4. ~removing
  BY <1>3 DEF IInv, Removes, RemovalPlace, Acting
<1> QED BY <1>2, <1>3, <1>4 DEF IInv, Frozen, Guarded, Decided, Removes, NoTarget

\* The garbage collector may take the configuration of the proxy away.
LEMMA CollectionKeeps == IInv /\ GarbageCollection => IInv'
<1> SUFFICES ASSUME IInv, GarbageCollection PROVE IInv'
  OBVIOUS
<1>1. proxy' \subseteq proxy
  BY DEF GarbageCollection, CollectReplicaSet, CollectJob, CollectService,
         CollectMap, CollectProxy
<1>2. UNCHANGED <<document, pc, doc, toBeDeleted, removing, left, target>>
  BY DEF GarbageCollection, CollectReplicaSet, CollectJob, CollectService,
         CollectMap, CollectProxy, plan, loops
<1> QED BY <1>1, <1>2, Unseen

THEOREM Inductive == IInv /\ [Next]_vars => IInv'
<1> SUFFICES ASSUME IInv, [Next]_vars PROVE IInv'
  OBVIOUS
<1>1. CASE User
  BY <1>1, UserKeeps
<1>2. CASE Reconcile
  BY <1>2, ReconcileKeeps
<1>3. CASE Unnoticed
  BY <1>3, Leaving DEF Unnoticed, MarkFails, ReportFails, document
<1>4. CASE PodEvents
  BY <1>4, Unseen DEF PodEvents, PodCreated, PodStarts, PodEnds, plan, loops
<1>5. CASE JobEvents
  BY <1>5, Unseen DEF JobEvents, JobSucceeds, JobFails, JobExpires, plan, loops
<1>6. CASE Disruption
  BY <1>6, Unseen DEF Disruption, Disrupt, plan, loops
<1>7. CASE Crash
  BY <1>7, Leaving DEF Crash
<1>8. CASE Restart
  BY <1>8 DEF Restart, IInv, Frozen, Guarded, Decided, Removes, NoTarget,
              RemovalPlace, Acting, plan, loops
<1>9. CASE UNCHANGED vars
  BY <1>9, Unseen DEF vars, plan, loops, cluster
<1>10. CASE GarbageCollection
  BY <1>10, CollectionKeeps
<1> QED BY <1>1, <1>2, <1>3, <1>4, <1>5, <1>6, <1>7, <1>8, <1>9, <1>10 DEF Next

LEMMA Initially == Init => IInv
  BY DEF Init, IInv, Frozen, Guarded, Decided, Removes, NoTarget, Acting

(* Every reachable state satisfies the inductive invariant.                *)
THEOREM Invariance == Spec => []IInv
  BY Initially, Inductive, PTL DEF Spec

(* From its first status update to its last, Reconcile works with the      *)
(* stored document.                                                        *)
THEOREM DocumentFrozen == Spec => []Frozen
<1>1. IInv => Frozen
  BY DEF IInv
<1> QED BY <1>1, Invariance, PTL

(* Whatever fails or vanishes under the operator, it takes down for good   *)
(* only replicas that the stored document does not list, and only after    *)
(* the proxy was told.                                                     *)
THEOREM SafeRemoval == Spec => []RemovalIsSafe
<1>1. IInv => RemovalIsSafe
  <2> SUFFICES ASSUME IInv, removing PROVE RemovalIsSafe
    BY DEF RemovalIsSafe
  <2>1. pc \in RemovalPlace /\ proxy \subseteq ToSet(doc) /\ left \subseteq toBeDeleted
        /\ (target # None => target \in left)
    BY DEF IInv, Removes
  <2>2. pc \in Acting
    BY <2>1 DEF RemovalPlace, Acting
  <2>3. spec = doc /\ toBeDeleted \cap ToSet(doc) = {}
    BY <2>2 DEF IInv, Frozen, Decided
  <2> QED BY <2>1, <2>3 DEF RemovalIsSafe
<1> QED BY <1>1, Invariance, PTL
-----------------------------------------------------------------------------
(* The refinement.  The work, as the gate sees it.                         *)

Working == IF pc \in Acting THEN doc ELSE None

LEMMA GateInitially == Init => Gate!Init
  BY DEF Init, Gate!Init, Acting

LEMMA Invisible ==
  ASSUME UNCHANGED <<spec, inProgress, available>>, Working' = Working
  PROVE  UNCHANGED Gate!vars
  BY DEF Working, Gate!vars

\* The steps between the first status update and the last.
LEMMA Silent ==
  ASSUME pc \in Acting, pc' \in Acting, UNCHANGED <<document, doc>>
  PROVE  UNCHANGED Gate!vars
  BY Invisible DEF Working, document

LEMMA UserAtGate == IInv /\ User => Gate!Next
<1> SUFFICES ASSUME IInv, User PROVE Gate!Next
  OBVIOUS
<1>1. (~inProgress \/ spec = None) /\ pc' = pc
  BY DEF User, Create, Edit, Ask, Delete
<1>2. pc \notin Acting
  BY <1>1 DEF IInv, Frozen, Guarded
<1>3. ASSUME NEW d \in Docs, Create(d) PROVE Gate!Next
  <2>1. d # None
    BY ReplicasAssumption
  <2>2. Gate!Create(d)
    BY <1>2, <1>3, <2>1 DEF Create, Ask, Gate!Create
  <2> QED BY <2>2 DEF Gate!Next
<1>4. ASSUME NEW d \in Docs, Edit(d) PROVE Gate!Next
  <2>1. d # None
    BY ReplicasAssumption
  <2>2. Gate!Edit(d)
    BY <1>2, <1>4, <2>1 DEF Edit, Ask, Gate!Edit
  <2> QED BY <2>2 DEF Gate!Next
<1>5. CASE Delete
  <2>1. Gate!Delete
    BY <1>2, <1>5 DEF Delete, Gate!Delete
  <2> QED BY <2>1 DEF Gate!Next
<1> QED BY <1>3, <1>4, <1>5 DEF User

LEMMA ReconcileAtGate == IInv /\ Reconcile => [Gate!Next]_(Gate!vars)
<1> SUFFICES ASSUME IInv, Reconcile PROVE [Gate!Next]_(Gate!vars)
  OBVIOUS
<1>1. CASE Skip
  BY <1>1, Invisible DEF Skip, Working, plan
<1>2. CASE Begin
  BY <1>2, Invisible DEF Begin, Working, Acting
<1>3. CASE Mark
  <2>1. Gate!Start
    BY <1>3 DEF Mark, IInv, Guarded, Gate!Start, plan, Acting
  <2> QED BY <2>1 DEF Gate!Next
<1>4. CASE MarkConflict
  BY <1>4, Invisible DEF MarkConflict, GoTo, Working, Acting, document
<1>5. CASE Refuse
  <2>1. CASE queued
    BY <1>5, <2>1, Invisible DEF Refuse, GoTo, Working, Acting, document
  <2>2. CASE ~queued
    <3>1. Gate!Refuse
      BY <1>5, <2>2
         DEF Refuse, SetCondition, GoTo, IInv, Guarded, Gate!Refuse, Acting
    <3> QED BY <3>1 DEF Gate!Next
  <2> QED BY <2>1, <2>2
<1>6. ASSUME NEW o \in {"true", "false"}, SetCondition(o), pc \in Acting, GoTo("idle")
      PROVE  Gate!Next
  <2>1. doc # None
    BY <1>6 DEF IInv, Frozen, Guarded
  <2>2. Gate!Report(o)
    BY <1>6, <2>1 DEF SetCondition, GoTo, Gate!Report, Acting
  <2> QED BY <2>2 DEF Gate!Next
<1>7. CASE Report
  BY <1>6, <1>7 DEF Report, Acting
<1>8. CASE Fail
  BY <1>6, <1>8 DEF Fail, MayFail, Acting
<1>9. CASE AgreementFails
  BY <1>6, <1>9 DEF AgreementFails, Acting
<1>10. CASE Plan \/ Deploy \/ Lookup \/ Service \/ Ready \/ Agree
  BY <1>10, Silent
     DEF Plan, Deploy, Lookup, Service, Ready, Agree, Acting, plan
<1>11. CASE Link \/ NewReady
  BY <1>11, Silent DEF Link, NewReady, NextLink, Acting, plan
<1>12. CASE Find \/ Unserve \/ Undeploy
  BY <1>12, Silent DEF Find, Unserve, Undeploy, Acting, plan
<1>16. CASE Gone
  <2>1. /\ pc = "gone" /\ pc' \in {"remove", "seedMap"}
        /\ doc' = doc /\ UNCHANGED document
    BY <1>16 DEF Gone, plan
  <2> QED BY <2>1, Silent DEF Acting
<1>13. CASE SeedMap \/ Seed \/ SeedWait \/ Seeded
  BY <1>13, Silent DEF SeedMap, Seed, SeedWait, Seeded, Acting, plan
<1>14. CASE New \/ NewLookup \/ NewService
  BY <1>14, Silent DEF New, NewLookup, NewService, Acting, plan
<1>15. CASE Proxy \/ NextRemoval \/ Unlink
  BY <1>15, Silent DEF Proxy, StartRemoval, NextRemoval, Unlink, Acting, plan
<1> QED BY <1>1, <1>2, <1>3, <1>4, <1>5, <1>7, <1>8, <1>9, <1>10, <1>11, <1>12,
           <1>13, <1>14, <1>15, <1>16 DEF Reconcile

THEOREM Simulation == IInv /\ [Next]_vars => [Gate!Next]_(Gate!vars)
<1> SUFFICES ASSUME IInv, [Next]_vars PROVE [Gate!Next]_(Gate!vars)
  OBVIOUS
<1>a. pc \in Acting => doc # None
  BY DEF IInv, Frozen, Guarded
<1>1. CASE User
  BY <1>1, UserAtGate
<1>2. CASE Reconcile
  BY <1>2, ReconcileAtGate
<1>3. ASSUME NEW place \in {"idle", "down"}, GoTo(place),
             UNCHANGED <<spec, inProgress, available>>
      PROVE  [Gate!Next]_(Gate!vars)
  <2>1. CASE pc \in Acting
    <3>1. Gate!Abandon
      BY <1>3, <1>a, <2>1 DEF GoTo, Gate!Abandon, Acting
    <3> QED BY <3>1 DEF Gate!Next
  <2>2. CASE pc \notin Acting
    BY <1>3, <2>2, Invisible DEF GoTo, Working, Acting
  <2> QED BY <2>1, <2>2
<1>4. CASE Unnoticed
  BY <1>3, <1>4 DEF Unnoticed, MarkFails, ReportFails, document
<1>5. CASE Crash
  BY <1>3, <1>5 DEF Crash
<1>6. CASE Restart
  BY <1>6, Invisible DEF Restart, Working, Acting, plan
<1>7. CASE PodEvents
  BY <1>7, Invisible
     DEF PodEvents, PodCreated, PodStarts, PodEnds, document, plan, Working
<1>8. CASE JobEvents
  BY <1>8, Invisible
     DEF JobEvents, JobSucceeds, JobFails, JobExpires, document, plan, Working
<1>9. CASE Disruption
  BY <1>9, Invisible DEF Disruption, Disrupt, document, plan, Working
<1>10. CASE UNCHANGED vars
  BY <1>10, Invisible DEF vars, document, plan, Working
<1>11. CASE GarbageCollection
  BY <1>11, Invisible
     DEF GarbageCollection, CollectReplicaSet, CollectJob, CollectService,
         CollectMap, CollectProxy, document, plan, Working
<1> QED BY <1>1, <1>2, <1>4, <1>5, <1>6, <1>7, <1>8, <1>9, <1>10, <1>11 DEF Next

(* What Reconcile does to the cluster is, at the gate, one piece of work   *)
(* on a document that nobody else may touch.                               *)
THEOREM Refinement == Spec => ImplementsGate
  BY GateInitially, Simulation, Invariance, PTL DEF Spec, ImplementsGate, Gate!Spec

(* A document that was reported as failing is not touched by Reconcile any *)
(* more, nor changed by anybody, until it is deleted, although the         *)
(* setCondition of a reconcile that is under way would set Available       *)
(* again.                                                                  *)
THEOREM FailureStays == Spec => Gate!FailingIsFinal
  BY Refinement, Gate!FailureIsFinal, PTL DEF ImplementsGate
-----------------------------------------------------------------------------
(* The proxy.  It is told before anything is removed, and what it was told *)
(* is collected only with the document, provided the garbage of an earlier *)
(* document has gone by the time a document is made.                       *)

\* No error was ignored, and users wait or have nothing to wait for.
Heard == lost = 0 /\ (Patient \/ deletes = 0)

\* What the configuration of the proxy lists, while there is a document.
Told ==
  /\ deletes = 0 => orphans = {}
  /\ (Patient \/ deletes = 0) /\ spec # None => orphans = {}
  /\ spec = None => available = "unset"
  /\ Heard /\ removing => proxy = ToSet(doc)
  /\ Heard /\ Settled => proxy = ToSet(spec)

\* Steps of the cluster.
LEMMA ToldUnseen ==
  ASSUME Told, UNCHANGED <<document, proxy, pc, plan, deletes, lost>>,
         orphans' \subseteq orphans
  PROVE  Told'
  BY DEF Told, Heard, Settled, document, plan

\* Steps of Reconcile from its first status update to its last.
LEMMA ToldWithin ==
  ASSUME TypeOK, Told, pc' # "idle",
         UNCHANGED <<document, proxy, doc, removing, deletes>>,
         orphans' \subseteq orphans, lost' = lost \/ Lose
  PROVE  Told'
<1>1. Heard' => Heard
  BY DEF Heard, Lose, TypeOK
<1> QED BY <1>1 DEF Told, Settled, document

\* Steps that end a reconcile, without success.
LEMMA ToldLeaving ==
  ASSUME TypeOK, Told, NEW place \in {"idle", "down"}, GoTo(place),
         UNCHANGED <<spec, proxy, orphans, deletes>>,
         \/ available' = "false" /\ spec # None
         \/ available' = available /\ (place = "down" \/ queued')
         \/ available' = available /\ Lose
  PROVE  Told'
<1>1. removing' = FALSE /\ pc' = place
  BY DEF GoTo
<1>2. Settled' => Lose
  BY <1>1 DEF Settled
<1>3. Lose => ~Heard'
  BY DEF Lose, Heard, TypeOK
<1> QED BY <1>1, <1>2, <1>3 DEF Told

LEMMA ReconcileTells == TInv /\ IInv /\ Told /\ Reconcile => Told'
<1> SUFFICES ASSUME TInv, IInv, Told, Reconcile PROVE Told'
  OBVIOUS
<1>t. TypeOK /\ Adding
  BY DEF TInv, Sound
<1> USE DEF document, cluster, volumes, plan, loops, bounds
<1>a. pc \in Acting => spec # None
  BY DEF IInv, Guarded
<1>1. CASE Skip
  BY <1>1 DEF Skip, Told, Heard, Settled
<1>2. CASE Begin
  BY <1>2 DEF Begin, Told, Heard, Settled, IInv, Removes, RemovalPlace
<1>3. CASE Mark
  BY <1>3 DEF Mark, Told, Heard, Settled
<1>4. CASE MarkConflict
  BY <1>4, <1>t, ToldLeaving DEF MarkConflict
<1>5. CASE Refuse
  BY <1>5, <1>t, ToldLeaving DEF Refuse, SetCondition, IInv, Guarded
<1>6. CASE Fail
  BY <1>6, <1>a, <1>t, ToldLeaving DEF Fail, MayFail, Acting, SetCondition
<1>7. CASE AgreementFails
  BY <1>7, <1>a, <1>t, ToldLeaving DEF AgreementFails, Acting, SetCondition
<1>8. CASE Report
  <2>1. /\ pc = "report" /\ removing /\ spec # None /\ spec' = spec /\ spec = doc
        /\ pc' = "idle" /\ removing' = FALSE
        /\ UNCHANGED <<proxy, orphans, deletes, lost>>
    BY <1>8, <1>a, <1>t DEF Report, SetCondition, GoTo, Adding, IInv, Frozen, Acting
  <2> QED BY <2>1 DEF Told, Heard
<1>9. CASE Plan \/ Deploy \/ Lookup \/ Service \/ Ready \/ Agree
  BY <1>9, <1>t, ToldWithin
     DEF Plan, Deploy, Lookup, Service, Ready, Agree, CreateReplicaSet
<1>10. CASE Link \/ NewReady
  BY <1>10, <1>t, ToldWithin DEF Link, NewReady, NextLink
<1>11. CASE Find \/ Unserve \/ Undeploy \/ Gone
  BY <1>11, <1>t, ToldWithin DEF Find, Unserve, Undeploy, Gone
<1>12. CASE SeedMap \/ Seed \/ SeedWait \/ Seeded
  BY <1>12, <1>t, ToldWithin DEF SeedMap, Seed, SeedWait, Seeded, DeleteSeedMap
<1>13. CASE New \/ NewLookup \/ NewService
  BY <1>13, <1>t, ToldWithin DEF New, NewLookup, NewService, CreateReplicaSet
<1>14. CASE Proxy
  <2>1. /\ proxy' = ToSet(doc) /\ doc' = doc /\ orphans' \subseteq orphans
        /\ pc' = "remove" /\ UNCHANGED <<document, deletes, lost>>
    BY <1>14 DEF Proxy, SaveProxy, StartRemoval
  <2> QED BY <2>1 DEF Told, Heard, Settled
<1>15. CASE NextRemoval
  <2>1. removing
    BY <1>15, <1>t DEF NextRemoval, Adding
  <2> QED BY <1>15, <2>1 DEF NextRemoval, Told, Heard, Settled
<1>16. CASE Unlink
  BY <1>16, <1>t, ToldWithin DEF Unlink
<1> QED BY <1>1, <1>2, <1>3, <1>4, <1>5, <1>6, <1>7, <1>8, <1>9, <1>10, <1>11,
           <1>12, <1>13, <1>14, <1>15, <1>16 DEF Reconcile

LEMMA UserTells == TypeOK /\ IInv /\ Told /\ User => Told'
<1> SUFFICES ASSUME TypeOK, IInv, Told, User PROVE Told'
  OBVIOUS
<1> USE DEF document, cluster, volumes, plan, loops
<1>1. queued' /\ UNCHANGED <<proxy, pc, plan, lost>>
  BY DEF User, Create, Edit, Ask, Delete
<1>2. ~removing
  <2>1. ~inProgress \/ spec = None
    BY DEF User, Create, Edit, Delete
  <2>2. pc \notin Acting
    BY <2>1 DEF IInv, Frozen, Guarded
  <2> QED BY <2>2 DEF IInv, Removes, RemovalPlace, Acting
<1>3. ASSUME NEW d \in Docs, Create(d) PROVE Told'
  <2>1. spec' = d /\ d # None /\ UNCHANGED <<available, orphans, deletes>>
        /\ (Patient => orphans = {})
    BY <1>3, ReplicasAssumption DEF Create, Ask, CleanedUp
  <2> QED BY <1>1, <1>2, <2>1 DEF Told, Settled
<1>4. ASSUME NEW d \in Docs, Edit(d) PROVE Told'
  <2>1. spec' = d /\ d # None /\ spec # None /\ UNCHANGED <<orphans, deletes>>
    BY <1>4, ReplicasAssumption DEF Edit, Ask
  <2> QED BY <1>1, <1>2, <2>1 DEF Told, Settled
<1>5. CASE Delete
  <2>1. spec' = None /\ available' = "unset" /\ deletes' # 0
    BY <1>5 DEF Delete, TypeOK
  <2> QED BY <1>1, <1>2, <2>1 DEF Told, Settled
<1> QED BY <1>3, <1>4, <1>5 DEF User

THEOREM TellsInductive == TInv /\ IInv /\ Told /\ [Next]_vars => Told'
<1> SUFFICES ASSUME TInv, IInv, Told, [Next]_vars PROVE Told'
  OBVIOUS
<1>t. TypeOK
  BY DEF TInv
<1> USE DEF bounds, cluster
<1>1. CASE User
  BY <1>1, <1>t, UserTells
<1>2. CASE Reconcile
  BY <1>2, ReconcileTells
<1>3. CASE Unnoticed
  BY <1>3, <1>t, ToldLeaving DEF Unnoticed, MarkFails, ReportFails, document
<1>4. CASE PodEvents
  BY <1>4, ToldUnseen DEF PodEvents, PodCreated, PodStarts, PodEnds
<1>5. CASE JobEvents
  BY <1>5, ToldUnseen DEF JobEvents, JobSucceeds, JobFails, JobExpires
<1>6. CASE GarbageCollection
  <2>1. CASE CollectProxy
    <3>1. orphans # {} /\ orphans' \subseteq orphans
          /\ UNCHANGED <<document, pc, plan, deletes, lost>>
      BY <2>1 DEF CollectProxy
    <3>2. deletes # 0 /\ (Patient => spec = None)
      BY <3>1 DEF Told
    <3>3. Heard => spec = None /\ ~Settled /\ ~removing
      BY <3>2 DEF Heard, Told, Settled, IInv, Removes, RemovalPlace, Guarded, Acting
    <3> QED BY <3>1, <3>3 DEF Told, Heard, Settled, document, plan
  <2>2. CASE ~CollectProxy
    BY <1>6, <2>2, ToldUnseen DEF GarbageCollection, CollectReplicaSet, CollectJob,
          CollectService, CollectMap
  <2> QED BY <2>1, <2>2
<1>7. CASE Disruption
  BY <1>7, ToldUnseen DEF Disruption, Disrupt
<1>8. CASE Crash
  BY <1>8, <1>t, ToldLeaving DEF Crash
<1>9. CASE Restart
  BY <1>9 DEF Restart, Told, Heard, Settled, plan
<1>10. CASE UNCHANGED vars
  BY <1>10, ToldUnseen DEF vars
<1> QED BY <1>1, <1>2, <1>3, <1>4, <1>5, <1>6, <1>7, <1>8, <1>9, <1>10 DEF Next

(* However often the operator crashes and pods vanish, the proxy lists     *)
(* just the replicas asked for when the operator is done.                  *)
THEOREM ProxyStaysCurrent == Spec => []ProxyIsCurrent
<1>1. Init => Told
  BY DEF Init, Told, Heard, Settled
<1>2. Told => ProxyIsCurrent
  BY DEF Told, Heard, ProxyIsCurrent
<1>3. TInv /\ IInv /\ Told /\ [Next]_vars => Told'
  BY TellsInductive
<1> QED BY <1>1, <1>2, <1>3, Typed, Invariance, PTL DEF Spec
=============================================================================
