----------------------------- MODULE ProxyProofs -----------------------------
(***************************************************************************)
(* Theorems about Proxy, for any documents, base configurations, pods and  *)
(* number of crashes.                                                      *)
(*                                                                         *)
(* The objects agree with the document because the document stands still   *)
(* while deployProxy works (Working), and a reconcile does not end well    *)
(* before it has been through all its steps (Agreed).  A restarted proxy   *)
(* has the saved configuration because the annotation of a restart has     *)
(* never been used before (Stamps), and because a reconcile that stops     *)
(* between the saving and the restart leaves a request or a failure behind *)
(* (Loading).                                                              *)
(***************************************************************************)
EXTENDS Proxy, TLAPS

\* What deployProxy has constructed is made from the stored document.
Working ==
  pc # "idle" =>
    /\ inProgress /\ ~failed
    /\ yaml # None /\ template # None
    /\ yaml.replicas = doc.replicas
    /\ template = [port |-> yaml.base.port, settings |-> doc.settings]

\* Each step has done its part.
Agreed ==
  /\ pc \in {"deploy", "service", "restart", "done"} => configMap = yaml
  /\ pc \in {"service", "restart", "done"} =>
       deployment # None /\ deployment.template = template
  /\ ObjectsAgree

\* The configuration comes before the deployment, and that before its pods.
Ordered ==
  /\ deployment # None => configMap # None
  /\ \A i \in PodId : pods[i] # None => deployment # None

\* The time only goes forward.
Stamps ==
  /\ deployment # None => deployment.stamp <= restarts
  /\ \A i \in PodId : pods[i] # None => pods[i].revision.stamp <= restarts

\* No pod of a restarted deployment has an older configuration.
Fresh ==
  deployment # None /\ deployment.stamp # 0 =>
    \A i \in PodId : pods[i] # None /\ pods[i].revision = deployment
                       => pods[i].yaml = configMap

Loading ==
  \/ Fresh
  \/ pc \in {"save", "deploy"}
  \/ pc = "idle" /\ (queued \/ failed)

\* Without a crash only createProxyDeployment itself sees the deployment
\* without its service, or the document reports a failure.
Serving ==
  crashes = 0 /\ ~failed /\ deployment # None /\ pc # "service"
    => service # None

IInv == TypeOK /\ Working /\ Agreed /\ Ordered /\ Stamps /\ Loading /\ Serving
-----------------------------------------------------------------------------
(* What deployProxy works with. *)
LEMMA Materials ==
  ASSUME TypeOK, Working, pc # "idle"
  PROVE  yaml \in Yaml /\ template \in Template
  BY DEF TypeOK, Working

(* The specification keeps the types of its variables.                     *)
LEMMA TypeStep ==
  ASSUME TypeOK, Working, Agreed, Ordered, [Next]_vars
  PROVE  TypeOK'
<1> USE ProxyAssumption DEF TypeOK, document, objects, locals
<1>1. CASE Edit
  BY <1>1 DEF Edit
<1>2. CASE EditBase
  BY <1>2 DEF EditBase
<1>3. CASE Skip
  BY <1>3 DEF Skip
<1>4. CASE Begin
  <2>1. yaml' \in Yaml /\ template' \in Template
    BY <1>4 DEF Begin, Construct, PodTemplate, Yaml, Template, Doc, Base
  <2> QED
    BY <1>4, <2>1 DEF Begin
<1>5. CASE Save
  BY <1>5 DEF Save
<1>6. CASE CreateDeployment
  BY <1>6, Materials DEF CreateDeployment, Revision
<1>7. CASE CreateService
  BY <1>7, Materials DEF CreateService, Template
<1>8. CASE UpdateDeployment
  <2>1. deployment' \in Revision
    BY <1>8, Materials DEF UpdateDeployment, Revision
  <2>2. pc' \in {"restart", "done"}
    BY <1>8 DEF UpdateDeployment
  <2> QED
    BY <1>8, <2>1, <2>2 DEF UpdateDeployment
<1>9. CASE Restart
  <2>1. deployment \in Revision
    BY <1>9 DEF Restart, Agreed
  <2>2. deployment' \in Revision
    BY <1>9, <2>1 DEF Restart, Revision
  <2> QED
    BY <1>9, <2>2 DEF Restart
<1>10. CASE Report
  BY <1>10 DEF Report, Leave
<1>11. CASE Fail
  BY <1>11 DEF Fail, Leave
<1>12. CASE Crash
  <2>1. crashes' \in Nat /\ queued' \in BOOLEAN
    BY <1>12 DEF Crash
  <2> QED
    BY <1>12, <2>1 DEF Crash, Leave
<1>13. ASSUME NEW i \in PodId, RollOut(i)
       PROVE  TypeOK'
  <2>1. [revision |-> deployment, yaml |-> configMap] \in Pod
    BY <1>13 DEF RollOut, Pod, Ordered
  <2> QED
    BY <1>13, <2>1 DEF RollOut
<1>14. ASSUME NEW i \in PodId, StartAgain(i)
       PROVE  TypeOK'
  <2>1. configMap \in Yaml
    BY <1>14 DEF StartAgain, Ordered
  <2>2. [pods[i] EXCEPT !.yaml = configMap] \in Pod
    BY <1>14, <2>1 DEF StartAgain, Pod
  <2> QED
    BY <1>14, <2>2 DEF StartAgain
<1>15. CASE UNCHANGED vars
  BY <1>15 DEF vars
<1> QED
  BY <1>1, <1>2, <1>3, <1>4, <1>5, <1>6, <1>7, <1>8, <1>9, <1>10, <1>11,
     <1>12, <1>13, <1>14, <1>15 DEF Next, Reconcile

(* What deployProxy works with belongs to the stored document: no edit is  *)
(* admitted while it works.                                                *)
LEMMA WorkingStep ==
  ASSUME TypeOK, Working, [Next]_vars
  PROVE  Working'
<1> USE DEF Working, document, objects, locals
<1>1. CASE Edit \/ EditBase
  BY <1>1 DEF Edit, EditBase
<1>2. CASE Skip \/ Report \/ Fail \/ Crash
  BY <1>2 DEF Skip, Report, Fail, Crash, Leave
<1>3. CASE Begin
  <2>1. yaml' \in Yaml /\ template' \in Template
    BY <1>3 DEF Begin, Construct, PodTemplate, Yaml, Template, Doc, Base, TypeOK
  <2>2. yaml' # None /\ template' # None
    BY <2>1, ProxyAssumption
  <2>3. yaml'.replicas = doc'.replicas
        /\ template' = [port |-> yaml'.base.port, settings |-> doc'.settings]
    BY <1>3 DEF Begin, Construct, PodTemplate
  <2> QED
    BY <1>3, <2>2, <2>3 DEF Begin
<1>4. CASE Save
  BY <1>4 DEF Save
<1>5. CASE CreateDeployment \/ CreateService \/ UpdateDeployment
  BY <1>5 DEF CreateDeployment, CreateService, UpdateDeployment
<1>6. CASE Restart
  BY <1>6 DEF Restart
<1>7. ASSUME NEW i \in PodId, RollOut(i) \/ StartAgain(i)
      PROVE  Working'
  BY <1>7 DEF RollOut, StartAgain
<1>8. CASE UNCHANGED vars
  BY <1>8 DEF vars
<1> QED
  BY <1>1, <1>2, <1>3, <1>4, <1>5, <1>6, <1>7, <1>8 DEF Next, Reconcile

LEMMA OrderedStep ==
  ASSUME TypeOK, Working, Agreed, Ordered, [Next]_vars
  PROVE  Ordered'
<1> USE DEF Ordered, document, objects, locals
<1>1. CASE Edit \/ EditBase
  BY <1>1 DEF Edit, EditBase
<1>2. CASE Skip \/ Begin \/ Report \/ Fail \/ Crash
  BY <1>2 DEF Skip, Begin, Report, Fail, Crash
<1>3. CASE Save
  BY <1>3 DEF Save, Working
<1>4. CASE CreateDeployment \/ UpdateDeployment
  <2>1. deployment' \in Revision /\ configMap # None
    BY <1>4, Materials DEF CreateDeployment, UpdateDeployment, Revision,
       Agreed, Working
  <2> QED
    BY <1>4, <2>1, ProxyAssumption DEF CreateDeployment, UpdateDeployment
<1>5. CASE CreateService
  BY <1>5 DEF CreateService
<1>6. CASE Restart
  <2>1. deployment # None /\ deployment \in Revision
    BY <1>6 DEF Restart, Agreed, TypeOK
  <2>2. deployment' \in Revision
    BY <1>6, <2>1 DEF Restart, Revision, TypeOK
  <2> QED
    BY <1>6, <2>1, <2>2, ProxyAssumption DEF Restart
<1>7. ASSUME NEW i \in PodId, RollOut(i) \/ StartAgain(i)
      PROVE  Ordered'
  BY <1>7 DEF RollOut, StartAgain, TypeOK
<1>8. CASE UNCHANGED vars
  BY <1>8 DEF vars
<1> QED
  BY <1>1, <1>2, <1>3, <1>4, <1>5, <1>6, <1>7, <1>8 DEF Next, Reconcile

(* A reconcile ends well only after it has brought the objects in line.    *)
LEMMA AgreedStep ==
  ASSUME TypeOK, Working, Agreed, Ordered, [Next]_vars
  PROVE  Agreed'
<1> USE DEF Agreed, ObjectsAgree, Settled, document, objects, locals
<1>1. CASE Edit \/ EditBase
  BY <1>1 DEF Edit, EditBase
<1>2. CASE Skip \/ Fail \/ Crash
  BY <1>2 DEF Skip, Fail, Crash, Leave
<1>3. CASE Begin
  BY <1>3 DEF Begin
<1>4. CASE Save
  BY <1>4 DEF Save
<1>5. CASE CreateDeployment \/ UpdateDeployment
  <2>1. deployment' \in Revision /\ deployment'.template = template
    BY <1>5, Materials DEF CreateDeployment, UpdateDeployment, Revision
  <2>2. deployment' # None
    BY <2>1, ProxyAssumption
  <2> QED
    BY <1>5, <2>1, <2>2 DEF CreateDeployment, UpdateDeployment
<1>6. CASE CreateService
  BY <1>6 DEF CreateService
<1>7. CASE Restart
  <2>1. deployment \in Revision
    BY <1>7 DEF Restart, TypeOK
  <2>2. deployment' \in Revision /\ deployment'.template = deployment.template
    BY <1>7, <2>1 DEF Restart, Revision, TypeOK
  <2> QED
    BY <1>7, <2>2, ProxyAssumption DEF Restart
<1>8. CASE Report
  <2>1. configMap = yaml /\ deployment # None /\ deployment.template = template
    BY <1>8 DEF Report
  <2>2. template.settings = doc.settings /\ template.port = yaml.base.port
    BY <1>8 DEF Report, Working
  <2> QED
    BY <1>8, <2>1, <2>2 DEF Report, Leave, Working
<1>9. ASSUME NEW i \in PodId, RollOut(i) \/ StartAgain(i)
      PROVE  Agreed'
  BY <1>9 DEF RollOut, StartAgain
<1>10. CASE UNCHANGED vars
  BY <1>10 DEF vars
<1> QED
  BY <1>1, <1>2, <1>3, <1>4, <1>5, <1>6, <1>7, <1>8, <1>9, <1>10
     DEF Next, Reconcile

LEMMA StampsStep ==
  ASSUME TypeOK, Working, Agreed, Stamps, [Next]_vars
  PROVE  Stamps'
<1> USE DEF Stamps, document, objects, locals
<1>1. CASE Edit \/ EditBase \/ Skip \/ Begin \/ Save \/ CreateService
           \/ Report \/ Fail \/ Crash
  BY <1>1 DEF Edit, EditBase, Skip, Begin, Save, CreateService, Report, Fail,
     Crash
<1>2. CASE CreateDeployment \/ UpdateDeployment
  <2>1. deployment'.stamp = 0
    BY <1>2 DEF CreateDeployment, UpdateDeployment
  <2>2. UNCHANGED <<pods, restarts>>
    BY <1>2 DEF CreateDeployment, UpdateDeployment
  <2> QED
    BY <2>1, <2>2 DEF TypeOK
<1>3. CASE Restart
  <2>1. deployment \in Revision
    BY <1>3 DEF Restart, Agreed, TypeOK
  <2>2. deployment'.stamp = restarts' /\ restarts' = restarts + 1
    BY <1>3, <2>1 DEF Restart, Revision
  <2>3. ASSUME NEW i \in PodId, pods[i] # None
        PROVE  pods[i].revision.stamp \in Nat
    BY <2>3 DEF TypeOK, Pod, Revision
  <2> QED
    BY <1>3, <2>2, <2>3 DEF Restart, TypeOK
<1>4. ASSUME NEW i \in PodId, RollOut(i)
      PROVE  Stamps'
  BY <1>4 DEF RollOut, TypeOK
<1>5. ASSUME NEW i \in PodId, StartAgain(i)
      PROVE  Stamps'
  <2>1. pods[i] \in Pod
    BY <1>5 DEF StartAgain, TypeOK
  <2>2. pods'[i].revision = pods[i].revision
    BY <1>5, <2>1 DEF StartAgain, TypeOK, Pod
  <2> QED
    BY <1>5, <2>2 DEF StartAgain, TypeOK
<1>6. CASE UNCHANGED vars
  BY <1>6 DEF vars
<1> QED
  BY <1>1, <1>2, <1>3, <1>4, <1>5, <1>6 DEF Next, Reconcile

(* A restart uses an annotation that no pod has; what stops a reconcile    *)
(* between the saving and the restart leaves a request or a failure.       *)
LEMMA LoadingStep ==
  ASSUME TypeOK, Working, Agreed, Ordered, Stamps, Loading, [Next]_vars
  PROVE  Loading'
<1> USE DEF Loading, document, objects, locals
<1>1. CASE Edit \/ EditBase \/ Skip
  BY <1>1 DEF Edit, EditBase, Skip, Fresh
<1>2. CASE Begin \/ Save
  BY <1>2 DEF Begin, Save
<1>3. CASE CreateDeployment \/ UpdateDeployment
  BY <1>3 DEF CreateDeployment, UpdateDeployment, Fresh
<1>4. CASE CreateService \/ Report
  BY <1>4 DEF CreateService, Report, Leave, Fresh
<1>5. CASE Restart
  <2>1. deployment \in Revision
    BY <1>5 DEF Restart, Agreed, TypeOK
  <2>2. deployment'.stamp = restarts + 1
    BY <1>5, <2>1 DEF Restart, Revision
  <2>3. ASSUME NEW i \in PodId, pods[i] # None
        PROVE  pods[i].revision # deployment'
    <3>1. pods[i].revision.stamp \in Nat
      BY <2>3 DEF TypeOK, Pod, Revision
    <3> QED
      BY <2>2, <2>3, <3>1 DEF Stamps, TypeOK
  <2> QED
    BY <1>5, <2>3 DEF Restart, Fresh
<1>6. CASE Fail \/ Crash
  BY <1>6 DEF Fail, Crash, Leave
<1>7. ASSUME NEW i \in PodId, RollOut(i)
      PROVE  Loading'
  BY <1>7 DEF RollOut, Fresh, TypeOK
<1>8. ASSUME NEW i \in PodId, StartAgain(i)
      PROVE  Loading'
  <2>1. pods[i] \in Pod
    BY <1>8 DEF StartAgain, TypeOK
  <2>2. pods'[i].yaml = configMap
    BY <1>8, <2>1 DEF StartAgain, TypeOK, Pod
  <2> QED
    BY <1>8, <2>2 DEF StartAgain, Fresh, TypeOK
<1>9. CASE UNCHANGED vars
  BY <1>9 DEF vars, Fresh
<1> QED
  BY <1>1, <1>2, <1>3, <1>4, <1>5, <1>6, <1>7, <1>8, <1>9 DEF Next, Reconcile

LEMMA ServingStep ==
  ASSUME TypeOK, Working, Agreed, Serving, [Next]_vars
  PROVE  Serving'
<1> USE DEF Serving, document, objects, locals
<1>1. CASE Edit \/ EditBase \/ Skip \/ Begin \/ Save
  BY <1>1 DEF Edit, EditBase, Skip, Begin, Save
<1>2. CASE CreateDeployment \/ UpdateDeployment \/ Restart
  BY <1>2 DEF CreateDeployment, UpdateDeployment, Restart, Working, Agreed
<1>3. CASE CreateService
  <2>1. template.port \in Port
    BY <1>3, Materials DEF CreateService, Template
  <2> QED
    BY <1>3, <2>1, ProxyAssumption DEF CreateService
<1>4. CASE Report \/ Fail \/ Crash
  BY <1>4 DEF Report, Fail, Crash, Leave, TypeOK
<1>5. ASSUME NEW i \in PodId, RollOut(i) \/ StartAgain(i)
      PROVE  Serving'
  BY <1>5 DEF RollOut, StartAgain
<1>6. CASE UNCHANGED vars
  BY <1>6 DEF vars
<1> QED
  BY <1>1, <1>2, <1>3, <1>4, <1>5, <1>6 DEF Next, Reconcile
-----------------------------------------------------------------------------
LEMMA Initially == Init => IInv
<1> SUFFICES ASSUME Init PROVE IInv
  OBVIOUS
<1>1. TypeOK
  BY DEF Init, TypeOK
<1>2. Working /\ Agreed /\ Loading /\ Serving
  BY DEF Init, Working, Agreed, ObjectsAgree, Settled, Loading, Fresh, Serving
<1>3. Ordered /\ Stamps
  BY DEF Init, Ordered, Stamps
<1> QED
  BY <1>1, <1>2, <1>3 DEF IInv

THEOREM Invariant == Spec => []IInv
<1>1. IInv /\ [Next]_vars => IInv'
  BY TypeStep, WorkingStep, OrderedStep, AgreedStep, StampsStep, LoadingStep,
     ServingStep DEF IInv
<1> QED
  BY Initially, <1>1, PTL DEF Spec

(* Every variable keeps its type; in particular no pod of the proxy is     *)
(* started without a configuration.                                        *)
THEOREM TypeCorrect == Spec => []TypeOK
<1>1. IInv => TypeOK
  BY DEF IInv
<1> QED
  BY Invariant, <1>1, PTL

(* When deployProxy has reported success, the saved configuration and the  *)
(* deployment are those of the stored document.                            *)
THEOREM Agreement == Spec => []ObjectsAgree
<1>1. IInv => ObjectsAgree
  BY DEF IInv, Agreed
<1> QED
  BY Invariant, <1>1, PTL

(* Where the last successful reconcile restarted the proxy, each pod of    *)
(* the new revision has read the saved configuration.                      *)
THEOREM RestartedLoads == Spec => []RestartLoads
<1>1. IInv => RestartLoads
  BY DEF IInv, Agreed, ObjectsAgree, Loading, Fresh, RestartLoads, Settled
<1> QED
  BY Invariant, <1>1, PTL

(* Without a crash, a proxy whose deployment succeeded has its service.    *)
THEOREM ServiceServed == Spec => []Served
<1>1. IInv => Served
  BY DEF IInv, Agreed, ObjectsAgree, Serving, Served, Settled
<1> QED
  BY Invariant, <1>1, PTL
=============================================================================
