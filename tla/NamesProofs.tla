----------------------------- MODULE NamesProofs -----------------------------
(***************************************************************************)
(* Theorems about the names and labels of the objects of a document, for   *)
(* all names.                                                              *)
(***************************************************************************)
EXTENDS Names, TLAPS

\* Sequences with a common beginning are equal if their ends are.
LEMMA SamePrefix ==
  ASSUME NEW S, NEW r \in Seq(S), NEW s \in Seq(S), NEW t \in Seq(S),
         r \o s = r \o t
  PROVE  s = t
<1>1. Len(r \o s) = Len(r) + Len(s) /\ Len(r \o t) = Len(r) + Len(t)
  OBVIOUS
<1>2. Len(s) = Len(t)
  BY <1>1
<1>3. ASSUME NEW i \in 1 .. Len(s) PROVE s[i] = t[i]
  <2>1. (r \o s)[Len(r) + i] = s[i]
    OBVIOUS
  <2>2. (r \o t)[Len(r) + i] = t[i]
    BY <1>2
  <2> QED BY <2>1, <2>2
<1> QED BY <1>2, <1>3

(* Within a document, the objects of different claims have different names:*)
(* the replica sets, services and server ids that are named by             *)
(* getReplicaPodName.                                                      *)
THEOREM OneReplicaPerClaim ==
  ASSUME NEW Word,
         NEW doc \in Seq(Word), NEW c \in Seq(Word), NEW d \in Seq(Word),
         ReplicaName(doc, c) = ReplicaName(doc, d)
  PROVE  c = d
  BY SamePrefix DEF ReplicaName

(* A replica has the name of the proxy if, and only if, its claim is called*)
(* "proxy": nothing in the code keeps a user from that.                    *)
THEOREM ProxyApart ==
  ASSUME NEW Word, "proxy" \in Word, NEW doc \in Seq(Word), NEW c \in Seq(Word)
  PROVE  ReplicaName(doc, c) = ProxyName(doc) <=> c = <<"proxy">>
<1>1. <<"proxy">> \in Seq(Word)
  OBVIOUS
<1> QED BY <1>1, SamePrefix DEF ReplicaName, ProxyName

(* Two documents can share the name of a replica: where the name of the    *)
(* document ends and that of the claim begins is not to be seen.           *)
THEOREM NamesRunTogether ==
  ASSUME NEW Word, NEW doc \in Seq(Word), NEW w \in Word, NEW c \in Seq(Word)
  PROVE  ReplicaName(doc, <<w>> \o c) = ReplicaName(doc \o <<w>>, c)
<1>1. <<w>> \in Seq(Word)
  OBVIOUS
<1> QED BY <1>1 DEF ReplicaName

(* getReplicaDeploymentName finds the replica set of every pod, whatever   *)
(* suffix Kubernetes has given it.                                         *)
THEOREM DeploymentOfPod ==
  ASSUME NEW Word, NEW r \in Seq(Word), NEW s \in Word
  PROVE  DeploymentName(PodName(r, s)) = r
<1> DEFINE p == Append(r, s)
<1>1. p \in Seq(Word) /\ Len(p) = Len(r) + 1 /\ \A i \in 1 .. Len(r) : p[i] = r[i]
  OBVIOUS
<1>2. SubSeq(p, 1, Len(p) - 1) = r
  BY <1>1
<1> QED BY <1>2 DEF DeploymentName, PodName

(* The labels of an application, by which validatePods looks for the pods  *)
(* of a document, select no pod of a replica, be it of the document or of  *)
(* another one.                                                            *)
THEOREM AppSelectsNoPod ==
  ASSUME NEW doc, NEW other, NEW replica, NEW claim
  PROVE  ~Matches(LabelsForPod(other, replica, claim), LabelsForApp(doc))
<1>1. <<"created-by", <<"verify-directory-operator">> >> \in LabelsForApp(doc)
  BY DEF LabelsForApp
<1>2. <<"created-by", <<"verify-directory-operator">> >>
        \notin LabelsForPod(other, replica, claim)
  BY DEF LabelsForPod
<1> QED BY <1>1, <1>2 DEF Matches

(* The labels by which Reconcile looks for the replicas of a document      *)
(* select the pods of this document and of no other, and no pod of a proxy.*)
THEOREM ReplicasAreOwn ==
  ASSUME NEW doc, NEW other, NEW replica, NEW claim
  PROVE  /\ Matches(LabelsForPod(other, replica, claim), LabelsForReplica(doc))
              <=> other = doc
         /\ ~Matches(LabelsForProxy(other), LabelsForReplica(doc))
  BY DEF Matches, LabelsForPod, LabelsForReplica, LabelsForProxy

(* The labels of the proxy's pods, which its deployment and its service    *)
(* select, select the pods of a replica only if the replica has the name of*)
(* the proxy.                                                              *)
THEOREM ProxySelectsOwn ==
  ASSUME NEW doc, NEW other, NEW replica, NEW claim
  PROVE  Matches(LabelsForPod(other, replica, claim), LabelsForProxy(doc))
           <=> replica = ProxyName(doc)
  BY DEF Matches, LabelsForPod, LabelsForProxy
=============================================================================
