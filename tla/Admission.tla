------------------------------ MODULE Admission ------------------------------
(***************************************************************************)
(* The admission of what users ask for: ValidateCreate, ValidateUpdate and *)
(* ValidateDelete, between the users, the API server and a cluster that    *)
(* changes meanwhile.                                                      *)
(*                                                                         *)
(* The webhook takes its time.  It looks up every claim, ConfigMap and     *)
(* secret the document names, one after the other, then lists the pods,    *)
(* and asks the proxy over LDAP which replica is the primary write master. *)
(* During that time other requests are validated, the operator works on    *)
(* the document, and administrators create and delete what was looked up.  *)
(* The API server writes the document only if it is still the version the  *)
(* webhook was shown; otherwise the request is validated once more.        *)
(***************************************************************************)
EXTENDS Naturals, SequencesExt, Names

CONSTANTS
  User,         \* each has one request under way at a time
  Name,         \* the name of the document
  Claim,        \* the names of persistent volume claims
  Pods,         \* the part of the document that may not be edited
  Fact,         \* what may be true of the cluster: that a claim, a ConfigMap
                \* or a secret exists, that the base configuration of the
                \* proxy has no server groups and no suffixes
  Refs,         \* the facts each element of Pods depends on, in the order in
                \* which they are looked up
  Content,      \* what users ask for
  Present,      \* the facts that are true at the beginning
  None,         \* no document, claim or content
  MaxRequests,  \* bound: requests
  MaxChanges,   \* bound: changes of the cluster
  MaxCrashes    \* bound: reconciles that end without a report

\* The claim of the proxy may be edited, like the rest of its settings.
Specification == [claims : Seq(Claim), proxyClaim : Claim \cup {None}, pods : Pods]

ASSUME AdmissionAssumption ==
  /\ Content \subseteq Specification
  /\ Claim \subseteq Fact /\ Present \subseteq Fact
  /\ Refs \in [Pods -> Seq(Fact)]
  /\ Name \in Seq(STRING) /\ Claim \subseteq Seq(STRING)
  /\ None \notin Claim /\ None \notin Content
  /\ {MaxRequests, MaxChanges, MaxCrashes} \subseteq Nat

VARIABLES
  \* the document in the API server
  doc,          \* its content
  version,      \* the number of writes
  inProgress,
  available,
  \* the operator
  working,      \* the content Reconcile works on
  pending,      \* is there something for it to do?
  \* the cluster
  facts,        \* what is true of it
  removed,      \* what was true once and is not any more (history)
  replicas,     \* the claims that have a pod
  ready,        \* those whose pod is running and ready
  primary,      \* the primary write master of the proxy
  proxyUp,      \* does the proxy answer?
  \* the request of each user
  pc,           \* what the webhook does next
  op,           \* "create", "update" or "delete"
  new,          \* the content asked for
  base,         \* the version it is compared with
  todo,         \* the facts that are still to be looked up
  removing,     \* toBeDeleted
  asked,        \* the primaries, as the proxy has named them
  requests, changes, crashes

document == <<doc, version, inProgress, available>>
operator == <<working, pending>>
cluster == <<facts, removed, replicas, ready, primary, proxyUp>>
request == <<pc, op, new, base, todo, removing, asked>>
bounds == <<requests, changes, crashes>>
vars == <<document, operator, cluster, request, bounds>>

\* What the webhook is shown of the stored document.
Version == [rv : Nat, content : Content \cup {None}, available : {"unset", "true", "false"}]

TypeOK ==
  /\ doc \in Content \cup {None} /\ version \in Nat
  /\ inProgress \in BOOLEAN /\ available \in {"unset", "true", "false"}
  /\ working \in Content \cup {None} /\ pending \in BOOLEAN
  /\ facts \subseteq Fact /\ removed \subseteq Fact
  /\ ready \subseteq replicas /\ replicas \subseteq Claim /\ primary \in Claim \cup {None}
  /\ proxyUp \in BOOLEAN
  /\ pc \in [User -> {"idle", "look", "pods", "primaries", "write"}]
  /\ op \in [User -> {"none", "create", "update", "delete"}]
  /\ new \in [User -> Content \cup {None}]
  /\ base \in [User -> Version]
  /\ todo \in [User -> Seq(Fact)]
  /\ removing \in [User -> SUBSET Claim] /\ asked \in [User -> SUBSET Claim]
  \* an update or a deletion is of something
  /\ \A u \in User : op[u] \in {"update", "delete"} => base[u].content # None

Absent == [rv |-> 0, content |-> None, available |-> "unset"]

Init ==
  /\ doc = None /\ version = 0 /\ inProgress = FALSE /\ available = "unset"
  /\ working = None /\ pending = FALSE
  /\ facts = Present /\ removed = {}
  /\ replicas = {} /\ ready = {} /\ primary = None /\ proxyUp = FALSE
  /\ pc = [u \in User |-> "idle"] /\ op = [u \in User |-> "none"]
  /\ new = [u \in User |-> None] /\ base = [u \in User |-> Absent]
  /\ todo = [u \in User |-> <<>>]
  /\ removing = [u \in User |-> {}] /\ asked = [u \in User |-> {}]
  /\ requests = 0 /\ changes = 0 /\ crashes = 0
-----------------------------------------------------------------------------
(* The document as it is now, and what it needs.                           *)

Shown == [rv |-> version, content |-> doc, available |-> available]

\* Mutant of Needed: the claim of the proxy is taken for a replica's.
NeededNoProxy(c) == c.claims \o Refs[c.pods]

\* validateDocument: the claims, the claim of the proxy if there is one, the
\* ConfigMaps and secrets, and the contents of the base configuration.
Needed(c) == c.claims \o (IF c.proxyClaim = None THEN <<>> ELSE <<c.proxyClaim>>)
                      \o Refs[c.pods]

\* Mutant of Distinct: the claim of the proxy is not compared.
DistinctReplicas(c) == IsInjective(c.claims)

\* No claim is listed twice.
Distinct(c) == IsInjective(c.claims) /\ c.proxyClaim \notin ToSet(c.claims)

\* The end of a request, admitted or not.
Done(u) ==
  /\ pc' = [pc EXCEPT ![u] = "idle"] /\ op' = [op EXCEPT ![u] = "none"]
  /\ new' = [new EXCEPT ![u] = None] /\ base' = [base EXCEPT ![u] = Absent]
  /\ todo' = [todo EXCEPT ![u] = <<>>]
  /\ removing' = [removing EXCEPT ![u] = {}] /\ asked' = [asked EXCEPT ![u] = {}]

\* The webhook is called for the document as it is now.
Call(u, what, c) ==
  /\ op' = [op EXCEPT ![u] = what]
  /\ new' = [new EXCEPT ![u] = c]
  /\ base' = [base EXCEPT ![u] = Shown]
  /\ IF what = "delete"
     THEN pc' = [pc EXCEPT ![u] = "write"] /\ UNCHANGED todo
     ELSE /\ pc' = [pc EXCEPT ![u] = "look"]
          /\ todo' = [todo EXCEPT ![u] = Needed(c)]
  /\ removing' = [removing EXCEPT ![u] = {}] /\ asked' = [asked EXCEPT ![u] = {}]
-----------------------------------------------------------------------------
(* Requests.  A request that is refused at once leaves nothing behind.     *)

Submit(u) ==
  /\ pc[u] = "idle"
  /\ requests < MaxRequests /\ requests' = requests + 1
  /\ \/ doc = None /\ \E c \in Content : Call(u, "create", c)
     \/ doc # None /\ ~inProgress /\ \E c \in Content : Call(u, "update", c)
     \/ doc # None /\ ~inProgress /\ Call(u, "delete", None)
  /\ UNCHANGED <<document, operator, cluster, changes, crashes>>

\* validatePVC, validateConfigMap, validateSecret, validateProxyConfigMap
Look(u) ==
  /\ pc[u] = "look" /\ todo[u] # <<>>
  /\ Head(todo[u]) \in facts
  /\ todo' = [todo EXCEPT ![u] = Tail(@)]
  /\ UNCHANGED <<document, operator, cluster, pc, op, new, base, removing, asked,
                 bounds>>

\* The checks that look at the documents only: duplicate claims, the failing
\* state, and validateDocumentUpdates, which leaves out the settings of the
\* proxy and the security context.
Compare(u) ==
  /\ pc[u] = "look" /\ todo[u] = <<>>
  /\ Distinct(new[u])
  /\ op[u] = "update" => /\ base[u].available # "false"
                         /\ new[u].pods = base[u].content.pods
  /\ pc' = [pc EXCEPT ![u] = IF op[u] = "update" THEN "pods" ELSE "write"]
  /\ UNCHANGED <<document, operator, cluster, op, new, base, todo, removing, asked,
                 bounds>>

\* The claims of the pods that validatePods finds: it asks for the labels of
\* the objects of the document, not for those of its pods.
Seen == {p \in replicas :
           Matches(LabelsForPod(Name, ReplicaName(Name, p), p), LabelsForApp(Name))}

\* validatePods: nothing is asked of the pods and the proxy if no replica comes
\* or goes; those that stay have to be ready.
ListPods(u) ==
  /\ pc[u] = "pods"
  /\ LET listed == ToSet(new[u].claims)
     IN  /\ removing' = [removing EXCEPT ![u] = Seen \ listed]
         /\ \/ Seen = listed /\ pc' = [pc EXCEPT ![u] = "write"]
            \/ /\ Seen # listed /\ Seen \cap listed \subseteq ready
               /\ pc' = [pc EXCEPT ![u] = "primaries"]
  /\ UNCHANGED <<document, operator, cluster, op, new, base, todo, asked, bounds>>

\* getPrimaryWriteMasters: if the proxy does not answer, the edit is refused.
AskProxy(u) ==
  /\ pc[u] = "primaries"
  /\ proxyUp
  /\ asked' = [asked EXCEPT ![u] = {primary} \ {None}]
  /\ removing[u] \cap asked'[u] = {}
  /\ pc' = [pc EXCEPT ![u] = "write"]
  /\ UNCHANGED <<document, operator, cluster, op, new, base, todo, removing, bounds>>

\* Some check says no, or cannot be made.
Refuse(u) ==
  /\ pc[u] # "idle"
  /\ Done(u)
  /\ UNCHANGED <<document, operator, cluster, bounds>>
-----------------------------------------------------------------------------
(* The API server. *)

Current(u) == base[u].rv = version

\* Mutant of Store: the version is not compared.
StoreBlindly(u) ==
  /\ pc[u] = "write" /\ op[u] \in {"create", "update"}
  /\ doc' = new[u]
  /\ version' = version + 1
  /\ pending' = TRUE
  /\ Done(u)
  /\ UNCHANGED <<inProgress, available, working, cluster, bounds>>

Store(u) ==
  /\ pc[u] = "write" /\ op[u] \in {"create", "update"}
  /\ Current(u)
  /\ doc' = new[u]
  /\ version' = version + 1
  /\ pending' = TRUE
  /\ Done(u)
  /\ UNCHANGED <<inProgress, available, working, cluster, bounds>>

\* What belonged to the document is collected at once here.
Erase(u) ==
  /\ pc[u] = "write" /\ op[u] = "delete"
  /\ Current(u)
  /\ doc' = None /\ inProgress' = FALSE /\ available' = "unset"
  /\ version' = version + 1
  /\ pending' = FALSE
  /\ replicas' = {} /\ ready' = {} /\ primary' = None /\ proxyUp' = FALSE
  /\ Done(u)
  /\ UNCHANGED <<working, facts, removed, bounds>>

\* Mutant of Retry: the validation of the first attempt is good enough.
RetryWrite(u) ==
  /\ pc[u] = "write" /\ op[u] \in {"update", "delete"}
  /\ ~Current(u)
  /\ doc # None /\ ~inProgress
  /\ base' = [base EXCEPT ![u] = Shown]
  /\ UNCHANGED <<document, operator, cluster, pc, op, new, todo, removing, asked,
                 bounds>>

\* Mutant of Retry: nobody looks whether the document is still there.
RetryAny(u) ==
  /\ pc[u] = "write" /\ op[u] \in {"update", "delete"}
  /\ ~Current(u)
  /\ ~inProgress
  /\ Call(u, op[u], new[u])
  /\ UNCHANGED <<document, operator, cluster, bounds>>

\* The document was written meanwhile: the webhook is called once more.  A
\* client that insists on its version is refused instead.
Retry(u) ==
  /\ pc[u] = "write" /\ op[u] \in {"update", "delete"}
  /\ ~Current(u)
  /\ doc # None /\ ~inProgress
  /\ Call(u, op[u], new[u])
  /\ UNCHANGED <<document, operator, cluster, bounds>>

Step(u) == \/ Look(u) \/ Compare(u) \/ ListPods(u) \/ AskProxy(u) \/ Refuse(u)
           \/ Store(u) \/ Erase(u) \/ Retry(u)
-----------------------------------------------------------------------------
(* The operator, from its first status update to its last one. *)

Start ==
  /\ pending /\ working = None
  /\ doc # None /\ available # "false"
  /\ working' = doc /\ inProgress' = TRUE
  /\ version' = version + 1
  /\ pending' = FALSE
  /\ UNCHANGED <<doc, available, cluster, request, bounds>>

\* The pods and the proxy are there after a success; after a failure, who
\* knows.
Finish(outcome) ==
  /\ working # None
  /\ working' = None /\ inProgress' = FALSE /\ available' = outcome
  /\ version' = version + 1
  /\ \/ /\ replicas' = ToSet(working.claims) /\ ready' = replicas'
        /\ proxyUp' = TRUE /\ primary' \in replicas' \cup {None}
     \/ outcome = "false" /\ UNCHANGED <<replicas, ready, proxyUp, primary>>
  /\ UNCHANGED <<doc, pending, facts, removed, request, bounds>>

\* The process dies, and looks at the document again when it is back.
Abandon ==
  /\ working # None
  /\ crashes < MaxCrashes /\ crashes' = crashes + 1
  /\ working' = None
  /\ pending' = TRUE
  /\ UNCHANGED <<document, cluster, request, requests, changes>>

Operator == Start \/ \E outcome \in {"true", "false"} : Finish(outcome)
-----------------------------------------------------------------------------
(* Administrators and the proxy. *)

Change == changes < MaxChanges /\ changes' = changes + 1

Withdraw(f) ==
  /\ f \in facts
  /\ Change
  /\ facts' = facts \ {f} /\ removed' = removed \cup {f}
  /\ UNCHANGED <<document, operator, replicas, ready, primary, proxyUp, request,
                 requests, crashes>>

Provide(f) ==
  /\ f \notin facts
  /\ Change
  /\ facts' = facts \cup {f}
  /\ UNCHANGED <<document, operator, removed, replicas, ready, primary, proxyUp,
                 request, requests, crashes>>

\* A pod fails; if it is the primary, another replica may take over.
PodFails(p) ==
  /\ p \in ready
  /\ Change
  /\ ready' = ready \ {p}
  /\ IF p = primary THEN primary' \in ready' \cup {None} ELSE UNCHANGED primary
  /\ UNCHANGED <<document, operator, facts, removed, replicas, proxyUp, request,
                 requests, crashes>>

PodRecovers(p) ==
  /\ p \in replicas \ ready
  /\ ready' = ready \cup {p}
  /\ UNCHANGED <<document, operator, facts, removed, replicas, primary, proxyUp,
                 request, bounds>>

ProxyChanges ==
  /\ Change
  /\ replicas # {}
  /\ proxyUp' = ~proxyUp
  /\ UNCHANGED <<document, operator, facts, removed, replicas, ready, primary,
                 request, requests, crashes>>

Outside ==
  \/ \E f \in Fact : Withdraw(f) \/ Provide(f)
  \/ \E p \in Claim : PodFails(p) \/ PodRecovers(p)
  \/ ProxyChanges

Next == (\E u \in User : Submit(u) \/ Step(u)) \/ Operator \/ Abandon \/ Outside

Spec == Init /\ [][Next]_vars
-----------------------------------------------------------------------------
Gate == INSTANCE UpdateGate WITH
  Content <- Content,
  Absent <- None,
  stored <- doc

(* Validation in many steps, by several users at a time, beside an operator*)
(* that goes to work and reports meanwhile, behaves like the gate, where   *)
(* check and write are one step.                                           *)
ImplementsGate == Gate!Spec

(* No claim serves two servers of the document.  It is what module Replicas*)
(* takes for granted of a document.                                        *)
ClaimsDistinct == doc # None => IsInjective(Append(doc.claims, doc.proxyClaim))

(* All that the stored document refers to is there, unless somebody has    *)
(* removed it since it was looked up; the base configuration of the proxy  *)
(* has no entries that the operator generates, unless somebody has added   *)
(* them since.                                                             *)
References ==
  doc # None =>
    ToSet(doc.claims) \cup ToSet(Refs[doc.pods]) \cup ({doc.proxyClaim} \ {None})
      \subseteq facts \cup removed

(* "We essentially want to ensure that none of the pod configuration has   *)
(* been updated", says validateDocumentUpdates: the part of the document   *)
(* that it compares stays as it is until the document is deleted, although *)
(* the document it compares with may be deleted and made again meanwhile.  *)
PodsStay == [][doc # None /\ doc' # None => doc'.pods = doc.pods]_vars

(* A replica that is "currently being used as the primary write master by  *)
(* the LDAP proxy" cannot be removed, says the message of validatePods: an *)
(* edit that was admitted, and that the API server takes now, drops no     *)
(* replica that the proxy has named.                                       *)
PrimaryStays ==
  \A u \in User : pc[u] = "write" /\ op[u] = "update" /\ Current(u) =>
    asked[u] \cap ToSet(doc.claims) \subseteq ToSet(new[u].claims)
=============================================================================
