---------------------------- MODULE ServerConfig ----------------------------
(***************************************************************************)
(* How the operator reads the configuration of the directory server, and   *)
(* what it makes of it.                                                    *)
(*                                                                         *)
(* The configuration is a YAML document in a ConfigMap, which the          *)
(* administrator may edit at any time.  Reconcile reads it once, after it  *)
(* has raised InProgress: the LDAP port, or the LDAPS port when LDAP is    *)
(* switched off, the license key, the name and password of the             *)
(* administrator and the suffixes.  The two ports may refer to secrets,    *)
(* each of which is read from the API server when it is come across.       *)
(*                                                                         *)
(* An entry of the wrong type is either an error, which fails the          *)
(* document, or a cast that panics, which ends the process of the          *)
(* operator.  With the port it has read the operator creates replica sets  *)
(* and services, one call after the other, and tells the proxy how to reach*)
(* every replica.  Which replicas there are it learns from the pods it     *)
(* finds, never from the services.                                         *)
(***************************************************************************)
EXTENDS Integers, FiniteSets, Sequences

CONSTANTS
  Replica,      \* the persistent volume claims
  Secret,       \* the entries of secrets a port may refer to
  Config,       \* what may be in the ConfigMap
  None,         \* no configuration or port
  LdapPort,     \* the port that is assumed for LDAP, 9389 in the code
  LdapsPort,    \* and for LDAPS, 9636
  Half,         \* a port is a signed integer of 32 bits: Half is 2^31
  MaxPort,      \* the largest port of TCP, 65535
  MaxEdits      \* bound: edits of document and ConfigMap, crashes and errors
                \* that are ignored

\* An entry of the YAML document.  One that is absent and one that is null
\* are the same to the operator.
Nothing == [kind |-> "none"]
Text == [kind |-> "text"]
Integer == [kind : {"int"}, n : Int]
Entry == Integer \cup [kind : {"none", "text", "other"}]
                 \cup [kind : {"secret"}, name : Secret]

\* The suffixes are a list of maps that have a dn; what else is in the list?
Suffix == {"dn", "noDn", "scalar"}
Suffixes == [kind : {"none", "other"}]
              \cup [kind : {"list"}, entries : Seq(Suffix)]

\* The text is no YAML, YAML but no map, or has a key that is no string.
Shape == {"map", "broken", "scalar", "oddKey"}
Document == [shape : Shape, ldap : Entry, ldaps : Entry, license : Entry,
             dn : Entry, pwd : Entry, suffixes : Suffixes]

Int32 == -Half .. Half - 1

ASSUME ConfigAssumption ==
  /\ Config \subseteq Document
  /\ Half \in Nat /\ MaxPort \in Nat /\ MaxPort < Half
  /\ LdapPort \in 1 .. MaxPort /\ LdapsPort \in 1 .. MaxPort
  /\ None \notin Config /\ None \notin Int32 /\ None \notin BOOLEAN \X Int32
  /\ None \notin Replica
  /\ MaxEdits \in Nat

VARIABLES
  map,          \* the content of the ConfigMap
  secrets,      \* the entries of secrets that exist
  spec,         \* the replicas of the document
  inProgress,
  available,
  queued,       \* is the document in the work queue?
  pods,         \* the replicas that may have a pod: from the creation of the
                \* replica set until the pod was seen to be gone
  svc,          \* the port of the service of each replica
  target,       \* how the proxy connects to each replica: <<secure, port>>
  told,         \* the configuration the proxy was last deployed with (history)
  pc,           \* what Reconcile does next
  cfg,          \* the body of the ConfigMap it has read
  secure,       \* h.config.secure
  port,         \* h.config.port
  toBeDeleted,  \* the replicas that are to go
  toBeAdded,    \* those that have not been deployed yet
  replicaPods,  \* those that have, and have no service yet
  atHand,       \* the principal, and later the replica that is being removed
  halfway,      \* the replicas that were left incomplete: the process ended while
                \* they had no service, their creation failed unnoticed, or
                \* nobody waited for their pod to go (history)
  edits,
  edited        \* was the ConfigMap edited since the document was created?

document == <<spec, inProgress, available, queued>>
objects == <<pods, svc, target, told>>
local == <<cfg, secure, port>>
plan == <<toBeDeleted, toBeAdded, replicaPods, atHand>>
vars == <<map, secrets, document, objects, pc, local, plan, halfway, edits,
          edited>>

\* The places of createReplicas and deleteReplicas.
Creating == {"create", "first", "firstService", "stop", "stopSet", "new",
             "services", "principal", "principalService"}
Removing == {"remove", "removeSet"}

TypeOK ==
  /\ map \in Config /\ secrets \subseteq Secret
  /\ spec \in SUBSET Replica
  /\ inProgress \in BOOLEAN /\ queued \in BOOLEAN
  /\ available \in {"unset", "true", "false"}
  /\ pods \subseteq Replica
  /\ svc \in [Replica -> Int32 \cup {None}]
  /\ target \in [Replica -> (BOOLEAN \X Int32) \cup {None}]
  /\ told \in Config \cup {None}
  /\ pc \in {"idle", "get", "ldap", "ldaps", "rest", "proxy", "report", "down"}
             \cup Creating \cup Removing
  /\ cfg \in Config \cup {None} /\ secure \in BOOLEAN
  /\ port \in Int32
  /\ toBeDeleted \subseteq Replica /\ toBeAdded \subseteq Replica
  /\ replicaPods \subseteq Replica /\ atHand \in Replica \cup {None}
  /\ halfway \subseteq Replica
  /\ edits \in Nat /\ edited \in BOOLEAN

Init ==
  /\ map \in Config /\ secrets \in SUBSET Secret
  /\ spec \in (SUBSET Replica) \ {{}}
  /\ inProgress = FALSE /\ available = "unset" /\ queued = TRUE
  /\ pods = {}
  /\ svc = [r \in Replica |-> None] /\ target = [r \in Replica |-> None]
  /\ told = None
  /\ pc = "idle" /\ cfg = None /\ secure = FALSE /\ port = 0
  /\ toBeDeleted = {} /\ toBeAdded = {} /\ replicaPods = {} /\ atHand = None
  /\ halfway = {} /\ edits = 0 /\ edited = FALSE
-----------------------------------------------------------------------------
(* The user and the administrator. *)

\* ValidateUpdate; while the process is down the webhook does not answer, and
\* the request is refused.
Edit(d) ==
  /\ pc # "down"
  /\ ~inProgress /\ available # "false"
  /\ spec # d
  /\ edits < MaxEdits /\ edits' = edits + 1
  /\ spec' = d
  /\ queued' = TRUE
  /\ UNCHANGED <<map, secrets, inProgress, available, objects, pc, local, plan,
                 halfway, edited>>

\* No event of a ConfigMap reaches the operator.
EditMap(c) ==
  /\ map # c
  /\ edits < MaxEdits /\ edits' = edits + 1
  /\ map' = c
  /\ edited' = TRUE
  /\ UNCHANGED <<secrets, document, objects, pc, local, plan, halfway>>

\* A secret is created or deleted, which nobody counts.
EditSecret(s) ==
  /\ secrets' = IF s \in secrets THEN secrets \ {s} ELSE secrets \cup {s}
  /\ UNCHANGED <<map, document, objects, pc, local, plan, halfway, edits, edited>>

\* A change of an annotation comes between the read of the document and the
\* first status update, which is then refused.  It makes no event, and the
\* request is lost.
MarkConflict ==
  /\ pc = "idle" /\ queued
  /\ ~inProgress /\ available # "false"
  /\ edits < MaxEdits /\ edits' = edits + 1
  /\ queued' = FALSE
  /\ UNCHANGED <<map, secrets, spec, inProgress, available, objects, pc, local,
                 plan, halfway, edited>>
-----------------------------------------------------------------------------
(* The ends of Reconcile. *)

Forget == /\ cfg' = None /\ secure' = FALSE /\ port' = 0
          /\ toBeDeleted' = {} /\ toBeAdded' = {} /\ replicaPods' = {}
          /\ atHand' = None

\* An error: setCondition.
Fail ==
  /\ inProgress' = FALSE /\ available' = "false"
  /\ pc' = "idle" /\ Forget
  /\ UNCHANGED <<map, secrets, spec, queued, objects, halfway, edits, edited>>

\* The process ends: everything it knew is gone, and a replica without a
\* service stays as it is.
Ends ==
  /\ pc' = "down" /\ Forget
  /\ queued' = FALSE
  /\ halfway' = halfway \cup {r \in pods : svc[r] = None}
  /\ UNCHANGED <<map, secrets, spec, inProgress, available, objects, edited>>

\* A type assertion that does not hold, or a pod that is not found: nothing
\* recovers from the panic.
Panic == Ends /\ UNCHANGED edits

Report ==
  /\ pc = "report"
  /\ inProgress' = FALSE /\ available' = "true"
  /\ pc' = "idle" /\ Forget
  /\ UNCHANGED <<map, secrets, spec, queued, objects, halfway, edits, edited>>

\* Mutant of Restart: a document in progress is left alone.
RestartShy ==
  /\ pc = "down"
  /\ pc' = "idle"
  /\ queued' = ~inProgress
  /\ UNCHANGED <<map, secrets, spec, inProgress, available, objects, local,
                 plan, halfway, edits, edited>>

\* A new process lists all documents.
Restart ==
  /\ pc = "down"
  /\ pc' = "idle"
  /\ queued' = TRUE
  /\ UNCHANGED <<map, secrets, spec, inProgress, available, objects, local,
                 plan, halfway, edits, edited>>
-----------------------------------------------------------------------------
(* getServerConfig.  A step that only reads and goes on. *)

Goes(place) ==
  /\ pc' = place
  /\ UNCHANGED <<map, secrets, document, objects, plan, halfway, edits, edited>>

Skip ==
  /\ pc = "idle" /\ queued /\ available = "false"
  /\ queued' = FALSE
  /\ UNCHANGED <<map, secrets, spec, inProgress, available, objects, pc, local,
                 plan, halfway, edits, edited>>

\* The document is taken from the queue and marked.
Begin ==
  /\ pc = "idle" /\ queued /\ available # "false"
  /\ queued' = FALSE
  /\ inProgress' = TRUE
  /\ pc' = "get"
  /\ UNCHANGED <<map, secrets, spec, available, objects, local, plan, halfway,
                 edits, edited>>

\* The ConfigMap is read, parsed and converted.
Get ==
  /\ pc = "get"
  /\ \/ /\ map.shape = "map"
        /\ cfg' = map
        /\ Goes("ldap") /\ UNCHANGED <<secure, port>>
     \/ map.shape = "oddKey" /\ Panic
     \/ Fail        \* not found, unreadable, or no map

\* GetYamlValue and ResolveEntry: a secret is a text, and a reference that
\* leads nowhere, or that cannot be followed, is nothing.
Resolved(entry) ==
  IF entry.kind # "secret" THEN {entry}
  ELSE {Nothing} \cup (IF entry.name \in secrets THEN {Text} ELSE {})

\* int32(n)
Truncated(n) == ((n + Half) % (2 * Half)) - Half

ReadLdap ==
  /\ pc = "ldap"
  /\ \E v \in Resolved(cfg.ldap) :
       \/ /\ v.kind = "none"
          /\ port' = LdapPort /\ secure' = FALSE
          /\ Goes("rest") /\ UNCHANGED cfg
       \/ /\ v.kind = "int" /\ Truncated(v.n) # 0
          /\ port' = Truncated(v.n) /\ secure' = FALSE
          /\ Goes("rest") /\ UNCHANGED cfg
       \/ /\ v.kind = "int" /\ Truncated(v.n) = 0
          /\ port' = LdapsPort /\ secure' = TRUE
          /\ Goes("ldaps") /\ UNCHANGED cfg
       \/ v.kind \in {"text", "other"} /\ Fail

\* Mutant of ReadLdaps: the port of LDAP is tried again.
ReadLdapTwice ==
  /\ pc = "ldaps"
  /\ \E v \in Resolved(cfg.ldap) :
       \/ v.kind = "none" /\ Goes("rest") /\ UNCHANGED local
       \/ /\ v.kind = "int"
          /\ port' = Truncated(v.n)
          /\ Goes("rest") /\ UNCHANGED <<cfg, secure>>
       \/ v.kind \in {"text", "other"} /\ Fail

\* Mutant of ReadLdaps: the integer is taken as it is.
ReadLdapsWide ==
  /\ pc = "ldaps"
  /\ \E v \in Resolved(cfg.ldaps) :
       \/ v.kind = "none" /\ Goes("rest") /\ UNCHANGED local
       \/ /\ v.kind = "int"
          /\ port' = v.n
          /\ Goes("rest") /\ UNCHANGED <<cfg, secure>>
       \/ v.kind \in {"text", "other"} /\ Fail

ReadLdaps ==
  /\ pc = "ldaps"
  /\ \E v \in Resolved(cfg.ldaps) :
       \/ v.kind = "none" /\ Goes("rest") /\ UNCHANGED local
       \/ /\ v.kind = "int"
          /\ port' = Truncated(v.n)
          /\ Goes("rest") /\ UNCHANGED <<cfg, secure>>
       \/ v.kind \in {"text", "other"} /\ Fail

\* These are not resolved, so that a reference to a secret is a text.
IsString(entry) == entry.kind \in {"text", "secret"}

\* What becomes of an entry that has to be a string.
Cast(entry, ifAbsent) == IF IsString(entry) THEN "ok"
                         ELSE IF entry.kind = "none" THEN ifAbsent ELSE "panic"

\* getConfigSuffixes: the first entry of the list that is not as it should be
\* decides.
OfSuffixes(list) ==
  IF list.kind # "list" THEN "error"
  ELSE LET odd == {i \in DOMAIN list.entries : list.entries[i] # "dn"}
       IN  IF odd = {} THEN "ok"
           ELSE LET first == CHOOSE i \in odd : \A j \in odd : i <= j
                IN  IF list.entries[first] = "scalar" THEN "error" ELSE "panic"

\* Mutant of Outcomes: nobody looks at the password.
OutcomesNoPwd(c) ==
  <<Cast(c.license, "error"), Cast(c.dn, "ok"), OfSuffixes(c.suffixes)>>

\* The entries that follow the ports, in the order in which they are read.
Outcomes(c) ==
  <<Cast(c.license, "error"), Cast(c.dn, "ok"), Cast(c.pwd, "error"),
    OfSuffixes(c.suffixes)>>

ReadRest ==
  /\ pc = "rest"
  /\ LET o == Outcomes(cfg)
         bad == {i \in DOMAIN o : o[i] # "ok"}
     IN  \/ bad = {} /\ Goes("create") /\ UNCHANGED local
         \/ \E i \in bad : /\ \A j \in bad : i <= j
                           /\ IF o[i] = "panic" THEN Panic ELSE Fail
-----------------------------------------------------------------------------
(* createReplicas.  Of the copying of volumes and of the agreements, which *)
(* have nothing to do with the port, only the failures are left.           *)

Usable == port \in 1 .. MaxPort

\* A step of createReplicas or deleteReplicas; the rest of the world stands
\* still.
Stays == UNCHANGED <<map, secrets, document, target, told, local, edited>>

\* getExistingPods, analyseExistingPods and the choice of the principal.  A pod
\* that was evicted, or has not been made yet, is not found; one that is still
\* terminating is.  Nothing is to be done if nothing is to be added.  Reconcile
\* lists the pods a little earlier, before it raises InProgress; in between there
\* are no steps that change pods or spec.
Plan ==
  /\ pc = "create"
  /\ \E existing \in SUBSET pods :
       LET added == spec \ existing
       IN  /\ toBeDeleted' = existing \ spec
           /\ \/ /\ added = {}
                 /\ pc' = "proxy"
                 /\ UNCHANGED <<toBeAdded, atHand>>
              \/ /\ added # {} /\ existing # {}
                 /\ atHand' \in existing
                 /\ toBeAdded' = added
                 /\ pc' = "stop"
              \/ /\ existing = {}
                 /\ atHand' \in added
                 /\ toBeAdded' = added \ {atHand'}
                 /\ pc' = "first"
  /\ Stays /\ UNCHANGED <<pods, svc, replicaPods, halfway, edits>>

\* deployReplica.  An error of the creation is ignored, and the API server has
\* one for a port that is out of range.
DeployReplica(r) ==
  \/ /\ Usable
     /\ pods' = pods \cup {r}
     /\ halfway' = halfway \ {r}
     /\ UNCHANGED edits
  \/ /\ halfway' = halfway \cup {r}
     /\ \/ Usable /\ edits < MaxEdits /\ edits' = edits + 1
        \/ ~Usable /\ UNCHANGED edits
     /\ UNCHANGED pods

\* createClusterService, which is an error if there is a service already.  If
\* there is no replica set the service is named after the first pod of the
\* namespace, which may be one of another replica, or of somebody else.
Serve(r) ==
  /\ Usable
  /\ \/ \E q \in {r} \cup (IF r \in halfway THEN pods ELSE {}) :
          svc[q] = None /\ svc' = [svc EXCEPT ![q] = port]
     \/ r \in halfway /\ UNCHANGED svc
  /\ UNCHANGED <<pods, halfway, edits>>

\* deleteReplica: first the service, then the replica set, then the wait for
\* the pod to be gone, for which any error of the read is taken.
Unserve(r) ==
  /\ svc' = [svc EXCEPT ![r] = None]
  /\ UNCHANGED <<pods, halfway, edits>>

Undeploy(r) ==
  /\ \/ pods' = pods \ {r} /\ UNCHANGED <<halfway, edits>>
     \/ /\ edits < MaxEdits /\ edits' = edits + 1
        /\ halfway' = halfway \cup {r}
        /\ UNCHANGED pods
  /\ UNCHANGED svc

\* The first replica of all.
First ==
  /\ pc = "first"
  /\ DeployReplica(atHand)
  /\ pc' = "firstService"
  /\ Stays /\ UNCHANGED <<svc, plan>>

FirstService ==
  /\ pc = "firstService"
  /\ Serve(atHand)
  /\ pc' = IF toBeAdded = {} THEN "proxy" ELSE "stop"
  /\ Stays /\ UNCHANGED plan

\* The principal is stopped.
Stop ==
  /\ pc = "stop"
  /\ Unserve(atHand)
  /\ pc' = "stopSet"
  /\ Stays /\ UNCHANGED plan

StopSet ==
  /\ pc = "stopSet"
  /\ Undeploy(atHand)
  /\ pc' = "new"
  /\ Stays /\ UNCHANGED plan

\* The new replicas get their replica sets, and when all of them have been
\* waited for and linked, their services.
New ==
  /\ pc = "new"
  /\ \E r \in toBeAdded :
       /\ DeployReplica(r)
       /\ toBeAdded' = toBeAdded \ {r}
       /\ replicaPods' = replicaPods \cup {r}
       /\ pc' = IF toBeAdded = {r} THEN "services" ELSE "new"
  /\ Stays /\ UNCHANGED <<svc, toBeDeleted, atHand>>

Services ==
  /\ pc = "services"
  /\ \E r \in replicaPods :
       /\ Serve(r)
       /\ replicaPods' = replicaPods \ {r}
       /\ pc' = IF replicaPods = {r} THEN "principal" ELSE "services"
  /\ Stays /\ UNCHANGED <<toBeDeleted, toBeAdded, atHand>>

\* The principal is started again.
Principal ==
  /\ pc = "principal"
  /\ DeployReplica(atHand)
  /\ pc' = "principalService"
  /\ Stays /\ UNCHANGED <<svc, plan>>

\* Mutant of PrincipalService: the service is taken to be still there.
PrincipalBare ==
  /\ pc = "principalService"
  /\ pc' = "proxy"
  /\ Stays /\ UNCHANGED <<pods, svc, halfway, edits, plan>>

PrincipalService ==
  /\ pc = "principalService"
  /\ Serve(atHand)
  /\ pc' = "proxy"
  /\ Stays /\ UNCHANGED plan

\* The proxy is told how to reach every replica.
Proxy ==
  /\ pc = "proxy"
  /\ target' = [r \in Replica |->
                  IF r \in spec THEN <<secure, port>> ELSE None]
  /\ told' = cfg
  /\ pc' = IF toBeDeleted = {} THEN "report" ELSE "remove"
  /\ UNCHANGED <<map, secrets, document, pods, svc, local, plan, halfway, edits,
                 edited>>

\* deleteReplicas: what is obsolete goes, one replica after the other.
Remove ==
  /\ pc = "remove"
  /\ \E r \in toBeDeleted :
       /\ Unserve(r)
       /\ atHand' = r
       /\ toBeDeleted' = toBeDeleted \ {r}
  /\ pc' = "removeSet"
  /\ Stays /\ UNCHANGED <<toBeAdded, replicaPods>>

RemoveSet ==
  /\ pc = "removeSet"
  /\ Undeploy(atHand)
  /\ pc' = IF toBeDeleted = {} THEN "report" ELSE "remove"
  /\ Stays /\ UNCHANGED plan

\* Every call that is checked may fail, and every wait may end without success.
DeployFails == pc \in Creating \cup Removing \cup {"proxy"} /\ Fail

\* The search for the pod of a replica set that was refused may find nothing.
\* That no pod appears although there is a replica set is a Crash here.
NoPod ==
  /\ pc \in {"firstService", "new", "services", "principalService"}
  /\ ~Usable
  /\ Panic

\* The process of the operator ends for another reason: an eviction, an upgrade.
Crash ==
  /\ pc # "down"
  /\ edits < MaxEdits /\ edits' = edits + 1
  /\ Ends

Reconcile == \/ Skip \/ Begin \/ Get \/ ReadLdap \/ ReadLdaps \/ ReadRest
             \/ Plan \/ First \/ FirstService \/ Stop \/ StopSet \/ New
             \/ Services \/ Principal \/ PrincipalService
             \/ Proxy \/ Remove \/ RemoveSet \/ DeployFails \/ NoPod \/ Report

Outside == \/ \E d \in (SUBSET Replica) \ {{}} : Edit(d)
           \/ \E c \in Config : EditMap(c)
           \/ \E s \in Secret : EditSecret(s)

Next == Reconcile \/ MarkConflict \/ Crash \/ Restart \/ Outside

Spec == Init /\ [][Next]_vars

\* The worker is a running goroutine, and the kubelet restarts the operator.
FairSpec == Spec /\ WF_vars(Reconcile) /\ WF_vars(Restart)
-----------------------------------------------------------------------------
(* What the configuration means, independent of the order of reading.      *)

\* Integers are the only way to give a port.
Given(entry, default) == IF entry.kind = "int" THEN Truncated(entry.n) ELSE default

Effective(c) ==
  IF Given(c.ldap, LdapPort) # 0 THEN <<FALSE, Given(c.ldap, LdapPort)>>
                                 ELSE <<TRUE, Given(c.ldaps, LdapsPort)>>

\* A configuration the operator can work with, at least as long as the secrets
\* it refers to are missing.
Valid(c) ==
  /\ c.shape = "map"
  /\ c.ldap.kind \in {"none", "int", "secret"}
  /\ Effective(c)[1] => c.ldaps.kind \in {"none", "int", "secret"}
  /\ IsString(c.license) /\ IsString(c.pwd)
  /\ IsString(c.dn) \/ c.dn = Nothing
  /\ c.suffixes.kind = "list"
  /\ \A i \in DOMAIN c.suffixes.entries : c.suffixes.entries[i] = "dn"

InRange(c) == Effective(c)[2] \in 1 .. MaxPort

(* The port and the protocol are a function of what is in the ConfigMap:   *)
(* whatever becomes of the secrets between the two readings, no other port *)
(* is used than the integer in the configuration, or its default.          *)
PortAgrees == pc \in {"rest", "proxy", "report"} \cup Creating \cup Removing
                => <<secure, port>> = Effective(cfg)

(* The operator says that all is well only after it has deployed the proxy *)
(* with a configuration in which every entry is as it should be: however   *)
(* often the ConfigMap was edited, no misconfiguration slips through.      *)
OnlyValid == available = "true" => told # None /\ Valid(told)

(* While the ConfigMap is left alone, the proxy looks for each replica on  *)
(* the port of the configuration, and no service has any other, whichever  *)
(* reconcile made it and whatever it went through.  There is a service for *)
(* each replica the proxy knows, except for those that were left half-way: *)
(* a replica set without a service looks complete to the next reconcile.   *)
Reached ==
  available = "true" /\ ~inProgress /\ ~edited =>
    \A r \in Replica : target[r] # None =>
      /\ InRange(map) /\ target[r] = Effective(map)
      /\ \/ svc[r] = Effective(map)[2]
         \/ svc[r] = None /\ r \in halfway

(* A document that was caught by a panic is processed once the ConfigMap   *)
(* has been repaired, whatever the process has been through.               *)
Recovers == <>[](Valid(map) /\ InRange(map)) => (inProgress ~> ~inProgress)
=============================================================================
