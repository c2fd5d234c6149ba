------------------------- MODULE ServerConfigProofs -------------------------
(***************************************************************************)
(* Theorems about ServerConfig, for any set of configurations, any secrets *)
(* and any number of edits.                                                *)
(*                                                                         *)
(* Each step of the reading fixes one more part of what the operator knows:*)
(* after the ports, the pair of protocol and port is what the              *)
(* configuration says (Ports), and after the rest, every entry is as it    *)
(* should be (Checked).  The configuration it reads from is a copy, which  *)
(* nobody edits.                                                           *)
(***************************************************************************)
EXTENDS ServerConfig, TLAPS

\* A port that fits is used as it is, and any other becomes one that fits.
LEMMA Truncation ==
  ASSUME NEW n \in Int
  PROVE  /\ Truncated(n) \in Int32
         /\ n \in Int32 => Truncated(n) = n
<1>1. Half \in Nat /\ Half > 0
  BY ConfigAssumption, SMT
<1> DEFINE m == 2 * Half
           a == n + Half
<1>2. m \in Int /\ m > 0 /\ a \in Int
  BY <1>1
<1> HIDE DEF m, a
<1>3. a % m \in 0 .. m - 1
  BY <1>2
<1>4. a \in 0 .. m - 1 => a % m = a
  BY <1>2
<1> USE DEF m, a
<1>5. (n + Half) % (2 * Half) \in 0 .. 2 * Half - 1
  BY <1>3
<1>6. n \in -Half .. Half - 1 => n + Half \in 0 .. 2 * Half - 1
  BY <1>1
<1> QED BY <1>1, <1>4, <1>5, <1>6 DEF Truncated, Int32

LEMMA DefaultsFit == LdapPort \in Int32 /\ LdapsPort \in Int32 /\ 0 \in Int32
  BY ConfigAssumption DEF Int32

\* Every entry of a configuration is one of the kinds that Resolved tells
\* apart.
LEMMA Entries ==
  ASSUME NEW c \in Config
  PROVE  /\ c.ldap \in Entry /\ c.ldaps \in Entry
         /\ c.license \in Entry /\ c.dn \in Entry /\ c.pwd \in Entry
         /\ c.suffixes \in Suffixes /\ c.shape \in Shape
  BY ConfigAssumption DEF Document

LEMMA Resolving ==
  ASSUME NEW e \in Entry, NEW v \in Resolved(e)
  PROVE  /\ v.kind \in {"none", "int", "text", "other"}
         /\ v.kind = "none" => e.kind \in {"none", "secret"}
         /\ v.kind = "int" => v = e /\ e.kind = "int" /\ e.n \in Int
  BY DEF Resolved, Entry, Integer, Nothing, Text
-----------------------------------------------------------------------------
\* What the last part of the reading has found out when it found no mistake.
LEMMA AllOk ==
  ASSUME NEW c \in Config,
         {i \in DOMAIN Outcomes(c) : Outcomes(c)[i] # "ok"} = {}
  PROVE  /\ IsString(c.license) /\ IsString(c.pwd)
         /\ IsString(c.dn) \/ c.dn = Nothing
         /\ c.suffixes.kind = "list"
         /\ \A i \in DOMAIN c.suffixes.entries : c.suffixes.entries[i] = "dn"
<1>1. /\ Cast(c.license, "error") = "ok" /\ Cast(c.dn, "ok") = "ok"
      /\ Cast(c.pwd, "error") = "ok" /\ OfSuffixes(c.suffixes) = "ok"
  <2>1. DOMAIN Outcomes(c) = 1 .. 4
    BY DEF Outcomes
  <2>2. \A i \in 1 .. 4 : Outcomes(c)[i] = "ok"
    BY <2>1
  <2> QED BY <2>2 DEF Outcomes
<1>2. IsString(c.license) /\ IsString(c.pwd)
  BY <1>1 DEF Cast
<1>3. IsString(c.dn) \/ c.dn = Nothing
  <2>1. IsString(c.dn) \/ c.dn.kind = "none"
    BY <1>1 DEF Cast
  <2> QED BY <2>1, Entries DEF Entry, Integer, Nothing
<1>4. c.suffixes.kind = "list"
  BY <1>1 DEF OfSuffixes
<1>5. \A i \in DOMAIN c.suffixes.entries : c.suffixes.entries[i] = "dn"
  <2> DEFINE odd == {i \in DOMAIN c.suffixes.entries : c.suffixes.entries[i] # "dn"}
             first == CHOOSE i \in odd : \A j \in odd : i <= j
  <2>1. odd # {} => (IF c.suffixes.entries[first] = "scalar" THEN "error" ELSE "panic") = "ok"
    BY <1>1, <1>4 DEF OfSuffixes
  <2>2. odd = {}
    BY <2>1
  <2> QED BY <2>2
<1> QED BY <1>2, <1>3, <1>4, <1>5
-----------------------------------------------------------------------------
\* The places where Reconcile holds a configuration.
Deploying == Creating \cup Removing \cup {"proxy", "report"}
Holding == {"ldap", "ldaps", "rest"} \cup Deploying

\* What is known of the ports, once they have been read.
Ports ==
  /\ pc \in Holding => cfg \in Config /\ cfg.shape = "map"
  /\ pc = "ldaps" => /\ cfg.ldap.kind = "int"
                     /\ Given(cfg.ldap, LdapPort) = 0
                     /\ secure /\ port = LdapsPort
  /\ pc \in Holding \ {"ldap", "ldaps"} =>
       /\ <<secure, port>> = Effective(cfg)
       /\ cfg.ldap.kind \in {"none", "int", "secret"}
       /\ Effective(cfg)[1] => cfg.ldaps.kind \in {"none", "int", "secret"}

\* What is known of the rest, once it has been read.
Checked == pc \in Deploying => Valid(cfg)

\* The proxy is only ever deployed with what was checked.
Deployed ==
  /\ told # None => Valid(told)
  /\ pc \in Removing \cup {"report"} => told = cfg
  /\ available = "true" => told # None

\* The replica at hand, and what is left to do in each place.
Loops ==
  /\ spec # {}
  /\ pc \notin {"idle", "down"} => inProgress /\ available # "false"
  /\ pc \in {"idle", "down"} => toBeDeleted = {}
  /\ pc \in (Creating \ {"create"}) \cup {"removeSet"} => atHand \in Replica
  /\ pc \notin Creating => toBeAdded = {} /\ replicaPods = {}
  /\ pc \in {"create", "principal", "principalService"}
       => toBeAdded = {} /\ replicaPods = {}
  /\ pc \in {"first", "firstService", "stop", "stopSet"} => replicaPods = {}
  /\ pc = "services" => toBeAdded = {}
  /\ toBeAdded \cup replicaPods \subseteq spec
  /\ toBeDeleted \cap spec = {}
  /\ pc = "removeSet" => atHand \notin spec

IInv == TypeOK /\ Ports /\ Checked /\ Deployed /\ Loops

LEMMA Initially == Init => IInv
<1> SUFFICES ASSUME Init PROVE IInv
  OBVIOUS
<1>1. TypeOK
  BY DefaultsFit DEF Init, TypeOK
<1>2. Ports /\ Checked /\ Deployed /\ Loops
  BY DEF Init, Ports, Checked, Deployed, Loops, Holding, Deploying, Creating,
         Removing
<1> QED BY <1>1, <1>2 DEF IInv

\* The ways out of Reconcile, and the way back.
LEMMA Leaving ==
  ASSUME IInv, Fail \/ Panic \/ Report \/ Restart \/ Skip \/ Crash
  PROVE  IInv'
<1>1. CASE Panic \/ Crash
  <2>1. Ends /\ edits' \in Nat
    BY <1>1 DEF Panic, Crash, IInv, TypeOK
  <2>2. halfway' \subseteq Replica
    BY <2>1 DEF Ends, IInv, TypeOK
  <2>3. TypeOK'
    BY <2>1, <2>2, DefaultsFit DEF IInv, TypeOK, Ends, Forget, objects
  <2>4. Ports' /\ Checked' /\ Deployed' /\ Loops'
    BY <2>1 DEF IInv, Ports, Checked, Deployed, Loops, Ends, Forget, objects,
                Holding, Deploying, Creating, Removing
  <2> QED BY <2>3, <2>4 DEF IInv
<1>2. CASE Fail \/ Report
  <2>1. TypeOK'
    BY <1>2, DefaultsFit DEF IInv, TypeOK, Fail, Report, Forget, objects
  <2>2. Deployed'
    <3>1. CASE Report
      BY <3>1, ConfigAssumption
      DEF IInv, Ports, Deployed, Report, objects, Holding, Deploying, Removing
    <3>2. CASE Fail
      BY <3>2 DEF IInv, Deployed, Fail, objects, Removing
    <3> QED BY <1>2, <3>1, <3>2
  <2>3. Ports' /\ Checked' /\ Loops'
    BY <1>2 DEF IInv, Ports, Checked, Loops, Fail, Report, Forget, Holding,
                Deploying, Creating, Removing
  <2> QED BY <2>1, <2>2, <2>3 DEF IInv
<1>3. CASE Restart \/ Skip
  BY <1>3 DEF IInv, TypeOK, Ports, Checked, Deployed, Loops, Restart, Skip,
              objects, local, plan, Holding, Deploying, Creating, Removing
<1> QED BY <1>1, <1>2, <1>3

\* A step of the reading that goes on leaves the rest as it is.
LEMMA Going ==
  ASSUME IInv, NEW place \in {"ldap", "ldaps", "rest", "create"}, Goes(place),
         pc \in {"get", "ldap", "ldaps", "rest"},
         cfg' \in Config, secure' \in BOOLEAN, port' \in Int32
  PROVE  /\ TypeOK' /\ Deployed' /\ Loops'
         /\ place # "create" => Checked'
<1>1. TypeOK'
  BY DEF IInv, TypeOK, Goes, document, objects, plan, Creating
<1>2. Deployed'
  BY DEF IInv, Deployed, Goes, document, objects, Removing
<1>3. Loops'
  BY DEF IInv, Loops, Goes, document, plan, Creating
<1>4. place # "create" => Checked'
  BY DEF Checked, Goes, Deploying, Creating, Removing
<1> QED BY <1>1, <1>2, <1>3, <1>4

\* The steps that read.
LEMMA Reading ==
  ASSUME IInv, Get \/ ReadLdap \/ ReadLdaps \/ ReadRest
  PROVE  IInv'
<1>1. CASE Fail \/ Panic
  BY <1>1, Leaving
<1>2. CASE Get /\ ~Fail /\ ~Panic
  <2>1. /\ map.shape = "map" /\ cfg' = map /\ pc' = "ldap"
        /\ pc = "get" /\ Goes("ldap") /\ UNCHANGED <<secure, port>>
    BY <1>2 DEF Get, Goes
  <2>2. TypeOK' /\ Deployed' /\ Loops' /\ Checked'
    BY <2>1, Going DEF IInv, TypeOK
  <2>3. Ports'
    BY <2>1 DEF IInv, TypeOK, Ports, Deploying, Creating, Removing, Holding
  <2> QED BY <2>2, <2>3 DEF IInv
<1>3. CASE ReadLdap /\ ~Fail
  <2>1. pc = "ldap" /\ cfg \in Config /\ cfg.ldap \in Entry
    BY <1>3, Entries DEF ReadLdap, IInv, Ports, Holding
  <2>2. PICK v \in Resolved(cfg.ldap) :
          \/ /\ v.kind = "none"
             /\ port' = LdapPort /\ secure' = FALSE
             /\ Goes("rest") /\ UNCHANGED cfg
          \/ /\ v.kind = "int" /\ Truncated(v.n) # 0
             /\ port' = Truncated(v.n) /\ secure' = FALSE
             /\ Goes("rest") /\ UNCHANGED cfg
          \/ /\ v.kind = "int" /\ Truncated(v.n) = 0
             /\ port' = LdapsPort /\ secure' = TRUE
             /\ Goes("ldaps") /\ UNCHANGED cfg
    BY <1>3 DEF ReadLdap
  <2>3. /\ v.kind = "none" => cfg.ldap.kind \in {"none", "secret"}
        /\ v.kind = "int" => v = cfg.ldap /\ cfg.ldap.kind = "int" /\ v.n \in Int
    BY <2>1, Resolving
  <2>4. v.kind = "int" => Truncated(v.n) \in Int32
    BY <2>3, Truncation
  <2>5. TypeOK' /\ Deployed' /\ Loops' /\ Checked'
    BY <2>1, <2>2, <2>4, DefaultsFit, Going
  <2>6. LdapPort # 0
    BY ConfigAssumption
  <2>7. Ports'
    BY <2>1, <2>2, <2>3, <2>6
    DEF IInv, Ports, Goes, Holding, Deploying, Creating, Removing, Effective,
        Given
  <2> QED BY <2>5, <2>7 DEF IInv
<1>4. CASE ReadLdaps /\ ~Fail
  <2>1. /\ pc = "ldaps" /\ cfg \in Config /\ cfg.ldaps \in Entry
        /\ cfg.ldap.kind = "int" /\ Given(cfg.ldap, LdapPort) = 0
        /\ secure /\ port = LdapsPort
    BY <1>4, Entries DEF ReadLdaps, IInv, Ports, Holding
  <2>2. PICK v \in Resolved(cfg.ldaps) :
          \/ v.kind = "none" /\ Goes("rest") /\ UNCHANGED local
          \/ /\ v.kind = "int"
             /\ port' = Truncated(v.n)
             /\ Goes("rest") /\ UNCHANGED <<cfg, secure>>
    BY <1>4 DEF ReadLdaps
  <2>3. /\ v.kind = "none" => cfg.ldaps.kind \in {"none", "secret"}
        /\ v.kind = "int" => v = cfg.ldaps /\ cfg.ldaps.kind = "int" /\ v.n \in Int
    BY <2>1, Resolving
  <2>4. v.kind = "int" => Truncated(v.n) \in Int32
    BY <2>3, Truncation
  <2>5. TypeOK' /\ Deployed' /\ Loops' /\ Checked'
    BY <2>1, <2>2, <2>4, Going DEF IInv, TypeOK, local
  <2>6. Effective(cfg) = <<TRUE, Given(cfg.ldaps, LdapsPort)>>
    BY <2>1 DEF Effective
  <2>7. secure = TRUE
    BY <2>1 DEF IInv, TypeOK
  <2>8. cfg' = cfg /\ secure' = TRUE /\ port' = Given(cfg.ldaps, LdapsPort)
    BY <2>1, <2>2, <2>3, <2>7 DEF local, Given
  <2>9. cfg.ldaps.kind \in {"none", "int", "secret"} /\ pc' = "rest"
    BY <2>2, <2>3 DEF Goes
  <2>10. Ports'
    BY <2>1, <2>6, <2>8, <2>9
       DEF IInv, Ports, Holding, Deploying, Creating, Removing
  <2> QED BY <2>5, <2>10 DEF IInv
<1>5. CASE ReadRest /\ ~Fail /\ ~Panic
  <2>1. /\ pc = "rest" /\ cfg \in Config /\ Goes("create") /\ UNCHANGED local
        /\ {i \in DOMAIN Outcomes(cfg) : Outcomes(cfg)[i] # "ok"} = {}
    BY <1>5 DEF ReadRest, IInv, Ports, Holding
  <2>2. TypeOK' /\ Deployed' /\ Loops'
    BY <2>1, Going DEF IInv, TypeOK, local
  <2>3. Ports'
    BY <2>1 DEF IInv, Ports, Goes, local, Holding, Deploying, Creating, Removing
  <2>4. Valid(cfg)
    BY <2>1, AllOk DEF Valid, IInv, Ports, Holding
  <2> QED BY <2>1, <2>2, <2>3, <2>4 DEF IInv, Checked, local
<1> QED BY <1>1, <1>2, <1>3, <1>4, <1>5

\* A step of createReplicas or deleteReplicas: the objects keep their types.
LEMMA Calls ==
  ASSUME TypeOK, NEW r \in Replica,
         \/ DeployReplica(r) /\ UNCHANGED svc
         \/ Serve(r) \/ Unserve(r) \/ Undeploy(r)
  PROVE  /\ pods' \subseteq Replica /\ halfway' \subseteq Replica
         /\ svc' \in [Replica -> Int32 \cup {None}] /\ edits' \in Nat
<1>1. CASE DeployReplica(r) /\ UNCHANGED svc
  BY <1>1 DEF DeployReplica, TypeOK
<1>2. CASE Serve(r)
  BY <1>2 DEF Serve, TypeOK
<1>3. CASE Unserve(r)
  BY <1>3 DEF Unserve, TypeOK
<1>4. CASE Undeploy(r)
  BY <1>4 DEF Undeploy, TypeOK
<1> QED BY <1>1, <1>2, <1>3, <1>4

\* Such a step keeps the invariant if it keeps the loops in order.
LEMMA Steps ==
  ASSUME IInv, Stays, pc \in Deploying, pc' \in Deploying,
         pc' \in Removing \cup {"report"} => pc \in Removing,
         pods' \subseteq Replica, halfway' \subseteq Replica,
         svc' \in [Replica -> Int32 \cup {None}], edits' \in Nat,
         toBeDeleted' \subseteq Replica, toBeAdded' \subseteq Replica,
         replicaPods' \subseteq Replica, atHand' \in Replica \cup {None},
         Loops'
  PROVE  IInv'
<1>1. TypeOK'
  BY DEF IInv, TypeOK, Stays, document, local, Deploying
<1>2. Ports'
  BY DEF IInv, Ports, Stays, local, Holding, Deploying, Creating, Removing
<1>3. Checked' /\ Deployed'
  BY DEF IInv, Checked, Deployed, Stays, local, document
<1> QED BY <1>1, <1>2, <1>3 DEF IInv

LEMMA Building ==
  ASSUME IInv, \/ Plan \/ First \/ FirstService \/ Stop \/ StopSet \/ New
               \/ Services \/ Principal \/ PrincipalService
  PROVE  IInv'
<1> USE DEF IInv
<1>1. CASE Plan
  <2>1. PICK existing \in SUBSET pods :
          /\ toBeDeleted' = existing \ spec
          /\ \/ /\ spec \ existing = {}
                /\ pc' = "proxy"
                /\ UNCHANGED <<toBeAdded, atHand>>
             \/ /\ spec \ existing # {} /\ existing # {}
                /\ atHand' \in existing
                /\ toBeAdded' = spec \ existing
                /\ pc' = "stop"
             \/ /\ existing = {}
                /\ atHand' \in spec \ existing
                /\ toBeAdded' = (spec \ existing) \ {atHand'}
                /\ pc' = "first"
    BY <1>1 DEF Plan
  <2>2. pc = "create" /\ Stays /\ UNCHANGED <<pods, svc, replicaPods, halfway, edits>>
    BY <1>1 DEF Plan
  <2>3. Loops'
    BY <2>1, <2>2 DEF TypeOK, Loops, Stays, document, Creating
  <2> QED BY <2>1, <2>2, <2>3, Steps
          DEF TypeOK, Deploying, Creating, Removing
<1>2. CASE First \/ FirstService \/ Stop \/ StopSet \/ Principal \/ PrincipalService
  <2>1. /\ Stays /\ UNCHANGED plan /\ atHand \in Replica
        /\ \/ DeployReplica(atHand) /\ UNCHANGED svc
           \/ Serve(atHand) \/ Unserve(atHand) \/ Undeploy(atHand)
    BY <1>2 DEF First, FirstService, Stop, StopSet, Principal, PrincipalService,
                Loops, Creating
  <2>2. /\ pc \in Creating /\ pc' \in Creating \cup {"proxy"}
        /\ Loops'
    BY <1>2, <2>1
    DEF First, FirstService, Stop, StopSet, Principal, PrincipalService, Loops,
        Creating, Stays, plan, document
  <2>3. pc \in Deploying /\ pc' \in Deploying /\ pc' \notin Removing \cup {"report"}
    BY <2>2 DEF Deploying, Creating, Removing
  <2> QED BY <2>1, <2>2, <2>3, Calls, Steps DEF TypeOK, plan
<1>3. CASE New
  <2>1. PICK r \in toBeAdded :
          /\ DeployReplica(r)
          /\ toBeAdded' = toBeAdded \ {r}
          /\ replicaPods' = replicaPods \cup {r}
          /\ pc' = IF toBeAdded = {r} THEN "services" ELSE "new"
    BY <1>3 DEF New
  <2>2. pc = "new" /\ Stays /\ UNCHANGED <<svc, toBeDeleted, atHand>>
    BY <1>3 DEF New
  <2>3. Loops'
    BY <2>1, <2>2 DEF Loops, Stays, document, Creating
  <2>4. r \in Replica /\ toBeAdded' \subseteq Replica /\ replicaPods' \subseteq Replica
    BY <2>1 DEF TypeOK
  <2> QED BY <2>1, <2>2, <2>3, <2>4, Calls, Steps
          DEF TypeOK, Deploying, Creating, Removing
<1>4. CASE Services
  <2>1. PICK r \in replicaPods :
          /\ Serve(r)
          /\ replicaPods' = replicaPods \ {r}
          /\ pc' = IF replicaPods = {r} THEN "principal" ELSE "services"
    BY <1>4 DEF Services
  <2>2. pc = "services" /\ Stays /\ UNCHANGED <<toBeDeleted, toBeAdded, atHand>>
    BY <1>4 DEF Services
  <2>3. Loops'
    BY <2>1, <2>2 DEF Loops, Stays, document, Creating
  <2>4. r \in Replica /\ replicaPods' \subseteq Replica
    BY <2>1 DEF TypeOK
  <2> QED BY <2>1, <2>2, <2>3, <2>4, Calls, Steps
          DEF TypeOK, Deploying, Creating, Removing
<1> QED BY <1>1, <1>2, <1>3, <1>4

LEMMA Finishing ==
  ASSUME IInv, Proxy \/ Remove \/ RemoveSet
  PROVE  IInv'
<1> USE DEF IInv
<1>1. CASE Proxy
  <2>1. /\ pc = "proxy" /\ pc' \in {"report", "remove"} /\ told' = cfg
        /\ UNCHANGED <<map, secrets, document, pods, svc, local, plan, halfway,
                       edits, edited>>
        /\ target' = [r \in Replica |-> IF r \in spec THEN <<secure, port>> ELSE None]
    BY <1>1 DEF Proxy
  <2>2. cfg \in Config /\ Valid(cfg) /\ cfg # None
    BY <2>1, ConfigAssumption DEF Ports, Checked, Holding, Deploying
  <2>3. TypeOK'
    BY <2>1, <2>2 DEF TypeOK, document, local, plan, Removing
  <2>4. Ports' /\ Checked' /\ Deployed'
    BY <2>1, <2>2 DEF Ports, Checked, Deployed, Holding, Deploying, Creating,
                      Removing, document, local
  <2>5. Loops'
    BY <2>1 DEF Loops, plan, document, Creating
  <2> QED BY <2>3, <2>4, <2>5
<1>2. CASE Remove
  <2>1. PICK r \in toBeDeleted :
          Unserve(r) /\ atHand' = r /\ toBeDeleted' = toBeDeleted \ {r}
    BY <1>2 DEF Remove
  <2>2. /\ pc = "remove" /\ pc' = "removeSet"
        /\ Stays /\ UNCHANGED <<toBeAdded, replicaPods>>
    BY <1>2 DEF Remove
  <2>3. r \in Replica /\ r \notin spec
    BY <2>1 DEF TypeOK, Loops
  <2>4. Loops'
    BY <2>1, <2>2, <2>3 DEF Loops, Stays, document, Creating
  <2> QED BY <2>1, <2>2, <2>3, <2>4, Calls, Steps DEF TypeOK, Deploying, Removing
<1>3. CASE RemoveSet
  <2>1. /\ pc = "removeSet" /\ pc' \in {"report", "remove"}
        /\ Undeploy(atHand) /\ Stays /\ UNCHANGED plan
    BY <1>3 DEF RemoveSet
  <2>2. atHand \in Replica
    BY <2>1 DEF Loops
  <2>3. Loops'
    BY <2>1 DEF Loops, Stays, document, plan, Creating
  <2> QED BY <2>1, <2>2, <2>3, Calls, Steps DEF TypeOK, Deploying, Removing, plan
<1> QED BY <1>1, <1>2, <1>3

LEMMA Inductive == IInv /\ [Next]_vars => IInv'
<1> SUFFICES ASSUME IInv, [Next]_vars PROVE IInv'
  OBVIOUS
<1>1. CASE Skip \/ Report \/ Restart \/ Crash \/ DeployFails \/ NoPod
  BY <1>1, Leaving DEF DeployFails, NoPod
<1>2. CASE Begin \/ MarkConflict
  <2>1. TypeOK'
    <3>1. edits' \in Nat
      BY <1>2 DEF Begin, MarkConflict, IInv, TypeOK
    <3> QED BY <1>2, <3>1
            DEF Begin, MarkConflict, IInv, TypeOK, objects, local, plan
  <2>2. Ports' /\ Checked' /\ Deployed' /\ Loops'
    BY <1>2 DEF Begin, MarkConflict, IInv, Ports, Checked, Deployed, Loops,
                Holding, Deploying, Creating, Removing, objects, local, plan
  <2> QED BY <2>1, <2>2 DEF IInv
<1>3. CASE Get \/ ReadLdap \/ ReadLdaps \/ ReadRest
  BY <1>3, Reading
<1>4. CASE \/ Plan \/ First \/ FirstService \/ Stop \/ StopSet \/ New
           \/ Services \/ Principal \/ PrincipalService
  BY <1>4, Building
<1>5. CASE Proxy \/ Remove \/ RemoveSet
  BY <1>5, Finishing
<1>6. CASE Outside
  <2>1. ASSUME NEW d \in (SUBSET Replica) \ {{}}, Edit(d)
        PROVE  IInv'
    <3>1. /\ spec' = d /\ pc = "idle"
          /\ toBeDeleted = {} /\ toBeAdded = {} /\ replicaPods = {}
      BY <2>1 DEF Edit, IInv, Loops, Creating
    <3>2. TypeOK'
      BY <2>1 DEF Edit, IInv, TypeOK, objects, local, plan
    <3>3. Ports' /\ Checked' /\ Deployed'
      BY <2>1 DEF Edit, IInv, Ports, Checked, Deployed, objects, local
    <3>4. Loops'
      BY <2>1, <3>1 DEF Edit, Loops, plan, Creating
    <3> QED BY <3>2, <3>3, <3>4 DEF IInv
  <2>2. CASE \E c \in Config : EditMap(c)
    BY <2>2 DEF EditMap, IInv, TypeOK, Ports, Checked, Deployed, Loops, Holding,
                objects, local, document, plan
  <2>3. CASE \E s \in Secret : EditSecret(s)
    BY <2>3 DEF EditSecret, IInv, TypeOK, Ports, Checked, Deployed, Loops,
                Holding, objects, local, document, plan
  <2> QED BY <1>6, <2>1, <2>2, <2>3 DEF Outside
<1>7. CASE UNCHANGED vars
  BY <1>7 DEF vars, IInv, TypeOK, Ports, Checked, Deployed, Loops, Holding,
              objects, local, document, plan
<1> QED BY <1>1, <1>2, <1>3, <1>4, <1>5, <1>6, <1>7 DEF Next, Reconcile

LEMMA Invariant == Spec => []IInv
  BY Initially, Inductive, PTL DEF Spec
-----------------------------------------------------------------------------
(* Every variable keeps its type; in particular a port is always one of 32 *)
(* bits, whatever integer the configuration has.                           *)
THEOREM TypeCorrect == Spec => []TypeOK
<1>1. IInv => TypeOK
  BY DEF IInv
<1> QED BY <1>1, Invariant, PTL

(* The protocol and the port the operator works with are those of the      *)
(* configuration it has read, for any configuration and whatever happens   *)
(* to the secrets while it is read.                                        *)
THEOREM PortAgreement == Spec => []PortAgrees
<1>1. IInv => PortAgrees
  BY DEF IInv, Ports, PortAgrees, Holding, Deploying, Creating, Removing
<1> QED BY <1>1, Invariant, PTL

(* No misconfiguration is ever reported as available.                      *)
THEOREM NothingSlipsThrough == Spec => []OnlyValid
<1>1. IInv => OnlyValid
  BY DEF IInv, Deployed, OnlyValid
<1> QED BY <1>1, Invariant, PTL

(* The port that serves is the one that is written in the configuration:   *)
(* the truncation to 32 bits changes nothing about a port of TCP, and the  *)
(* LDAPS port is used if and only if LDAP is given as zero.                *)
THEOREM ValidPorts ==
  ASSUME NEW c \in Config,
         c.ldap.kind = "int" => c.ldap.n \in 0 .. MaxPort,
         c.ldaps.kind = "int" => c.ldaps.n \in 0 .. MaxPort
  PROVE  Effective(c) =
           IF c.ldap.kind # "int" THEN <<FALSE, LdapPort>>
           ELSE IF c.ldap.n # 0 THEN <<FALSE, c.ldap.n>>
           ELSE <<TRUE, IF c.ldaps.kind = "int" THEN c.ldaps.n ELSE LdapsPort>>
<1>1. \A n \in 0 .. MaxPort : Truncated(n) = n
  BY Truncation, ConfigAssumption DEF Int32
<1>2. LdapPort # 0
  BY ConfigAssumption
<1> QED BY <1>1, <1>2 DEF Effective, Given
-----------------------------------------------------------------------------
(* The services and the proxy.                                             *)
(*                                                                         *)
(* While the ConfigMap is left alone, every reconcile works with the same  *)
(* configuration, so that the services which earlier ones made have the    *)
(* port of the one at hand.  A port that is out of range never gets as far *)
(* as a service, nor as a pod, nor as the proxy.                           *)

\* The pods and services there are, and the configuration they are for.
Unedited ==
  ~edited => /\ pc \in Holding => cfg = map
             /\ \A r \in Replica : svc[r] # None => svc[r] = Effective(map)[2]
             /\ pods # {} => InRange(map)
             /\ pc \in Removing \cup {"proxy", "report"} => InRange(map)

\* The places before the pods have been listed, or after the end of it all.
Before == {"idle", "down", "get", "ldap", "ldaps", "rest", "create"}

\* What createReplicas has still to do for a replica, or deleteReplicas for one
\* that has lost its service; in the beginning, for all that have no pod.
Pending(r) ==
  \/ pc \in Before /\ r \notin pods
  \/ r \in toBeAdded \cup replicaPods
  \/ pc \in (Creating \ {"create", "stop"}) \cup {"removeSet"} /\ r = atHand

\* A replica without a service was left half-way, or its turn will come.  After
\* a failure nothing is promised, and nothing is done any more.
Complete ==
  available # "false" =>
    \A r \in spec \cup pods : svc[r] # None \/ r \in halfway \/ Pending(r)

\* What the proxy has been told, before it is reported.
Told ==
  pc \in Removing \cup {"report"} =>
    \A r \in Replica : target[r] # None => r \in spec /\ target[r] = <<secure, port>>

RInv == Unedited /\ Complete /\ Told /\ Reached

LEMMA ReachedInitially == Init => RInv
<1> SUFFICES ASSUME Init PROVE RInv
  OBVIOUS
<1>1. /\ \A r \in Replica : svc[r] = None /\ target[r] = None
      /\ pc = "idle" /\ pods = {}
  BY DEF Init
<1> QED BY <1>1 DEF RInv, Unedited, Complete, Told, Reached, Pending, Before,
                    Holding, Deploying, Creating, Removing

\* A step that touches neither the objects nor what is left to do.
LEMMA ReachedQuietly ==
  ASSUME RInv, UNCHANGED <<map, spec, objects, plan, halfway, edited, available>>,
         pc \in Before, pc' \in Before, inProgress' \in {TRUE, inProgress},
         pc' \in Holding => cfg' = map \/ (pc \in Holding /\ cfg' = cfg)
  PROVE  RInv'
<1>1. Unedited' /\ Told' /\ Reached'
  BY DEF RInv, Unedited, Told, Reached, objects, Before, Removing
<1>2. Complete'
  BY DEF RInv, Complete, Pending, objects, plan, Before, Creating, Removing
<1> QED BY <1>1, <1>2 DEF RInv

\* The ends without success.
LEMMA ReachedLeaving ==
  ASSUME IInv, RInv, Fail \/ Panic \/ Crash
  PROVE  RInv'
<1>1. CASE Fail
  BY <1>1 DEF Fail, objects, RInv, Unedited, Complete, Told, Reached, Holding,
              Deploying, Creating, Removing
<1>2. CASE Panic \/ Crash
  <2>1. /\ pc' = "down" /\ halfway' = halfway \cup {r \in pods : svc[r] = None}
        /\ UNCHANGED <<map, spec, inProgress, available, objects, edited>>
    BY <1>2 DEF Panic, Crash, Ends
  <2>2. Unedited' /\ Told' /\ Reached'
    BY <2>1 DEF RInv, Unedited, Told, Reached, objects, Holding, Deploying,
                Creating, Removing
  <2>3. Complete'
    BY <2>1 DEF Complete, Pending, Before, objects
  <2> QED BY <2>2, <2>3 DEF RInv
<1> QED BY <1>1, <1>2

LEMMA ReachedReported ==
  ASSUME IInv, RInv, Report
  PROVE  RInv'
<1>1. /\ pc = "report" /\ pc' = "idle" /\ available' = "true"
      /\ UNCHANGED <<map, spec, pods, svc, target, halfway, edited>>
      /\ toBeAdded' = {} /\ replicaPods' = {}
  BY DEF Report, objects, Forget
<1>2. \A r \in spec \cup pods : svc[r] # None \/ r \in halfway
  <2>1. inProgress /\ toBeAdded = {} /\ replicaPods = {}
    BY <1>1 DEF IInv, Loops, Creating
  <2>2. available # "false"
    BY <1>1 DEF IInv, Loops
  <2> QED BY <1>1, <2>1, <2>2
          DEF RInv, Complete, Pending, Before, Creating, Removing
<1>3. Unedited' /\ Told' /\ Complete'
  BY <1>1, <1>2 DEF RInv, Unedited, Told, Complete, Holding, Deploying, Creating,
                    Removing
<1>4. Reached'
  <2> SUFFICES ASSUME ~edited, NEW r \in Replica, target[r] # None
               PROVE  /\ InRange(map) /\ target[r] = Effective(map)
                      /\ \/ svc[r] = Effective(map)[2]
                         \/ svc[r] = None /\ r \in halfway
    BY <1>1 DEF Reached
  <2>1. r \in spec /\ target[r] = <<secure, port>>
    BY <1>1 DEF RInv, Told
  <2>2. <<secure, port>> = Effective(cfg) /\ cfg = map
    BY <1>1 DEF IInv, Ports, RInv, Unedited, Holding, Deploying
  <2> QED BY <1>1, <1>2, <2>1, <2>2 DEF RInv, Unedited
<1> QED BY <1>3, <1>4 DEF RInv
-----------------------------------------------------------------------------
\* What a call on behalf of one replica does to it, and to the others.
LEMMA Effects ==
  ASSUME IInv, RInv, pc \in Deploying, NEW r \in Replica,
         \/ DeployReplica(r) /\ UNCHANGED svc
         \/ Serve(r) \/ Unserve(r) \/ Undeploy(r)
  PROVE  /\ ~edited => /\ \A q \in Replica : svc'[q] # None => svc'[q] = Effective(map)[2]
                       /\ pods' # {} => InRange(map)
                       /\ Serve(r) => InRange(map)
         /\ \A q \in Replica \ {r} : /\ q \in pods' => q \in pods
                                     /\ svc[q] # None => svc'[q] # None
                                     /\ q \in halfway => q \in halfway'
         /\ Serve(r) => svc'[r] # None \/ r \in halfway'
         /\ Undeploy(r) => r \notin pods' \/ r \in halfway'
<1>1. ~edited => port = Effective(map)[2] /\ (Usable => InRange(map))
  BY DEF IInv, Ports, RInv, Unedited, Holding, Deploying, Creating, Removing,
         Usable, InRange
<1>2. port # None /\ svc \in [Replica -> Int32 \cup {None}] /\ pods \subseteq Replica
  BY ConfigAssumption DEF IInv, TypeOK
<1>3. ~edited => /\ \A q \in Replica : svc[q] # None => svc[q] = Effective(map)[2]
                 /\ pods # {} => InRange(map)
  BY DEF RInv, Unedited
<1> HIDE DEF IInv, RInv
<1>4. CASE DeployReplica(r) /\ UNCHANGED svc /\ ~Serve(r) /\ ~Undeploy(r)
  BY <1>1, <1>3, <1>4 DEF DeployReplica
<1>5. CASE Serve(r) /\ ~Undeploy(r)
  <2>1. /\ Usable /\ UNCHANGED <<pods, halfway>>
        /\ \/ \E q \in {r} \cup (IF r \in halfway THEN pods ELSE {}) :
                 svc[q] = None /\ svc' = [svc EXCEPT ![q] = port]
           \/ r \in halfway /\ UNCHANGED svc
    BY <1>5 DEF Serve
  <2>2. CASE r \in halfway /\ UNCHANGED svc
    BY <1>1, <1>3, <1>5, <2>1, <2>2
  <2>3. ASSUME NEW q \in {r} \cup (IF r \in halfway THEN pods ELSE {}),
               svc[q] = None, svc' = [svc EXCEPT ![q] = port]
        PROVE  /\ \A t \in Replica : svc'[t] = IF t = q THEN port ELSE svc[t]
               /\ q = r \/ r \in halfway
    BY <1>2, <2>3
  <2> QED BY <1>1, <1>2, <1>3, <1>5, <2>1, <2>2, <2>3
<1>6. CASE Unserve(r) /\ ~Serve(r) /\ ~Undeploy(r)
  <2>1. \A q \in Replica : svc'[q] = IF q = r THEN None ELSE svc[q]
    BY <1>2, <1>6 DEF Unserve
  <2> QED BY <1>3, <1>6, <2>1 DEF Unserve
<1>7. CASE Undeploy(r) /\ ~Serve(r)
  BY <1>3, <1>7 DEF Undeploy
<1>8. CASE Serve(r) /\ Undeploy(r)
  BY <1>1, <1>2, <1>3, <1>8 DEF Serve, Undeploy
<1> QED BY <1>4, <1>5, <1>6, <1>7, <1>8

\* Such a call keeps the invariant if the replica is done with or still to do,
\* and the others remain to be done.
LEMMA Completing ==
  ASSUME IInv, RInv, NEW r \in Replica, Stays, pc \in Deploying, pc' \in Deploying,
         \/ DeployReplica(r) /\ UNCHANGED svc
         \/ Serve(r) \/ Unserve(r) \/ Undeploy(r),
         pc' = "proxy" => Serve(r),
         pc' \in Removing \cup {"report"} => pc \in Removing,
         \A q \in Replica \ {r} : Pending(q) => Pending(q)',
         r \in spec \cup pods' => svc'[r] # None \/ r \in halfway' \/ Pending(r)'
  PROVE  RInv'
<1>1. /\ UNCHANGED <<map, spec, available, inProgress, target, edited>>
      /\ cfg' = cfg /\ secure' = secure /\ port' = port
  BY DEF Stays, document, local
<1>2. Unedited'
  <2> SUFFICES ASSUME ~edited
               PROVE  /\ pc' \in Holding => cfg = map
                      /\ \A q \in Replica : svc'[q] # None => svc'[q] = Effective(map)[2]
                      /\ pods' # {} => InRange(map)
                      /\ pc' \in Removing \cup {"proxy", "report"} => InRange(map)
    BY <1>1 DEF Unedited
  <2>1. cfg = map
    BY DEF RInv, Unedited, Holding
  <2>2. /\ \A q \in Replica : svc'[q] # None => svc'[q] = Effective(map)[2]
        /\ pods' # {} => InRange(map)
        /\ Serve(r) => InRange(map)
    BY Effects
  <2>3. pc' \in Removing \cup {"proxy", "report"} => InRange(map)
    BY <2>2 DEF RInv, Unedited
  <2> QED BY <2>1, <2>2, <2>3
<1>3. Complete'
  <2> SUFFICES ASSUME available # "false", NEW q \in spec \cup pods'
               PROVE  svc'[q] # None \/ q \in halfway' \/ Pending(q)'
    BY <1>1 DEF Complete
  <2>1. q \in Replica
    <3>1. pods' \subseteq Replica
      BY Calls DEF IInv
    <3> QED BY <3>1 DEF IInv, TypeOK
  <2>2. CASE q = r
    BY <2>2
  <2>3. CASE q # r
    <3>1. /\ q \in pods' => q \in pods
          /\ svc[q] # None => svc'[q] # None
          /\ q \in halfway => q \in halfway'
      BY <2>1, <2>3, Effects
    <3>2. svc[q] # None \/ q \in halfway \/ Pending(q)
      BY <3>1 DEF RInv, Complete
    <3> QED BY <2>1, <2>3, <3>1, <3>2
  <2> QED BY <2>2, <2>3
<1>4. Told'
  BY <1>1 DEF RInv, Told
<1>5. Reached'
  <2>1. inProgress
    BY DEF IInv, Loops, Deploying, Creating, Removing
  <2> QED BY <1>1, <2>1 DEF Reached
<1> QED BY <1>2, <1>3, <1>4, <1>5 DEF RInv

LEMMA ReachedPlanning ==
  ASSUME IInv, RInv, Plan
  PROVE  RInv'
<1>1. PICK existing \in SUBSET pods :
        /\ toBeDeleted' = existing \ spec
        /\ \/ /\ spec \ existing = {}
              /\ pc' = "proxy"
              /\ UNCHANGED <<toBeAdded, atHand>>
           \/ /\ spec \ existing # {} /\ existing # {}
              /\ atHand' \in existing
              /\ toBeAdded' = spec \ existing
              /\ pc' = "stop"
           \/ /\ existing = {}
              /\ atHand' \in spec \ existing
              /\ toBeAdded' = (spec \ existing) \ {atHand'}
              /\ pc' = "first"
  BY DEF Plan
<1>2. /\ pc = "create" /\ UNCHANGED <<pods, svc, replicaPods, halfway>>
      /\ UNCHANGED <<map, spec, available, inProgress, target, edited>>
      /\ cfg' = cfg /\ secure' = secure /\ port' = port
  BY DEF Plan, Stays, document, local
<1>3. /\ inProgress /\ spec # {} /\ toBeAdded = {} /\ replicaPods = {}
  BY <1>2 DEF IInv, Loops
<1>4. Unedited'
  <2>1. pc' = "proxy" => pods # {}
    BY <1>1, <1>3
  <2> QED BY <1>1, <1>2, <2>1
          DEF RInv, Unedited, Holding, Deploying, Creating, Removing
<1>5. Complete'
  <2> SUFFICES ASSUME available # "false", NEW q \in spec \cup pods
               PROVE  svc[q] # None \/ q \in halfway \/ Pending(q)'
    BY <1>2 DEF Complete
  <2>1. q \in pods => svc[q] # None \/ q \in halfway
    BY <1>2, <1>3 DEF RInv, Complete, Pending, Creating, Removing
  <2>2. q \notin pods => q \in spec \ existing
    OBVIOUS
  <2>3. q \in spec \ existing => Pending(q)'
    BY <1>1 DEF Pending, Creating
  <2> QED BY <2>1, <2>2, <2>3
<1>6. Told' /\ Reached'
  BY <1>1, <1>2, <1>3 DEF Told, Reached, Removing
<1> QED BY <1>4, <1>5, <1>6 DEF RInv

LEMMA ReachedBuilding ==
  ASSUME IInv, RInv, \/ First \/ FirstService \/ Stop \/ StopSet \/ New
                     \/ Services \/ Principal \/ PrincipalService
  PROVE  RInv'
<1>1. CASE First \/ Stop \/ StopSet \/ Principal
  <2>1. /\ Stays /\ UNCHANGED plan /\ atHand \in Replica
        /\ \/ DeployReplica(atHand) /\ UNCHANGED svc
           \/ Unserve(atHand) \/ Undeploy(atHand)
    BY <1>1 DEF First, Stop, StopSet, Principal, IInv, Loops, Creating
  <2>2. PICK r \in Replica :
          /\ r = atHand /\ atHand' = r
          /\ \/ DeployReplica(r) /\ UNCHANGED svc
             \/ Unserve(r) \/ Undeploy(r)
    BY <2>1 DEF plan
  <2>3. /\ pc \in Creating \ {"create"}
        /\ pc' \in Creating \ {"create", "stop"}
    BY <1>1 DEF First, Stop, StopSet, Principal, Creating
  <2>4. pc \in Deploying /\ pc' \in Deploying /\ pc' \notin Removing \cup {"report", "proxy"}
    BY <2>3 DEF Deploying, Creating, Removing
  <2>5. \A q \in Replica : Pending(q) => Pending(q)'
    BY <2>1, <2>3 DEF Pending, plan, Before, Creating, Removing
  <2>6. Pending(r)'
    BY <2>2, <2>3 DEF Pending, Creating
  <2> QED BY <2>1, <2>2, <2>4, <2>5, <2>6, Completing
<1>2. CASE FirstService \/ PrincipalService
  <2>1. /\ Stays /\ UNCHANGED plan /\ atHand \in Replica /\ Serve(atHand)
    BY <1>2 DEF FirstService, PrincipalService, IInv, Loops, Creating
  <2>2. PICK r \in Replica : r = atHand /\ Serve(r)
    BY <2>1
  <2>3. /\ pc \in {"firstService", "principalService"} /\ pc' \in {"proxy", "stop"}
    BY <1>2 DEF FirstService, PrincipalService
  <2>4. pc \in Deploying /\ pc' \in Deploying /\ pc' \notin Removing \cup {"report"}
    BY <2>3 DEF Deploying, Creating, Removing
  <2>5. \A q \in Replica \ {r} : Pending(q) => Pending(q)'
    BY <2>1, <2>2, <2>3 DEF Pending, plan, Before, Creating, Removing
  <2>6. svc'[r] # None \/ r \in halfway'
    BY <2>2, <2>4, Effects
  <2> QED BY <2>1, <2>2, <2>4, <2>5, <2>6, Completing
<1>3. CASE New
  <2>1. PICK r \in toBeAdded :
          /\ DeployReplica(r)
          /\ toBeAdded' = toBeAdded \ {r}
          /\ replicaPods' = replicaPods \cup {r}
          /\ pc' = IF toBeAdded = {r} THEN "services" ELSE "new"
    BY <1>3 DEF New
  <2>2. pc = "new" /\ Stays /\ UNCHANGED <<svc, toBeDeleted, atHand>>
    BY <1>3 DEF New
  <2>3. r \in Replica /\ pc' \in {"new", "services"}
    BY <2>1 DEF IInv, TypeOK
  <2>4. pc \in Deploying /\ pc' \in Deploying /\ pc' \notin Removing \cup {"report", "proxy"}
    BY <2>2, <2>3 DEF Deploying, Creating, Removing
  <2>5. \A q \in Replica : Pending(q) => Pending(q)'
    BY <2>1, <2>2, <2>3 DEF Pending, Before, Creating, Removing
  <2>6. Pending(r)'
    BY <2>1 DEF Pending
  <2> QED BY <2>1, <2>2, <2>3, <2>4, <2>5, <2>6, Completing
<1>4. CASE Services
  <2>1. PICK r \in replicaPods :
          /\ Serve(r)
          /\ replicaPods' = replicaPods \ {r}
          /\ pc' = IF replicaPods = {r} THEN "principal" ELSE "services"
    BY <1>4 DEF Services
  <2>2. pc = "services" /\ Stays /\ UNCHANGED <<toBeDeleted, toBeAdded, atHand>>
    BY <1>4 DEF Services
  <2>3. r \in Replica /\ pc' \in {"services", "principal"}
    BY <2>1 DEF IInv, TypeOK
  <2>4. pc \in Deploying /\ pc' \in Deploying /\ pc' \notin Removing \cup {"report", "proxy"}
    BY <2>2, <2>3 DEF Deploying, Creating, Removing
  <2>5. \A q \in Replica \ {r} : Pending(q) => Pending(q)'
    BY <2>1, <2>2, <2>3 DEF Pending, Before, Creating, Removing
  <2>6. svc'[r] # None \/ r \in halfway'
    BY <2>1, <2>3, <2>4, Effects
  <2> QED BY <2>1, <2>2, <2>3, <2>4, <2>5, <2>6, Completing
<1> QED BY <1>1, <1>2, <1>3, <1>4

LEMMA ReachedFinishing ==
  ASSUME IInv, RInv, Proxy \/ Remove \/ RemoveSet
  PROVE  RInv'
<1>1. CASE Proxy
  <2>1. /\ pc = "proxy" /\ pc' \in {"report", "remove"}
        /\ UNCHANGED <<map, document, pods, svc, local, plan, halfway, edited>>
        /\ \A r \in Replica : target'[r] = IF r \in spec THEN <<secure, port>> ELSE None
    BY <1>1 DEF Proxy
  <2>2. inProgress /\ toBeAdded = {} /\ replicaPods = {}
    BY <2>1 DEF IInv, Loops, Creating
  <2>3. Unedited'
    BY <2>1 DEF RInv, Unedited, local, Holding, Deploying, Creating, Removing
  <2>4. Complete'
    BY <2>1 DEF RInv, Complete, Pending, document, plan, Before, Creating, Removing
  <2>5. Told' /\ Reached'
    BY <2>1, <2>2 DEF Told, Reached, document, local
  <2> QED BY <2>3, <2>4, <2>5 DEF RInv
<1>2. CASE Remove
  <2>1. PICK r \in toBeDeleted :
          Unserve(r) /\ atHand' = r /\ toBeDeleted' = toBeDeleted \ {r}
    BY <1>2 DEF Remove
  <2>2. /\ pc = "remove" /\ pc' = "removeSet"
        /\ Stays /\ UNCHANGED <<toBeAdded, replicaPods>>
    BY <1>2 DEF Remove
  <2>3. r \in Replica
    BY <2>1 DEF IInv, TypeOK
  <2>4. pc \in Removing /\ pc \in Deploying /\ pc' \in Deploying
    BY <2>2 DEF Deploying, Removing
  <2>5. \A q \in Replica : Pending(q) => Pending(q)'
    BY <2>2 DEF Pending, Before, Creating, Removing
  <2>6. Pending(r)'
    BY <2>1, <2>2 DEF Pending
  <2> QED BY <2>1, <2>2, <2>3, <2>4, <2>5, <2>6, Completing
<1>3. CASE RemoveSet
  <2>1. /\ pc = "removeSet" /\ pc' \in {"report", "remove"}
        /\ Undeploy(atHand) /\ Stays /\ UNCHANGED plan
    BY <1>3 DEF RemoveSet
  <2>2. atHand \in Replica /\ atHand \notin spec
    BY <2>1 DEF IInv, Loops
  <2>3. PICK r \in Replica : r = atHand /\ Undeploy(r)
    BY <2>1, <2>2
  <2>4. pc \in Removing /\ pc \in Deploying /\ pc' \in Deploying
    BY <2>1 DEF Deploying, Removing
  <2>5. \A q \in Replica \ {r} : Pending(q) => Pending(q)'
    BY <2>1, <2>3 DEF Pending, plan, Before, Creating, Removing
  <2>6. r \notin spec /\ (r \notin pods' \/ r \in halfway')
    BY <2>2, <2>3, <2>4, Effects
  <2> QED BY <2>1, <2>3, <2>4, <2>5, <2>6, Completing
<1> QED BY <1>1, <1>2, <1>3

LEMMA ReachedInductive == IInv /\ RInv /\ [Next]_vars => RInv'
<1> SUFFICES ASSUME IInv, RInv, [Next]_vars PROVE RInv'
  OBVIOUS
<1>1. CASE Skip \/ Begin \/ Restart \/ MarkConflict
  BY <1>1, ReachedQuietly
     DEF Skip, Begin, Restart, MarkConflict, Before, Holding, Deploying, Creating,
         Removing
<1>2. CASE Get \/ ReadLdap \/ ReadLdaps \/ ReadRest
  <2>1. CASE Fail \/ Panic
    BY <2>1, ReachedLeaving
  <2>2. CASE ~Fail /\ ~Panic
    <3>1. \E place \in {"ldap", "ldaps", "rest", "create"} : Goes(place)
      BY <1>2, <2>2 DEF Get, ReadLdap, ReadLdaps, ReadRest
    <3>2. /\ pc \in {"get", "ldap", "ldaps", "rest"}
          /\ cfg' = map \/ (pc \in Holding /\ cfg' = cfg)
      BY <1>2, <2>2 DEF Get, ReadLdap, ReadLdaps, ReadRest, local, Holding
    <3> QED BY <3>1, <3>2, ReachedQuietly DEF Goes, document, Before
  <2> QED BY <2>1, <2>2
<1>3. CASE Plan
  BY <1>3, ReachedPlanning
<1>4. CASE \/ First \/ FirstService \/ Stop \/ StopSet \/ New
           \/ Services \/ Principal \/ PrincipalService
  BY <1>4, ReachedBuilding
<1>5. CASE Proxy \/ Remove \/ RemoveSet
  BY <1>5, ReachedFinishing
<1>6. CASE DeployFails \/ NoPod \/ Crash
  BY <1>6, ReachedLeaving DEF DeployFails, NoPod
<1>7. CASE Report
  BY <1>7, ReachedReported
<1>8. CASE Outside
  <2>1. ASSUME NEW d \in (SUBSET Replica) \ {{}}, Edit(d)
        PROVE  RInv'
    <3>1. /\ pc = "idle" /\ toBeAdded = {} /\ replicaPods = {}
          /\ UNCHANGED <<map, inProgress, available, objects, pc, cfg, secure, port, plan,
                         halfway, edited>>
      BY <2>1 DEF Edit, IInv, Loops, local, Creating
    <3>2. Unedited' /\ Told' /\ Reached'
      BY <3>1 DEF RInv, Unedited, Told, Reached, objects, Removing
    <3>3. \A q \in pods : available # "false" => svc[q] # None \/ q \in halfway
      BY <3>1 DEF RInv, Complete, Pending, Before, Creating, Removing
    <3>4. Complete'
      BY <3>1, <3>3 DEF Complete, Pending, Before, objects
    <3> QED BY <3>2, <3>4 DEF RInv
  <2>2. CASE \E c \in Config : EditMap(c)
    BY <2>2 DEF EditMap, RInv, Unedited, Complete, Told, Reached, Pending,
                objects, local, document, plan
  <2>3. CASE \E s \in Secret : EditSecret(s)
    BY <2>3 DEF EditSecret, RInv, Unedited, Complete, Told, Reached, Pending,
                objects, local, document, plan
  <2> QED BY <1>8, <2>1, <2>2, <2>3 DEF Outside
<1>9. CASE UNCHANGED vars
  BY <1>9 DEF vars, RInv, Unedited, Complete, Told, Reached, Pending, objects,
              local, document, plan
<1> QED BY <1>1, <1>2, <1>3, <1>4, <1>5, <1>6, <1>7, <1>8, <1>9
        DEF Next, Reconcile

(* While the ConfigMap is left alone, the proxy looks for each replica on  *)
(* the port of the configuration, which is one of TCP and that of every    *)
(* service, however often the document was edited and the operator crashed *)
(* and whatever became of the secrets.  Only a replica that was left       *)
(* half-way may be without a service.                                      *)
THEOREM RepliesReachable == Spec => []Reached
<1>1. RInv => Reached
  BY DEF RInv
<1> QED BY <1>1, ReachedInitially, ReachedInductive, Invariant, PTL DEF Spec
=============================================================================
