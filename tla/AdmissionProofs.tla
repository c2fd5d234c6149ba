--------------------------- MODULE AdmissionProofs ---------------------------
(***************************************************************************)
(* Theorems about Admission, for any number of users and requests, any     *)
(* claims, and any content users may ask for.                              *)
(*                                                                         *)
(* The invariant says what the webhook has found out so far about each     *)
(* request (Sound): what is still to be looked up, what was compared, and  *)
(* that the version it compares with either is the stored document or is   *)
(* an older one, which the API server does not accept.                     *)
(***************************************************************************)
EXTENDS Admission, NamesProofs, TLAPS

\* The version that request u is compared with is the stored document, or an
\* older one.
Fresh(u) ==
  /\ base[u].rv <= version
  /\ base[u].rv = version => /\ base[u].content = doc
                             /\ base[u].available = available
                             /\ op[u] # "create" => ~inProgress
  /\ op[u] = "create" <=> base[u].content = None

\* What Compare has seen of request u.
Compared(u) ==
  /\ Distinct(new[u])
  /\ op[u] = "update" => /\ base[u].available # "false"
                         /\ new[u].pods = base[u].content.pods

Sound(u) ==
  \/ pc[u] = "idle" /\ op[u] = "none"
  \/ pc[u] = "write" /\ op[u] = "delete" /\ Fresh(u)
  \/ /\ pc[u] # "idle" /\ op[u] \in {"create", "update"}
     /\ new[u] \in Content
     /\ Fresh(u)
     /\ ToSet(Needed(new[u])) \subseteq ToSet(todo[u]) \cup facts \cup removed
     /\ pc[u] # "look" => todo[u] = <<>> /\ Compared(u)

\* The operator works on the stored document, which is not failing and is
\* marked as being in progress; a document that does not exist has no marks.
Operating ==
  /\ working # None => working = doc /\ inProgress /\ available # "false"
  /\ doc = None => ~inProgress /\ available = "unset"

IInv == /\ TypeOK
        /\ \A u \in User : Sound(u)
        /\ Operating
        /\ ClaimsDistinct /\ References

\* The types of the requests, and those of everything else.
RequestsTyped ==
  /\ pc \in [User -> {"idle", "look", "pods", "primaries", "write"}]
  /\ op \in [User -> {"none", "create", "update", "delete"}]
  /\ new \in [User -> Content \cup {None}]
  /\ base \in [User -> Version]
  /\ todo \in [User -> Seq(Fact)]
  /\ removing \in [User -> SUBSET Claim] /\ asked \in [User -> SUBSET Claim]
  /\ \A u \in User : op[u] \in {"update", "delete"} => base[u].content # None

SystemTyped ==
  /\ doc \in Content \cup {None} /\ version \in Nat
  /\ inProgress \in BOOLEAN /\ available \in {"unset", "true", "false"}
  /\ working \in Content \cup {None} /\ pending \in BOOLEAN
  /\ facts \subseteq Fact /\ removed \subseteq Fact
  /\ ready \subseteq replicas /\ replicas \subseteq Claim
  /\ primary \in Claim \cup {None}
  /\ proxyUp \in BOOLEAN

\* No step but the writes of the document leaves its version alone, and
\* nothing that was true is forgotten.
Grows ==
  /\ UNCHANGED document \/ version' = version + 1
  /\ facts \cup removed \subseteq facts' \cup removed'

\* Request v has no part in the step.
Apart(v) ==
  /\ pc'[v] = pc[v] /\ op'[v] = op[v] /\ new'[v] = new[v]
  /\ base'[v] = base[v] /\ todo'[v] = todo[v]
-----------------------------------------------------------------------------
LEMMA Types == /\ TypeOK <=> RequestsTyped /\ SystemTyped
               /\ TypeOK' <=> RequestsTyped' /\ SystemTyped'
  BY DEF TypeOK, RequestsTyped, SystemTyped

LEMMA Contents ==
  ASSUME NEW c \in Content
  PROVE  /\ c # None
         /\ c.claims \in Seq(Claim) /\ c.proxyClaim \in Claim \cup {None}
         /\ c.pods \in Pods
         /\ Needed(c) \in Seq(Fact)
         /\ ToSet(c.claims) \subseteq Claim
<1>1. c \in Specification /\ c # None
  BY AdmissionAssumption
<1>2. /\ c.claims \in Seq(Claim) /\ c.proxyClaim \in Claim \cup {None}
      /\ c.pods \in Pods
  BY <1>1 DEF Specification
<1>3. c.claims \in Seq(Fact)
  BY <1>2, AdmissionAssumption
<1>4. Refs[c.pods] \in Seq(Fact)
  BY <1>2, AdmissionAssumption
<1>5. (IF c.proxyClaim = None THEN <<>> ELSE <<c.proxyClaim>>) \in Seq(Fact)
  BY <1>2, AdmissionAssumption
<1>6. Needed(c) \in Seq(Fact)
  BY <1>3, <1>4, <1>5 DEF Needed
<1>7. ToSet(c.claims) \subseteq Claim
  BY <1>2 DEF ToSet
<1> QED BY <1>1, <1>2, <1>6, <1>7

LEMMA ToSetConcat ==
  ASSUME NEW S, NEW s \in Seq(S), NEW t \in Seq(S)
  PROVE  ToSet(s) \cup ToSet(t) \subseteq ToSet(s \o t)
<1>1. ASSUME NEW i \in DOMAIN s PROVE s[i] \in ToSet(s \o t)
  <2>1. i \in DOMAIN (s \o t) /\ (s \o t)[i] = s[i]
    OBVIOUS
  <2> QED BY <2>1 DEF ToSet
<1>2. ASSUME NEW i \in DOMAIN t PROVE t[i] \in ToSet(s \o t)
  <2>1. Len(s) + i \in DOMAIN (s \o t) /\ (s \o t)[Len(s) + i] = t[i]
    OBVIOUS
  <2> QED BY <2>1 DEF ToSet
<1> QED BY <1>1, <1>2 DEF ToSet

\* What is looked up is everything the document refers to.
LEMMA AllNeeded ==
  ASSUME NEW c \in Content
  PROVE  ToSet(c.claims) \cup ToSet(Refs[c.pods]) \cup ({c.proxyClaim} \ {None})
           \subseteq ToSet(Needed(c))
<1> DEFINE proxy == IF c.proxyClaim = None THEN <<>> ELSE <<c.proxyClaim>>
<1>1. /\ c.claims \in Seq(Fact) /\ proxy \in Seq(Fact)
      /\ Refs[c.pods] \in Seq(Fact)
  BY Contents, AdmissionAssumption
<1>2. {c.proxyClaim} \ {None} \subseteq ToSet(proxy)
  <2>1. CASE c.proxyClaim = None
    BY <2>1
  <2>2. CASE c.proxyClaim # None
    <3>1. proxy = <<c.proxyClaim>> /\ 1 \in DOMAIN proxy /\ proxy[1] = c.proxyClaim
      BY <2>2
    <3> QED BY <3>1 DEF ToSet
  <2> QED BY <2>1, <2>2
<1> HIDE DEF proxy
<1>3. ToSet(c.claims) \cup ToSet(proxy) \subseteq ToSet(c.claims \o proxy)
      /\ c.claims \o proxy \in Seq(Fact)
  BY <1>1, ToSetConcat
<1>4. ToSet(c.claims \o proxy) \cup ToSet(Refs[c.pods])
        \subseteq ToSet((c.claims \o proxy) \o Refs[c.pods])
  BY <1>1, <1>3, ToSetConcat
<1>5. Needed(c) = (c.claims \o proxy) \o Refs[c.pods]
  BY DEF Needed, proxy
<1> QED BY <1>2, <1>3, <1>4, <1>5

\* Distinct compares the claim of the proxy with the others.
LEMMA DistinctServers ==
  ASSUME NEW c \in Content, Distinct(c)
  PROVE  IsInjective(Append(c.claims, c.proxyClaim))
<1>1. c.claims \in Seq(Claim)
  BY Contents
<1> DEFINE all == Append(c.claims, c.proxyClaim)
           n == Len(c.claims)
<1>2. /\ n \in Nat /\ DOMAIN all = 1 .. n + 1 /\ DOMAIN c.claims = 1 .. n
      /\ all[n + 1] = c.proxyClaim
      /\ \A i \in 1 .. n : all[i] = c.claims[i]
  BY <1>1
<1> HIDE DEF all, n
<1>3. \A i \in 1 .. n : c.claims[i] # c.proxyClaim
  BY <1>2 DEF Distinct, ToSet
<1>4. \A i, j \in 1 .. n : c.claims[i] = c.claims[j] => i = j
  BY <1>2 DEF Distinct, IsInjective
<1>5. \A i, j \in 1 .. n + 1 : all[i] = all[j] => i = j
  BY <1>2, <1>3, <1>4
<1>6. IsInjective(all)
  BY <1>2, <1>5 DEF IsInjective
<1> QED BY <1>6 DEF all
-----------------------------------------------------------------------------
LEMMA Kept ==
  ASSUME TypeOK, NEW v \in User, Sound(v), Apart(v), Grows
  PROVE  Sound(v)'
<1>1. version \in Nat /\ base[v].rv \in Nat
  BY DEF TypeOK, Version
<1>2. CASE UNCHANGED document
  BY <1>2 DEF Sound, Fresh, Compared, Apart, Grows, document
<1>3. CASE version' = version + 1
  <2>1. Fresh(v) => Fresh(v)'
    BY <1>1, <1>3 DEF Fresh, Apart
  <2>2. Compared(v) => Compared(v)'
    BY DEF Compared, Apart
  <2> QED BY <2>1, <2>2 DEF Sound, Apart, Grows
<1> QED BY <1>2, <1>3 DEF Grows

LEMMA Ended ==
  ASSUME TypeOK, NEW u \in User, Done(u)
  PROVE  /\ Sound(u)'
         /\ \A v \in User \ {u} : Apart(v)
  BY DEF TypeOK, Done, Sound, Apart

\* A call of the webhook for a request that may be made.
LEMMA Called ==
  ASSUME TypeOK, NEW u \in User, NEW what \in {"create", "update", "delete"},
         NEW c \in Content \cup {None}, Call(u, what, c),
         what = "create" <=> doc = None,
         what # "create" => ~inProgress,
         what # "delete" => c \in Content,
         UNCHANGED <<document, facts, removed>>
  PROVE  /\ Sound(u)'
         /\ \A v \in User \ {u} : Apart(v)
         /\ RequestsTyped'
<1>1. Shown \in Version /\ Shown.rv = version /\ Shown.content = doc
      /\ Shown.available = available
  BY DEF TypeOK, Shown, Version
<1>2. /\ op' = [op EXCEPT ![u] = what] /\ new' = [new EXCEPT ![u] = c]
      /\ base' = [base EXCEPT ![u] = Shown]
      /\ removing' = [removing EXCEPT ![u] = {}]
      /\ asked' = [asked EXCEPT ![u] = {}]
  BY DEF Call
<1>3. /\ op'[u] = what /\ new'[u] = c /\ base'[u] = Shown
      /\ \A v \in User \ {u} :
           op'[v] = op[v] /\ new'[v] = new[v] /\ base'[v] = base[v]
  BY <1>2 DEF TypeOK
<1>4. Fresh(u)'
  BY <1>1, <1>3 DEF Fresh, document, TypeOK
<1>5. /\ op' \in [User -> {"none", "create", "update", "delete"}]
      /\ new' \in [User -> Content \cup {None}]
      /\ base' \in [User -> Version]
      /\ removing' \in [User -> SUBSET Claim]
      /\ asked' \in [User -> SUBSET Claim]
  BY <1>1, <1>2 DEF TypeOK
<1>6. \A v \in User : op'[v] \in {"update", "delete"} => base'[v].content # None
  BY <1>1, <1>3 DEF TypeOK
<1>7. CASE what = "delete"
  <2>1. pc' = [pc EXCEPT ![u] = "write"] /\ todo' = todo
    BY <1>7 DEF Call
  <2>2. pc'[u] = "write"
    BY <2>1 DEF TypeOK
  <2>3. Sound(u)'
    BY <1>3, <1>4, <1>7, <2>2 DEF Sound
  <2> QED BY <1>3, <1>5, <1>6, <2>1, <2>3 DEF TypeOK, RequestsTyped, Apart
<1>8. CASE what # "delete"
  <2>1. pc' = [pc EXCEPT ![u] = "look"] /\ todo' = [todo EXCEPT ![u] = Needed(c)]
    BY <1>8 DEF Call
  <2>2. Needed(c) \in Seq(Fact)
    BY <1>8, Contents
  <2>3. pc'[u] = "look" /\ todo'[u] = Needed(c)
    BY <2>1 DEF TypeOK
  <2>4. Sound(u)'
    BY <1>3, <1>4, <1>8, <2>3 DEF Sound
  <2> QED BY <1>3, <1>5, <1>6, <2>1, <2>2, <2>4 DEF TypeOK, RequestsTyped, Apart
<1> QED BY <1>7, <1>8
-----------------------------------------------------------------------------
LEMMA Initially == Init => IInv
<1> SUFFICES ASSUME Init PROVE IInv
  OBVIOUS
<1>1. TypeOK
  <2>1. Absent \in Version
    BY DEF Absent, Version
  <2>2. /\ pc \in [User -> {"idle", "look", "pods", "primaries", "write"}]
        /\ op \in [User -> {"none", "create", "update", "delete"}]
        /\ new \in [User -> Content \cup {None}]
        /\ base \in [User -> Version]
        /\ removing \in [User -> SUBSET Claim] /\ asked \in [User -> SUBSET Claim]
    BY <2>1 DEF Init
  <2>3. todo \in [User -> Seq(Fact)]
    BY DEF Init
  <2>4. \A u \in User : op[u] = "none"
    BY DEF Init
  <2>5. facts \subseteq Fact /\ removed \subseteq Fact
    BY AdmissionAssumption DEF Init
  <2> QED BY <2>2, <2>3, <2>4, <2>5 DEF Init, TypeOK
<1>2. \A u \in User : Sound(u)
  BY DEF Init, Sound
<1>3. Operating /\ ClaimsDistinct /\ References
  BY DEF Init, Operating, ClaimsDistinct, References
<1> QED BY <1>1, <1>2, <1>3 DEF IInv

\* Steps that leave the document and the operator alone.
LEMMA Calm ==
  ASSUME IInv, UNCHANGED <<doc, inProgress, available, working>>, Grows
  PROVE  Operating' /\ ClaimsDistinct' /\ References'
  BY DEF IInv, Operating, ClaimsDistinct, References, Grows

\* Steps of one request, of which the others know nothing.
LEMMA OneRequest ==
  ASSUME IInv, NEW u \in User, Sound(u)', \A v \in User \ {u} : Apart(v), Grows
  PROVE  \A v \in User : Sound(v)'
<1> SUFFICES ASSUME NEW v \in User PROVE Sound(v)'
  OBVIOUS
<1>1. CASE v = u
  BY <1>1
<1>2. CASE v # u
  BY <1>2, Kept DEF IInv
<1> QED BY <1>1, <1>2

LEMMA SubmitKeeps == ASSUME IInv, NEW u \in User, Submit(u) PROVE IInv'
<1>1. UNCHANGED <<document, operator, cluster>> /\ Grows
  BY DEF Submit, Grows, cluster
<1>2. \E what \in {"create", "update", "delete"}, c \in Content \cup {None} :
        /\ Call(u, what, c)
        /\ what = "create" <=> doc = None
        /\ what # "create" => ~inProgress
        /\ what # "delete" => c \in Content
  BY DEF Submit
<1>3. /\ Sound(u)'
      /\ \A v \in User \ {u} : Apart(v)
      /\ TypeOK'
  <2>1. PICK what \in {"create", "update", "delete"}, c \in Content \cup {None} :
          /\ Call(u, what, c)
          /\ what = "create" <=> doc = None
          /\ what # "create" => ~inProgress
          /\ what # "delete" => c \in Content
    BY <1>2
  <2>2. TypeOK /\ UNCHANGED <<document, facts, removed>>
    BY <1>1 DEF IInv, cluster
  <2>3. /\ Sound(u)'
        /\ \A v \in User \ {u} : Apart(v)
        /\ RequestsTyped'
    BY <2>1, <2>2, Called
  <2>4. TypeOK'
    BY <1>1, <2>2, <2>3, Types DEF SystemTyped, document, operator, cluster
  <2> QED BY <2>3, <2>4
<1>4. Operating' /\ ClaimsDistinct' /\ References'
  BY <1>1, Calm DEF document, operator
<1> QED BY <1>1, <1>3, <1>4, OneRequest DEF IInv

LEMMA LookKeeps == ASSUME IInv, NEW u \in User, Look(u) PROVE IInv'
<1>1. UNCHANGED <<document, operator, cluster, pc, op, new, base>> /\ Grows
  BY DEF Look, Grows, cluster
<1>2. todo[u] \in Seq(Fact) /\ todo[u] # <<>>
  BY DEF Look, IInv, TypeOK
<1>3. todo' = [todo EXCEPT ![u] = Tail(todo[u])] /\ Tail(todo[u]) \in Seq(Fact)
  BY <1>2 DEF Look
<1>4. todo'[u] = Tail(todo[u]) /\ \A v \in User \ {u} : Apart(v)
  BY <1>1, <1>3 DEF IInv, TypeOK, Apart
<1>5. TypeOK'
  BY <1>1, <1>3 DEF Look, IInv, TypeOK, document, operator, cluster
<1>6. Head(todo[u]) \in facts
  BY DEF Look
<1>7. ToSet(todo[u]) \subseteq {Head(todo[u])} \cup ToSet(Tail(todo[u]))
  <2> SUFFICES ASSUME NEW i \in DOMAIN todo[u]
               PROVE  todo[u][i] \in {Head(todo[u])} \cup ToSet(Tail(todo[u]))
    BY DEF ToSet
  <2>1. CASE i = 1
    BY <1>2, <2>1
  <2>2. CASE i # 1
    <3>1. /\ i - 1 \in DOMAIN Tail(todo[u])
          /\ Tail(todo[u])[i - 1] = todo[u][i]
      BY <1>2, <2>2
    <3> QED BY <3>1 DEF ToSet
  <2> QED BY <2>1, <2>2
<1>8. Sound(u)'
  <2>1. Sound(u) /\ pc[u] = "look" /\ pc'[u] = "look"
    BY <1>1 DEF IInv, Look
  <2>2. /\ op[u] \in {"create", "update"} /\ new[u] \in Content /\ Fresh(u)
        /\ ToSet(Needed(new[u])) \subseteq ToSet(todo[u]) \cup facts \cup removed
    BY <2>1 DEF Sound
  <2>3. ToSet(Needed(new[u])) \subseteq ToSet(Tail(todo[u])) \cup facts \cup removed
    BY <1>6, <1>7, <2>2
  <2>4. Fresh(u)'
    BY <1>1, <2>2 DEF Fresh, document
  <2>5. ToSet(Needed(new'[u])) \subseteq ToSet(todo'[u]) \cup facts' \cup removed'
    BY <1>1, <1>4, <2>3 DEF cluster
  <2> QED BY <1>1, <2>1, <2>2, <2>4, <2>5 DEF Sound
<1>9. Operating' /\ ClaimsDistinct' /\ References'
  BY <1>1, Calm DEF document, operator
<1> QED BY <1>1, <1>4, <1>5, <1>8, <1>9, OneRequest DEF IInv

\* The checks after the lookups: a request moves on, and nothing else happens.
LEMMA MovesOn ==
  ASSUME IInv, NEW u \in User, NEW next \in {"pods", "primaries", "write"},
         pc' = [pc EXCEPT ![u] = next],
         UNCHANGED <<document, operator, cluster, op, new, base, todo>>,
         Sound(u), pc[u] # "idle", op[u] \in {"create", "update"},
         todo[u] = <<>>, Compared(u),
         removing' \in [User -> SUBSET Claim], asked' \in [User -> SUBSET Claim]
  PROVE  /\ Grows
         /\ \A v \in User : Sound(v)'
         /\ Operating' /\ ClaimsDistinct' /\ References'
<1>1. Grows
  BY DEF Grows, cluster
<1>2. pc'[u] = next /\ \A v \in User \ {u} : Apart(v)
  BY DEF IInv, TypeOK, Apart
<1>3. Fresh(u)'
  BY DEF Sound, Fresh, document
<1>4. Compared(u)'
  BY DEF Compared
<1>5. Sound(u)'
  BY <1>2, <1>3, <1>4 DEF Sound, cluster
<1>6. Operating' /\ ClaimsDistinct' /\ References'
  BY <1>1, Calm DEF document, operator
<1> QED BY <1>1, <1>2, <1>5, <1>6, OneRequest

LEMMA CompareKeeps == ASSUME IInv, NEW u \in User, Compare(u) PROVE IInv'
<1>1. /\ pc[u] = "look" /\ todo[u] = <<>> /\ Compared(u)
      /\ UNCHANGED <<document, operator, cluster, op, new, base, todo, removing,
                     asked, bounds>>
  BY DEF Compare, Compared
<1>2. PICK next \in {"pods", "write"} : pc' = [pc EXCEPT ![u] = next]
  BY DEF Compare
<1>3. Sound(u) /\ op[u] \in {"create", "update"}
  BY <1>1 DEF IInv, Sound
<1>4. TypeOK'
  BY <1>1, <1>2 DEF IInv, TypeOK, document, operator, cluster
<1>5. /\ \A v \in User : Sound(v)'
      /\ Operating' /\ ClaimsDistinct' /\ References'
  BY <1>1, <1>2, <1>3, <1>4, MovesOn DEF TypeOK
<1> QED BY <1>4, <1>5 DEF IInv

LEMMA ListPodsKeeps == ASSUME IInv, NEW u \in User, ListPods(u) PROVE IInv'
<1>1. /\ pc[u] = "pods"
      /\ UNCHANGED <<document, operator, cluster, op, new, base, todo, asked, bounds>>
  BY DEF ListPods
<1>2. PICK next \in {"primaries", "write"} : pc' = [pc EXCEPT ![u] = next]
  BY DEF ListPods
<1>3. /\ Sound(u) /\ op[u] \in {"create", "update"} /\ todo[u] = <<>>
      /\ Compared(u)
  BY <1>1 DEF IInv, Sound
<1>4. removing' \in [User -> SUBSET Claim]
  <2>1. Seen \subseteq Claim
    BY DEF Seen, IInv, TypeOK
  <2>2. removing' = [removing EXCEPT ![u] = Seen \ ToSet(new[u].claims)]
    BY DEF ListPods
  <2> QED BY <2>1, <2>2 DEF IInv, TypeOK
<1>5. TypeOK'
  BY <1>1, <1>2, <1>4 DEF IInv, TypeOK, document, operator, cluster
<1>6. /\ \A v \in User : Sound(v)'
      /\ Operating' /\ ClaimsDistinct' /\ References'
  BY <1>1, <1>2, <1>3, <1>5, MovesOn DEF TypeOK
<1> QED BY <1>5, <1>6 DEF IInv

LEMMA AskProxyKeeps == ASSUME IInv, NEW u \in User, AskProxy(u) PROVE IInv'
<1>1. /\ pc[u] = "primaries" /\ pc' = [pc EXCEPT ![u] = "write"]
      /\ UNCHANGED <<document, operator, cluster, op, new, base, todo, removing,
                     bounds>>
  BY DEF AskProxy
<1>2. /\ Sound(u) /\ op[u] \in {"create", "update"} /\ todo[u] = <<>>
      /\ Compared(u)
  BY <1>1 DEF IInv, Sound
<1>3. asked' \in [User -> SUBSET Claim]
  BY DEF AskProxy, IInv, TypeOK
<1>4. TypeOK'
  BY <1>1, <1>3 DEF IInv, TypeOK, document, operator, cluster
<1>5. /\ \A v \in User : Sound(v)'
      /\ Operating' /\ ClaimsDistinct' /\ References'
  BY <1>1, <1>2, <1>4, MovesOn DEF TypeOK
<1> QED BY <1>4, <1>5 DEF IInv

\* Refuse, Erase: the request ends.
LEMMA EndTyped ==
  ASSUME TypeOK, NEW u \in User, Done(u)
  PROVE  /\ RequestsTyped'
<1>1. Absent \in Version
  BY DEF Absent, Version
<1>2. /\ op' = [op EXCEPT ![u] = "none"] /\ base' = [base EXCEPT ![u] = Absent]
  BY DEF Done
<1>3. \A v \in User : op'[v] \in {"update", "delete"} => base'[v].content # None
  BY <1>2 DEF TypeOK
<1> QED BY <1>1, <1>3 DEF Done, TypeOK, RequestsTyped

LEMMA RefuseKeeps == ASSUME IInv, NEW u \in User, Refuse(u) PROVE IInv'
<1>1. UNCHANGED <<document, operator, cluster, bounds>> /\ Done(u) /\ TypeOK
  BY DEF Refuse, IInv
<1>2. Grows
  BY <1>1 DEF Grows, cluster
<1>3. TypeOK'
  BY <1>1, EndTyped, Types DEF SystemTyped, document, operator, cluster
<1>4. Operating' /\ ClaimsDistinct' /\ References'
  BY <1>1, <1>2, Calm DEF document, operator
<1>5. Sound(u)' /\ \A v \in User \ {u} : Apart(v)
  BY <1>1, Ended
<1> QED BY <1>2, <1>3, <1>4, <1>5, OneRequest DEF IInv

\* What is known of a request whose document is taken.
LEMMA Taken ==
  ASSUME IInv, NEW u \in User, pc[u] = "write", op[u] \in {"create", "update"},
         Current(u)
  PROVE  /\ new[u] \in Content /\ Compared(u)
         /\ ToSet(Needed(new[u])) \subseteq facts \cup removed
         /\ op[u] = "create" => doc = None /\ ~inProgress /\ available = "unset"
         /\ op[u] = "update" => /\ doc # None /\ ~inProgress
                                /\ available # "false" /\ new[u].pods = doc.pods
<1>1. Sound(u) /\ Operating
  BY DEF IInv
<1>2. /\ new[u] \in Content /\ Compared(u) /\ Fresh(u) /\ todo[u] = <<>>
      /\ ToSet(Needed(new[u])) \subseteq ToSet(todo[u]) \cup facts \cup removed
  BY <1>1 DEF Sound
<1>3. ToSet(<<>>) = {}
  BY DEF ToSet
<1> QED BY <1>1, <1>2, <1>3 DEF Fresh, Current, Operating, Compared

LEMMA StoreKeeps == ASSUME IInv, NEW u \in User, Store(u) PROVE IInv'
<1>1. /\ pc[u] = "write" /\ op[u] \in {"create", "update"} /\ Current(u)
      /\ doc' = new[u] /\ version' = version + 1 /\ pending' = TRUE /\ Done(u)
      /\ UNCHANGED <<inProgress, available, working, cluster, bounds>>
  BY DEF Store
<1>2. /\ new[u] \in Content /\ Compared(u)
      /\ ToSet(Needed(new[u])) \subseteq facts \cup removed
      /\ ~inProgress /\ doc' # None
  BY <1>1, Taken, Contents
<1>3. Grows
  BY <1>1 DEF Grows, cluster
<1>4. TypeOK'
  BY <1>1, <1>2, EndTyped, Types DEF IInv, SystemTyped, cluster
<1>5. Operating'
  BY <1>1, <1>2 DEF IInv, Operating
<1>6. ClaimsDistinct'
  BY <1>1, <1>2, DistinctServers DEF ClaimsDistinct, Compared
<1>7. References'
  <2>1. ToSet(new[u].claims) \cup ToSet(Refs[new[u].pods])
          \cup ({new[u].proxyClaim} \ {None}) \subseteq facts \cup removed
    BY <1>2, AllNeeded
  <2> QED BY <1>1, <2>1 DEF References, cluster
<1>8. Sound(u)' /\ \A v \in User \ {u} : Apart(v)
  BY <1>1, Ended DEF IInv
<1> QED BY <1>3, <1>4, <1>5, <1>6, <1>7, <1>8, OneRequest DEF IInv

LEMMA EraseKeeps == ASSUME IInv, NEW u \in User, Erase(u) PROVE IInv'
<1>1. /\ pc[u] = "write" /\ op[u] = "delete" /\ Current(u) /\ Done(u)
      /\ doc' = None /\ inProgress' = FALSE /\ available' = "unset"
      /\ version' = version + 1 /\ pending' = FALSE
      /\ replicas' = {} /\ ready' = {} /\ primary' = None /\ proxyUp' = FALSE
      /\ UNCHANGED <<working, facts, removed, bounds>>
  BY DEF Erase
<1>2. Grows
  BY <1>1 DEF Grows
<1>3. TypeOK'
  <2>1. /\ RequestsTyped'
    BY <1>1, EndTyped DEF IInv
  <2>2. SystemTyped
    BY Types DEF IInv
  <2>3. version' \in Nat
    BY <1>1, <2>2 DEF SystemTyped
  <2>4. inProgress' \in BOOLEAN /\ pending' \in BOOLEAN /\ proxyUp' \in BOOLEAN
    BY <1>1
  <2>5. SystemTyped'
    BY <1>1, <2>2, <2>3, <2>4 DEF SystemTyped
  <2> QED BY <2>1, <2>5, Types
<1>4. working = None
  BY <1>1 DEF IInv, Sound, Fresh, Current, Operating
<1>5. Operating' /\ ClaimsDistinct' /\ References'
  BY <1>1, <1>4 DEF Operating, ClaimsDistinct, References
<1>6. Sound(u)' /\ \A v \in User \ {u} : Apart(v)
  BY <1>1, Ended DEF IInv
<1> QED BY <1>2, <1>3, <1>5, <1>6, OneRequest DEF IInv

LEMMA RetryKeeps == ASSUME IInv, NEW u \in User, Retry(u) PROVE IInv'
<1>1. /\ pc[u] = "write" /\ op[u] \in {"update", "delete"}
      /\ doc # None /\ ~inProgress /\ Call(u, op[u], new[u])
      /\ UNCHANGED <<document, operator, cluster, bounds>>
  BY DEF Retry
<1>2. new[u] \in Content \cup {None} /\ TypeOK
  BY DEF IInv, TypeOK
<1>3. op[u] # "delete" => new[u] \in Content
  BY <1>1 DEF IInv, Sound
<1>4. UNCHANGED <<document, facts, removed>>
  BY <1>1 DEF cluster
<1>5. /\ Sound(u)'
      /\ \A v \in User \ {u} : Apart(v)
      /\ RequestsTyped'
  BY <1>1, <1>2, <1>3, <1>4, Called
<1>6. Grows
  BY <1>1 DEF Grows, cluster
<1>7. TypeOK'
  BY <1>1, <1>2, <1>5, Types DEF SystemTyped, document, operator, cluster
<1>8. Operating' /\ ClaimsDistinct' /\ References'
  BY <1>1, <1>6, Calm DEF document, operator
<1> QED BY <1>5, <1>6, <1>7, <1>8, OneRequest DEF IInv
-----------------------------------------------------------------------------
\* Steps without a request: Apart holds of every user.
LEMMA NoRequest ==
  ASSUME IInv, UNCHANGED request, Grows
  PROVE  /\ \A v \in User : Sound(v)'
         /\ RequestsTyped'
<1>1. ASSUME NEW v \in User PROVE Sound(v)'
  <2>1. Apart(v)
    BY DEF Apart, request
  <2> QED BY <2>1, Kept DEF IInv
<1>2. RequestsTyped'
  BY Types DEF IInv, RequestsTyped, request
<1> QED BY <1>1, <1>2

LEMMA OperatorKeeps == ASSUME IInv, Operator \/ Abandon PROVE IInv'
<1>1. CASE Start
  <2>1. Grows /\ UNCHANGED request
    BY <1>1 DEF Start, Grows, cluster
  <2>2. TypeOK'
    <3>1. SystemTyped
      BY Types DEF IInv
    <3>2. version' \in Nat
      BY <1>1, <3>1 DEF Start, SystemTyped
    <3>3. inProgress' \in BOOLEAN /\ pending' \in BOOLEAN
      BY <1>1 DEF Start
    <3>4. /\ doc' \in Content \cup {None} /\ working' \in Content \cup {None}
          /\ available' \in {"unset", "true", "false"}
      BY <1>1, <3>1 DEF Start, SystemTyped
    <3>5. UNCHANGED cluster
      BY <1>1 DEF Start
    <3>6. SystemTyped'
      BY <3>1, <3>2, <3>3, <3>4, <3>5 DEF SystemTyped, cluster
    <3> QED BY <2>1, <3>6, NoRequest, Types
  <2>3. Operating'
    BY <1>1 DEF Start, Operating
  <2>4. ClaimsDistinct' /\ References'
    BY <1>1 DEF Start, IInv, ClaimsDistinct, References, cluster
  <2> QED BY <2>1, <2>2, <2>3, <2>4, NoRequest DEF IInv
<1>2. ASSUME NEW outcome \in {"true", "false"}, Finish(outcome) PROVE IInv'
  <2>1. Grows /\ UNCHANGED request
    BY <1>2 DEF Finish, Grows
  <2>2. working \in Content /\ working = doc
    BY <1>2 DEF Finish, IInv, TypeOK, Operating
  <2>3. /\ ready' \subseteq replicas' /\ replicas' \subseteq Claim
        /\ primary' \in Claim \cup {None} /\ proxyUp' \in BOOLEAN
    <3>1. CASE /\ replicas' = ToSet(working.claims) /\ ready' = replicas'
               /\ proxyUp' = TRUE /\ primary' \in replicas' \cup {None}
      BY <2>2, <3>1, Contents
    <3>2. CASE UNCHANGED <<replicas, ready, proxyUp, primary>>
      BY <3>2, Types DEF IInv, SystemTyped
    <3> QED BY <1>2, <3>1, <3>2 DEF Finish
  <2>4. TypeOK'
    <3>1. SystemTyped
      BY Types DEF IInv
    <3>2. version' \in Nat
      BY <1>2, <3>1 DEF Finish, SystemTyped
    <3>3. inProgress' \in BOOLEAN /\ pending' \in BOOLEAN
      BY <1>2, <3>1 DEF Finish, SystemTyped
    <3>4. /\ doc' \in Content \cup {None} /\ working' \in Content \cup {None}
          /\ available' \in {"unset", "true", "false"}
          /\ facts' \subseteq Fact /\ removed' \subseteq Fact
      BY <1>2, <3>1 DEF Finish, SystemTyped
    <3>5. SystemTyped'
      BY <2>3, <3>2, <3>3, <3>4 DEF SystemTyped
    <3> QED BY <2>1, <3>5, NoRequest, Types
  <2>5. Operating'
    BY <1>2, <2>2 DEF Finish, IInv, TypeOK, Operating
  <2>6. ClaimsDistinct' /\ References'
    BY <1>2 DEF Finish, IInv, ClaimsDistinct, References
  <2> QED BY <2>1, <2>4, <2>5, <2>6, NoRequest DEF IInv
<1>3. CASE Abandon
  <2>1. Grows /\ UNCHANGED request
    BY <1>3 DEF Abandon, Grows, cluster
  <2>2. TypeOK'
    <3>1. SystemTyped'
      BY <1>3, Types DEF Abandon, IInv, SystemTyped, document, cluster
    <3> QED BY <2>1, <3>1, NoRequest, Types
  <2>3. Operating'
    BY <1>3 DEF Abandon, IInv, Operating, document
  <2>4. ClaimsDistinct' /\ References'
    BY <1>3 DEF Abandon, IInv, ClaimsDistinct, References, document, cluster
  <2> QED BY <2>1, <2>2, <2>3, <2>4, NoRequest DEF IInv
<1> QED BY <1>1, <1>2, <1>3 DEF Operator

LEMMA OutsideKeeps == ASSUME IInv, Outside PROVE IInv'
<1>1. UNCHANGED <<document, operator, request, requests, crashes>>
      /\ facts \cup removed \subseteq facts' \cup removed'
  BY DEF Outside, Withdraw, Provide, PodFails, PodRecovers, ProxyChanges, bounds
<1>2. Grows
  BY <1>1 DEF Grows
<1>3. SystemTyped'
  <2>1. SystemTyped /\ UNCHANGED <<document, operator>>
    BY <1>1, Types DEF IInv
  <2>2. CASE \E f \in Fact : Withdraw(f) \/ Provide(f)
    BY <2>1, <2>2 DEF Withdraw, Provide, SystemTyped, document, operator
  <2>3. ASSUME NEW p \in Claim, PodFails(p) PROVE SystemTyped'
    <3>1. ready' \subseteq replicas' /\ primary' \in Claim \cup {None}
      BY <2>1, <2>3 DEF PodFails, SystemTyped
    <3> QED BY <2>1, <2>3, <3>1 DEF PodFails, SystemTyped, document, operator
  <2>4. ASSUME NEW p \in Claim, PodRecovers(p) PROVE SystemTyped'
    BY <2>1, <2>4 DEF PodRecovers, SystemTyped, document, operator
  <2>5. CASE ProxyChanges
    BY <2>1, <2>5 DEF ProxyChanges, SystemTyped, document, operator
  <2> QED BY <2>2, <2>3, <2>4, <2>5 DEF Outside
<1>4. TypeOK'
  BY <1>1, <1>2, <1>3, NoRequest, Types
<1>5. Operating' /\ ClaimsDistinct' /\ References'
  BY <1>1, <1>2, Calm DEF document, operator
<1> QED BY <1>1, <1>2, <1>4, <1>5, NoRequest DEF IInv

LEMMA Inductive == IInv /\ [Next]_vars => IInv'
<1> SUFFICES ASSUME IInv, [Next]_vars PROVE IInv'
  OBVIOUS
<1>1. ASSUME NEW u \in User, Submit(u) \/ Step(u) PROVE IInv'
  BY <1>1, SubmitKeeps, LookKeeps, CompareKeeps, ListPodsKeeps, AskProxyKeeps,
     RefuseKeeps, StoreKeeps, EraseKeeps, RetryKeeps DEF Step
<1>2. CASE UNCHANGED vars
  <2>1. Grows /\ UNCHANGED request
    BY <1>2 DEF vars, Grows, cluster
  <2>2. TypeOK'
    <3>1. SystemTyped'
      BY <1>2, Types DEF IInv, SystemTyped, vars, document, operator, cluster
    <3> QED BY <2>1, <3>1, NoRequest, Types
  <2>3. Operating' /\ ClaimsDistinct' /\ References'
    BY <1>2, <2>1, Calm DEF vars, document, operator
  <2> QED BY <2>1, <2>2, <2>3, NoRequest DEF IInv
<1> QED BY <1>1, <1>2, OperatorKeeps, OutsideKeeps DEF Next

THEOREM Invariance == Spec => []IInv
  BY Initially, Inductive, PTL DEF Spec
-----------------------------------------------------------------------------
(* Every variable stays in its type; in particular, an update or a deletion*)
(* is never validated against a document that does not exist, although it  *)
(* may be validated several times.                                         *)
THEOREM TypeCorrect == Spec => []TypeOK
<1>1. IInv => TypeOK
  BY DEF IInv
<1> QED BY <1>1, Invariance, PTL

(* No two servers of a stored document share a claim.                      *)
THEOREM NoSharedClaim == Spec => []ClaimsDistinct
<1>1. IInv => ClaimsDistinct
  BY DEF IInv
<1> QED BY <1>1, Invariance, PTL

(* What the stored document refers to was there when it was validated.     *)
THEOREM NothingMissing == Spec => []References
<1>1. IInv => References
  BY DEF IInv
<1> QED BY <1>1, Invariance, PTL

(* Edits leave the pods alone, whoever deletes the document and makes it   *)
(* again while an edit is being validated.                                 *)
THEOREM PodsAreFixed == Spec => PodsStay
<1>1. IInv /\ [Next]_vars => [doc # None /\ doc' # None => doc'.pods = doc.pods]_vars
  <2> SUFFICES ASSUME IInv, Next, doc # None, doc' # None, doc' # doc
               PROVE  doc'.pods = doc.pods
    OBVIOUS
  <2>1. PICK u \in User : Store(u)
    BY DEF Next, Submit, Step, Look, Compare, ListPods, AskProxy, Refuse, Erase,
           Retry, Operator, Start, Finish, Abandon, Outside, Withdraw, Provide,
           PodFails, PodRecovers, ProxyChanges, document
  <2> QED BY <2>1, Taken DEF Store
<1> QED BY <1>1, Invariance, PTL DEF Spec, PodsStay

(* validatePods finds no pod, whatever runs in the cluster: nothing is ever *)
(* "to be deleted", so that the primary write masters, which it has just   *)
(* asked the proxy for, are compared with nothing.                         *)
THEOREM NoPodSeen == Seen = {}
  BY AppSelectsNoPod DEF Seen

\* Steps that the gate does not see.
LEMMA Unseen ==
  ASSUME UNCHANGED <<document, working>>
  PROVE  UNCHANGED Gate!vars
  BY DEF document, Gate!vars

LEMMA Simulation == IInv /\ [Next]_vars => [Gate!Next]_(Gate!vars)
<1> SUFFICES ASSUME IInv, [Next]_vars PROVE [Gate!Next]_(Gate!vars)
  OBVIOUS
<1>1. ASSUME NEW u \in User,
             \/ Submit(u) \/ Look(u) \/ Compare(u) \/ ListPods(u) \/ AskProxy(u)
             \/ Refuse(u) \/ Retry(u)
      PROVE  UNCHANGED Gate!vars
  BY <1>1, Unseen DEF Submit, Look, Compare, ListPods, AskProxy, Refuse, Retry,
                      operator
<1>2. ASSUME NEW u \in User, Store(u) PROVE Gate!Next
  <2>1. /\ pc[u] = "write" /\ op[u] \in {"create", "update"} /\ Current(u)
        /\ doc' = new[u] /\ UNCHANGED <<inProgress, available, working>>
    BY <1>2 DEF Store
  <2>2. /\ new[u] \in Content
        /\ op[u] = "create" => doc = None
        /\ op[u] = "update" => doc # None /\ ~inProgress /\ available # "false"
    BY <2>1, Taken
  <2>3. Gate!Create(new[u]) \/ Gate!Edit(new[u])
    BY <2>1, <2>2 DEF Gate!Create, Gate!Edit
  <2> QED BY <2>2, <2>3 DEF Gate!Next
<1>3. ASSUME NEW u \in User, Erase(u) PROVE Gate!Next
  <2>1. /\ op[u] = "delete" /\ Sound(u) /\ Current(u) /\ pc[u] = "write" /\ TypeOK
    BY <1>3 DEF Erase, IInv
  <2>2. doc # None /\ ~inProgress
    BY <2>1 DEF Sound, Fresh, Current, TypeOK
  <2>3. Gate!Delete
    BY <1>3, <2>2 DEF Erase, Gate!Delete
  <2> QED BY <2>3 DEF Gate!Next
<1>4. CASE Start
  <2>1. Gate!Start
    BY <1>4 DEF Start, Gate!Start
  <2> QED BY <2>1 DEF Gate!Next
<1>5. ASSUME NEW outcome \in {"true", "false"}, Finish(outcome) PROVE Gate!Next
  <2>1. Gate!Report(outcome)
    BY <1>5 DEF Finish, Gate!Report
  <2> QED BY <2>1 DEF Gate!Next
<1>6. CASE Abandon
  <2>1. Gate!Abandon
    BY <1>6 DEF Abandon, Gate!Abandon, document
  <2> QED BY <2>1 DEF Gate!Next
<1>7. CASE Outside
  BY <1>7, Unseen DEF Outside, Withdraw, Provide, PodFails, PodRecovers,
                      ProxyChanges, operator
<1>8. CASE UNCHANGED vars
  BY <1>8, Unseen DEF vars, operator
<1> QED BY <1>1, <1>2, <1>3, <1>4, <1>5, <1>6, <1>7, <1>8 DEF Next, Step, Operator

(* Validation in many steps, by any number of users at a time, implements  *)
(* the gate, where check and write are one step.                           *)
THEOREM Refinement == Spec => ImplementsGate
<1>1. Init => Gate!Init
  BY DEF Init, Gate!Init
<1> QED BY <1>1, Simulation, Invariance, PTL DEF Spec, ImplementsGate, Gate!Spec

(* An edit that was validated while the document was available is not      *)
(* stored once the document has been reported as failing, for any number   *)
(* of users: only a deletion is.                                           *)
THEOREM FailureStays == Spec => Gate!FailingIsFinal
  BY Refinement, Gate!FailureIsFinal, PTL DEF ImplementsGate
=============================================================================
