----------------------- MODULE DocumentLifecycleProofs -----------------------
(***************************************************************************)
(* Theorems about DocumentLifecycle, for any number of edits, crashes and  *)
(* logged errors.                                                          *)
(*                                                                         *)
(* That nothing changes under Reconcile rests on the resource versions: a  *)
(* copy of the document, in the cache, on the watch connection or in the   *)
(* worker's hands, either is the stored document or has another version.   *)
(* Coherent says so, and is what makes FrozenWhileWorked inductive.        *)
(***************************************************************************)
EXTENDS DocumentLifecycle, TLAPS

\* v is no newer than version c, and is the stored document d if it has the
\* version of it.
Known(v, d, c) ==
  v # Absent => /\ v.rv <= c
                /\ d # Absent /\ v.rv = d.rv => v = d

Coherent ==
  /\ doc # Absent => doc.rv <= clock
  /\ Known(cache, doc, clock)
  /\ Known(snap, doc, clock)
  /\ \A i \in DOMAIN watch : Known(watch[i], doc, clock)

\* Reconcile never goes on with a document in the failing state.
NotFailing == phase = "mark" => snap # Absent /\ snap.available # "false"

IInv == TypeOK /\ Coherent /\ NotFailing /\ FrozenWhileWorked

\* A step of the store: nothing, or a write of a new version.
StoreStep ==
  \/ UNCHANGED store
  \/ \E d \in Document \cup {Absent} : /\ Write(d)
                                       /\ d # Absent => d.rv = clock + 1
-----------------------------------------------------------------------------
LEMMA KnownGrows ==
  ASSUME NEW v, NEW d, NEW c \in Nat, NEW e \in Document \cup {Absent},
         v \in Document \cup {Absent}, Known(v, d, c),
         e # Absent => e.rv = c + 1
  PROVE  Known(v, e, c + 1)
  BY DEF Known, Document

\* Whatever was known of the copies of the document is still known after a
\* step of the store.
LEMMA StoreKeeps ==
  ASSUME TypeOK, Coherent, StoreStep
  PROVE  /\ doc' \in Document \cup {Absent}
         /\ clock' \in Nat
         /\ watch' \in Seq(Document \cup {Absent})
         /\ doc' # Absent => doc'.rv <= clock'
         /\ Known(cache, doc', clock')
         /\ Known(snap, doc', clock')
         /\ Known(doc', doc', clock')
         /\ \A i \in DOMAIN watch' : Known(watch'[i], doc', clock')
<1>1. CASE UNCHANGED store
  BY <1>1 DEF TypeOK, Coherent, Known, store
<1>2. ASSUME NEW d \in Document \cup {Absent}, Write(d),
             d # Absent => d.rv = clock + 1
      PROVE  /\ doc' \in Document \cup {Absent}
             /\ clock' \in Nat
             /\ watch' \in Seq(Document \cup {Absent})
             /\ doc' # Absent => doc'.rv <= clock'
             /\ Known(cache, doc', clock')
             /\ Known(snap, doc', clock')
             /\ Known(doc', doc', clock')
             /\ \A i \in DOMAIN watch' : Known(watch'[i], doc', clock')
  <2>1. clock \in Nat /\ clock' = clock + 1 /\ doc' = d
        /\ watch' = Append(watch, d) /\ watch \in Seq(Document \cup {Absent})
    BY <1>2 DEF TypeOK, Write
  <2>2. watch' \in Seq(Document \cup {Absent})
    BY <2>1
  <2>3. /\ d # Absent => d.rv <= clock + 1
        /\ Known(d, d, clock + 1)
    BY <1>2, <2>1 DEF Document, Known
  <2>4. Known(cache, d, clock + 1) /\ Known(snap, d, clock + 1)
    BY <1>2, <2>1, KnownGrows DEF TypeOK, Coherent
  <2>5. ASSUME NEW i \in DOMAIN watch'
        PROVE  Known(watch'[i], d, clock + 1)
    <3>1. CASE i = Len(watch) + 1
      BY <2>1, <2>3, <3>1
    <3>2. CASE i # Len(watch) + 1
      <4>1. i \in DOMAIN watch /\ watch'[i] = watch[i]
        BY <2>1, <3>2
      <4>2. watch[i] \in Document \cup {Absent} /\ Known(watch[i], doc, clock)
        BY <2>1, <4>1 DEF Coherent
      <4> QED BY <1>2, <2>1, <4>1, <4>2, KnownGrows
    <3> QED BY <3>1, <3>2
  <2> QED BY <2>1, <2>2, <2>3, <2>4, <2>5
<1> QED BY <1>1, <1>2 DEF StoreStep

\* A status update is a step of the store and nothing else.
LEMMA StatusIsStep ==
  ASSUME TypeOK, doc # Absent, NEW p \in BOOLEAN, NEW a \in Availability,
         WriteStatus(p, a)
  PROVE  /\ StoreStep
         /\ doc' \in Document
         /\ doc' # Absent
         /\ doc'.content = doc.content
         /\ doc'.inProgress = p
         /\ doc'.available = a
<1> DEFINE d == [rv |-> clock + 1, content |-> doc.content,
                 inProgress |-> p, available |-> a]
<1>1. doc \in Document /\ clock \in Nat /\ Absent \notin Document
  BY AbsentAssumption DEF TypeOK
<1>2. d \in Document /\ d.rv = clock + 1 /\ d.content = doc.content
      /\ d.inProgress = p /\ d.available = a
  BY <1>1 DEF Document
<1>3. CASE doc.inProgress = p /\ doc.available = a
  BY <1>1, <1>3 DEF WriteStatus, StoreStep, store
<1>4. CASE ~(doc.inProgress = p /\ doc.available = a)
  BY <1>1, <1>2, <1>4 DEF WriteStatus, StoreStep, Write
<1> QED BY <1>3, <1>4
-----------------------------------------------------------------------------
\* What a step owes besides the store: every other variable keeps its type,
\* and the phase is entered as the guards promise.
LEMMA Assemble ==
  ASSUME TypeOK, Coherent, StoreStep,
         cache' \in {cache, doc'}, snap' \in {snap, cache, doc', Absent},
         queued' \in BOOLEAN, phase' \in {"idle", "mark", "work", "down"},
         reported' \in Content \cup {0},
         edits' \in Nat, crashes' \in Nat, errors' \in Nat
  PROVE  TypeOK' /\ Coherent'
<1>1. /\ doc' \in Document \cup {Absent}
      /\ clock' \in Nat
      /\ watch' \in Seq(Document \cup {Absent})
      /\ doc' # Absent => doc'.rv <= clock'
      /\ Known(cache, doc', clock') /\ Known(snap, doc', clock')
      /\ Known(doc', doc', clock')
      /\ \A i \in DOMAIN watch' : Known(watch'[i], doc', clock')
  BY StoreKeeps
<1>2. Known(Absent, doc', clock')
  BY DEF Known
<1>3. Known(cache', doc', clock') /\ Known(snap', doc', clock')
  BY <1>1, <1>2
<1>4. cache' \in Document \cup {Absent} /\ snap' \in Document \cup {Absent}
  BY <1>1 DEF TypeOK
<1> QED BY <1>1, <1>3, <1>4 DEF TypeOK, Coherent

\* A write of the user, who leaves the operator's state alone.
LEMMA UserKeeps ==
  ASSUME IInv, NEW d \in Document \cup {Absent}, Write(d),
         d # Absent => d.rv = clock + 1,
         phase # "work", edits' = edits + 1,
         UNCHANGED <<cache, queued, phase, snap, reported, crashes, errors>>
  PROVE  IInv'
<1>1. StoreStep
  BY DEF StoreStep
<1>2. TypeOK' /\ Coherent'
  BY <1>1, Assemble DEF IInv, TypeOK
<1> QED BY <1>2 DEF IInv, NotFailing, FrozenWhileWorked

THEOREM Inductive == IInv /\ [Next]_vars => IInv'
<1> SUFFICES ASSUME IInv, [Next]_vars PROVE IInv'
  OBVIOUS
<1> USE DEF IInv
<1>1. CASE Create
  <2> DEFINE d == [rv |-> clock + 1, content |-> edits + 1,
                   inProgress |-> FALSE, available |-> "unset"]
  <2>1. d \in Document /\ d.rv = clock + 1
    BY <1>1, LifecycleAssumption
       DEF Create, TypeOK, Document, Content, Availability
  <2>2. phase # "work"
    BY <1>1 DEF Create, FrozenWhileWorked
  <2> QED BY <1>1, <2>1, <2>2, UserKeeps DEF Create
<1>2. CASE Edit
  <2> DEFINE d == [rv |-> clock + 1, content |-> edits + 1,
                   inProgress |-> doc.inProgress, available |-> doc.available]
  <2>1. d \in Document /\ d.rv = clock + 1
    BY <1>2, LifecycleAssumption DEF Edit, TypeOK, Document, Content
  <2>2. phase # "work"
    BY <1>2 DEF Edit, FrozenWhileWorked
  <2> QED BY <1>2, <2>1, <2>2, UserKeeps DEF Edit
<1>3. CASE Delete
  <2>1. phase # "work"
    BY <1>3 DEF Delete, FrozenWhileWorked
  <2> QED BY <1>3, <2>1, UserKeeps DEF Delete
<1>4. CASE Deliver
  <2>1. watch \in Seq(Document \cup {Absent}) /\ watch # <<>>
    BY <1>4 DEF Deliver, TypeOK
  <2>2. /\ Head(watch) = watch[1] /\ 1 \in DOMAIN watch
        /\ Head(watch) \in Document \cup {Absent}
        /\ Tail(watch) \in Seq(Document \cup {Absent})
    BY <2>1
  <2>3. Known(cache', doc', clock')
    BY <1>4, <2>2 DEF Deliver, Coherent
  <2>4. \A i \in DOMAIN watch' : Known(watch'[i], doc', clock')
    <3>1. \A i \in DOMAIN Tail(watch) :
            i + 1 \in DOMAIN watch /\ Tail(watch)[i] = watch[i + 1]
      BY <2>1
    <3> QED BY <1>4, <3>1 DEF Deliver, Coherent
  <2>5. queued' \in BOOLEAN
    BY <1>4 DEF Deliver, TypeOK, Passes
  <2>6. TypeOK'
    BY <1>4, <2>2, <2>5 DEF Deliver, TypeOK, bounds
  <2>7. Coherent'
    BY <1>4, <2>3, <2>4 DEF Deliver, Coherent
  <2> QED BY <1>4, <2>6, <2>7
          DEF Deliver, NotFailing, FrozenWhileWorked
<1>5. CASE Worker
  <2>1. CASE Skip
    <3>1. TypeOK' /\ Coherent'
      BY <2>1, Assemble DEF Skip, StoreStep, TypeOK, bounds
    <3> QED BY <2>1, <3>1 DEF Skip, NotFailing, FrozenWhileWorked, store
  <2>2. CASE Begin
    <3>1. TypeOK' /\ Coherent'
      BY <2>2, Assemble DEF Begin, StoreStep, TypeOK, bounds
    <3> QED BY <2>2, <3>1 DEF Begin, NotFailing, FrozenWhileWorked, store
  <2>3. CASE Mark
    <3>1. doc = snap /\ doc # Absent /\ doc \in Document
          /\ snap.available # "false" /\ snap.available \in Availability
      BY <2>3 DEF Mark, IsCurrent, Coherent, Known, NotFailing, TypeOK, Document
    <3>2. /\ StoreStep /\ doc' # Absent /\ doc'.inProgress
          /\ doc'.available = snap.available
      BY <2>3, <3>1, StatusIsStep DEF Mark
    <3>3. TypeOK' /\ Coherent'
      BY <2>3, <3>2, Assemble DEF Mark, TypeOK, bounds
    <3> QED BY <2>3, <3>1, <3>2, <3>3 DEF Mark, NotFailing, FrozenWhileWorked
  <2>4. CASE MarkConflict
    <3>1. TypeOK' /\ Coherent'
      BY <2>4, Assemble DEF MarkConflict, StoreStep, TypeOK, bounds
    <3> QED BY <2>4, <3>1 DEF MarkConflict, NotFailing, FrozenWhileWorked
  <2>5. CASE Refuse
    <3>1. StoreStep /\ reported' \in Content \cup {0}
      <4>1. CASE IsCurrent(snap)
        <5>1. StoreStep
          BY <2>5, <4>1, StatusIsStep DEF Refuse, IsCurrent, Availability
        <5>2. snap \in Document
          BY <2>5 DEF Refuse, NotFailing, TypeOK
        <5> QED BY <2>5, <4>1, <5>1, <5>2 DEF Refuse, Document
      <4>2. CASE ~IsCurrent(snap)
        BY <2>5, <4>2 DEF Refuse, StoreStep, TypeOK
      <4> QED BY <4>1, <4>2
    <3>2. TypeOK' /\ Coherent'
      BY <2>5, <3>1, Assemble DEF Refuse, TypeOK, bounds
    <3> QED BY <2>5, <3>2 DEF Refuse, NotFailing, FrozenWhileWorked
  <2>6. ASSUME NEW o \in {"true", "false"}, Report(o)
        PROVE  IInv'
    <3>1. StoreStep /\ reported' \in Content \cup {0}
      <4>1. CASE IsCurrent(snap)
        <5>1. StoreStep
          BY <2>6, <4>1, StatusIsStep DEF Report, IsCurrent, Availability
        <5>2. snap \in Document
          BY <2>6 DEF Report, FrozenWhileWorked, TypeOK
        <5> QED BY <2>6, <4>1, <5>1, <5>2 DEF Report, Document
      <4>2. CASE ~IsCurrent(snap)
        BY <2>6, <4>2 DEF Report, StoreStep, TypeOK
      <4> QED BY <4>1, <4>2
    <3>2. TypeOK' /\ Coherent'
      BY <2>6, <3>1, Assemble DEF Report, TypeOK, bounds
    <3> QED BY <2>6, <3>2 DEF Report, NotFailing, FrozenWhileWorked
  <2> QED BY <1>5, <2>1, <2>2, <2>3, <2>4, <2>5, <2>6 DEF Worker
<1>6. CASE LoggedErrors
  <2>1. StoreStep
    BY <1>6 DEF LoggedErrors, GetFails, MarkFails, ReportFails, StoreStep
  <2>2. /\ cache' = cache /\ snap' \in {snap, Absent} /\ queued' \in BOOLEAN
        /\ phase' = "idle" /\ reported' = reported
        /\ edits' = edits /\ crashes' = crashes /\ errors' \in Nat
    <3>1. errors' \in Nat
      BY <1>6 DEF LoggedErrors, GetFails, MarkFails, ReportFails, TypeOK
    <3>2. CASE GetFails
      BY <3>1, <3>2 DEF GetFails, TypeOK
    <3>3. CASE MarkFails
      BY <3>1, <3>3 DEF MarkFails, TypeOK
    <3>4. CASE ReportFails
      BY <3>1, <3>4 DEF ReportFails, TypeOK
    <3> QED BY <1>6, <3>2, <3>3, <3>4 DEF LoggedErrors
  <2>3. TypeOK' /\ Coherent'
    BY <2>1, <2>2, Assemble DEF TypeOK
  <2> QED BY <2>2, <2>3 DEF NotFailing, FrozenWhileWorked
<1>7. CASE Crash
  <2>1. StoreStep /\ crashes' \in Nat
    BY <1>7 DEF Crash, StoreStep, TypeOK
  <2>2. TypeOK' /\ Coherent'
    BY <1>7, <2>1, Assemble DEF Crash, TypeOK
  <2> QED BY <1>7, <2>2 DEF Crash, NotFailing, FrozenWhileWorked
<1>8. CASE Restart
  <2>1. Known(doc, doc, clock)
    BY DEF Known, Coherent
  <2>2. TypeOK'
    BY <1>8 DEF Restart, TypeOK, bounds
  <2>3. Coherent'
    BY <1>8, <2>1 DEF Restart, Coherent
  <2> QED BY <1>8, <2>2, <2>3 DEF Restart, NotFailing, FrozenWhileWorked
<1>9. CASE Annotate
  <2> DEFINE d == [doc EXCEPT !.rv = clock + 1]
  <2>1. d \in Document /\ d.rv = clock + 1
    BY <1>9 DEF Annotate, TypeOK, Document
  <2>2. phase # "work"
    BY <1>9 DEF Annotate, FrozenWhileWorked
  <2> QED BY <1>9, <2>1, <2>2, UserKeeps DEF Annotate
<1>10. CASE UNCHANGED vars
  BY <1>10 DEF vars, TypeOK, Coherent, NotFailing, FrozenWhileWorked
<1> QED BY <1>1, <1>2, <1>3, <1>4, <1>5, <1>6, <1>7, <1>8, <1>9, <1>10
        DEF Next, User

LEMMA Initially == Init => IInv
<1> SUFFICES ASSUME Init PROVE IInv
  OBVIOUS
<1>1. TypeOK
  <2>1. watch \in Seq(Document \cup {Absent})
    BY DEF Init
  <2>2. reported \in Content \cup {0} /\ phase \in {"idle", "mark", "work", "down"}
    BY DEF Init
  <2>3. queued \in BOOLEAN
    BY DEF Init
  <2> QED BY <2>1, <2>2, <2>3 DEF Init, TypeOK
<1>2. Coherent
  BY DEF Init, Coherent, Known
<1>3. NotFailing /\ FrozenWhileWorked
  BY DEF Init, NotFailing, FrozenWhileWorked
<1> QED BY <1>1, <1>2, <1>3 DEF IInv

(* Every reachable state satisfies the inductive invariant.                *)
THEOREM Invariance == Spec => []IInv
  BY Initially, Inductive, PTL DEF Spec

(* The types of DocumentLifecycle hold in every reachable state.           *)
THEOREM TypeCorrect == Spec => []TypeOK
<1>1. IInv => TypeOK
  BY DEF IInv
<1> QED BY <1>1, Invariance, PTL

(* Between its two status updates Reconcile acts on the stored document,   *)
(* with the gate up, whatever the delays of the watch and wherever the     *)
(* operator crashed before.                                                *)
THEOREM Frozen == Spec => []FrozenWhileWorked
<1>1. IInv => FrozenWhileWorked
  BY DEF IInv
<1> QED BY <1>1, Invariance, PTL
-----------------------------------------------------------------------------
(* The refinement.  The stored content and the work, as the gate sees them. *)

Stored == IF doc = Absent THEN Absent ELSE doc.content
Working == IF phase = "work" THEN snap.content ELSE Absent

LEMMA GateInitially == Init => Gate!Init
  BY DEF Init, Gate!Init

\* Steps that change neither the store nor whether the worker acts are
\* invisible at the gate.
LEMMA Invisible ==
  ASSUME doc' = doc, Working' = Working
  PROVE  UNCHANGED Gate!vars
  BY DEF Working, Gate!vars

THEOREM Simulation == IInv /\ [Next]_vars => [Gate!Next]_(Gate!vars)
<1> SUFFICES ASSUME IInv, [Next]_vars PROVE [Gate!Next]_(Gate!vars)
  OBVIOUS
<1> USE DEF IInv
<1>a. doc # Absent => doc \in Document /\ doc.content \in Content
      /\ doc.content # Absent /\ doc.available \in Availability
  BY AbsentAssumption DEF TypeOK, Document
<1>b. phase = "work" => Working = Stored /\ Working # Absent
  BY <1>a DEF FrozenWhileWorked, Working, Stored
<1>1. CASE Create
  <2>1. phase # "work" /\ edits + 1 \in Content
    BY <1>1, LifecycleAssumption
       DEF Create, FrozenWhileWorked, TypeOK, Content
  <2>2. edits + 1 # Absent
    BY <2>1, AbsentAssumption
  <2>3. doc' \in Document /\ doc'.content = edits + 1 /\ doc'.inProgress = FALSE
        /\ doc'.available = "unset"
    BY <1>1, <2>1 DEF Create, Write, Document, TypeOK, Availability
  <2>4. doc' # Absent
    BY <2>3, AbsentAssumption
  <2>5. Gate!Create(edits + 1)
    BY <1>1, <2>1, <2>2, <2>3, <2>4 DEF Create, Gate!Create
  <2> QED BY <2>1, <2>5 DEF Gate!Next
<1>2. CASE Edit
  <2>1. phase # "work" /\ edits + 1 \in Content
    BY <1>2, LifecycleAssumption
       DEF Edit, FrozenWhileWorked, TypeOK, Content
  <2>2. doc' \in Document /\ doc'.content = edits + 1
        /\ doc'.inProgress = doc.inProgress /\ doc'.available = doc.available
    BY <1>2, <2>1, <1>a DEF Edit, Write, Document, TypeOK
  <2>3. doc' # Absent
    BY <2>2, AbsentAssumption
  <2>4. Gate!Edit(edits + 1)
    BY <1>2, <1>a, <2>1, <2>2, <2>3 DEF Edit, Gate!Edit
  <2> QED BY <2>1, <2>4 DEF Gate!Next
<1>3. CASE Delete
  BY <1>3, <1>a DEF Delete, Write, FrozenWhileWorked, Gate!Delete, Gate!Next
<1>4. CASE Deliver
  BY <1>4, Invisible DEF Deliver, Working
<1>5. CASE Skip \/ Begin \/ MarkConflict
  BY <1>5, Invisible DEF Skip, Begin, MarkConflict, store, Working
<1>6. CASE Mark
  <2>1. doc = snap /\ doc # Absent /\ doc \in Document
        /\ snap.available # "false" /\ snap.available \in Availability
    BY <1>6 DEF Mark, IsCurrent, Coherent, Known, NotFailing, TypeOK, Document
  <2>2. /\ doc' # Absent /\ doc'.inProgress
        /\ doc'.available = snap.available /\ doc'.content = doc.content
    BY <1>6, <2>1, StatusIsStep DEF Mark
  <2>3. Gate!Start
    BY <1>6, <1>a, <2>1, <2>2 DEF Mark, Gate!Start
  <2> QED BY <2>3 DEF Gate!Next
<1>7. CASE Refuse
  <2>1. CASE IsCurrent(snap)
    <3>1. doc = snap /\ doc # Absent /\ doc.available # "false"
      BY <1>7, <2>1 DEF Refuse, IsCurrent, Coherent, Known, NotFailing, TypeOK
    <3>2. /\ doc' # Absent /\ ~doc'.inProgress
          /\ doc'.available = "false" /\ doc'.content = doc.content
      BY <1>7, <2>1, <3>1, StatusIsStep DEF Refuse, Availability
    <3>3. Gate!Refuse
      BY <1>7, <1>a, <3>1, <3>2 DEF Refuse, Gate!Refuse
    <3> QED BY <3>3 DEF Gate!Next
  <2>2. CASE ~IsCurrent(snap)
    BY <1>7, <2>2, Invisible DEF Refuse, store, Working
  <2> QED BY <2>1, <2>2
<1>8. ASSUME NEW o \in {"true", "false"}, Report(o)
      PROVE  [Gate!Next]_(Gate!vars)
  <2>1. IsCurrent(snap) /\ doc # Absent
    BY <1>8 DEF Report, FrozenWhileWorked, IsCurrent
  <2>2. /\ doc' # Absent /\ ~doc'.inProgress
        /\ doc'.available = o /\ doc'.content = doc.content
    BY <1>8, <2>1, StatusIsStep DEF Report, Availability
  <2>3. Gate!Report(o)
    BY <1>8, <1>b, <2>1, <2>2 DEF Report, Gate!Report, Working
  <2> QED BY <2>3 DEF Gate!Next
<1>9. CASE ReportFails
  <2>1. Gate!Abandon
    BY <1>9, <1>b DEF ReportFails, store, Gate!Abandon, Working
  <2> QED BY <2>1 DEF Gate!Next
<1>10. CASE GetFails \/ MarkFails
  BY <1>10, Invisible DEF GetFails, MarkFails, store, Working
<1>11. CASE Crash
  <2>1. CASE phase = "work"
    <3>1. Gate!Abandon
      BY <1>11, <2>1, <1>b DEF Crash, store, Gate!Abandon, Working
    <3> QED BY <3>1 DEF Gate!Next
  <2>2. CASE phase # "work"
    BY <1>11, <2>2, Invisible DEF Crash, store, Working
  <2> QED BY <2>1, <2>2
<1>12. CASE Restart
  BY <1>12, Invisible DEF Restart, Working
<1>13. CASE Annotate
  <2>1. doc' # Absent
    <3>1. doc' \in Document
      BY <1>13, <1>a DEF Annotate, Write, TypeOK, Document
    <3> QED BY <3>1, AbsentAssumption
  <2>2. doc'.content = doc.content /\ doc'.inProgress = doc.inProgress
        /\ doc'.available = doc.available
    BY <1>13, <1>a DEF Annotate, Write, Document
  <2>3. doc # Absent /\ Working' = Working
    BY <1>13 DEF Annotate, Working
  <2> QED BY <2>1, <2>2, <2>3 DEF Working, Gate!vars
<1>14. CASE UNCHANGED vars
  BY <1>14, Invisible DEF vars, Working
<1> QED BY <1>1, <1>2, <1>3, <1>4, <1>5, <1>6, <1>7, <1>8, <1>9, <1>10, <1>11,
           <1>12, <1>13, <1>14 DEF Next, User, Worker, LoggedErrors

(* The document protocol, with its lagging cache, its event filter and its *)
(* crashes, implements the gate.                                           *)
THEOREM Refinement == Spec => ImplementsGate
  BY GateInitially, Simulation, Invariance, PTL DEF Spec, ImplementsGate, Gate!Spec

(* A document that was reported as failing keeps its content and its       *)
(* conditions until it is deleted, also when a stale copy of it, which was *)
(* not failing yet, is still in the cache of the operator.                 *)
THEOREM FailureStays == Spec => Gate!FailingIsFinal
  BY Refinement, Gate!FailureIsFinal, PTL DEF ImplementsGate
=============================================================================
