------------------------------ MODULE UpdateGate ------------------------------
(***************************************************************************)
(* What the operator promises about one IBMSecurityVerifyDirectory         *)
(* document, whatever the machinery behind it.                             *)
(*                                                                         *)
(* The two status conditions of the document form a gate.  InProgress is   *)
(* raised when the operator starts to act on the document and lowered when *)
(* it reports; while it is up the admission webhook refuses every edit and *)
(* every deletion.  Available records the outcome; once it is false the    *)
(* webhook refuses edits and the operator refuses to act, so that only a   *)
(* deletion leads out of that state.                                       *)
(*                                                                         *)
(* There is no cache, no work queue and no resource version here.  The     *)
(* modules DocumentLifecycle and Replicas have them, and are shown to      *)
(* implement this one.                                                     *)
(***************************************************************************)
EXTENDS TLAPS

CONSTANTS
  Content,      \* what a user can ask for: the spec and labels of a document
  Absent        \* no element of Content: there is no document, or the
                \* operator acts on none

VARIABLES
  stored,       \* the content the API server holds, Absent when there is none
  inProgress,   \* the InProgress condition of the stored document
  available,    \* the Available condition of the stored document
  working       \* the content the operator acts on, Absent between reconciles

vars == <<stored, inProgress, available, working>>

Availability == {"unset", "true", "false"}

TypeOK ==
  /\ stored \in Content \cup {Absent}
  /\ inProgress \in BOOLEAN
  /\ available \in Availability
  /\ working \in Content \cup {Absent}

Init ==
  /\ stored \in Content \cup {Absent}
  /\ inProgress = FALSE
  /\ available = "unset"
  /\ working = Absent
-----------------------------------------------------------------------------
(* The user, as admitted by the webhook. *)

Create(c) ==
  /\ stored = Absent
  /\ stored' = c
  /\ UNCHANGED <<inProgress, available, working>>

Edit(c) ==
  /\ stored # Absent
  /\ ~inProgress
  /\ available # "false"
  /\ stored' = c
  /\ UNCHANGED <<inProgress, available, working>>

Delete ==
  /\ stored # Absent
  /\ ~inProgress
  /\ stored' = Absent
  /\ inProgress' = FALSE
  /\ available' = "unset"
  /\ UNCHANGED working
-----------------------------------------------------------------------------
(* The operator. *)

Start ==
  /\ working = Absent
  /\ stored # Absent
  /\ available # "false"
  /\ working' = stored
  /\ inProgress' = TRUE
  /\ UNCHANGED <<stored, available>>

Report(outcome) ==
  /\ working # Absent
  /\ working' = Absent
  /\ inProgress' = FALSE
  /\ available' = outcome
  /\ UNCHANGED stored

\* The reconcile ends before it has begun to act, with a failure to report.
Refuse ==
  /\ working = Absent
  /\ stored # Absent
  /\ available # "false"
  /\ inProgress' = FALSE
  /\ available' = "false"
  /\ UNCHANGED <<stored, working>>

\* The process dies, or the report is lost: nobody lowers InProgress.
Abandon ==
  /\ working # Absent
  /\ working' = Absent
  /\ UNCHANGED <<stored, inProgress, available>>

Next ==
  \/ \E c \in Content : Create(c) \/ Edit(c)
  \/ Delete
  \/ Start
  \/ \E outcome \in {"true", "false"} : Report(outcome)
  \/ Refuse
  \/ Abandon

Spec == Init /\ [][Next]_vars
-----------------------------------------------------------------------------
(* While the operator acts on a document, the stored document is the one   *)
(* it acts on, the gate is up, and the document is not in the failing      *)
(* state: nothing the operator has read can have changed under it.         *)
FrozenWhileWorking ==
  working # Absent => /\ stored = working
                      /\ inProgress
                      /\ available # "false"

(* A document that was reported as failing stays as it is, content and     *)
(* conditions, until it is deleted.                                        *)
FailingIsFinal ==
  [][stored # Absent /\ available = "false"
       => stored' = Absent \/ UNCHANGED <<stored, inProgress, available>>]_vars
-----------------------------------------------------------------------------
(* The modules that implement the gate inherit these theorems. *)

LEMMA FrozenInductive ==
  FrozenWhileWorking /\ [Next]_vars => FrozenWhileWorking'
<1> SUFFICES ASSUME FrozenWhileWorking, [Next]_vars
             PROVE  FrozenWhileWorking'
  OBVIOUS
<1> USE DEF FrozenWhileWorking
<1>1. ASSUME NEW c \in Content, Create(c) \/ Edit(c)
      PROVE  FrozenWhileWorking'
  BY <1>1 DEF Create, Edit
<1>2. CASE Delete
  BY <1>2 DEF Delete
<1>3. CASE Start
  BY <1>3 DEF Start
<1>4. ASSUME NEW outcome \in {"true", "false"}, Report(outcome)
      PROVE  FrozenWhileWorking'
  BY <1>4 DEF Report
<1>5. CASE Refuse
  BY <1>5 DEF Refuse
<1>6. CASE Abandon
  BY <1>6 DEF Abandon
<1>7. CASE UNCHANGED vars
  BY <1>7 DEF vars
<1> QED
  BY <1>1, <1>2, <1>3, <1>4, <1>5, <1>6, <1>7 DEF Next

\* What the operator acts on is what is stored, and the gate is up for as long
\* as it acts: nothing it has read from the document changes under it.
THEOREM GateHolds == Spec => []FrozenWhileWorking
<1>1. Init => FrozenWhileWorking
  BY DEF Init, FrozenWhileWorking
<1> QED
  BY <1>1, FrozenInductive, PTL DEF Spec

\* Only a deletion leads out of the failing state.  The report of a reconcile
\* could: but none is under way then, since it would have begun with a document
\* that was not failing, and GateHolds says that this one has not changed since.
THEOREM FailureIsFinal == Spec => FailingIsFinal
<1> DEFINE Stays == stored # Absent /\ available = "false"
             => stored' = Absent \/ UNCHANGED <<stored, inProgress, available>>
<1>1. FrozenWhileWorking /\ [Next]_vars => [Stays]_vars
  <2> SUFFICES ASSUME FrozenWhileWorking, Next, stored # Absent, available = "false"
               PROVE  \/ stored' = Absent
                      \/ UNCHANGED <<stored, inProgress, available>>
    OBVIOUS
  <2>1. ASSUME NEW c \in Content PROVE ~Create(c) /\ ~Edit(c)
    BY DEF Create, Edit
  <2>2. ~Start /\ ~Refuse
    BY DEF Start, Refuse
  <2>3. ASSUME NEW outcome \in {"true", "false"} PROVE ~Report(outcome)
    BY DEF FrozenWhileWorking, Report
  <2>4. Delete => stored' = Absent
    BY DEF Delete
  <2>5. Abandon => UNCHANGED <<stored, inProgress, available>>
    BY DEF Abandon
  <2> QED
    BY <2>1, <2>2, <2>3, <2>4, <2>5 DEF Next
<1> QED
  BY <1>1, GateHolds, PTL DEF Spec, FailingIsFinal
=============================================================================
