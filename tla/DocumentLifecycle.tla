-------------------------- MODULE DocumentLifecycle --------------------------
(***************************************************************************)
(* The life of one document between the user, the API server, the admission*)
(* webhook, the controller's cache and work queue, and Reconcile.          *)
(*                                                                         *)
(* What Reconcile does to the cluster is left to module Replicas; here it  *)
(* is the time between two status updates.  What is modelled in full is    *)
(* how the document is read and written:                                   *)
(*                                                                         *)
(*   - every write of the document gets a new resource version, and a      *)
(*     status update carries the version it was computed from: it is       *)
(*     refused when the stored document has moved on;                      *)
(*   - Reconcile reads the document from the informer's cache, which lags  *)
(*     behind by the events still on the watch connection;                 *)
(*   - an event enters the work queue when it shows a new document, a      *)
(*     deletion, or a changed generation or label; the queue holds a       *)
(*     document at most once and one worker serves it;                     *)
(*   - Reconcile always returns an empty result and no error, so that      *)
(*     nothing it gives up on is ever put back in the queue;               *)
(*   - the operator may crash at any point, and lists every document when  *)
(*     it comes back.                                                      *)
(***************************************************************************)
EXTENDS Naturals, Sequences

CONSTANTS
  Absent,       \* no document
  MaxEdits,     \* bound: creations, edits and deletions by users
  MaxCrashes,   \* bound: crashes of the operator
  MaxErrors     \* bound: API errors that Reconcile only logs

ASSUME LifecycleAssumption ==
  /\ MaxEdits \in Nat
  /\ MaxCrashes \in Nat
  /\ MaxErrors \in Nat

VARIABLES
  doc,          \* the document in the API server
  clock,        \* the resource version of the last write
  watch,        \* the events the informer has not seen yet, oldest first
  cache,        \* the informer's copy
  queued,       \* is the document in the work queue?
  phase,        \* where the worker is in Reconcile
  snap,         \* h.directory, the copy Reconcile works with
  reported,     \* the content of the last report that was written (history)
  edits, crashes, errors

store == <<doc, clock, watch>>
bounds == <<edits, crashes, errors>>
vars == <<doc, clock, watch, cache, queued, phase, snap, reported,
          edits, crashes, errors>>

Availability == {"unset", "true", "false"}

\* What a user asks for is named by the number of the request that wrote it:
\* a new content is a changed generation or a changed label.  A change of any
\* other metadata, an annotation say, makes a new version of the same content.
Content == 1 .. MaxEdits

Document == [rv : Nat, content : Content,
             inProgress : BOOLEAN, available : Availability]

ASSUME AbsentAssumption == Absent \notin Document /\ Absent \notin Content

TypeOK ==
  /\ doc \in Document \cup {Absent}
  /\ clock \in Nat
  /\ watch \in Seq(Document \cup {Absent})
  /\ cache \in Document \cup {Absent}
  /\ queued \in BOOLEAN
  /\ phase \in {"idle", "mark", "work", "down"}
  /\ snap \in Document \cup {Absent}
  /\ reported \in Content \cup {0}
  /\ edits \in Nat /\ crashes \in Nat /\ errors \in Nat

Init ==
  /\ doc = Absent
  /\ clock = 0
  /\ watch = <<>>
  /\ cache = Absent
  /\ queued = FALSE
  /\ phase = "idle"
  /\ snap = Absent
  /\ reported = 0
  /\ edits = 0 /\ crashes = 0 /\ errors = 0
-----------------------------------------------------------------------------
(* The API server. *)

\* Stores a new version of the document and tells the watchers.
Write(d) ==
  /\ clock' = clock + 1
  /\ doc' = d
  /\ watch' = Append(watch, d)

\* A status update computed from version s succeeds only if s is current.
IsCurrent(s) == doc # Absent /\ doc.rv = s.rv

\* A status update that changes nothing is not a new version.
WriteStatus(progress, avail) ==
  IF doc.inProgress = progress /\ doc.available = avail
  THEN UNCHANGED store
  ELSE Write([rv |-> clock + 1, content |-> doc.content,
              inProgress |-> progress, available |-> avail])
-----------------------------------------------------------------------------
(* The user.  The guards are those of the admission webhook; the API server*)
(* runs it again when the document changed under the request, so that the  *)
(* check and the write are one step.                                       *)

Create ==
  /\ doc = Absent
  /\ edits < MaxEdits
  /\ Write([rv |-> clock + 1, content |-> edits + 1,
            inProgress |-> FALSE, available |-> "unset"])
  /\ edits' = edits + 1
  /\ UNCHANGED <<cache, queued, phase, snap, reported, crashes, errors>>

\* Mutant of Edit: the webhook does not look at InProgress.
EditAnytime ==
  /\ doc # Absent
  /\ edits < MaxEdits
  /\ doc.available # "false"
  /\ Write([rv |-> clock + 1, content |-> edits + 1,
            inProgress |-> doc.inProgress, available |-> doc.available])
  /\ edits' = edits + 1
  /\ UNCHANGED <<cache, queued, phase, snap, reported, crashes, errors>>

\* ValidateUpdate
Edit ==
  /\ doc # Absent
  /\ edits < MaxEdits
  /\ ~doc.inProgress
  /\ doc.available # "false"
  /\ Write([rv |-> clock + 1, content |-> edits + 1,
            inProgress |-> doc.inProgress, available |-> doc.available])
  /\ edits' = edits + 1
  /\ UNCHANGED <<cache, queued, phase, snap, reported, crashes, errors>>

\* ValidateUpdate lets a change of the metadata alone pass as well.
Annotate ==
  /\ doc # Absent
  /\ edits < MaxEdits
  /\ ~doc.inProgress
  /\ doc.available # "false"
  /\ Write([doc EXCEPT !.rv = clock + 1])
  /\ edits' = edits + 1
  /\ UNCHANGED <<cache, queued, phase, snap, reported, crashes, errors>>

\* ValidateDelete
Delete ==
  /\ doc # Absent
  /\ edits < MaxEdits
  /\ ~doc.inProgress
  /\ Write(Absent)
  /\ edits' = edits + 1
  /\ UNCHANGED <<cache, queued, phase, snap, reported, crashes, errors>>
-----------------------------------------------------------------------------
(* The informer and the work queue. *)

\* Mutant of Passes: only creations and deletions pass.
PassesNewOnly(old, new) == old = Absent \/ new = Absent

\* The event filter of SetupWithManager: creations and deletions pass, and
\* updates that change the generation or the labels.  The rest does not, be it
\* a change of the status or of an annotation.
Passes(old, new) ==
  \/ old = Absent
  \/ new = Absent
  \/ old.content # new.content

Deliver ==
  /\ phase # "down"
  /\ watch # <<>>
  /\ cache' = Head(watch)
  /\ watch' = Tail(watch)
  /\ queued' = (queued \/ Passes(cache, Head(watch)))
  /\ UNCHANGED <<doc, clock, phase, snap, reported, bounds>>
-----------------------------------------------------------------------------
(* Reconcile. *)

\* The request is taken from the queue and the document read from the cache.
\* A document which is gone or failing needs nothing.
Skip ==
  /\ phase = "idle" /\ queued
  /\ cache # Absent => cache.available = "false"
  /\ queued' = FALSE
  /\ UNCHANGED <<store, cache, phase, snap, reported, bounds>>

\* Any other error of the Get ends the reconcile in the same way.
GetFails ==
  /\ phase = "idle" /\ queued
  /\ errors < MaxErrors
  /\ errors' = errors + 1
  /\ queued' = FALSE
  /\ UNCHANGED <<store, cache, phase, snap, reported, edits, crashes>>

\* Mutant of Begin: a failing document is processed again.
BeginFailing ==
  /\ phase = "idle" /\ queued
  /\ cache # Absent
  /\ queued' = FALSE
  /\ phase' = "mark"
  /\ snap' = cache
  /\ UNCHANGED <<store, cache, reported, bounds>>

Begin ==
  /\ phase = "idle" /\ queued
  /\ cache # Absent /\ cache.available # "false"
  /\ queued' = FALSE
  /\ phase' = "mark"
  /\ snap' = cache
  /\ UNCHANGED <<store, cache, reported, bounds>>

\* The list of pods cannot be read: setCondition is called before InProgress
\* was ever raised.
Refuse ==
  /\ phase = "mark"
  /\ IF IsCurrent(snap)
     THEN WriteStatus(FALSE, "false") /\ reported' = snap.content
     ELSE UNCHANGED <<store, reported>>
  /\ phase' = "idle"
  /\ snap' = Absent
  /\ UNCHANGED <<cache, queued, bounds>>

Mark ==
  /\ phase = "mark"
  /\ IsCurrent(snap)
  /\ WriteStatus(TRUE, snap.available)
  /\ phase' = "work"
  /\ snap' = doc'
  /\ UNCHANGED <<cache, queued, reported, bounds>>

\* The document was written or deleted since it was cached.
MarkConflict ==
  /\ phase = "mark"
  /\ ~IsCurrent(snap)
  /\ phase' = "idle"
  /\ snap' = Absent
  /\ UNCHANGED <<store, cache, queued, reported, bounds>>

MarkFails ==
  /\ phase = "mark"
  /\ errors < MaxErrors
  /\ errors' = errors + 1
  /\ phase' = "idle"
  /\ snap' = Absent
  /\ UNCHANGED <<store, cache, queued, reported, edits, crashes>>

\* Mutant of Report: the status of a successful condition is not set.
ReportUnset(outcome) ==
  /\ phase = "work"
  /\ WriteStatus(FALSE, IF outcome = "true" THEN "" ELSE outcome)
  /\ reported' = snap.content
  /\ phase' = "idle"
  /\ snap' = Absent
  /\ UNCHANGED <<cache, queued, bounds>>

\* Mutant of Report: a failure leaves InProgress as it is.
ReportHalf(outcome) ==
  /\ phase = "work"
  /\ WriteStatus(outcome = "false", outcome)
  /\ reported' = snap.content
  /\ phase' = "idle"
  /\ snap' = Absent
  /\ UNCHANGED <<cache, queued, bounds>>

\* setCondition at the end of the reconcile, with or without an error.
Report(outcome) ==
  /\ phase = "work"
  /\ IF IsCurrent(snap)
     THEN WriteStatus(FALSE, outcome) /\ reported' = snap.content
     ELSE UNCHANGED <<store, reported>>
  /\ phase' = "idle"
  /\ snap' = Absent
  /\ UNCHANGED <<cache, queued, bounds>>

\* The final status update fails; its error is logged and dropped.
ReportFails ==
  /\ phase = "work"
  /\ errors < MaxErrors
  /\ errors' = errors + 1
  /\ phase' = "idle"
  /\ snap' = Absent
  /\ UNCHANGED <<store, cache, queued, reported, edits, crashes>>
-----------------------------------------------------------------------------
(* The process. *)

Crash ==
  /\ phase # "down"
  /\ crashes < MaxCrashes
  /\ crashes' = crashes + 1
  /\ phase' = "down"
  /\ snap' = Absent
  /\ queued' = FALSE
  /\ UNCHANGED <<store, cache, reported, edits, errors>>

\* A new informer lists the documents; each one looks created to it.
Restart ==
  /\ phase = "down"
  /\ phase' = "idle"
  /\ cache' = doc
  /\ watch' = <<>>
  /\ queued' = (doc # Absent)
  /\ UNCHANGED <<doc, clock, snap, reported, bounds>>

User == Create \/ Edit \/ Annotate \/ Delete

\* What the worker does with a request it has taken, and the taking of it.
Worker ==
  \/ Skip
  \/ Begin
  \/ Mark
  \/ MarkConflict
  \/ Refuse
  \/ Report("true")
  \/ Report("false")

LoggedErrors == GetFails \/ MarkFails \/ ReportFails

Next == User \/ Deliver \/ Worker \/ LoggedErrors \/ Crash \/ Restart

Spec == Init /\ [][Next]_vars

\* The watch delivers, the worker is a running goroutine, and the kubelet
\* restarts the operator's container.
Fairness == WF_vars(Deliver) /\ WF_vars(Worker) /\ WF_vars(Restart)

FairSpec == Spec /\ Fairness
-----------------------------------------------------------------------------
(* While Reconcile is between its two status updates the stored document is*)
(* exactly the version it holds, with InProgress raised: no edit, deletion *)
(* or recreation can slip in between, although Reconcile reads a cache     *)
(* that lags.  The final status update of setCondition therefore never     *)
(* meets a conflict.                                                       *)
FrozenWhileWorked ==
  phase = "work" => /\ doc = snap
                    /\ doc # Absent
                    /\ doc.inProgress
                    /\ doc.available # "false"

\* The gate that this module implements.
Gate == INSTANCE UpdateGate WITH
  Content <- Content,
  stored <- IF doc = Absent THEN Absent ELSE doc.content,
  inProgress <- IF doc = Absent THEN FALSE ELSE doc.inProgress,
  available <- IF doc = Absent THEN "unset" ELSE doc.available,
  working <- IF phase = "work" THEN snap.content ELSE Absent

(* Cache, queue and versions together behave like the gate of UpdateGate.  *)
ImplementsGate == Gate!Spec

(* Every edit the webhook admitted is answered: a report is written for it *)
(* unless a later edit or a deletion overtakes it.  Reconcile gives up on  *)
(* a conflict without asking to be called again, so this depends on what   *)
(* caused the conflict leaving another event behind.  An edit and a        *)
(* deletion do.  A change of an annotation does not, as the event filter   *)
(* drops it: when it comes between the read and the first status update of *)
(* the reconcile which was to answer the edit, no answer is owed.  This,   *)
(* and an API error that is only logged, are the only ways to lose an edit.*)
Waiting(c) == doc # Absent /\ doc.content = c /\ doc.available # "false"
                           /\ reported # c

Overtaken(c) == /\ phase = "mark" /\ snap.content = c
                /\ doc # Absent /\ doc.content = c
                /\ ~IsCurrent(snap)

EveryEditAnswered ==
  \A c \in Content : \/ <>Overtaken(c)
                     \/ Waiting(c) ~> ~Waiting(c) \/ errors > 0

(* The InProgress condition, which blocks edits and deletions, is lowered  *)
(* in the end, after any number of crashes, as long as no status update is *)
(* lost.                                                                   *)
Blocked == doc # Absent /\ doc.inProgress

InProgressClears == Blocked ~> ~Blocked \/ errors > 0

(* "Wait until the existing document has been fully processed", says the   *)
(* webhook when it refuses an edit or a deletion: the wait ends.           *)
WaitingEnds == Blocked ~> ~Blocked
=============================================================================
