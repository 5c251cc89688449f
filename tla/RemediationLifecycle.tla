----------------------- MODULE RemediationLifecycle -----------------------
(***************************************************************************)
(* One remediation record and everything that changes it: the handlers     *)
(* that mark a fix as applied and request its verification, the tasks that *)
(* run the probes, and recovery.  They run concurrently and share the      *)
(* remediation table, the probe table and the training labels; nothing     *)
(* but the revision number of the record orders them.  Every table access  *)
(* is a step, and a worker may die between any two.                        *)
(*                                                                         *)
(* A run's verdict stands for what verify_remediation makes of it.  Ages   *)
(* (30 s for a missing run, the deadline of an unfinished one, the probe   *)
(* cooldown) are left open: recovery may find any attempt or run old       *)
(* enough, and a reservation may always be refused.                        *)
(***************************************************************************)
EXTENDS Integers, FiniteSets

CONSTANTS
  Workers,       \* tasks the server runs at once: handlers, probes, recovery
  Requests,      \* client-chosen verification request ids
  Probes,        \* probe run ids
  NoRequest,     \* a record without attempts, a worker without request
  NoProbe,
  MaxRevision,   \* bound: a fix is not applied again beyond this revision
  MaxFaults,     \* bound: workers that die, and requests delivered again
  RecoveryRuns   \* whether anything ever calls recover_stale_probes

ASSUME LifecycleAssumption ==
  /\ NoRequest \notin Requests
  /\ NoProbe \notin Probes
  /\ MaxRevision \in Nat
  /\ MaxFaults \in Nat
  /\ RecoveryRuns \in BOOLEAN

VARIABLES
  record,        \* the row of the remediations table
  runs,          \* the probe_runs table: absent, running or the verdict
  labels,        \* remediation outcomes attached to training records
  workers,       \* the tasks in progress
  observed,      \* history: what the probe of a run saw on the network
  probed,        \* history: network probes started for a request
  sent,          \* what the CLI sent: its only attempt and the run of it
  replaced,      \* history: a record that had changed was sent again
  abandoned,     \* history: probe runs whose task died
  faults         \* number of workers that died, and of repeated deliveries

vars == <<record, runs, labels, workers, observed, probed, sent, replaced, abandoned, faults>>

-----------------------------------------------------------------------------
Outcomes == {"VerifiedFixed", "StillPresent", "Inconclusive"}

Attempt   == [probe: Probes \cup {NoProbe}, outcome: Outcomes \cup {"none", "open"}]
NoAttempt == [probe |-> NoProbe, outcome |-> "none"]

\* attempts is keyed by request id; `last` is the request appended last.
RecordRow ==
  [state: {"Absent", "InProgress", "Applied", "Verifying"} \cup Outcomes,
   revision: Nat, applied: BOOLEAN,
   last: Requests \cup {NoRequest},
   attempts: [Requests -> Attempt]]

AbsentRecord == [state |-> "Absent", revision |-> 0, applied |-> FALSE,
                 last |-> NoRequest, attempts |-> [r \in Requests |-> NoAttempt]]

Runs == {"absent", "running"} \cup Outcomes

Delivery  == [request: Requests \cup {NoRequest}, probe: Probes \cup {NoProbe},
              verdict: Outcomes]
NotSent   == [request |-> NoRequest, probe |-> NoProbe, verdict |-> "Inconclusive"]

WorkerPc == {"idle", "sync", "synced", "mark", "request", "schedule", "undo",
             "probing", "apply", "complete", "outcome", "label",
             "expire", "missing"}

\* `copy` is the record as the worker read or last wrote it, `verdict` that
\* of the run it holds, `tries` the attempts of complete_probe so far.
WorkerState == [pc: WorkerPc, copy: RecordRow, request: Requests \cup {NoRequest},
                probe: Probes \cup {NoProbe}, verdict: Outcomes, tries: 0 .. 2]

Idle == [pc |-> "idle", copy |-> AbsentRecord, request |-> NoRequest,
         probe |-> NoProbe, verdict |-> "Inconclusive", tries |-> 0]

Init ==
  /\ record = AbsentRecord
  /\ runs = [p \in Probes |-> "absent"]
  /\ labels = [r \in Requests |-> "none"]
  /\ workers = [w \in Workers |-> Idle]
  /\ observed = [p \in Probes |-> "none"]
  /\ probed = [r \in Requests |-> 0]
  /\ sent = NotSent
  /\ replaced = FALSE
  /\ abandoned = {}
  /\ faults = 0

At(w, pc)        == workers[w].pc = pc
Become(w, state) == workers' = [workers EXCEPT ![w] = state]
Goto(w, pc)      == Become(w, [workers[w] EXCEPT !.pc = pc])
Finish(w)        == Become(w, Idle)

\* Mutant of Current: the update checks no revision.
CurrentUnchecked(w) == TRUE

\* The update of the remediations table succeeds if nobody changed the
\* revision since the worker read it.
Current(w) == workers[w].copy.revision = record.revision

\* Mutant of Closed: the revision is not counted up.
ClosedInPlace(row, r, verdict) ==
  [row EXCEPT !.state = verdict, !.attempts[r].outcome = verdict]

Closed(row, r, verdict) ==
  [row EXCEPT !.revision = @ + 1, !.state = verdict, !.attempts[r].outcome = verdict]

-----------------------------------------------------------------------------
(* A record is created by an analyst, or arrives with the result of a fix  *)
(* that the CLI applied and verified on the server itself; its id is then  *)
(* new.                                                                    *)

Start ==
  /\ record.state = "Absent"
  /\ sent = NotSent
  /\ record' = [AbsentRecord EXCEPT !.state = "InProgress"]
  /\ UNCHANGED <<runs, labels, workers, observed, probed, sent, replaced, abandoned, faults>>

\* Ids of probe runs are never used again.
Holds(row, p) == \E r \in Requests : row.attempts[r].probe = p
UnusedProbes ==
  {p \in Probes : /\ runs[p] = "absent"
                  /\ sent.probe # p
                  /\ ~Holds(record, p)
                  /\ \A w \in Workers : workers[w].probe # p /\ ~Holds(workers[w].copy, p)}

\* The record as the CLI sends it, whatever the server made of it since.
Delivered(d) ==
  [state |-> d.verdict, revision |-> 1, applied |-> TRUE, last |-> d.request,
   attempts |-> [AbsentRecord.attempts EXCEPT
                  ![d.request] = [probe |-> d.probe, outcome |-> d.verdict]]]

\* The sync handler looks for the record.  The CLI sends it once; that the
\* same request is delivered again is a fault.
SyncRead(w, r, p, verdict) ==
  /\ At(w, "idle")
  /\ record.state = "Absent"
  /\ sent = NotSent
  /\ p \in UnusedProbes
  /\ sent' = [request |-> r, probe |-> p, verdict |-> verdict]
  /\ observed' = [observed EXCEPT ![p] = verdict]
  /\ Become(w, [Idle EXCEPT !.pc = "sync", !.copy = record])
  /\ UNCHANGED <<record, runs, labels, probed, replaced, abandoned, faults>>

SyncAgain(w) ==
  /\ At(w, "idle")
  /\ sent # NotSent
  /\ faults < MaxFaults
  /\ faults' = faults + 1
  /\ Become(w, [Idle EXCEPT !.pc = "sync", !.copy = record])
  /\ UNCHANGED <<record, runs, labels, observed, probed, sent, replaced, abandoned>>

\* A record that was not there is created, unless it is there by now; one
\* that was there is replaced as a whole, attempts and revision included,
\* if its revision is still the one that was read.
SyncWrite(w) ==
  LET known == workers[w].copy.state # "Absent"
      writes == IF known THEN Current(w) ELSE record.state = "Absent" IN
  /\ At(w, "sync")
  /\ record' = IF writes THEN Delivered(sent) ELSE record
  /\ replaced' = (replaced \/ (known /\ writes /\ record # Delivered(sent)))
  /\ Become(w, [Idle EXCEPT !.pc = "synced"])
  /\ UNCHANGED <<runs, labels, observed, probed, sent, abandoned, faults>>

\* The finished run is stored by another call, whose errors are ignored:
\* reserve refuses it while a run of the target is unfinished.
SyncRun(w) ==
  /\ At(w, "synced")
  /\ \/ /\ \A p \in Probes : runs[p] # "running"
        /\ runs' = [runs EXCEPT ![sent.probe] = sent.verdict]
     \/ UNCHANGED runs
  /\ Finish(w)
  /\ UNCHANGED <<record, labels, observed, probed, sent, replaced, abandoned, faults>>

\* Mutant of MarkRead: a fix that is being verified may be marked again.
MarkReadAnyState(w) ==
  /\ At(w, "idle")
  /\ record.state # "Absent"
  /\ record.revision < MaxRevision
  /\ Become(w, [Idle EXCEPT !.pc = "mark", !.copy = record])
  /\ UNCHANGED <<record, runs, labels, observed, probed, sent, replaced, abandoned, faults>>

MarkRead(w) ==
  /\ At(w, "idle")
  /\ record.state \notin {"Absent", "Verifying"}
  /\ record.revision < MaxRevision
  /\ Become(w, [Idle EXCEPT !.pc = "mark", !.copy = record])
  /\ UNCHANGED <<record, runs, labels, observed, probed, sent, replaced, abandoned, faults>>

MarkWrite(w) ==
  /\ At(w, "mark")
  /\ record' = IF Current(w)
               THEN [workers[w].copy EXCEPT !.revision = @ + 1, !.state = "Applied",
                                            !.applied = TRUE]
               ELSE record
  /\ Finish(w)
  /\ UNCHANGED <<runs, labels, observed, probed, sent, replaced, abandoned, faults>>

-----------------------------------------------------------------------------
(* request_verification.                                                   *)

\* Mutant of RequestRead: an earlier attempt with the same id is not looked for.
RequestReadAgain(w, r) ==
  /\ At(w, "idle")
  /\ record.applied
  /\ record.state # "Verifying"
  /\ Become(w, [Idle EXCEPT !.pc = "request", !.copy = record, !.request = r])
  /\ UNCHANGED <<record, runs, labels, observed, probed, sent, replaced, abandoned, faults>>

RequestRead(w, r) ==
  /\ At(w, "idle")
  /\ record.applied
  /\ record.state # "Verifying"
  /\ record.attempts[r] = NoAttempt
  /\ Become(w, [Idle EXCEPT !.pc = "request", !.copy = record, !.request = r])
  /\ UNCHANGED <<record, runs, labels, observed, probed, sent, replaced, abandoned, faults>>

Requested(row, r, p) ==
  [row EXCEPT !.revision = @ + 1, !.state = "Verifying", !.last = r,
              !.attempts[r] = [probe |-> p, outcome |-> "open"]]

\* The probe id is new; it is chosen here because nobody sees it earlier.
RequestWrite(w) ==
  LET r == workers[w].request IN
  /\ At(w, "request")
  /\ \/ /\ Current(w)
        /\ \E p \in UnusedProbes :
             LET row == Requested(workers[w].copy, r, p) IN
             /\ record' = row
             /\ Become(w, [workers[w] EXCEPT !.pc = "schedule", !.copy = row, !.probe = p])
     \/ /\ ~Current(w)
        /\ Finish(w)
        /\ UNCHANGED record
  /\ UNCHANGED <<runs, labels, observed, probed, sent, replaced, abandoned, faults>>

\* reserve refuses while a run of the target is unfinished; the spawned
\* task is the same worker from here on.
Schedule(w) ==
  /\ At(w, "schedule")
  /\ \A p \in Probes : runs[p] # "running"
  /\ runs' = [runs EXCEPT ![workers[w].probe] = "running"]
  /\ probed' = [probed EXCEPT ![workers[w].request] = @ + 1]
  /\ Goto(w, "probing")
  /\ UNCHANGED <<record, labels, observed, sent, replaced, abandoned, faults>>

\* Mutant of ScheduleRefused: the error is returned at once.
ScheduleRefusedOnly(w) ==
  /\ At(w, "schedule")
  /\ Finish(w)
  /\ UNCHANGED <<record, runs, labels, observed, probed, sent, replaced, abandoned, faults>>

ScheduleRefused(w) ==
  /\ At(w, "schedule")
  /\ Goto(w, "undo")
  /\ UNCHANGED <<record, runs, labels, observed, probed, sent, replaced, abandoned, faults>>

\* Whether the undo found its revision is not looked at.
ScheduleUndo(w) ==
  /\ At(w, "undo")
  /\ record' = IF Current(w)
               THEN Closed(workers[w].copy, workers[w].copy.last, "Inconclusive")
               ELSE record
  /\ Finish(w)
  /\ UNCHANGED <<runs, labels, observed, probed, sent, replaced, abandoned, faults>>

-----------------------------------------------------------------------------
(* The task that runs the probe, and complete_probe.                       *)

ProbeFinishes(w, verdict) ==
  LET p == workers[w].probe IN
  /\ At(w, "probing")
  /\ runs' = [runs EXCEPT ![p] = verdict]
  /\ observed' = [observed EXCEPT ![p] = verdict]
  /\ Become(w, [workers[w] EXCEPT !.pc = "apply", !.verdict = verdict])
  /\ UNCHANGED <<record, labels, probed, sent, replaced, abandoned, faults>>

\* The run is saved again with the derived context.
ApplyEvidence(w) ==
  /\ At(w, "apply")
  /\ runs' = [runs EXCEPT ![workers[w].probe] = workers[w].verdict]
  /\ Goto(w, "complete")
  /\ UNCHANGED <<record, labels, observed, probed, sent, replaced, abandoned, faults>>

CompleteRead(w) ==
  LET p == workers[w].probe IN
  /\ At(w, "complete")
  /\ \/ \E r \in Requests :
          /\ record.attempts[r].probe = p
          /\ Become(w, [workers[w] EXCEPT
               !.pc = IF record.attempts[r].outcome = "open" THEN "outcome" ELSE "label",
               !.request = r, !.copy = record])
     \/ /\ \A r \in Requests : record.attempts[r].probe # p
        /\ Finish(w)
  /\ UNCHANGED <<record, runs, labels, observed, probed, sent, replaced, abandoned, faults>>

OutcomeWrite(w) ==
  LET row == Closed(workers[w].copy, workers[w].request, workers[w].verdict) IN
  /\ At(w, "outcome")
  /\ \/ /\ Current(w)
        /\ record' = row
        /\ Become(w, [workers[w] EXCEPT !.pc = "label", !.copy = row])
     \/ /\ ~Current(w)
        /\ workers[w].tries < 2
        /\ Become(w, [workers[w] EXCEPT !.pc = "complete", !.tries = @ + 1])
        /\ UNCHANGED record
     \/ /\ ~Current(w)
        /\ workers[w].tries = 2
        /\ Finish(w)
        /\ UNCHANGED record
  /\ UNCHANGED <<runs, labels, observed, probed, sent, replaced, abandoned, faults>>

\* Mutants of AttachLabel: the label is the state of the fix as it is now;
\* the label is the verdict of the worker's own run.
AttachLabelState(w) ==
  LET r == workers[w].request IN
  /\ At(w, "label")
  /\ labels' = [labels EXCEPT ![r] = IF @ = "none" THEN record.state ELSE @]
  /\ Finish(w)
  /\ UNCHANGED <<record, runs, observed, probed, sent, replaced, abandoned, faults>>

AttachLabelVerdict(w) ==
  LET r == workers[w].request IN
  /\ At(w, "label")
  /\ labels' = [labels EXCEPT ![r] = IF @ = "none" THEN workers[w].verdict ELSE @]
  /\ Finish(w)
  /\ UNCHANGED <<record, runs, observed, probed, sent, replaced, abandoned, faults>>

\* attach_remediation_outcome keeps the label a request already has.
AttachLabel(w) ==
  LET r == workers[w].request IN
  /\ At(w, "label")
  /\ labels' = [labels EXCEPT ![r] =
       IF @ = "none" THEN workers[w].copy.attempts[r].outcome ELSE @]
  /\ Finish(w)
  /\ UNCHANGED <<record, runs, observed, probed, sent, replaced, abandoned, faults>>

-----------------------------------------------------------------------------
(* recover_stale_probes: unfinished runs are closed, finished runs that    *)
(* were listed are completed, and attempts without a run are given up.     *)

ExpireRead(w, p) ==
  /\ RecoveryRuns
  /\ At(w, "idle")
  /\ runs[p] = "running"
  /\ Become(w, [Idle EXCEPT !.pc = "expire", !.probe = p])
  /\ UNCHANGED <<record, runs, labels, observed, probed, sent, replaced, abandoned, faults>>

\* Mutant of ExpireWrite: the run counts as a failed check.
ExpireAsFailed(w) ==
  /\ At(w, "expire")
  /\ runs' = [runs EXCEPT ![workers[w].probe] = "StillPresent"]
  /\ Finish(w)
  /\ UNCHANGED <<record, labels, observed, probed, sent, replaced, abandoned, faults>>

\* The run is overwritten even if it finished in the meantime.
ExpireWrite(w) ==
  /\ At(w, "expire")
  /\ runs' = [runs EXCEPT ![workers[w].probe] = "Inconclusive"]
  /\ Finish(w)
  /\ UNCHANGED <<record, labels, observed, probed, sent, replaced, abandoned, faults>>

RecoverFinished(w, p) ==
  /\ RecoveryRuns
  /\ At(w, "idle")
  /\ runs[p] \in Outcomes
  /\ Become(w, [Idle EXCEPT !.pc = "complete", !.probe = p, !.verdict = runs[p]])
  /\ UNCHANGED <<record, runs, labels, observed, probed, sent, replaced, abandoned, faults>>

MissingRead(w) ==
  /\ RecoveryRuns
  /\ At(w, "idle")
  /\ record.state = "Verifying"
  /\ record.last # NoRequest
  /\ runs[record.attempts[record.last].probe] = "absent"
  /\ Become(w, [Idle EXCEPT !.pc = "missing", !.copy = record])
  /\ UNCHANGED <<record, runs, labels, observed, probed, sent, replaced, abandoned, faults>>

MissingWrite(w) ==
  /\ At(w, "missing")
  /\ record' = IF Current(w)
               THEN Closed(workers[w].copy, workers[w].copy.last, "Inconclusive")
               ELSE record
  /\ Finish(w)
  /\ UNCHANGED <<runs, labels, observed, probed, sent, replaced, abandoned, faults>>

\* A client disconnects, a storage call fails or the server stops.
Die(w) ==
  /\ ~At(w, "idle")
  /\ faults < MaxFaults
  /\ faults' = faults + 1
  /\ abandoned' = abandoned \cup ({workers[w].probe} \ {NoProbe})
  /\ Finish(w)
  /\ UNCHANGED <<record, runs, labels, observed, probed, sent, replaced>>

-----------------------------------------------------------------------------
WorkerStep(w) ==
  \/ SyncWrite(w)
  \/ SyncRun(w)
  \/ MarkWrite(w)
  \/ RequestWrite(w)
  \/ Schedule(w)
  \/ ScheduleRefused(w)
  \/ ScheduleUndo(w)
  \/ \E verdict \in Outcomes : ProbeFinishes(w, verdict)
  \/ ApplyEvidence(w)
  \/ CompleteRead(w)
  \/ OutcomeWrite(w)
  \/ AttachLabel(w)
  \/ ExpireWrite(w)
  \/ MissingWrite(w)

UserStep(w) ==
  \/ \E r \in Requests, p \in Probes, verdict \in Outcomes : SyncRead(w, r, p, verdict)
  \/ SyncAgain(w)
  \/ MarkRead(w)
  \/ \E r \in Requests : RequestRead(w, r)

RecoveryStep(w) ==
  \/ \E p \in Probes : ExpireRead(w, p) \/ RecoverFinished(w, p)
  \/ MissingRead(w)

Next ==
  \/ Start
  \/ \E w \in Workers : WorkerStep(w) \/ UserStep(w) \/ RecoveryStep(w) \/ Die(w)

Spec == Init /\ [][Next]_vars

-----------------------------------------------------------------------------
(* The record, the runs, the labels and the workers keep their shape.      *)
TypeOK ==
  /\ record \in RecordRow
  /\ runs \in [Probes -> Runs]
  /\ labels \in [Requests -> Outcomes \cup {"none"}]
  /\ workers \in [Workers -> WorkerState]
  /\ observed \in [Probes -> Outcomes \cup {"none"}]
  /\ probed \in [Requests -> Nat]
  /\ sent \in Delivery
  /\ replaced \in BOOLEAN
  /\ abandoned \subseteq Probes
  /\ faults \in Nat

(* A fix is shown as being verified exactly while its newest attempt is    *)
(* open, and no older attempt is left open behind it (remediation.rs).     *)
VerifyingHasOpenAttempt ==
  \A r \in Requests :
    record.attempts[r].outcome = "open" <=> (record.state = "Verifying" /\ record.last = r)

(* Retrying a request never starts another network operation, although     *)
(* the retries run concurrently and the probe starts long after the check; *)
(* only the CLI sending its record again makes the server forget requests. *)
OneProbePerRequest == ~replaced => \A r \in Requests : probed[r] <= 1

(* An attempt never disappears, and once closed keeps its run and outcome, *)
(* whichever of the probe task, the undo, recovery and a repeated delivery *)
(* come late, as long as no delivery replaces a record that had changed.   *)
AttemptsAppendOnly ==
  [][~replaced' =>
       \A r \in Requests :
         /\ record.attempts[r].probe # NoProbe =>
              record'.attempts[r].probe = record.attempts[r].probe
         /\ record.attempts[r].outcome \in Outcomes =>
              record'.attempts[r].outcome = record.attempts[r].outcome]_vars

(* No fix is declared verified, or still broken, unless its own probe saw  *)
(* that on the network; recovery, failures and records that are sent again *)
(* between a read and a write change nothing about that.                   *)
VerdictWasObserved ==
  \A r \in Requests :
    LET a == record.attempts[r] IN
    a.outcome \in Outcomes \ {"Inconclusive"} => observed[a.probe] = a.outcome

(* The training label of a request and the outcome the analyst sees for it *)
(* agree, although they are stored by separate calls of several workers,   *)
(* as long as no repeated delivery removed that outcome.                   *)
LabelsAgree ==
  ~replaced =>
    \A r \in Requests : labels[r] # "none" => labels[r] = record.attempts[r].outcome

(* A fix stays in verification only while the task of its run is at work,  *)
(* or was lost: refusals, lost races and exhausted retries never strand    *)
(* it.  What was lost is left to recovery, which nothing calls.            *)
VerifyingIsAttended ==
  record.state = "Verifying" =>
    LET p == record.attempts[record.last].probe IN
    \/ p \in abandoned
    \/ \E w \in Workers :
         /\ workers[w].probe = p
         /\ workers[w].pc \in {"schedule", "undo", "probing", "apply", "complete", "outcome"}

(* The lifecycle as its users see it.                                      *)
Contract == INSTANCE VerificationContract WITH
  state    <- record.state,
  outcome  <- [r \in Requests |-> record.attempts[r].outcome],
  replaced <- replaced

(* The concurrent workers, ordered by the revision number alone, keep the  *)
(* contract whose operations are atomic.                                   *)
ImplementsContract == Contract!Spec
=============================================================================
