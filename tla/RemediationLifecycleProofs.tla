-------------------- MODULE RemediationLifecycleProofs --------------------
(***************************************************************************)
(* What holds of a remediation for any workers, requests and probes, any   *)
(* number of revisions and of faults, whether recovery runs or not.        *)
(*                                                                         *)
(* There are two invariants.  Sound speaks of one row at a time, of the    *)
(* record and of every copy that a worker holds, and needs no revision: it *)
(* survives a record that is sent again.  Ordered relates the copies to    *)
(* the record by their revisions, and ends when a changed record is        *)
(* replaced, because the revision then starts anew.                        *)
(***************************************************************************)
EXTENDS RemediationLifecycle, TLAPS

Verdicts == Outcomes \ {"Inconclusive"}

OutsideNow == {"schedule", "probing"}

\* A row on its own, and what its attempts say of the network.
SoundRow(row, seen) ==
  /\ \A r \in Requests : row.attempts[r].outcome = "open" <=> (row.state = "Verifying" /\ row.last = r)
  /\ row.state = "Verifying" => row.last \in Requests
  /\ \A r \in Requests : row.attempts[r].outcome = "none" <=> row.attempts[r].probe = NoProbe
  /\ \A r, s \in Requests : row.attempts[r].probe = row.attempts[s].probe /\ r # s
       => row.attempts[r].probe = NoProbe
  /\ \A r \in Requests : row.attempts[r].outcome \in Verdicts
       => seen[row.attempts[r].probe] = row.attempts[r].outcome

\* What a worker found in the copy it holds, and what it will report.
SoundWorker(W, seen, d) ==
  /\ SoundRow(W.copy, seen)
  /\ W.pc = "mark" => W.copy.state # "Verifying"
  /\ W.pc = "request" => /\ W.request \in Requests
                         /\ W.copy.applied /\ W.copy.state # "Verifying"
                         /\ W.copy.attempts[W.request] = NoAttempt
  /\ W.pc \in {"schedule", "undo", "missing"} => W.copy.state = "Verifying"
  /\ W.pc = "outcome" => /\ W.request \in Requests
                         /\ W.copy.attempts[W.request].probe = W.probe
                         /\ W.copy.attempts[W.request].outcome = "open"
  /\ W.pc = "label" => /\ W.request \in Requests
                       /\ W.copy.attempts[W.request].outcome \in Outcomes
  /\ W.pc \in OutsideNow \cup {"apply", "complete", "outcome", "expire"} => W.probe \in Probes
  /\ W.pc \in OutsideNow => /\ W.request \in Requests
                            /\ seen[W.probe] = "none" /\ d.probe # W.probe
  /\ W.pc \in {"apply", "complete", "outcome"} /\ W.verdict \in Verdicts
       => seen[W.probe] = W.verdict
  /\ W.pc \in {"sync", "synced"} => d # NotSent

\* A stored verdict was observed; what was observed is stored or was sent.
SoundRun(p) ==
  /\ runs[p] \in Verdicts => observed[p] = runs[p]
  /\ observed[p] # "none" => runs[p] # "absent" \/ sent.probe = p

SoundSent ==
  sent # NotSent => /\ sent.request \in Requests /\ sent.probe \in Probes
                    /\ observed[sent.probe] = sent.verdict

\* No two workers are on their way to the network with one run.
Apart ==
  \A v, w \in Workers :
    v # w /\ workers[v].pc \in OutsideNow /\ workers[w].pc \in OutsideNow
    => workers[v].probe # workers[w].probe

Sound ==
  /\ TypeOK
  /\ SoundRow(record, observed)
  /\ \A w \in Workers : SoundWorker(workers[w], observed, sent)
  /\ \A p \in Probes : SoundRun(p)
  /\ SoundSent
  /\ Apart

-----------------------------------------------------------------------------
(* How rows change.                                                        *)

Applied(row) == [row EXCEPT !.revision = @ + 1, !.state = "Applied", !.applied = TRUE]
Opened(p) == [probe |-> p, outcome |-> "open"]
Ended(attempt, verdict) == [attempt EXCEPT !.outcome = verdict]

\* The new row has these fields.
Written(row, new, state, last, attempts) ==
  /\ new \in RecordRow
  /\ new.revision = row.revision + 1 /\ new.state = state
  /\ new.last = last /\ new.attempts = attempts

\* What a fix that is applied again keeps.
LEMMA AppliedRow ==
  ASSUME NEW row \in RecordRow
  PROVE  Written(row, Applied(row), "Applied", row.last, row.attempts)
<1>1. row.revision + 1 \in Nat
  BY DEF RecordRow
<1> QED
  BY <1>1 DEF Applied, Written, RecordRow

\* A request opens one attempt and leaves the others.
LEMMA RequestedRow ==
  ASSUME NEW row \in RecordRow, NEW r \in Requests, NEW p \in Probes
  PROVE  /\ Written(row, Requested(row, r, p), "Verifying", r, [row.attempts EXCEPT ![r] = Opened(p)])
         /\ Requested(row, r, p).applied = row.applied
<1> DEFINE attempts == [row.attempts EXCEPT ![r] = Opened(p)]
<1>1. row.revision + 1 \in Nat /\ Opened(p) \in Attempt
  BY DEF Attempt, RecordRow, Opened
<1>2. attempts \in [Requests -> Attempt]
  BY <1>1 DEF RecordRow
<1>3. Requested(row, r, p) = [row EXCEPT !.revision = @ + 1, !.state = "Verifying", !.last = r, !.attempts = attempts]
  BY DEF Requested, RecordRow, Opened
<1> HIDE DEF attempts
<1>4. /\ Written(row, Requested(row, r, p), "Verifying", r, attempts)
      /\ Requested(row, r, p).applied = row.applied
  BY <1>1, <1>2, <1>3 DEF RecordRow, Written
<1> QED
  BY <1>4 DEF attempts

\* Closing sets one outcome and leaves every probe and the other outcomes.
LEMMA ClosedRow ==
  ASSUME NEW row \in RecordRow, NEW r \in Requests, NEW verdict \in Outcomes
  PROVE  /\ Written(row, Closed(row, r, verdict), verdict, row.last,
                    [row.attempts EXCEPT ![r] = Ended(row.attempts[r], verdict)])
         /\ Closed(row, r, verdict).applied = row.applied
<1> DEFINE attempts == [row.attempts EXCEPT ![r] = Ended(row.attempts[r], verdict)]
<1>1. row.revision + 1 \in Nat /\ Ended(row.attempts[r], verdict) \in Attempt
  BY DEF Attempt, RecordRow, Ended
<1>2. attempts \in [Requests -> Attempt]
  BY <1>1 DEF RecordRow
<1>3. Closed(row, r, verdict) = [row EXCEPT !.revision = @ + 1, !.state = verdict, !.attempts = attempts]
  BY DEF Closed, RecordRow, Ended
<1> HIDE DEF attempts
<1>4. /\ Written(row, Closed(row, r, verdict), verdict, row.last, attempts)
      /\ Closed(row, r, verdict).applied = row.applied
  BY <1>1, <1>2, <1>3 DEF RecordRow, Written, Outcomes
<1> QED
  BY <1>4 DEF attempts

\* The record that the CLI sends has one attempt, closed.
LEMMA DeliveredRow ==
  ASSUME NEW d \in Delivery, d.request \in Requests, d.probe \in Probes
  PROVE  /\ Delivered(d) \in RecordRow
         /\ Delivered(d).state = d.verdict /\ Delivered(d).applied
         /\ Delivered(d).attempts[d.request].probe = d.probe
         /\ Delivered(d).attempts[d.request].outcome = d.verdict
         /\ \A s \in Requests \ {d.request} : Delivered(d).attempts[s] = NoAttempt
<1> DEFINE a == [probe |-> d.probe, outcome |-> d.verdict]
           attempts == [AbsentRecord.attempts EXCEPT ![d.request] = a]
<1>0. d.verdict \in Outcomes
  BY DEF Delivery
<1>1. a \in Attempt /\ a.probe = d.probe /\ a.outcome = d.verdict
  BY <1>0 DEF Attempt
<1>2. AbsentRecord.attempts = [s \in Requests |-> NoAttempt] /\ NoAttempt \in Attempt
  BY DEF AbsentRecord, NoAttempt, Attempt
<1> HIDE DEF a
<1>3. /\ attempts \in [Requests -> Attempt] /\ attempts[d.request] = a
      /\ \A s \in Requests \ {d.request} : attempts[s] = NoAttempt
  BY <1>1, <1>2
<1>4. Delivered(d) = [state |-> d.verdict, revision |-> 1, applied |-> TRUE, last |-> d.request, attempts |-> attempts]
  BY DEF Delivered, a
<1> HIDE DEF attempts
<1> QED
  BY <1>0, <1>1, <1>3, <1>4 DEF RecordRow, Outcomes

-----------------------------------------------------------------------------
(* The writes of a row keep it sound.                                      *)

LEMMA OutcomeNames ==
  /\ Outcomes = {"VerifiedFixed", "StillPresent", "Inconclusive"}
  /\ Verdicts = {"VerifiedFixed", "StillPresent"}
  /\ NoProbe \notin Probes /\ NoRequest \notin Requests
BY LifecycleAssumption DEF Outcomes, Verdicts

LEMMA SoundWhenApplied ==
  ASSUME NEW row \in RecordRow, NEW seen, SoundRow(row, seen), row.state # "Verifying"
  PROVE  SoundRow(Applied(row), seen)
<1>1. Written(row, Applied(row), "Applied", row.last, row.attempts)
  BY AppliedRow
<1> QED
  BY <1>1 DEF SoundRow, Written

LEMMA SoundWhenRequested ==
  ASSUME NEW row \in RecordRow, NEW seen, SoundRow(row, seen), row.state # "Verifying",
         NEW r \in Requests, NEW p \in Probes, ~Holds(row, p)
  PROVE  SoundRow(Requested(row, r, p), seen)
<1> DEFINE new == Requested(row, r, p)
<1>1. Written(row, new, "Verifying", r, [row.attempts EXCEPT ![r] = Opened(p)])
  BY RequestedRow
<1>2. \A s \in Requests : row.attempts[s].probe # p
  BY DEF Holds
<1> HIDE DEF new
<1>3. /\ new.state = "Verifying" /\ new.last = r
      /\ new.attempts[r].probe = p /\ new.attempts[r].outcome = "open"
      /\ \A s \in Requests : s # r => new.attempts[s] = row.attempts[s]
  BY <1>1 DEF RecordRow, Written, Opened
<1>4. SoundRow(new, seen)
  BY <1>2, <1>3, OutcomeNames DEF SoundRow
<1> QED
  BY <1>4 DEF new

LEMMA SoundWhenClosed ==
  ASSUME NEW row \in RecordRow, NEW seen, SoundRow(row, seen), row.state = "Verifying",
         NEW verdict \in Outcomes,
         verdict \in Verdicts => seen[row.attempts[row.last].probe] = verdict
  PROVE  SoundRow(Closed(row, row.last, verdict), seen)
<1> DEFINE r == row.last
           new == Closed(row, r, verdict)
<1>0. r \in Requests
  BY DEF SoundRow
<1>1. Written(row, new, verdict, r, [row.attempts EXCEPT ![r] = Ended(row.attempts[r], verdict)])
  BY <1>0, ClosedRow
<1> HIDE DEF new
<1>3. /\ new.state = verdict /\ new.last = r
      /\ new.attempts[r].probe = row.attempts[r].probe
      /\ new.attempts[r].outcome = verdict
      /\ \A s \in Requests : s # r => new.attempts[s] = row.attempts[s]
  BY <1>0, <1>1 DEF Written, RecordRow, Attempt, Ended
<1>4. row.attempts[r].outcome = "open" /\ \A s \in Requests : s # r => row.attempts[s].outcome # "open"
  BY <1>0 DEF SoundRow
<1>5. SoundRow(new, seen)
  BY <1>0, <1>3, <1>4, OutcomeNames DEF SoundRow
<1> QED
  BY <1>5 DEF new

LEMMA SoundWhenDelivered ==
  ASSUME NEW d \in Delivery, d.request \in Requests, d.probe \in Probes, NEW seen, seen[d.probe] = d.verdict
  PROVE  SoundRow(Delivered(d), seen)
<1> DEFINE new == Delivered(d)
<1>1. /\ new.state = d.verdict
      /\ new.attempts[d.request].probe = d.probe /\ new.attempts[d.request].outcome = d.verdict
      /\ \A s \in Requests \ {d.request} : new.attempts[s].probe = NoProbe /\ new.attempts[s].outcome = "none"
  BY DeliveredRow DEF NoAttempt
<1>2. d.verdict \in Outcomes
  BY DEF Delivery
<1> HIDE DEF new
<1>3. SoundRow(new, seen)
  BY <1>1, <1>2, OutcomeNames DEF SoundRow
<1> QED
  BY <1>3 DEF new

LEMMA SoundWithoutAttempts ==
  ASSUME NEW row, NEW seen, row.state # "Verifying",
         \A r \in Requests : row.attempts[r] = NoAttempt
  PROVE  SoundRow(row, seen)
BY OutcomeNames DEF SoundRow, NoAttempt

\* What was observed stays observed.
LEMMA SoundWhenMoreIsSeen ==
  ASSUME NEW row, NEW seen, SoundRow(row, seen), NEW more,
         \A p : seen[p] \in Verdicts => more[p] = seen[p]
  PROVE  SoundRow(row, more)
BY DEF SoundRow

LEMMA IdleType == AbsentRecord \in RecordRow /\ Idle \in WorkerState
<1>1. NoAttempt \in Attempt
  BY DEF NoAttempt, Attempt
<1>2. AbsentRecord \in RecordRow
  BY <1>1 DEF AbsentRecord, RecordRow
<1> QED
  BY <1>2 DEF Idle, WorkerState, WorkerPc, Outcomes

LEMMA IdleSound == \A seen, d : SoundWorker(Idle, seen, d)
<1> SUFFICES ASSUME NEW seen, NEW d PROVE SoundWorker(Idle, seen, d)
  OBVIOUS
<1>1. AbsentRecord.state = "Absent" /\ \A r \in Requests : AbsentRecord.attempts[r] = NoAttempt
  BY DEF AbsentRecord
<1>2. SoundRow(AbsentRecord, seen)
  BY <1>1, SoundWithoutAttempts
<1>3. Idle.pc = "idle" /\ Idle.copy = AbsentRecord
  BY DEF Idle
<1> QED
  BY <1>2, <1>3 DEF SoundWorker, OutsideNow

-----------------------------------------------------------------------------
(* Sound is kept: steps that observe nothing.                              *)

\* The tables beside the record keep their types.
Tables ==
  /\ runs \in [Probes -> Runs]
  /\ labels \in [Requests -> Outcomes \cup {"none"}]
  /\ probed \in [Requests -> Nat]
  /\ replaced \in BOOLEAN /\ abandoned \subseteq Probes /\ faults \in Nat

\* What a worker that moves was.
LEMMA Moving ==
  ASSUME Sound, NEW w \in Workers
  PROVE  /\ workers[w] \in WorkerState /\ SoundWorker(workers[w], observed, sent)
         /\ record \in RecordRow /\ SoundRow(record, observed) /\ Tables
BY DEF Sound, TypeOK, Tables

\* What the workers are once it has moved.
LEMMA Moved ==
  ASSUME TypeOK, NEW w \in Workers, NEW x \in WorkerState, Become(w, x)
  PROVE  /\ workers' \in [Workers -> WorkerState] /\ workers'[w] = x
         /\ \A v \in Workers \ {w} : workers'[v] = workers[v]
BY DEF TypeOK, Become

LEMMA SoundMoves ==
  ASSUME Sound, NEW w \in Workers, NEW x \in WorkerState, Become(w, x),
         UNCHANGED <<observed, sent>>, SoundWorker(x, observed, sent),
         record' \in RecordRow, SoundRow(record', observed),
         Tables', \A p \in Probes : SoundRun(p)',
         x.pc \in OutsideNow =>
           \/ workers[w].pc \in OutsideNow /\ x.probe = workers[w].probe
           \/ \A v \in Workers : workers[v].probe # x.probe
  PROVE  Sound'
<1>1. /\ workers' \in [Workers -> WorkerState] /\ workers'[w] = x
      /\ \A v \in Workers \ {w} : workers'[v] = workers[v]
  BY Moved DEF Sound
<1>2. TypeOK'
  BY <1>1 DEF Sound, TypeOK, Tables
<1>3. \A v \in Workers : SoundWorker(workers'[v], observed', sent')
  BY <1>1 DEF Sound
<1>4. SoundSent'
  BY DEF Sound, SoundSent
<1>5. Apart'
  BY <1>1 DEF Sound, Apart
<1> QED
  BY <1>2, <1>3, <1>4, <1>5 DEF Sound

\* No run is saved.
LEMMA SameRuns == ASSUME Sound, UNCHANGED <<runs, observed, sent>> PROVE \A p \in Probes : SoundRun(p)'
BY DEF Sound, SoundRun

\* A run gets a verdict that was observed, or none.
LEMMA RunSaved ==
  ASSUME Sound, NEW p \in Probes, NEW verdict \in Outcomes, runs' = [runs EXCEPT ![p] = verdict],
         verdict \in Verdicts => observed[p] = verdict, UNCHANGED <<observed, sent>>
  PROVE  runs' \in [Probes -> Runs] /\ \A q \in Probes : SoundRun(q)'
<1>1. runs \in [Probes -> Runs] /\ verdict \in Runs /\ verdict # "absent"
  BY DEF Sound, TypeOK, Runs, Outcomes
<1> QED
  BY <1>1 DEF Sound, SoundRun

\* A worker that is done leaves sound what it wrote.
LEMMA SoundFinish ==
  ASSUME Sound, NEW w \in Workers, Finish(w), UNCHANGED <<observed, sent>>,
         record' \in RecordRow, SoundRow(record', observed), Tables', \A p \in Probes : SoundRun(p)'
  PROVE  Sound'
<1>1. Become(w, Idle) /\ Idle \in WorkerState /\ Idle.pc \notin OutsideNow
  BY IdleType DEF Finish, Idle, OutsideNow
<1> QED
  BY <1>1, IdleSound, SoundMoves

\* An idle worker takes on the record as it is.
LEMMA SoundStart ==
  ASSUME Sound, NEW w \in Workers, NEW x \in WorkerState, Become(w, x), x.copy = record,
         x.pc \in {"sync", "mark", "request", "missing"},
         UNCHANGED <<record, runs, labels, observed, probed, sent, replaced, abandoned>>, faults' \in Nat,
         x.pc = "sync" => sent # NotSent,
         x.pc = "mark" => record.state # "Verifying",
         x.pc = "missing" => record.state = "Verifying",
         x.pc = "request" => /\ x.request \in Requests
                             /\ record.applied /\ record.state # "Verifying"
                             /\ record.attempts[x.request] = NoAttempt
  PROVE  Sound'
<1>1. record \in RecordRow /\ SoundRow(record, observed) /\ Tables
  BY DEF Sound, TypeOK, Tables
<1>2. SoundWorker(x, observed, sent) /\ x.pc \notin OutsideNow
  BY <1>1 DEF SoundWorker, OutsideNow
<1>3. Tables'
  BY <1>1 DEF Tables
<1>4. record' = record /\ \A p \in Probes : SoundRun(p)'
  BY SameRuns
<1> QED
  BY <1>1, <1>2, <1>3, <1>4, SoundMoves

LEMMA MarkReadSound == ASSUME Sound, NEW w \in Workers, MarkRead(w) PROVE Sound'
<1> DEFINE x == [Idle EXCEPT !.pc = "mark", !.copy = record]
<1>1. /\ record \in RecordRow /\ record.state # "Verifying" /\ faults' \in Nat
      /\ UNCHANGED <<record, runs, labels, observed, probed, sent, replaced, abandoned>>
  BY DEF Sound, TypeOK, MarkRead
<1>2. x \in WorkerState /\ x.pc = "mark" /\ x.copy = record
  BY <1>1, IdleType DEF WorkerState, WorkerPc, Idle, Outcomes
<1>3. Become(w, x)
  BY DEF MarkRead
<1> HIDE DEF x
<1> QED
  BY <1>1, <1>2, <1>3, SoundStart

LEMMA SyncAgainSound == ASSUME Sound, NEW w \in Workers, SyncAgain(w) PROVE Sound'
<1> DEFINE x == [Idle EXCEPT !.pc = "sync", !.copy = record]
<1>1. /\ record \in RecordRow /\ sent # NotSent /\ faults' \in Nat
      /\ UNCHANGED <<record, runs, labels, observed, probed, sent, replaced, abandoned>>
  BY DEF Sound, TypeOK, SyncAgain
<1>2. x \in WorkerState /\ x.pc = "sync" /\ x.copy = record
  BY <1>1, IdleType DEF WorkerState, WorkerPc, Idle, Outcomes
<1>3. Become(w, x)
  BY DEF SyncAgain
<1> HIDE DEF x
<1> QED
  BY <1>1, <1>2, <1>3, SoundStart

LEMMA RequestReadSound == ASSUME Sound, NEW w \in Workers, NEW r \in Requests, RequestRead(w, r) PROVE Sound'
<1> DEFINE x == [Idle EXCEPT !.pc = "request", !.copy = record, !.request = r]
<1>1. /\ record \in RecordRow /\ faults' \in Nat
      /\ record.applied /\ record.state # "Verifying" /\ record.attempts[r] = NoAttempt
      /\ UNCHANGED <<record, runs, labels, observed, probed, sent, replaced, abandoned>>
  BY DEF Sound, TypeOK, RequestRead
<1>2. x \in WorkerState /\ x.pc = "request" /\ x.copy = record /\ x.request = r
  BY <1>1, IdleType DEF WorkerState, WorkerPc, Idle, Outcomes
<1>3. Become(w, x)
  BY DEF RequestRead
<1> HIDE DEF x
<1> QED
  BY <1>1, <1>2, <1>3, SoundStart

LEMMA MissingReadSound == ASSUME Sound, NEW w \in Workers, MissingRead(w) PROVE Sound'
<1> DEFINE x == [Idle EXCEPT !.pc = "missing", !.copy = record]
<1>1. /\ record \in RecordRow /\ record.state = "Verifying" /\ faults' \in Nat
      /\ UNCHANGED <<record, runs, labels, observed, probed, sent, replaced, abandoned>>
  BY DEF Sound, TypeOK, MissingRead
<1>2. x \in WorkerState /\ x.pc = "missing" /\ x.copy = record
  BY <1>1, IdleType DEF WorkerState, WorkerPc, Idle, Outcomes
<1>3. Become(w, x)
  BY DEF MissingRead
<1> HIDE DEF x
<1> QED
  BY <1>1, <1>2, <1>3, SoundStart

\* A worker goes on, and nothing else changes.
LEMMA SoundGoesOn ==
  ASSUME Sound, NEW w \in Workers, NEW x \in WorkerState, Become(w, x), SoundWorker(x, observed, sent),
         UNCHANGED <<record, runs, labels, observed, probed, sent, replaced, abandoned, faults>>,
         x.pc \notin OutsideNow
  PROVE  Sound'
<1>1. record' = record /\ record \in RecordRow /\ SoundRow(record, observed) /\ Tables'
  BY DEF Sound, TypeOK, Tables
<1>2. \A p \in Probes : SoundRun(p)'
  BY SameRuns
<1> QED
  BY <1>1, <1>2, SoundMoves

LEMMA ExpireReadSound == ASSUME Sound, NEW w \in Workers, NEW p \in Probes, ExpireRead(w, p) PROVE Sound'
<1> DEFINE x == [Idle EXCEPT !.pc = "expire", !.probe = p]
<1>1. UNCHANGED <<record, runs, labels, observed, probed, sent, replaced, abandoned, faults>>
  BY DEF ExpireRead
<1>2. x \in WorkerState /\ x.pc = "expire" /\ x.probe = p /\ x.copy = Idle.copy
  BY IdleType DEF WorkerState, WorkerPc, Idle
<1>3. Become(w, x)
  BY DEF ExpireRead
<1> HIDE DEF x
<1>4. SoundWorker(x, observed, sent) /\ x.pc \notin OutsideNow
  BY <1>2, IdleSound DEF SoundWorker, OutsideNow
<1> QED
  BY <1>1, <1>2, <1>3, <1>4, SoundGoesOn

LEMMA RecoverFinishedSound == ASSUME Sound, NEW w \in Workers, NEW p \in Probes, RecoverFinished(w, p) PROVE Sound'
<1> DEFINE x == [Idle EXCEPT !.pc = "complete", !.probe = p, !.verdict = runs[p]]
<1>1. /\ UNCHANGED <<record, runs, labels, observed, probed, sent, replaced, abandoned, faults>>
      /\ runs[p] \in Verdicts => observed[p] = runs[p]
  BY DEF RecoverFinished, Sound, SoundRun
<1>2. x \in WorkerState /\ x.pc = "complete" /\ x.probe = p /\ x.copy = Idle.copy /\ x.verdict = runs[p]
  BY IdleType DEF WorkerState, WorkerPc, Idle, RecoverFinished
<1>3. Become(w, x)
  BY DEF RecoverFinished
<1> HIDE DEF x
<1>4. SoundWorker(x, observed, sent) /\ x.pc \notin OutsideNow
  BY <1>1, <1>2, IdleSound DEF SoundWorker, OutsideNow
<1> QED
  BY <1>1, <1>2, <1>3, <1>4, SoundGoesOn

LEMMA DieSound == ASSUME Sound, NEW w \in Workers, Die(w) PROVE Sound'
<1>1. /\ record' = record /\ UNCHANGED <<observed, sent, runs>> /\ Finish(w)
      /\ workers[w] \in WorkerState
      /\ record \in RecordRow /\ SoundRow(record, observed) /\ Tables
  BY Moving DEF Die
<1>2. Tables'
  <2>1. workers[w].probe \in Probes \cup {NoProbe}
    BY <1>1 DEF WorkerState
  <2>2. abandoned' \subseteq Probes
    BY <1>1, <2>1 DEF Die, Tables
  <2> QED
    BY <1>1, <2>2 DEF Die, Tables
<1> QED
  BY <1>1, <1>2, SameRuns, SoundFinish

LEMMA ScheduleRefusedSound == ASSUME Sound, NEW w \in Workers, ScheduleRefused(w) PROVE Sound'
<1> DEFINE x == [workers[w] EXCEPT !.pc = "undo"]
<1>1. /\ UNCHANGED <<record, runs, labels, observed, probed, sent, replaced, abandoned, faults>>
      /\ workers[w].pc = "schedule" /\ workers[w] \in WorkerState /\ SoundWorker(workers[w], observed, sent)
  BY Moving DEF ScheduleRefused, At
<1>2. x \in WorkerState /\ x.pc = "undo" /\ x.copy = workers[w].copy
  BY <1>1 DEF WorkerState, WorkerPc
<1>3. Become(w, x)
  BY DEF ScheduleRefused, Goto
<1> HIDE DEF x
<1>4. SoundWorker(x, observed, sent) /\ x.pc \notin OutsideNow
  BY <1>1, <1>2 DEF SoundWorker, OutsideNow
<1> QED
  BY <1>1, <1>2, <1>3, <1>4, SoundGoesOn

LEMMA CompleteReadSound == ASSUME Sound, NEW w \in Workers, CompleteRead(w) PROVE Sound'
<1>1. /\ workers[w].pc = "complete" /\ UNCHANGED <<record, runs, labels, observed, probed, sent, replaced, abandoned, faults>>
      /\ workers[w] \in WorkerState /\ SoundWorker(workers[w], observed, sent)
      /\ record \in RecordRow /\ SoundRow(record, observed) /\ Tables
  BY Moving DEF CompleteRead, At
<1>2. CASE Finish(w)
  <2>1. Tables' /\ record' = record /\ \A p \in Probes : SoundRun(p)'
    BY <1>1, SameRuns DEF Tables
  <2> QED
    BY <1>1, <1>2, <2>1, SoundFinish
<1>3. ASSUME NEW r \in Requests, record.attempts[r].probe = workers[w].probe,
             Become(w, [workers[w] EXCEPT
               !.pc = IF record.attempts[r].outcome = "open" THEN "outcome" ELSE "label",
               !.request = r, !.copy = record])
      PROVE  Sound'
  <2> DEFINE pc == IF record.attempts[r].outcome = "open" THEN "outcome" ELSE "label"
             x == [workers[w] EXCEPT !.pc = pc, !.request = r, !.copy = record]
  <2>1. /\ x \in WorkerState /\ x.pc = pc /\ x.copy = record /\ x.request = r
        /\ x.probe = workers[w].probe /\ x.verdict = workers[w].verdict
    BY <1>1 DEF WorkerState, WorkerPc
  <2>2. Become(w, x)
    BY <1>3
  <2> HIDE DEF x
  <2>3. pc \in {"outcome", "label"} /\ (pc = "outcome" <=> record.attempts[r].outcome = "open")
    OBVIOUS
  <2> HIDE DEF pc
  <2>4. /\ workers[w].probe \in Probes
        /\ workers[w].verdict \in Verdicts => observed[workers[w].probe] = workers[w].verdict
    BY <1>1 DEF SoundWorker
  <2>5. pc = "label" => record.attempts[r].outcome \in Outcomes
    BY <1>1, <1>3, <2>3, <2>4, OutcomeNames DEF SoundRow, RecordRow, Attempt
  <2>6. SoundWorker(x, observed, sent) /\ x.pc \notin OutsideNow
    BY <1>1, <1>3, <2>1, <2>3, <2>4, <2>5 DEF SoundWorker, OutsideNow
  <2> QED
    BY <1>1, <2>1, <2>2, <2>6, SoundGoesOn
<1> QED
  BY <1>2, <1>3 DEF CompleteRead

LEMMA ApplyEvidenceSound == ASSUME Sound, NEW w \in Workers, ApplyEvidence(w) PROVE Sound'
<1> DEFINE x == [workers[w] EXCEPT !.pc = "complete"]
<1>1. /\ workers[w].pc = "apply" /\ UNCHANGED <<record, labels, observed, probed, sent, replaced, abandoned, faults>>
      /\ runs' = [runs EXCEPT ![workers[w].probe] = workers[w].verdict]
      /\ workers[w] \in WorkerState /\ SoundWorker(workers[w], observed, sent)
      /\ record \in RecordRow /\ SoundRow(record, observed) /\ Tables
  BY Moving DEF ApplyEvidence, At
<1>2. /\ x \in WorkerState /\ x.pc = "complete" /\ x.copy = workers[w].copy
      /\ x.probe = workers[w].probe /\ x.verdict = workers[w].verdict
  BY <1>1 DEF WorkerState, WorkerPc
<1>3. Become(w, x)
  BY DEF ApplyEvidence, Goto
<1> HIDE DEF x
<1>4. SoundWorker(x, observed, sent) /\ x.pc \notin OutsideNow
  BY <1>1, <1>2 DEF SoundWorker, OutsideNow
<1>5. /\ workers[w].probe \in Probes /\ workers[w].verdict \in Outcomes
      /\ workers[w].verdict \in Verdicts => observed[workers[w].probe] = workers[w].verdict
  BY <1>1 DEF SoundWorker, WorkerState
<1>6. runs' \in [Probes -> Runs] /\ \A p \in Probes : SoundRun(p)'
  BY <1>1, <1>5, RunSaved
<1>7. Tables' /\ record' = record
  BY <1>1, <1>6 DEF Tables
<1> QED
  BY <1>1, <1>2, <1>3, <1>4, <1>6, <1>7, SoundMoves

LEMMA ExpireWriteSound == ASSUME Sound, NEW w \in Workers, ExpireWrite(w) PROVE Sound'
<1>1. /\ workers[w].pc = "expire" /\ UNCHANGED <<record, labels, observed, probed, sent, replaced, abandoned, faults>>
      /\ runs' = [runs EXCEPT ![workers[w].probe] = "Inconclusive"] /\ Finish(w)
      /\ SoundWorker(workers[w], observed, sent)
      /\ record \in RecordRow /\ SoundRow(record, observed) /\ Tables
  BY Moving DEF ExpireWrite, At
<1>2. workers[w].probe \in Probes /\ "Inconclusive" \in Outcomes /\ "Inconclusive" \notin Verdicts
  BY <1>1, OutcomeNames DEF SoundWorker
<1>3. runs' \in [Probes -> Runs] /\ \A p \in Probes : SoundRun(p)'
  BY <1>1, <1>2, RunSaved
<1>4. Tables' /\ record' = record
  BY <1>1, <1>3 DEF Tables
<1> QED
  BY <1>1, <1>3, <1>4, SoundFinish

LEMMA SyncRunSound == ASSUME Sound, NEW w \in Workers, SyncRun(w) PROVE Sound'
<1>1. /\ workers[w].pc = "synced" /\ UNCHANGED <<record, labels, observed, probed, sent, replaced, abandoned, faults>>
      /\ Finish(w) /\ SoundWorker(workers[w], observed, sent)
      /\ record \in RecordRow /\ SoundRow(record, observed) /\ Tables
  BY Moving DEF SyncRun, At
<1>2. sent.probe \in Probes /\ sent.verdict \in Outcomes /\ observed[sent.probe] = sent.verdict
  BY <1>1 DEF SoundWorker, Sound, SoundSent, TypeOK, Delivery
<1>3. runs' \in [Probes -> Runs] /\ \A p \in Probes : SoundRun(p)'
  <2>1. CASE UNCHANGED runs
    BY <1>1, <2>1, SameRuns DEF Tables
  <2>2. CASE runs' = [runs EXCEPT ![sent.probe] = sent.verdict]
    BY <1>1, <1>2, <2>2, RunSaved
  <2> QED
    BY <2>1, <2>2 DEF SyncRun
<1>4. Tables' /\ record' = record
  BY <1>1, <1>3 DEF Tables
<1> QED
  BY <1>1, <1>3, <1>4, SoundFinish

LEMMA AttachLabelSound == ASSUME Sound, NEW w \in Workers, AttachLabel(w) PROVE Sound'
<1> DEFINE r == workers[w].request
           new == workers[w].copy.attempts[r].outcome
<1>1. /\ workers[w].pc = "label" /\ UNCHANGED <<record, runs, observed, probed, sent, replaced, abandoned, faults>>
      /\ Finish(w) /\ SoundWorker(workers[w], observed, sent)
      /\ record \in RecordRow /\ SoundRow(record, observed) /\ Tables
      /\ labels' = [labels EXCEPT ![r] = IF @ = "none" THEN new ELSE @]
  BY Moving DEF AttachLabel, At
<1>2. r \in Requests /\ new \in Outcomes
  BY <1>1 DEF SoundWorker
<1> HIDE DEF r, new
<1>3. Tables' /\ record' = record
  BY <1>1, <1>2 DEF Tables
<1>4. \A p \in Probes : SoundRun(p)'
  BY <1>1, SameRuns
<1> QED
  BY <1>1, <1>3, <1>4, SoundFinish

LEMMA ScheduleSound == ASSUME Sound, NEW w \in Workers, Schedule(w) PROVE Sound'
<1> DEFINE r == workers[w].request
           p == workers[w].probe
           x == [workers[w] EXCEPT !.pc = "probing"]
<1>1. /\ workers[w].pc = "schedule" /\ UNCHANGED <<record, labels, observed, sent, replaced, abandoned, faults>>
      /\ runs' = [runs EXCEPT ![p] = "running"] /\ probed' = [probed EXCEPT ![r] = @ + 1]
      /\ workers[w] \in WorkerState /\ SoundWorker(workers[w], observed, sent)
      /\ record \in RecordRow /\ SoundRow(record, observed) /\ Tables
  BY Moving DEF Schedule, At
<1>2. r \in Requests /\ p \in Probes /\ observed[p] = "none" /\ sent.probe # p /\ workers[w].pc \in OutsideNow
  BY <1>1 DEF SoundWorker, OutsideNow
<1>3. x \in WorkerState /\ x.pc = "probing" /\ x.request = r /\ x.probe = p /\ x.copy = workers[w].copy
  BY <1>1 DEF WorkerState, WorkerPc
<1>4. Become(w, x)
  BY DEF Schedule, Goto
<1> HIDE DEF x
<1>5. SoundWorker(x, observed, sent)
  BY <1>1, <1>2, <1>3 DEF SoundWorker, OutsideNow
<1>6. runs' \in [Probes -> Runs] /\ \A q \in Probes : SoundRun(q)'
  <2>1. runs \in [Probes -> Runs] /\ "running" \in Runs /\ "running" \notin Verdicts
    BY <1>1, OutcomeNames DEF Tables, Runs
  <2> QED
    BY <1>1, <1>2, <2>1 DEF Sound, SoundRun
<1>7. Tables' /\ record' = record
  <2>1. probed' \in [Requests -> Nat]
    BY <1>1, <1>2 DEF Tables
  <2> QED
    BY <1>1, <1>6, <2>1 DEF Tables
<1> QED
  BY <1>1, <1>2, <1>3, <1>4, <1>5, <1>6, <1>7, SoundMoves

-----------------------------------------------------------------------------
(* Sound is kept: steps that write the record.                             *)

\* The record changes, the runs do not.
LEMMA SoundWrites ==
  ASSUME Sound, NEW w \in Workers, NEW x \in WorkerState, Become(w, x),
         UNCHANGED <<runs, labels, observed, probed, sent, abandoned, faults>>, replaced' \in BOOLEAN,
         SoundWorker(x, observed, sent), record' \in RecordRow, SoundRow(record', observed),
         x.pc \in OutsideNow => \A v \in Workers : workers[v].probe # x.probe
  PROVE  Sound'
<1>1. Tables'
  BY Moving DEF Tables
<1>2. \A p \in Probes : SoundRun(p)'
  BY SameRuns
<1> QED
  BY <1>1, <1>2, SoundMoves

LEMMA StartSound == ASSUME Sound, Start PROVE Sound'
<1>1. NoAttempt \in Attempt /\ record \in RecordRow
  BY DEF Sound, TypeOK, NoAttempt, Attempt
<1>2. /\ record' \in RecordRow /\ record'.state = "InProgress"
      /\ \A r \in Requests : record'.attempts[r] = NoAttempt
  BY <1>1 DEF Start, AbsentRecord, RecordRow
<1>3. SoundRow(record', observed)
  BY <1>2, SoundWithoutAttempts
<1>4. UNCHANGED <<runs, labels, workers, observed, probed, sent, replaced, abandoned, faults>>
  BY DEF Start
<1>5. TypeOK'
  BY <1>2, <1>4 DEF Sound, TypeOK
<1>6. /\ \A w \in Workers : SoundWorker(workers'[w], observed', sent')
      /\ \A p \in Probes : SoundRun(p)'
      /\ SoundSent' /\ Apart'
  BY <1>4 DEF Sound, SoundRun, SoundSent, Apart
<1> QED
  BY <1>3, <1>4, <1>5, <1>6 DEF Sound

LEMMA SyncWriteSound == ASSUME Sound, NEW w \in Workers, SyncWrite(w) PROVE Sound'
<1> DEFINE x == [Idle EXCEPT !.pc = "synced"]
<1>1. /\ workers[w].pc = "sync" /\ UNCHANGED <<runs, labels, observed, probed, sent, abandoned, faults>>
      /\ record' = record \/ record' = Delivered(sent)
      /\ replaced' \in BOOLEAN
      /\ SoundWorker(workers[w], observed, sent) /\ record \in RecordRow /\ SoundRow(record, observed)
  BY Moving DEF SyncWrite, At, Tables
<1>2. x \in WorkerState /\ x.pc = "synced" /\ x.copy = Idle.copy
  BY IdleType DEF WorkerState, WorkerPc, Idle
<1>3. Become(w, x)
  BY DEF SyncWrite
<1> HIDE DEF x
<1>4. sent # NotSent
  BY <1>1 DEF SoundWorker
<1>5. SoundWorker(x, observed, sent) /\ x.pc \notin OutsideNow
  BY <1>2, <1>4, IdleSound DEF SoundWorker, OutsideNow
<1>6. /\ sent \in Delivery /\ sent.request \in Requests /\ sent.probe \in Probes
      /\ observed[sent.probe] = sent.verdict
  BY <1>4 DEF Sound, SoundSent, TypeOK
<1>7. Delivered(sent) \in RecordRow /\ SoundRow(Delivered(sent), observed)
  BY <1>6, DeliveredRow, SoundWhenDelivered
<1> QED
  BY <1>1, <1>2, <1>3, <1>5, <1>7, SoundWrites

\* A worker that is done wrote a sound record, or none.
LEMMA SoundLastWrite ==
  ASSUME Sound, NEW w \in Workers, Finish(w), UNCHANGED <<runs, labels, observed, probed, sent, replaced, abandoned, faults>>,
         record' = record \/ (record' \in RecordRow /\ SoundRow(record', observed))
  PROVE  Sound'
<1>1. Become(w, Idle) /\ Idle \in WorkerState /\ Idle.pc \notin OutsideNow
  BY IdleType DEF Finish, Idle, OutsideNow
<1>2. record' \in RecordRow /\ SoundRow(record', observed) /\ replaced' \in BOOLEAN
  BY DEF Sound, TypeOK
<1> QED
  BY <1>1, <1>2, IdleSound, SoundWrites

LEMMA MarkWriteSound == ASSUME Sound, NEW w \in Workers, MarkWrite(w) PROVE Sound'
<1>1. /\ workers[w].copy \in RecordRow /\ SoundRow(workers[w].copy, observed)
      /\ workers[w].copy.state # "Verifying"
  BY Moving DEF MarkWrite, At, SoundWorker, WorkerState
<1>2. Applied(workers[w].copy) \in RecordRow /\ SoundRow(Applied(workers[w].copy), observed)
  BY <1>1, AppliedRow, SoundWhenApplied DEF Written
<1>3. record' = record \/ record' = Applied(workers[w].copy)
  BY DEF MarkWrite, Applied
<1> QED
  BY <1>2, <1>3, SoundLastWrite DEF MarkWrite

\* The undo of a refused schedule, and recovery of a missing run.
LEMMA SoundGivesUp ==
  ASSUME Sound, NEW w \in Workers, workers[w].pc \in {"undo", "missing"},
         record' = IF Current(w)
                   THEN Closed(workers[w].copy, workers[w].copy.last, "Inconclusive")
                   ELSE record,
         Finish(w), UNCHANGED <<runs, labels, observed, probed, sent, replaced, abandoned, faults>>
  PROVE  Sound'
<1> DEFINE row == workers[w].copy
<1>1. row \in RecordRow /\ SoundRow(row, observed) /\ row.state = "Verifying"
  BY Moving DEF SoundWorker, WorkerState
<1>2. row.last \in Requests /\ "Inconclusive" \in Outcomes /\ "Inconclusive" \notin Verdicts
  BY <1>1, OutcomeNames DEF SoundRow
<1>3. Closed(row, row.last, "Inconclusive") \in RecordRow
  BY <1>1, <1>2, ClosedRow DEF Written
<1>4. SoundRow(Closed(row, row.last, "Inconclusive"), observed)
  BY <1>1, <1>2, SoundWhenClosed
<1> QED
  BY <1>3, <1>4, SoundLastWrite

LEMMA ScheduleUndoSound == ASSUME Sound, NEW w \in Workers, ScheduleUndo(w) PROVE Sound'
BY SoundGivesUp DEF ScheduleUndo, At

LEMMA MissingWriteSound == ASSUME Sound, NEW w \in Workers, MissingWrite(w) PROVE Sound'
BY SoundGivesUp DEF MissingWrite, At

\* A run that nobody uses.
LEMMA Unused ==
  ASSUME Sound, NEW p \in UnusedProbes
  PROVE  /\ p \in Probes /\ sent.probe # p /\ observed[p] = "none" /\ ~Holds(record, p)
         /\ \A v \in Workers : workers[v].probe # p /\ ~Holds(workers[v].copy, p)
BY DEF UnusedProbes, Sound, SoundRun

LEMMA RequestWriteSound == ASSUME Sound, NEW w \in Workers, RequestWrite(w) PROVE Sound'
<1> DEFINE r == workers[w].request
           copy == workers[w].copy
<1>1. /\ workers[w].pc = "request"
      /\ UNCHANGED <<runs, labels, observed, probed, sent, replaced, abandoned, faults>>
      /\ workers[w] \in WorkerState /\ SoundWorker(workers[w], observed, sent) /\ Tables
  BY Moving DEF RequestWrite, At
<1>2. ASSUME NEW p \in UnusedProbes, record' = Requested(copy, r, p),
             Become(w, [workers[w] EXCEPT !.pc = "schedule", !.copy = record', !.probe = p])
      PROVE  Sound'
  <2> DEFINE x == [workers[w] EXCEPT !.pc = "schedule", !.copy = record', !.probe = p]
  <2>1. /\ r \in Requests /\ copy.state # "Verifying" /\ copy \in RecordRow /\ SoundRow(copy, observed)
    BY <1>1 DEF SoundWorker, WorkerState
  <2>2. /\ p \in Probes /\ sent.probe # p /\ observed[p] = "none"
        /\ \A v \in Workers : workers[v].probe # p
        /\ ~Holds(copy, p)
    BY Unused
  <2>3. record' \in RecordRow /\ record'.state = "Verifying"
    BY <1>2, <2>1, <2>2, RequestedRow DEF Written
  <2>4. SoundRow(record', observed)
    BY <1>2, <2>1, <2>2, SoundWhenRequested
  <2>5. x \in WorkerState /\ x.pc = "schedule" /\ x.copy = record' /\ x.request = r /\ x.probe = p
    BY <1>1, <2>2, <2>3 DEF WorkerState, WorkerPc
  <2>6. Become(w, x)
    BY <1>2
  <2> HIDE DEF x
  <2>7. SoundWorker(x, observed, sent)
    BY <2>1, <2>2, <2>3, <2>4, <2>5 DEF SoundWorker, OutsideNow
  <2>8. replaced' \in BOOLEAN
    BY <1>1 DEF Tables
  <2> QED
    BY <1>1, <2>2, <2>3, <2>4, <2>5, <2>6, <2>7, <2>8, SoundWrites
<1>3. CASE Finish(w) /\ UNCHANGED record
  BY <1>1, <1>3, SoundLastWrite
<1> QED
  BY <1>2, <1>3 DEF RequestWrite

LEMMA OutcomeWriteSound == ASSUME Sound, NEW w \in Workers, OutcomeWrite(w) PROVE Sound'
<1> DEFINE r == workers[w].request
           copy == workers[w].copy
           verdict == workers[w].verdict
           row == Closed(copy, r, verdict)
<1>1. /\ workers[w].pc = "outcome"
      /\ UNCHANGED <<runs, labels, observed, probed, sent, replaced, abandoned, faults>>
      /\ workers[w] \in WorkerState /\ SoundWorker(workers[w], observed, sent) /\ Tables
  BY Moving DEF OutcomeWrite, At
<1>2. /\ r \in Requests /\ verdict \in Outcomes /\ workers[w].probe \in Probes
      /\ copy \in RecordRow /\ SoundRow(copy, observed)
      /\ copy.attempts[r].outcome = "open" /\ copy.attempts[r].probe = workers[w].probe
      /\ verdict \in Verdicts => observed[workers[w].probe] = verdict
  BY <1>1 DEF WorkerState, SoundWorker
<1>3. CASE record' = row /\ Become(w, [workers[w] EXCEPT !.pc = "label", !.copy = row])
  <2> DEFINE x == [workers[w] EXCEPT !.pc = "label", !.copy = row]
  <2>1. copy.state = "Verifying" /\ copy.last = r
    BY <1>2 DEF SoundRow
  <2>2. SoundRow(row, observed)
    BY <1>2, <2>1, SoundWhenClosed
  <2>3. Written(copy, row, verdict, copy.last, [copy.attempts EXCEPT ![r] = Ended(copy.attempts[r], verdict)])
    BY <1>2, ClosedRow
  <2> HIDE DEF row
  <2>4. row \in RecordRow /\ row.attempts[r].outcome = verdict
    BY <1>2, <2>3 DEF Written, RecordRow, Attempt, Ended
  <2>5. x \in WorkerState /\ x.pc = "label" /\ x.copy = row /\ x.request = r
    BY <1>1, <2>4 DEF WorkerState, WorkerPc
  <2>6. Become(w, x)
    BY <1>3
  <2> HIDE DEF x
  <2>7. SoundWorker(x, observed, sent) /\ x.pc \notin OutsideNow
    BY <1>2, <2>2, <2>4, <2>5 DEF SoundWorker, OutsideNow
  <2>8. replaced' \in BOOLEAN
    BY <1>1 DEF Tables
  <2> QED
    BY <1>1, <1>3, <2>2, <2>4, <2>5, <2>6, <2>7, <2>8, SoundWrites
<1>4. CASE /\ workers[w].tries < 2
           /\ Become(w, [workers[w] EXCEPT !.pc = "complete", !.tries = @ + 1])
           /\ UNCHANGED record
  <2> DEFINE x == [workers[w] EXCEPT !.pc = "complete", !.tries = @ + 1]
  <2>1. workers[w].tries + 1 \in 0 .. 2
    BY <1>1, <1>4 DEF WorkerState
  <2>2. /\ x \in WorkerState /\ x.pc = "complete" /\ x.probe = workers[w].probe /\ x.verdict = verdict
        /\ x.copy = copy
    BY <1>1, <2>1 DEF WorkerState, WorkerPc
  <2>3. Become(w, x)
    BY <1>4
  <2> HIDE DEF x
  <2>4. SoundWorker(x, observed, sent) /\ x.pc \notin OutsideNow
    BY <1>2, <2>2 DEF SoundWorker, OutsideNow
  <2> QED
    BY <1>1, <1>4, <2>2, <2>3, <2>4, SoundGoesOn
<1>5. CASE Finish(w) /\ UNCHANGED record
  BY <1>1, <1>5, SoundLastWrite
<1> QED
  BY <1>3, <1>4, <1>5 DEF OutcomeWrite

-----------------------------------------------------------------------------
(* Sound is kept: steps that observe something.                            *)

\* One probe that had seen nothing sees something: rows keep what was seen.
LEMMA MoreSeen ==
  ASSUME TypeOK, NEW p \in Probes, observed[p] = "none", NEW verdict, observed' = [observed EXCEPT ![p] = verdict]
  PROVE  \A q : observed[q] \in Verdicts => observed'[q] = observed[q]
<1> SUFFICES ASSUME NEW q, observed[q] \in Verdicts PROVE observed'[q] = observed[q]
  OBVIOUS
<1>1. q # p /\ observed \in [Probes -> Outcomes \cup {"none"}]
  BY OutcomeNames DEF TypeOK
<1> QED
  BY <1>1

\* A worker that does not use that run stays sound.
LEMMA SoundBystander ==
  ASSUME NEW W \in WorkerState, SoundWorker(W, observed, sent), NEW p,
         \A q : observed[q] \in Verdicts => observed'[q] = observed[q],
         \A q \in Probes \ {p} : observed'[q] = observed[q],
         W.pc \in OutsideNow => W.probe # p /\ sent'.probe # W.probe,
         W.pc \in {"sync", "synced"} => sent' # NotSent
  PROVE  SoundWorker(W, observed', sent')
<1>1. SoundRow(W.copy, observed')
  BY SoundWhenMoreIsSeen DEF SoundWorker
<1> QED
  BY <1>1 DEF SoundWorker

LEMMA SyncReadSound ==
  ASSUME Sound, NEW w \in Workers, NEW r \in Requests, NEW p \in Probes, NEW verdict \in Outcomes,
         SyncRead(w, r, p, verdict)
  PROVE  Sound'
<1> DEFINE x == [Idle EXCEPT !.pc = "sync", !.copy = record]
           d == [request |-> r, probe |-> p, verdict |-> verdict]
<1>1. /\ UNCHANGED <<record, runs, labels, probed, replaced, abandoned, faults>>
      /\ observed' = [observed EXCEPT ![p] = verdict] /\ sent = NotSent
      /\ TypeOK /\ record \in RecordRow /\ SoundRow(record, observed)
  BY Moving DEF SyncRead, Sound
<1>2. /\ observed[p] = "none" /\ \A v \in Workers : workers[v].probe # p
  BY Unused DEF SyncRead
<1>3. x \in WorkerState /\ x.pc = "sync" /\ x.copy = record
  BY <1>1, IdleType DEF WorkerState, WorkerPc, Idle
<1>4. Become(w, x)
  BY DEF SyncRead
<1> HIDE DEF x
<1>5. /\ workers' \in [Workers -> WorkerState] /\ workers'[w] = x
      /\ \A v \in Workers \ {w} : workers'[v] = workers[v]
  BY <1>1, <1>3, <1>4, Moved
<1>6. /\ sent' = d /\ d \in Delivery /\ d.request = r /\ d.probe = p /\ d.verdict = verdict /\ d # NotSent
  BY OutcomeNames DEF SyncRead, Delivery, NotSent
<1> HIDE DEF d
<1>7. /\ observed' \in [Probes -> Outcomes \cup {"none"}] /\ observed'[p] = verdict
      /\ \A q \in Probes \ {p} : observed'[q] = observed[q]
  BY <1>1 DEF TypeOK
<1>8. \A q : observed[q] \in Verdicts => observed'[q] = observed[q]
  BY <1>1, <1>2, MoreSeen
<1>9. TypeOK'
  BY <1>1, <1>5, <1>6, <1>7 DEF TypeOK
<1>10. SoundRow(record', observed')
  BY <1>1, <1>8, SoundWhenMoreIsSeen
<1>11. ASSUME NEW v \in Workers PROVE SoundWorker(workers'[v], observed', sent')
  <2>1. CASE v = w
    BY <1>1, <1>3, <1>5, <1>6, <1>10, <2>1 DEF SoundWorker, OutsideNow
  <2>2. CASE v # w
    <3>1. /\ workers'[v] = workers[v] /\ workers[v] \in WorkerState /\ SoundWorker(workers[v], observed, sent)
          /\ workers[v].pc \in OutsideNow => workers[v].probe # p /\ sent'.probe # workers[v].probe
          /\ workers[v].pc \in {"sync", "synced"} => sent' # NotSent
      BY <1>2, <1>5, <1>6, <2>2 DEF Sound, TypeOK
    <3>2. SoundWorker(workers[v], observed', sent')
      BY <1>7, <1>8, <3>1, SoundBystander
    <3> QED
      BY <3>1, <3>2
  <2> QED
    BY <2>1, <2>2
<1>12. \A q \in Probes : SoundRun(q)'
  <2>1. \A q \in Probes : SoundRun(q) /\ sent.probe # q
    BY <1>1, OutcomeNames DEF Sound, NotSent
  <2> QED
    BY <1>1, <1>2, <1>6, <1>7, <1>8, <2>1 DEF SoundRun
<1>13. SoundSent' /\ Apart'
  BY <1>3, <1>5, <1>6, <1>7 DEF SoundSent, Apart, Sound, OutsideNow
<1> QED
  BY <1>9, <1>10, <1>11, <1>12, <1>13 DEF Sound

LEMMA ProbeFinishesSound ==
  ASSUME Sound, NEW w \in Workers, NEW verdict \in Outcomes, ProbeFinishes(w, verdict)
  PROVE  Sound'
<1> DEFINE p == workers[w].probe
           x == [workers[w] EXCEPT !.pc = "apply", !.verdict = verdict]
<1>1. /\ workers[w].pc = "probing" /\ UNCHANGED <<record, labels, probed, sent, replaced, abandoned, faults>>
      /\ runs' = [runs EXCEPT ![p] = verdict] /\ observed' = [observed EXCEPT ![p] = verdict]
      /\ TypeOK /\ record \in RecordRow /\ SoundRow(record, observed)
      /\ workers[w] \in WorkerState /\ SoundWorker(workers[w], observed, sent)
  BY Moving DEF ProbeFinishes, At, Sound
<1>2. p \in Probes /\ observed[p] = "none" /\ sent.probe # p
  BY <1>1 DEF SoundWorker, OutsideNow
<1>3. x \in WorkerState /\ x.pc = "apply" /\ x.copy = workers[w].copy /\ x.probe = p /\ x.verdict = verdict
  BY <1>1 DEF WorkerState, WorkerPc
<1>4. Become(w, x)
  BY DEF ProbeFinishes
<1> HIDE DEF x
<1>5. /\ workers' \in [Workers -> WorkerState] /\ workers'[w] = x
      /\ \A v \in Workers \ {w} : workers'[v] = workers[v]
  BY <1>1, <1>3, <1>4, Moved
<1>6. \A v \in Workers \ {w} : workers[v].pc \in OutsideNow => workers[v].probe # p
  BY <1>1 DEF Sound, Apart, OutsideNow
<1>7. /\ observed' \in [Probes -> Outcomes \cup {"none"}] /\ observed'[p] = verdict
      /\ \A q \in Probes \ {p} : observed'[q] = observed[q]
  BY <1>1, <1>2 DEF TypeOK
<1>8. \A q : observed[q] \in Verdicts => observed'[q] = observed[q]
  BY <1>1, <1>2, MoreSeen
<1> HIDE DEF p
<1>9. /\ runs' \in [Probes -> Runs] /\ runs'[p] = verdict
      /\ \A q \in Probes \ {p} : runs'[q] = runs[q]
  BY <1>1, <1>2 DEF TypeOK, Runs
<1>10. TypeOK'
  BY <1>1, <1>5, <1>7, <1>9 DEF TypeOK
<1>11. SoundRow(record', observed') /\ SoundRow(x.copy, observed')
  <2>1. SoundRow(workers[w].copy, observed)
    BY <1>1 DEF SoundWorker
  <2>4. SoundRow(record, observed)
    BY <1>1
  <2>2. SoundRow(record, observed')
    BY <1>8, <2>4, SoundWhenMoreIsSeen
  <2>3. SoundRow(workers[w].copy, observed')
    BY <1>8, <2>1, SoundWhenMoreIsSeen
  <2> QED
    BY <1>1, <1>3, <2>2, <2>3
<1>12. ASSUME NEW v \in Workers PROVE SoundWorker(workers'[v], observed', sent')
  <2>1. CASE v = w
    BY <1>2, <1>3, <1>5, <1>7, <1>11, <2>1 DEF SoundWorker, OutsideNow
  <2>2. CASE v # w
    <3>1. /\ workers'[v] = workers[v] /\ workers[v] \in WorkerState /\ SoundWorker(workers[v], observed, sent)
          /\ workers[v].pc \in OutsideNow => workers[v].probe # p /\ sent'.probe # workers[v].probe
          /\ workers[v].pc \in {"sync", "synced"} => sent' # NotSent
      BY <1>1, <1>5, <1>6, <2>2 DEF Sound, TypeOK, SoundWorker
    <3>2. SoundWorker(workers[v], observed', sent')
      BY <1>7, <1>8, <3>1, SoundBystander
    <3> QED
      BY <3>1, <3>2
  <2> QED
    BY <2>1, <2>2
<1>13. \A q \in Probes : SoundRun(q)'
  <2>1. \A q \in Probes : SoundRun(q)
    BY DEF Sound
  <2>2. verdict # "absent"
    BY OutcomeNames
  <2> QED
    BY <1>1, <1>7, <1>9, <2>1, <2>2 DEF SoundRun
<1>14. SoundSent' /\ Apart'
  BY <1>1, <1>2, <1>3, <1>5, <1>7 DEF SoundSent, Apart, Sound, OutsideNow
<1> QED
  BY <1>10, <1>11, <1>12, <1>13, <1>14 DEF Sound

-----------------------------------------------------------------------------
(* Sound always holds.                                                     *)

LEMMA SoundInit == ASSUME Init PROVE Sound
<1>1. TypeOK
  BY IdleType, OutcomeNames DEF Init, TypeOK, Runs, Delivery, NotSent
<1>2. record.state = "Absent" /\ \A r \in Requests : record.attempts[r] = NoAttempt
  BY DEF Init, AbsentRecord
<1>3. SoundRow(record, observed)
  BY <1>2, SoundWithoutAttempts
<1>4. \A w \in Workers : workers[w] = Idle /\ workers[w].pc = "idle"
  BY DEF Init, Idle
<1>5. \A w \in Workers : SoundWorker(workers[w], observed, sent)
  BY <1>4, IdleSound
<1>6. \A p \in Probes : SoundRun(p)
  BY OutcomeNames DEF Init, SoundRun
<1>7. SoundSent /\ Apart
  BY <1>4 DEF Init, SoundSent, Apart, OutsideNow
<1> QED
  BY <1>1, <1>3, <1>5, <1>6, <1>7 DEF Sound

LEMMA SoundNext == ASSUME Sound, [Next]_vars PROVE Sound'
<1>1. CASE Start
  BY <1>1, StartSound
<1>2. ASSUME NEW w \in Workers, WorkerStep(w) PROVE Sound'
  BY <1>2, SyncWriteSound, SyncRunSound, MarkWriteSound, RequestWriteSound, ScheduleSound, ScheduleRefusedSound,
     ScheduleUndoSound, ProbeFinishesSound, ApplyEvidenceSound, CompleteReadSound, OutcomeWriteSound,
     AttachLabelSound, ExpireWriteSound, MissingWriteSound DEF WorkerStep
<1>3. ASSUME NEW w \in Workers, UserStep(w) PROVE Sound'
  BY <1>3, SyncReadSound, SyncAgainSound, MarkReadSound, RequestReadSound DEF UserStep
<1>4. ASSUME NEW w \in Workers, RecoveryStep(w) PROVE Sound'
  BY <1>4, ExpireReadSound, RecoverFinishedSound, MissingReadSound DEF RecoveryStep
<1>5. ASSUME NEW w \in Workers, Die(w) PROVE Sound'
  BY <1>5, DieSound
<1>6. CASE UNCHANGED vars
  BY <1>6 DEF vars, Sound, TypeOK, SoundRun, SoundSent, Apart
<1> QED
  BY <1>1, <1>2, <1>3, <1>4, <1>5, <1>6 DEF Next

LEMMA SoundAlways == Spec => []Sound
<1>1. Init => Sound
  BY SoundInit
<1>2. Sound /\ [Next]_vars => Sound'
  BY SoundNext
<1> QED
  BY <1>1, <1>2, PTL DEF Spec

(* The record, the runs, the labels and the workers keep their shape.      *)
THEOREM TypeCorrect == Spec => []TypeOK
<1>1. Sound => TypeOK
  BY DEF Sound
<1> QED
  BY <1>1, SoundAlways, PTL

(* A fix is shown as being verified exactly while its newest attempt is    *)
(* open, and no older attempt is left open behind it, whichever handlers,  *)
(* probes, recoveries and deliveries run at once (remediation.rs).         *)
THEOREM OpenWhileVerifying == Spec => []VerifyingHasOpenAttempt
<1>1. Sound => VerifyingHasOpenAttempt
  BY DEF Sound, SoundRow, VerifyingHasOpenAttempt
<1> QED
  BY <1>1, SoundAlways, PTL

(* A fix is declared verified or still broken only as the probe of that    *)
(* attempt saw it; recovery, the undo, dying workers and a record that is  *)
(* sent again, over whatever it replaces, do not change that.              *)
THEOREM VerdictsObserved == Spec => []VerdictWasObserved
<1>1. Sound => VerdictWasObserved
  BY DEF Sound, SoundRow, VerdictWasObserved, Verdicts
<1> QED
  BY <1>1, SoundAlways, PTL

-----------------------------------------------------------------------------
(* Every verification is attended.                                         *)

AtWork == {"schedule", "undo", "probing", "apply", "complete", "outcome"}

\* W has the run of the verification that the row shows.
Holding(row, W) == row.state = "Verifying" /\ W.probe = row.attempts[row.last].probe

Attended ==
  /\ record.state = "Verifying" =>
       \/ record.attempts[record.last].probe \in abandoned
       \/ \E w \in Workers : Holding(record, workers[w]) /\ workers[w].pc \in AtWork
  /\ \A w \in Workers :
       Holding(record, workers[w]) /\ workers[w].pc \in {"schedule", "undo", "outcome"} => workers[w].copy = record

\* Nothing is being verified.
LEMMA NoneToAttend == ASSUME record'.state # "Verifying" PROVE Attended'
BY DEF Attended, Holding

\* A worker moves, and does not drop the run it holds.
LEMMA AttendedMoves ==
  ASSUME Sound, Attended, NEW w \in Workers, NEW x \in WorkerState, Become(w, x),
         record' = record, abandoned \subseteq abandoned',
         Holding(record, x) /\ x.pc \in {"schedule", "undo", "outcome"} => x.copy = record,
         Holding(record, workers[w]) /\ workers[w].pc \in AtWork =>
           \/ workers[w].probe \in abandoned'
           \/ x.pc \in AtWork /\ x.probe = workers[w].probe
  PROVE  Attended'
<1>1. /\ workers'[w] = x /\ \A v \in Workers \ {w} : workers'[v] = workers[v]
  BY Moved DEF Sound
<1>2. ASSUME NEW v \in Workers, Holding(record', workers'[v]), workers'[v].pc \in {"schedule", "undo", "outcome"}
      PROVE  workers'[v].copy = record'
  <2>1. CASE v = w
    BY <1>1, <1>2, <2>1 DEF Holding
  <2>2. CASE v # w
    BY <1>1, <1>2, <2>2 DEF Holding, Attended
  <2> QED
    BY <2>1, <2>2
<1>3. ASSUME record.state = "Verifying"
      PROVE  \/ record.attempts[record.last].probe \in abandoned'
             \/ \E v \in Workers : Holding(record', workers'[v]) /\ workers'[v].pc \in AtWork
  <2>1. CASE record.attempts[record.last].probe \in abandoned
    BY <2>1
  <2>2. ASSUME NEW v \in Workers, Holding(record, workers[v]), workers[v].pc \in AtWork
        PROVE  \/ record.attempts[record.last].probe \in abandoned'
               \/ \E u \in Workers : Holding(record', workers'[u]) /\ workers'[u].pc \in AtWork
    <3>1. CASE v # w
      BY <1>1, <2>2, <3>1 DEF Holding
    <3>2. CASE v = w
      BY <1>1, <1>3, <2>2, <3>2 DEF Holding
    <3> QED
      BY <3>1, <3>2
  <2> QED
    BY <1>3, <2>1, <2>2 DEF Attended
<1> QED
  BY <1>2, <1>3 DEF Attended, Holding

\* A worker that does not hold the run may do anything but take it up.
LEMMA AttendedElsewhere ==
  ASSUME Sound, Attended, NEW w \in Workers, NEW x \in WorkerState, Become(w, x),
         record' = record, abandoned' = abandoned,
         x.pc \notin {"schedule", "undo", "outcome"},
         workers[w].pc \notin AtWork \/ ~Holding(record, workers[w])
  PROVE  Attended'
BY AttendedMoves

LEMMA UserAttends ==
  ASSUME Sound, Attended, NEW w \in Workers, UserStep(w) \/ RecoveryStep(w)
  PROVE  Attended'
<1>1. record' = record /\ abandoned' = abandoned /\ workers[w].pc \notin AtWork
  BY DEF UserStep, RecoveryStep, SyncRead, SyncAgain, MarkRead, RequestRead, ExpireRead, RecoverFinished, MissingRead, At, AtWork
<1>2. record \in RecordRow
  BY DEF Sound, TypeOK
<1>3. ASSUME NEW x \in WorkerState, Become(w, x), x.pc \in {"sync", "mark", "request", "expire", "complete", "missing"}
      PROVE  Attended'
  BY <1>1, <1>3, AttendedElsewhere
<1>4. ASSUME NEW pc \in {"sync", "mark", "missing"}, Become(w, [Idle EXCEPT !.pc = pc, !.copy = record])
      PROVE  Attended'
  <2> DEFINE x == [Idle EXCEPT !.pc = pc, !.copy = record]
  <2>1. x \in WorkerState /\ x.pc = pc
    BY <1>2, IdleType DEF WorkerState, WorkerPc, Idle
  <2>2. Become(w, x)
    BY <1>4
  <2> HIDE DEF x
  <2> QED
    BY <1>3, <2>1, <2>2
<1>5. CASE SyncAgain(w) \/ MarkRead(w) \/ MissingRead(w) \/ \E r \in Requests, p \in Probes, verdict \in Outcomes : SyncRead(w, r, p, verdict)
  BY <1>4, <1>5 DEF SyncAgain, MarkRead, MissingRead, SyncRead
<1>6. ASSUME NEW r \in Requests, RequestRead(w, r) PROVE Attended'
  <2> DEFINE x == [Idle EXCEPT !.pc = "request", !.copy = record, !.request = r]
  <2>1. x \in WorkerState /\ x.pc = "request"
    BY <1>2, IdleType DEF WorkerState, WorkerPc, Idle
  <2>2. Become(w, x)
    BY <1>6 DEF RequestRead
  <2> HIDE DEF x
  <2> QED
    BY <1>3, <2>1, <2>2
<1>7. ASSUME NEW p \in Probes, ExpireRead(w, p) PROVE Attended'
  <2> DEFINE x == [Idle EXCEPT !.pc = "expire", !.probe = p]
  <2>1. x \in WorkerState /\ x.pc = "expire"
    BY IdleType DEF WorkerState, WorkerPc, Idle
  <2>2. Become(w, x)
    BY <1>7 DEF ExpireRead
  <2> HIDE DEF x
  <2> QED
    BY <1>3, <2>1, <2>2
<1>8. ASSUME NEW p \in Probes, RecoverFinished(w, p) PROVE Attended'
  <2> DEFINE x == [Idle EXCEPT !.pc = "complete", !.probe = p, !.verdict = runs[p]]
  <2>1. x \in WorkerState /\ x.pc = "complete"
    BY <1>8, IdleType DEF WorkerState, WorkerPc, Idle, RecoverFinished
  <2>2. Become(w, x)
    BY <1>8 DEF RecoverFinished
  <2> HIDE DEF x
  <2> QED
    BY <1>3, <2>1, <2>2
<1> QED
  BY <1>5, <1>6, <1>7, <1>8 DEF UserStep, RecoveryStep

LEMMA DieAttends == ASSUME Sound, Attended, NEW w \in Workers, Die(w) PROVE Attended'
<1>1. Become(w, Idle) /\ Idle \in WorkerState /\ Idle.pc = "idle" /\ record' = record /\ abandoned \subseteq abandoned'
  BY IdleType DEF Die, Finish, Idle
<1>2. Holding(record, workers[w]) => workers[w].probe \in abandoned'
  <2>1. SoundRow(record, observed) /\ record \in RecordRow
    BY DEF Sound, TypeOK
  <2>2. record.state = "Verifying" => record.attempts[record.last].probe # NoProbe
    BY <2>1 DEF SoundRow
  <2> QED
    BY <2>2 DEF Die, Holding
<1> QED
  BY <1>1, <1>2, AttendedMoves

\* A finished worker did not hold the run.
LEMMA FinishAttends ==
  ASSUME Sound, Attended, NEW w \in Workers, Finish(w), record' = record, abandoned' = abandoned,
         workers[w].pc \notin AtWork \/ ~Holding(record, workers[w])
  PROVE  Attended'
<1>1. Become(w, Idle) /\ Idle \in WorkerState /\ Idle.pc = "idle"
  BY IdleType DEF Finish, Idle
<1> QED
  BY <1>1, AttendedElsewhere

\* An update that fails shows that the record is not the one the worker opened.
LEMMA StaleHoldsNothing ==
  ASSUME Attended, NEW w \in Workers, ~Current(w), workers[w].pc \in {"schedule", "undo", "outcome"}
  PROVE  ~Holding(record, workers[w])
BY DEF Attended, Current

LEMMA RequestWriteAttends == ASSUME Sound, Attended, NEW w \in Workers, RequestWrite(w) PROVE Attended'
<1> DEFINE r == workers[w].request
           copy == workers[w].copy
<1>1. /\ workers[w].pc = "request" /\ abandoned' = abandoned
      /\ workers[w] \in WorkerState /\ SoundWorker(workers[w], observed, sent)
  BY Moving DEF RequestWrite, At
<1>2. ASSUME NEW p \in UnusedProbes, record' = Requested(copy, r, p),
             Become(w, [workers[w] EXCEPT !.pc = "schedule", !.copy = record', !.probe = p])
      PROVE  Attended'
  <2> DEFINE x == [workers[w] EXCEPT !.pc = "schedule", !.copy = record', !.probe = p]
  <2>1. r \in Requests /\ copy \in RecordRow /\ p \in Probes /\ \A v \in Workers : workers[v].probe # p
    BY <1>1, Unused DEF SoundWorker, WorkerState
  <2>2. Written(copy, record', "Verifying", r, [copy.attempts EXCEPT ![r] = Opened(p)])
    BY <1>2, <2>1, RequestedRow
  <2>3. /\ record' \in RecordRow /\ record'.state = "Verifying" /\ record'.last = r
        /\ record'.attempts[r].probe = p
    BY <2>1, <2>2 DEF Written, RecordRow, Opened
  <2>4. x \in WorkerState /\ x.pc = "schedule" /\ x.copy = record' /\ x.probe = p
    BY <1>1, <2>1, <2>3 DEF WorkerState, WorkerPc
  <2>5. Become(w, x)
    BY <1>2
  <2> HIDE DEF x
  <2>6. workers'[w] = x /\ \A v \in Workers \ {w} : workers'[v].probe # p
    BY <2>1, <2>4, <2>5, Moved DEF Sound
  <2> QED
    BY <2>3, <2>4, <2>6 DEF Attended, Holding, AtWork
<1>3. CASE Finish(w) /\ UNCHANGED record
  BY <1>1, <1>3, FinishAttends DEF AtWork
<1> QED
  BY <1>2, <1>3 DEF RequestWrite

LEMMA ScheduleAttends ==
  ASSUME Sound, Attended, NEW w \in Workers, Schedule(w) \/ ScheduleRefused(w)
  PROVE  Attended'
<1>1. PICK pc \in {"probing", "undo"} : Goto(w, pc)
  BY DEF Schedule, ScheduleRefused
<1> DEFINE x == [workers[w] EXCEPT !.pc = pc]
<1>2. /\ workers[w].pc = "schedule" /\ record' = record /\ abandoned' = abandoned
      /\ workers[w] \in WorkerState
  BY Moving DEF Schedule, ScheduleRefused, At
<1>3. x \in WorkerState /\ x.pc = pc /\ x.probe = workers[w].probe /\ x.copy = workers[w].copy
  BY <1>2 DEF WorkerState, WorkerPc
<1>4. Become(w, x)
  BY <1>1 DEF Goto
<1> HIDE DEF x
<1>5. Holding(record, x) => x.copy = record
  BY <1>2, <1>3 DEF Holding, Attended
<1> QED
  BY <1>2, <1>3, <1>4, <1>5, AttendedMoves DEF AtWork

LEMMA CloseAttends ==
  ASSUME Sound, Attended, NEW w \in Workers, workers[w].pc \in {"undo", "missing"},
         record' = IF Current(w)
                   THEN Closed(workers[w].copy, workers[w].copy.last, "Inconclusive")
                   ELSE record,
         Finish(w), abandoned' = abandoned
  PROVE  Attended'
<1>1. CASE Current(w)
  <2> DEFINE row == workers[w].copy
  <2>1. row \in RecordRow /\ row.last \in Requests /\ "Inconclusive" \in Outcomes
    BY Moving, OutcomeNames DEF SoundWorker, WorkerState, SoundRow
  <2>2. record'.state = "Inconclusive"
    BY <1>1, <2>1, ClosedRow DEF Written
  <2> QED
    BY <2>2, NoneToAttend
<1>2. CASE ~Current(w)
  BY <1>2, StaleHoldsNothing, FinishAttends DEF AtWork
<1> QED
  BY <1>1, <1>2

LEMMA ProbingAttends ==
  ASSUME Sound, Attended, NEW w \in Workers,
         ApplyEvidence(w) \/ \E verdict \in Outcomes : ProbeFinishes(w, verdict)
  PROVE  Attended'
<1>1. /\ workers[w].pc \in {"apply", "probing"} /\ record' = record /\ abandoned' = abandoned
      /\ workers[w] \in WorkerState
  BY Moving DEF ApplyEvidence, ProbeFinishes, At
<1>2. PICK pc \in {"apply", "complete"}, verdict \in Outcomes :
        Become(w, [workers[w] EXCEPT !.pc = pc, !.verdict = verdict])
  <2>1. [workers[w] EXCEPT !.pc = "complete"] = [workers[w] EXCEPT !.pc = "complete", !.verdict = workers[w].verdict]
    BY <1>1 DEF WorkerState
  <2>2. workers[w].verdict \in Outcomes
    BY <1>1 DEF WorkerState
  <2> QED
    BY <2>1, <2>2 DEF ApplyEvidence, Goto, ProbeFinishes
<1> DEFINE x == [workers[w] EXCEPT !.pc = pc, !.verdict = verdict]
<1>3. x \in WorkerState /\ x.pc = pc /\ x.probe = workers[w].probe
  BY <1>1 DEF WorkerState, WorkerPc
<1>4. Become(w, x)
  BY <1>2
<1> HIDE DEF x
<1> QED
  BY <1>1, <1>3, <1>4, AttendedMoves DEF AtWork

LEMMA CompleteReadAttends == ASSUME Sound, Attended, NEW w \in Workers, CompleteRead(w) PROVE Attended'
<1>1. /\ workers[w].pc = "complete" /\ record' = record /\ abandoned' = abandoned
      /\ workers[w] \in WorkerState /\ SoundWorker(workers[w], observed, sent)
      /\ record \in RecordRow /\ SoundRow(record, observed)
  BY Moving DEF CompleteRead, At
<1>2. Holding(record, workers[w]) => /\ record.last \in Requests /\ record.attempts[record.last].outcome = "open"
                             /\ workers[w].probe = record.attempts[record.last].probe
                             /\ workers[w].probe # NoProbe
  BY <1>1, OutcomeNames DEF Holding, SoundRow, SoundWorker
<1>3. ASSUME NEW r \in Requests, record.attempts[r].probe = workers[w].probe,
             Become(w, [workers[w] EXCEPT
               !.pc = IF record.attempts[r].outcome = "open" THEN "outcome" ELSE "label",
               !.request = r, !.copy = record])
      PROVE  Attended'
  <2> DEFINE pc == IF record.attempts[r].outcome = "open" THEN "outcome" ELSE "label"
             x == [workers[w] EXCEPT !.pc = pc, !.request = r, !.copy = record]
  <2>1. x \in WorkerState /\ x.pc = pc /\ x.copy = record /\ x.probe = workers[w].probe
    BY <1>1 DEF WorkerState, WorkerPc
  <2>2. Become(w, x)
    BY <1>3
  <2> HIDE DEF x
  <2>3. Holding(record, workers[w]) => pc = "outcome"
    BY <1>1, <1>2, <1>3 DEF SoundRow
  <2> HIDE DEF pc
  <2> QED
    BY <1>1, <2>1, <2>2, <2>3, AttendedMoves DEF AtWork
<1>4. CASE Finish(w) /\ \A r \in Requests : record.attempts[r].probe # workers[w].probe
  BY <1>1, <1>2, <1>4, FinishAttends
<1> QED
  BY <1>3, <1>4 DEF CompleteRead

LEMMA OutcomeWriteAttends == ASSUME Sound, Attended, NEW w \in Workers, OutcomeWrite(w) PROVE Attended'
<1>1. /\ workers[w].pc = "outcome" /\ abandoned' = abandoned
      /\ workers[w] \in WorkerState /\ SoundWorker(workers[w], observed, sent)
  BY Moving DEF OutcomeWrite, At
<1>2. /\ workers[w].request \in Requests /\ workers[w].verdict \in Outcomes /\ workers[w].copy \in RecordRow
      /\ workers[w].verdict # "Verifying"
  BY <1>1 DEF WorkerState, SoundWorker, Outcomes
<1>3. CASE record' = Closed(workers[w].copy, workers[w].request, workers[w].verdict)
  <2>1. record'.state = workers[w].verdict
    BY <1>2, <1>3, ClosedRow DEF Written
  <2> QED
    BY <1>2, <2>1, NoneToAttend
<1>4. CASE /\ workers[w].tries < 2
           /\ Become(w, [workers[w] EXCEPT !.pc = "complete", !.tries = @ + 1])
           /\ UNCHANGED record
  <2> DEFINE x == [workers[w] EXCEPT !.pc = "complete", !.tries = @ + 1]
  <2>1. workers[w].tries + 1 \in 0 .. 2
    BY <1>1, <1>4 DEF WorkerState
  <2>2. x \in WorkerState /\ x.pc = "complete" /\ x.probe = workers[w].probe
    BY <1>1, <2>1 DEF WorkerState, WorkerPc
  <2>3. Become(w, x)
    BY <1>4
  <2> HIDE DEF x
  <2> QED
    BY <1>1, <1>4, <2>2, <2>3, AttendedMoves DEF AtWork
<1>5. CASE ~Current(w) /\ Finish(w) /\ UNCHANGED record
  BY <1>1, <1>5, StaleHoldsNothing, FinishAttends
<1> QED
  BY <1>3, <1>4, <1>5 DEF OutcomeWrite

LEMMA MarkWriteAttends == ASSUME Sound, Attended, NEW w \in Workers, MarkWrite(w) PROVE Attended'
<1>1. /\ workers[w].pc = "mark" /\ abandoned' = abandoned /\ Finish(w) /\ workers[w].copy \in RecordRow
  BY Moving DEF MarkWrite, At, WorkerState
<1>2. CASE Current(w)
  <2>1. record' = Applied(workers[w].copy)
    BY <1>2 DEF MarkWrite, Applied
  <2>2. record'.state # "Verifying"
    BY <1>1, <2>1, AppliedRow DEF Written
  <2> QED
    BY <2>2, NoneToAttend
<1>3. CASE ~Current(w)
  BY <1>1, <1>3, FinishAttends DEF MarkWrite, AtWork
<1> QED
  BY <1>2, <1>3

LEMMA SyncWriteAttends == ASSUME Sound, Attended, NEW w \in Workers, SyncWrite(w) PROVE Attended'
<1>1. /\ workers[w].pc = "sync" /\ abandoned' = abandoned
      /\ record' = record \/ record' = Delivered(sent)
  BY DEF SyncWrite, At
<1>2. CASE record' = Delivered(sent)
  <2>1. sent \in Delivery
    BY DEF Sound, TypeOK
  <2>2. record'.state \in Outcomes
    BY <1>2, <2>1 DEF Delivered, Delivery
  <2> QED
    BY <2>2, NoneToAttend DEF Outcomes
<1>3. CASE record' = record
  <2> DEFINE x == [Idle EXCEPT !.pc = "synced"]
  <2>1. x \in WorkerState /\ x.pc = "synced"
    BY IdleType DEF WorkerState, WorkerPc, Idle
  <2>2. Become(w, x)
    BY DEF SyncWrite
  <2> HIDE DEF x
  <2> QED
    BY <1>1, <1>3, <2>1, <2>2, AttendedElsewhere DEF AtWork
<1> QED
  BY <1>1, <1>2, <1>3

LEMMA AttendedNext == ASSUME Sound, Attended, [Next]_vars PROVE Attended'
<1>1. CASE Start
  <2>1. record'.state = "InProgress"
    BY <1>1 DEF Start, AbsentRecord
  <2> QED
    BY <2>1, NoneToAttend
<1>2. ASSUME NEW w \in Workers, WorkerStep(w) PROVE Attended'
  <2>1. CASE SyncRun(w) \/ AttachLabel(w) \/ ExpireWrite(w)
    BY <2>1, FinishAttends DEF SyncRun, AttachLabel, ExpireWrite, At, AtWork
  <2>2. CASE ScheduleUndo(w) \/ MissingWrite(w)
    BY <2>2, CloseAttends DEF ScheduleUndo, MissingWrite, At
  <2> QED
    BY <1>2, <2>1, <2>2, SyncWriteAttends, MarkWriteAttends, RequestWriteAttends, ScheduleAttends,
       ProbingAttends, CompleteReadAttends, OutcomeWriteAttends DEF WorkerStep
<1>3. ASSUME NEW w \in Workers, UserStep(w) \/ RecoveryStep(w) PROVE Attended'
  BY <1>3, UserAttends
<1>4. ASSUME NEW w \in Workers, Die(w) PROVE Attended'
  BY <1>4, DieAttends
<1>5. CASE UNCHANGED vars
  BY <1>5 DEF vars, Attended, Holding
<1> QED
  BY <1>1, <1>2, <1>3, <1>4, <1>5 DEF Next

(* A fix stays in verification only while the task of its run is at work,  *)
(* or was lost: a refused schedule, a lost race and the third failed       *)
(* update all end it, or find that it ended (probes.rs:290-347).           *)
THEOREM AlwaysAttended == Spec => []VerifyingIsAttended
<1>1. Init => Attended
  BY DEF Init, AbsentRecord, Attended, Holding
<1>2. Sound /\ Attended /\ [Next]_vars => Attended'
  BY AttendedNext
<1>3. Attended => VerifyingIsAttended
  BY DEF Attended, Holding, AtWork, VerifyingIsAttended
<1> QED
  BY <1>1, <1>2, <1>3, SoundAlways, PTL DEF Spec

-----------------------------------------------------------------------------
(* Order: while no changed record was replaced, the revision of a copy     *)
(* tells whether it still is the record.                                   *)

\* Nothing happens before there is a record, but that one is sent.
Fresh ==
  record.state = "Absent" =>
    /\ record = AbsentRecord
    /\ \A p \in Probes : runs[p] = "absent"
    /\ \A w \in Workers : workers[w].pc \in {"idle", "sync"}

RequestOrdered(r) ==
  /\ labels[r] # "none" => labels[r] = record.attempts[r].outcome
  /\ probed[r] <= 1
  /\ probed[r] > 0 => record.attempts[r].probe # NoProbe

\* The attempt that the record came with is still there.
SentKept ==
  sent # NotSent /\ record.state # "Absent" =>
    /\ record.attempts[sent.request].probe = sent.probe
    /\ record.attempts[sent.request].outcome = sent.verdict

\* A copy that a worker may write back or take the label from, and what it
\* still has in common with the record.
WorkerOrdered(w) ==
  LET W == workers[w] IN
  /\ W.pc \in {"mark", "request", "schedule", "undo", "outcome", "label", "missing"} =>
       /\ W.copy.revision <= record.revision
       /\ W.copy.revision = record.revision => W.copy = record
  /\ W.pc = "sync" /\ W.copy.state # "Absent" => record.state # "Absent"
  /\ W.pc = "mark" => W.copy.state # "Absent"
  /\ W.pc = "label" => record.attempts[W.request].outcome = W.copy.attempts[W.request].outcome
  /\ W.pc \in OutsideNow => record.attempts[W.request].probe = W.probe
  /\ W.pc = "schedule" => probed[W.request] = 0

\* Only one worker is on its way to the network for a request.
Alone ==
  \A v, w \in Workers :
    v # w /\ workers[v].pc \in OutsideNow /\ workers[w].pc \in OutsideNow
    => workers[v].request # workers[w].request

Ordered ==
  /\ record.applied => record.state \notin {"Absent", "InProgress"}
  /\ Fresh
  /\ \A r \in Requests : RequestOrdered(r)
  /\ SentKept
  /\ \A w \in Workers : WorkerOrdered(w)
  /\ Alone

\* The ways in which a record that exists is written, each from what it is.
Applies == record.state \notin {"Absent", "Verifying"} /\ record' = Applied(record)

Opens ==
  \E r \in Requests, p \in UnusedProbes :
    /\ record.applied /\ record.state # "Verifying" /\ record.attempts[r] = NoAttempt
    /\ record' = Requested(record, r, p)

Closes ==
  \E r \in Requests, verdict \in Outcomes :
    record.state = "Verifying" /\ record.last = r /\ record' = Closed(record, r, verdict)

Moves == Applies \/ Opens \/ Closes

\* What holds of each attempt across a step, and of revisions.
Kept ==
  /\ \A r \in Requests :
       /\ record.attempts[r].probe # NoProbe => record'.attempts[r].probe = record.attempts[r].probe
       /\ record.attempts[r].outcome \in Outcomes => record'.attempts[r].outcome = record.attempts[r].outcome
  /\ record.state # "Absent" => record'.state # "Absent"
  /\ record' = record \/ record'.revision > record.revision

LEMMA MovesKeep ==
  ASSUME Sound, Moves
  PROVE  Kept /\ record' \in RecordRow
<1>1. record \in RecordRow /\ SoundRow(record, observed)
  BY DEF Sound, TypeOK
<1>2. CASE Applies
  <2>1. Written(record, record', "Applied", record.last, record.attempts)
    BY <1>1, <1>2, AppliedRow DEF Applies
  <2> QED
    BY <1>1, <2>1 DEF Written, Kept, RecordRow
<1>3. CASE Opens
  <2>1. PICK r \in Requests, p \in UnusedProbes :
          /\ record.applied /\ record.state # "Verifying" /\ record.attempts[r] = NoAttempt
          /\ record' = Requested(record, r, p)
    BY <1>3 DEF Opens
  <2>2. p \in Probes
    BY DEF UnusedProbes
  <2>3. record.attempts[r].probe = NoProbe /\ record.attempts[r].outcome \notin Outcomes
    BY <2>1 DEF NoAttempt, Outcomes
  <2>4. Written(record, record', "Verifying", r, [record.attempts EXCEPT ![r] = Opened(p)])
    BY <1>1, <2>1, <2>2, RequestedRow
  <2> QED
    BY <1>1, <2>3, <2>4 DEF Written, Kept, RecordRow
<1>4. CASE Closes
  <2>1. PICK r \in Requests, verdict \in Outcomes :
          /\ record.state = "Verifying" /\ record.last = r
          /\ record' = Closed(record, r, verdict)
    BY <1>4 DEF Closes
  <2>2. record.attempts[r].outcome = "open" /\ "open" \notin Outcomes /\ verdict # "Absent"
    BY <1>1, <2>1 DEF SoundRow, Outcomes
  <2>3. Written(record, record', verdict, record.last,
                [record.attempts EXCEPT ![r] = Ended(record.attempts[r], verdict)])
    BY <1>1, <2>1, ClosedRow
  <2> QED
    BY <1>1, <2>2, <2>3 DEF Written, Kept, RecordRow, Attempt, Ended
<1> QED
  BY <1>2, <1>3, <1>4 DEF Moves

\* A fix that was applied is not taken back.
LEMMA MovesApplied ==
  ASSUME Sound, Ordered, Moves
  PROVE  record'.applied => record'.state \notin {"Absent", "InProgress"}
<1>1. record \in RecordRow
  BY DEF Sound, TypeOK
<1>2. CASE Applies
  BY <1>1, <1>2, AppliedRow DEF Applies, Written
<1>3. CASE Opens
  <2>1. PICK r \in Requests, p \in UnusedProbes : record' = Requested(record, r, p)
    BY <1>3 DEF Opens
  <2>2. Written(record, record', "Verifying", r, [record.attempts EXCEPT ![r] = Opened(p)])
    BY <1>1, <2>1, RequestedRow DEF UnusedProbes
  <2> QED
    BY <2>2 DEF Written
<1>4. CASE Closes
  <2>1. PICK r \in Requests, verdict \in Outcomes : record' = Closed(record, r, verdict)
    BY <1>4 DEF Closes
  <2>2. Written(record, record', verdict, record.last,
                [record.attempts EXCEPT ![r] = Ended(record.attempts[r], verdict)])
    BY <1>1, <2>1, ClosedRow
  <2> QED
    BY <2>2 DEF Written, Outcomes
<1> QED
  BY <1>2, <1>3, <1>4 DEF Moves

\* A worker that does not move is ordered after a step of another one.
LEMMA WorkerKept ==
  ASSUME Sound, Ordered, NEW v \in Workers, workers'[v] = workers[v], Kept, record' \in RecordRow,
         workers[v].pc = "schedule" => probed'[workers[v].request] = 0
  PROVE  WorkerOrdered(v)'
<1>1. /\ WorkerOrdered(v) /\ workers[v] \in WorkerState /\ record \in RecordRow
      /\ SoundWorker(workers[v], observed, sent)
  BY DEF Sound, TypeOK, Ordered
<1>2. workers[v].copy.revision \in Nat /\ record.revision \in Nat /\ record'.revision \in Nat
  BY <1>1 DEF WorkerState, RecordRow
<1>3. workers[v].pc \in {"mark", "request", "schedule", "undo", "outcome", "label", "missing"} =>
        /\ workers[v].copy.revision <= record'.revision
        /\ workers[v].copy.revision = record'.revision => workers[v].copy = record'
  BY <1>1, <1>2 DEF WorkerOrdered, Kept
<1>4. workers[v].pc = "label" =>
        record'.attempts[workers[v].request].outcome = workers[v].copy.attempts[workers[v].request].outcome
  BY <1>1 DEF WorkerOrdered, SoundWorker, Kept
<1>5. workers[v].pc \in OutsideNow => record'.attempts[workers[v].request].probe = workers[v].probe
  BY <1>1, OutcomeNames DEF WorkerOrdered, SoundWorker, Kept
<1> QED
  BY <1>1, <1>3, <1>4, <1>5 DEF WorkerOrdered, Kept

\* Requests stay in order when attempts are kept.
LEMMA RequestsKept ==
  ASSUME Sound, Ordered, Kept, UNCHANGED <<labels, probed>>
  PROVE  \A r \in Requests : RequestOrdered(r)'
<1> SUFFICES ASSUME NEW r \in Requests PROVE RequestOrdered(r)'
  OBVIOUS
<1>1. /\ RequestOrdered(r) /\ labels[r] \in Outcomes \cup {"none"}
      /\ record.attempts[r].probe # NoProbe => record'.attempts[r].probe = record.attempts[r].probe
      /\ record.attempts[r].outcome \in Outcomes => record'.attempts[r].outcome = record.attempts[r].outcome
  BY DEF Sound, TypeOK, Ordered, Kept
<1> QED
  BY <1>1 DEF RequestOrdered

\* A worker moves while there is a record.
LEMMA OrderedMoves ==
  ASSUME Sound, Ordered, NEW w \in Workers, NEW x \in WorkerState, Become(w, x), record.state # "Absent",
         record' = record \/ Moves, sent' = sent, WorkerOrdered(w)', \A r \in Requests : RequestOrdered(r)',
         \A v \in Workers \ {w} : workers[v].pc = "schedule" => probed'[workers[v].request] = 0,
         x.pc \in OutsideNow =>
           \/ workers[w].pc \in OutsideNow /\ x.request = workers[w].request
           \/ x.request \in Requests /\ record.attempts[x.request].probe = NoProbe
  PROVE  Ordered'
<1>1. /\ workers'[w] = x /\ \A v \in Workers \ {w} : workers'[v] = workers[v]
      /\ record \in RecordRow
  BY Moved DEF Sound, TypeOK
<1>2. Kept /\ record' \in RecordRow
  BY <1>1, MovesKeep DEF Kept
<1>3. record'.applied => record'.state \notin {"Absent", "InProgress"}
  BY MovesApplied DEF Ordered
<1>4. Fresh' /\ record'.state # "Absent"
  BY <1>2 DEF Kept, Fresh
<1>5. SentKept'
  <2>1. sent # NotSent => sent.request \in Requests /\ sent.probe \in Probes /\ sent.verdict \in Outcomes
    BY DEF Sound, SoundSent, TypeOK, Delivery
  <2> QED
    BY <1>2, <2>1, OutcomeNames DEF Ordered, SentKept, Kept
<1>6. ASSUME NEW v \in Workers PROVE WorkerOrdered(v)'
  BY <1>1, <1>2, WorkerKept
<1>7. Alone'
  <2>1. \A v \in Workers : workers[v].pc \in OutsideNow => record.attempts[workers[v].request].probe # NoProbe
    BY OutcomeNames DEF Ordered, WorkerOrdered, Sound, SoundWorker
  <2> QED
    BY <1>1, <2>1 DEF Ordered, Alone
<1> QED
  BY <1>3, <1>4, <1>5, <1>6, <1>7 DEF Ordered

\* A worker that holds no copy of the record, or has just read it.
Quiet(x) ==
  /\ x.pc \in {"idle", "sync", "synced", "apply", "complete", "expire"}
  /\ x.pc = "sync" => x.copy = record
  /\ record.state = "Absent" => x.pc \in {"idle", "sync"}

LEMMA OrderedQuiet ==
  ASSUME Sound, Ordered, NEW w \in Workers, NEW x \in WorkerState, Become(w, x), Quiet(x),
         record' = record, probed' = probed, labels' = labels,
         record.state = "Absent" \/ sent' = sent, record.state = "Absent" => runs' = runs
  PROVE  Ordered'
<1>1. /\ workers'[w] = x /\ \A v \in Workers \ {w} : workers'[v] = workers[v]
      /\ Kept /\ record' \in RecordRow
  BY Moved DEF Sound, TypeOK, Kept
<1>2. WorkerOrdered(w)'
  BY <1>1 DEF WorkerOrdered, Quiet, OutsideNow
<1>3. ASSUME NEW v \in Workers \ {w} PROVE WorkerOrdered(v)'
  BY <1>1, WorkerKept DEF Ordered, WorkerOrdered
<1>4. \A r \in Requests : RequestOrdered(r)'
  BY <1>1, RequestsKept
<1>5. Fresh' /\ Alone' /\ SentKept'
  BY <1>1 DEF Ordered, Fresh, Alone, SentKept, Quiet, OutsideNow
<1> QED
  BY <1>2, <1>3, <1>4, <1>5 DEF Ordered

\* A worker takes on the record as it is.
LEMMA OrderedTakes ==
  ASSUME Sound, Ordered, NEW w \in Workers, NEW x \in WorkerState, Become(w, x), x.copy = record,
         x.pc \in {"mark", "request", "outcome", "label", "missing"}, record.state # "Absent",
         record' = record, UNCHANGED <<labels, probed, sent>>
  PROVE  Ordered'
<1>1. workers'[w] = x /\ record.revision \in Nat /\ Kept
  BY Moved DEF Sound, TypeOK, RecordRow, Kept
<1>2. WorkerOrdered(w)' /\ x.pc \notin OutsideNow
  BY <1>1 DEF WorkerOrdered, OutsideNow
<1>3. \A v \in Workers \ {w} : workers[v].pc = "schedule" => probed'[workers[v].request] = 0
  BY DEF Ordered, WorkerOrdered
<1> QED
  BY <1>1, <1>2, <1>3, RequestsKept, OrderedMoves

LEMMA OrderedFinish ==
  ASSUME Sound, Ordered, NEW w \in Workers, Finish(w), record' = record, UNCHANGED <<labels, probed, sent>>,
         record.state = "Absent" => runs' = runs
  PROVE  Ordered'
<1>1. Become(w, Idle) /\ Idle \in WorkerState /\ Quiet(Idle)
  BY IdleType DEF Finish, Idle, Quiet
<1> QED
  BY <1>1, OrderedQuiet

\* A worker that is done wrote the record.
LEMMA OrderedLastWrite ==
  ASSUME Sound, Ordered, NEW w \in Workers, Finish(w), Moves, record.state # "Absent", UNCHANGED <<labels, probed, sent>>
  PROVE  Ordered'
<1>1. Become(w, Idle) /\ Idle \in WorkerState /\ Idle.pc = "idle" /\ workers'[w] = Idle
  BY IdleType, Moved DEF Sound, Finish, Idle
<1>2. WorkerOrdered(w)' /\ Idle.pc \notin OutsideNow
  BY <1>1 DEF WorkerOrdered, OutsideNow
<1>3. \A v \in Workers \ {w} : workers[v].pc = "schedule" => probed'[workers[v].request] = 0
  BY DEF Ordered, WorkerOrdered
<1> QED
  BY <1>1, <1>2, <1>3, MovesKeep, RequestsKept, OrderedMoves

\* A worker that is not idle, unless it syncs, has a record to work on.
LEMMA Present ==
  ASSUME Ordered, NEW w \in Workers, workers[w].pc \notin {"idle", "sync"}
  PROVE  record.state # "Absent"
BY DEF Ordered, Fresh

-----------------------------------------------------------------------------
(* The actions.                                                            *)

LEMMA UserOrdered == ASSUME Sound, Ordered, NEW w \in Workers, UserStep(w) PROVE Ordered'
<1>1. record \in RecordRow /\ record' = record /\ UNCHANGED <<runs, labels, probed>>
  BY DEF Sound, TypeOK, UserStep, SyncRead, SyncAgain, MarkRead, RequestRead
<1>2. CASE SyncAgain(w) \/ \E r \in Requests, p \in Probes, verdict \in Outcomes : SyncRead(w, r, p, verdict)
  <2> DEFINE x == [Idle EXCEPT !.pc = "sync", !.copy = record]
  <2>1. x \in WorkerState /\ x.pc = "sync" /\ x.copy = record
    BY <1>1, IdleType DEF WorkerState, WorkerPc, Idle
  <2>2. Become(w, x) /\ (record.state = "Absent" \/ sent' = sent)
    BY <1>2 DEF SyncAgain, SyncRead
  <2> HIDE DEF x
  <2>3. Quiet(x)
    BY <2>1 DEF Quiet
  <2> QED
    BY <1>1, <2>1, <2>2, <2>3, OrderedQuiet
<1>3. CASE MarkRead(w)
  <2> DEFINE x == [Idle EXCEPT !.pc = "mark", !.copy = record]
  <2>1. x \in WorkerState /\ x.pc = "mark" /\ x.copy = record
    BY <1>1, IdleType DEF WorkerState, WorkerPc, Idle
  <2>2. Become(w, x) /\ record.state # "Absent" /\ sent' = sent
    BY <1>3 DEF MarkRead
  <2> HIDE DEF x
  <2> QED
    BY <1>1, <2>1, <2>2, OrderedTakes
<1>4. ASSUME NEW r \in Requests, RequestRead(w, r) PROVE Ordered'
  <2> DEFINE x == [Idle EXCEPT !.pc = "request", !.copy = record, !.request = r]
  <2>1. x \in WorkerState /\ x.pc = "request" /\ x.copy = record
    BY <1>1, IdleType DEF WorkerState, WorkerPc, Idle
  <2>2. Become(w, x) /\ record.state # "Absent" /\ sent' = sent
    BY <1>4 DEF RequestRead, Ordered
  <2> HIDE DEF x
  <2> QED
    BY <1>1, <2>1, <2>2, OrderedTakes
<1> QED
  BY <1>2, <1>3, <1>4 DEF UserStep

LEMMA RecoveryOrdered == ASSUME Sound, Ordered, NEW w \in Workers, RecoveryStep(w) PROVE Ordered'
<1>1. record \in RecordRow /\ record' = record /\ UNCHANGED <<runs, labels, probed, sent>>
  BY DEF Sound, TypeOK, RecoveryStep, ExpireRead, RecoverFinished, MissingRead
<1>2. ASSUME NEW p \in Probes, ExpireRead(w, p) PROVE Ordered'
  <2> DEFINE x == [Idle EXCEPT !.pc = "expire", !.probe = p]
  <2>1. x \in WorkerState /\ x.pc = "expire"
    BY IdleType DEF WorkerState, WorkerPc, Idle
  <2>2. Become(w, x) /\ record.state # "Absent"
    BY <1>2 DEF ExpireRead, Ordered, Fresh
  <2> HIDE DEF x
  <2>3. Quiet(x)
    BY <2>1, <2>2 DEF Quiet
  <2> QED
    BY <1>1, <2>1, <2>2, <2>3, OrderedQuiet
<1>3. ASSUME NEW p \in Probes, RecoverFinished(w, p) PROVE Ordered'
  <2> DEFINE x == [Idle EXCEPT !.pc = "complete", !.probe = p, !.verdict = runs[p]]
  <2>1. x \in WorkerState /\ x.pc = "complete"
    BY <1>3, IdleType DEF WorkerState, WorkerPc, Idle, RecoverFinished
  <2>2. Become(w, x) /\ record.state # "Absent"
    BY <1>3 DEF RecoverFinished, Ordered, Fresh, Outcomes
  <2> HIDE DEF x
  <2>3. Quiet(x)
    BY <2>1, <2>2 DEF Quiet
  <2> QED
    BY <1>1, <2>1, <2>2, <2>3, OrderedQuiet
<1>4. CASE MissingRead(w)
  <2> DEFINE x == [Idle EXCEPT !.pc = "missing", !.copy = record]
  <2>1. x \in WorkerState /\ x.pc = "missing" /\ x.copy = record
    BY <1>1, IdleType DEF WorkerState, WorkerPc, Idle
  <2>2. Become(w, x) /\ record.state # "Absent"
    BY <1>4 DEF MissingRead
  <2> HIDE DEF x
  <2> QED
    BY <1>1, <2>1, <2>2, OrderedTakes
<1> QED
  BY <1>2, <1>3, <1>4 DEF RecoveryStep

LEMMA ProbingOrdered ==
  ASSUME Sound, Ordered, NEW w \in Workers,
         ApplyEvidence(w) \/ \E verdict \in Outcomes : ProbeFinishes(w, verdict)
  PROVE  Ordered'
<1>1. /\ workers[w].pc \in {"apply", "probing"} /\ record' = record /\ UNCHANGED <<labels, probed, sent>>
      /\ workers[w] \in WorkerState
  BY Moving DEF ApplyEvidence, ProbeFinishes, At
<1>2. record.state # "Absent"
  BY <1>1, Present
<1>3. PICK pc \in {"apply", "complete"}, verdict \in Outcomes :
        Become(w, [workers[w] EXCEPT !.pc = pc, !.verdict = verdict])
  <2>1. [workers[w] EXCEPT !.pc = "complete"] = [workers[w] EXCEPT !.pc = "complete", !.verdict = workers[w].verdict]
    BY <1>1 DEF WorkerState
  <2>2. workers[w].verdict \in Outcomes
    BY <1>1 DEF WorkerState
  <2> QED
    BY <2>1, <2>2 DEF ApplyEvidence, Goto, ProbeFinishes
<1> DEFINE x == [workers[w] EXCEPT !.pc = pc, !.verdict = verdict]
<1>4. x \in WorkerState /\ x.pc = pc
  BY <1>1 DEF WorkerState, WorkerPc
<1>5. Become(w, x)
  BY <1>3
<1> HIDE DEF x
<1>6. Quiet(x)
  BY <1>2, <1>4 DEF Quiet
<1> QED
  BY <1>1, <1>2, <1>4, <1>5, <1>6, OrderedQuiet

LEMMA ScheduleRefusedOrdered == ASSUME Sound, Ordered, NEW w \in Workers, ScheduleRefused(w) PROVE Ordered'
<1> DEFINE x == [workers[w] EXCEPT !.pc = "undo"]
<1>1. /\ workers[w].pc = "schedule" /\ record' = record /\ UNCHANGED <<labels, probed, sent>>
      /\ workers[w] \in WorkerState /\ WorkerOrdered(w)
  BY Moving DEF ScheduleRefused, At, Ordered
<1>2. x \in WorkerState /\ x.pc = "undo" /\ x.copy = workers[w].copy
  BY <1>1 DEF WorkerState, WorkerPc
<1>3. Become(w, x)
  BY DEF ScheduleRefused, Goto
<1> HIDE DEF x
<1>4. workers'[w] = x /\ Kept /\ record.state # "Absent"
  BY <1>1, <1>2, <1>3, Moved, Present DEF Sound, Kept
<1>5. WorkerOrdered(w)' /\ x.pc \notin OutsideNow
  BY <1>1, <1>2, <1>4 DEF WorkerOrdered, OutsideNow
<1>6. \A v \in Workers \ {w} : workers[v].pc = "schedule" => probed'[workers[v].request] = 0
  BY <1>1 DEF Ordered, WorkerOrdered
<1> QED
  BY <1>1, <1>2, <1>3, <1>4, <1>5, <1>6, RequestsKept, OrderedMoves

LEMMA ScheduleOrdered == ASSUME Sound, Ordered, NEW w \in Workers, Schedule(w) PROVE Ordered'
<1> DEFINE r == workers[w].request
           x == [workers[w] EXCEPT !.pc = "probing"]
<1>1. /\ workers[w].pc = "schedule" /\ record' = record /\ UNCHANGED <<labels, sent>>
      /\ probed' = [probed EXCEPT ![r] = @ + 1] /\ probed \in [Requests -> Nat]
      /\ workers[w] \in WorkerState /\ WorkerOrdered(w) /\ r \in Requests
      /\ workers[w].probe \in Probes
  BY Moving DEF Schedule, At, Ordered, Tables, SoundWorker, OutsideNow
<1>2. x \in WorkerState /\ x.pc = "probing" /\ x.request = r /\ x.probe = workers[w].probe
  BY <1>1 DEF WorkerState, WorkerPc
<1>3. Become(w, x)
  BY DEF Schedule, Goto
<1> HIDE DEF x
<1>4. workers'[w] = x /\ record.state # "Absent"
  BY <1>1, <1>2, <1>3, Moved, Present DEF Sound
<1>5. /\ probed[r] = 0 /\ record.attempts[r].probe = workers[w].probe
      /\ probed'[r] = 1 /\ \A s \in Requests \ {r} : probed'[s] = probed[s]
  BY <1>1 DEF WorkerOrdered, OutsideNow
<1>6. WorkerOrdered(w)'
  BY <1>1, <1>2, <1>4, <1>5 DEF WorkerOrdered, OutsideNow
<1>7. \A s \in Requests : RequestOrdered(s)'
  BY <1>1, <1>5, OutcomeNames DEF Ordered, RequestOrdered
<1>8. ASSUME NEW v \in Workers \ {w}, workers[v].pc = "schedule" PROVE probed'[workers[v].request] = 0
  <2>1. workers[v].request # r /\ workers[v].request \in Requests /\ probed[workers[v].request] = 0
    BY <1>1, <1>8 DEF Ordered, Alone, WorkerOrdered, Sound, SoundWorker, OutsideNow
  <2> QED
    BY <1>5, <2>1
<1>9. x.pc \in OutsideNow => workers[w].pc \in OutsideNow /\ x.request = workers[w].request
  BY <1>1, <1>2 DEF OutsideNow
<1> QED
  BY <1>1, <1>2, <1>3, <1>4, <1>6, <1>7, <1>8, <1>9, OrderedMoves

LEMMA CompleteReadOrdered == ASSUME Sound, Ordered, NEW w \in Workers, CompleteRead(w) PROVE Ordered'
<1>1. /\ workers[w].pc = "complete" /\ UNCHANGED <<record, runs, labels, probed, sent>>
      /\ workers[w] \in WorkerState /\ record \in RecordRow
  BY Moving DEF CompleteRead, At
<1>2. record.state # "Absent"
  BY <1>1, Present
<1>3. ASSUME NEW r \in Requests,
             Become(w, [workers[w] EXCEPT
               !.pc = IF record.attempts[r].outcome = "open" THEN "outcome" ELSE "label",
               !.request = r, !.copy = record])
      PROVE  Ordered'
  <2> DEFINE pc == IF record.attempts[r].outcome = "open" THEN "outcome" ELSE "label"
             x == [workers[w] EXCEPT !.pc = pc, !.request = r, !.copy = record]
  <2>1. x \in WorkerState /\ x.pc \in {"outcome", "label"} /\ x.copy = record
    BY <1>1 DEF WorkerState, WorkerPc
  <2>2. Become(w, x)
    BY <1>3
  <2> HIDE DEF x
  <2> QED
    BY <1>1, <1>2, <2>1, <2>2, OrderedTakes
<1>4. CASE Finish(w)
  BY <1>1, <1>4, OrderedFinish
<1> QED
  BY <1>3, <1>4 DEF CompleteRead

LEMMA AttachLabelOrdered == ASSUME Sound, Ordered, NEW w \in Workers, AttachLabel(w) PROVE Ordered'
<1> DEFINE r == workers[w].request
           new == workers[w].copy.attempts[r].outcome
<1>1. /\ workers[w].pc = "label" /\ UNCHANGED <<record, runs, probed, sent>>
      /\ r \in Requests /\ new \in Outcomes /\ record.attempts[r].outcome = new
      /\ labels \in [Requests -> Outcomes \cup {"none"}]
      /\ labels' = [labels EXCEPT ![r] = IF @ = "none" THEN new ELSE @]
  BY Moving DEF AttachLabel, At, SoundWorker, Ordered, WorkerOrdered, Tables
<1> HIDE DEF r, new
<1>2. \A s \in Requests : RequestOrdered(s)'
  BY <1>1 DEF Ordered, RequestOrdered
<1>3. Become(w, Idle) /\ Idle \in WorkerState /\ Idle.pc = "idle" /\ workers'[w] = Idle
  BY IdleType, Moved DEF Sound, AttachLabel, Finish, Idle
<1>4. WorkerOrdered(w)' /\ Idle.pc \notin OutsideNow
  BY <1>3 DEF WorkerOrdered, OutsideNow
<1>5. \A v \in Workers \ {w} : workers[v].pc = "schedule" => probed'[workers[v].request] = 0
  BY <1>1 DEF Ordered, WorkerOrdered
<1>6. record.state # "Absent"
  BY <1>1, Present
<1> QED
  BY <1>1, <1>2, <1>3, <1>4, <1>5, <1>6, OrderedMoves

\* An update that succeeds writes the record from what it is.
LEMMA CurrentCopy ==
  ASSUME Sound, Ordered, NEW w \in Workers, Current(w),
         workers[w].pc \in {"mark", "request", "undo", "outcome", "missing"}
  PROVE  workers[w].copy = record /\ record.state # "Absent" /\ SoundWorker(workers[w], observed, sent)
BY Moving, Present DEF Ordered, WorkerOrdered, Current

LEMMA WritesMove ==
  ASSUME Sound, Ordered, NEW w \in Workers,
         MarkWrite(w) \/ RequestWrite(w) \/ ScheduleUndo(w) \/ OutcomeWrite(w) \/ MissingWrite(w)
  PROVE  /\ UNCHANGED <<runs, labels, probed, sent, replaced>>
         /\ record.state # "Absent"
         /\ Current(w) => Moves
         /\ ~Current(w) => record' = record
<1>1. /\ workers[w].pc \in {"mark", "request", "undo", "outcome", "missing"}
      /\ UNCHANGED <<runs, labels, probed, sent, replaced>>
      /\ ~Current(w) => record' = record
  BY DEF MarkWrite, RequestWrite, ScheduleUndo, OutcomeWrite, MissingWrite, At
<1>2. record.state # "Absent"
  BY <1>1, Present
<1>3. CASE Current(w) /\ MarkWrite(w)
  <2>1. workers[w].copy = record /\ SoundWorker(workers[w], observed, sent) /\ workers[w].pc = "mark"
    BY <1>1, <1>3, CurrentCopy DEF MarkWrite, At
  <2>2. record.state # "Verifying" /\ record' = Applied(record)
    BY <1>3, <2>1 DEF MarkWrite, Applied, SoundWorker
  <2> QED
    BY <1>1, <1>2, <1>3, <2>2 DEF Moves, Applies
<1>4. CASE Current(w) /\ RequestWrite(w)
  <2>1. workers[w].copy = record /\ SoundWorker(workers[w], observed, sent) /\ workers[w].pc = "request"
    BY <1>1, <1>4, CurrentCopy DEF RequestWrite, At
  <2>2. /\ workers[w].request \in Requests /\ record.applied /\ record.state # "Verifying"
        /\ record.attempts[workers[w].request] = NoAttempt
    BY <2>1 DEF SoundWorker
  <2>3. \E p \in UnusedProbes : record' = Requested(record, workers[w].request, p)
    BY <1>4, <2>1 DEF RequestWrite
  <2> QED
    BY <1>1, <1>2, <1>4, <2>2, <2>3 DEF Moves, Opens
<1>5. CASE Current(w) /\ (ScheduleUndo(w) \/ MissingWrite(w))
  <2>1. workers[w].copy = record /\ SoundWorker(workers[w], observed, sent) /\ workers[w].pc \in {"undo", "missing"}
    BY <1>1, <1>5, CurrentCopy DEF ScheduleUndo, MissingWrite, At
  <2>2. /\ record.state = "Verifying" /\ record' = Closed(record, record.last, "Inconclusive")
        /\ record.last \in Requests /\ "Inconclusive" \in Outcomes
    BY <1>5, <2>1, OutcomeNames DEF ScheduleUndo, MissingWrite, SoundWorker, SoundRow
  <2> QED
    BY <1>1, <1>2, <1>5, <2>2 DEF Moves, Closes
<1>6. CASE Current(w) /\ OutcomeWrite(w)
  <2>1. workers[w].copy = record /\ SoundWorker(workers[w], observed, sent) /\ workers[w].pc = "outcome"
    BY <1>1, <1>6, CurrentCopy DEF OutcomeWrite, At
  <2>2. /\ workers[w].request \in Requests /\ workers[w].verdict \in Outcomes
        /\ record.attempts[workers[w].request].outcome = "open"
        /\ SoundRow(record, observed)
    BY <2>1, Moving DEF SoundWorker, WorkerState
  <2>3. record.state = "Verifying" /\ record.last = workers[w].request
    BY <2>2 DEF SoundRow
  <2>4. record' = Closed(record, workers[w].request, workers[w].verdict)
    BY <1>6, <2>1 DEF OutcomeWrite
  <2> QED
    BY <1>1, <1>2, <1>6, <2>2, <2>3, <2>4 DEF Moves, Closes
<1>7. CASE ~Current(w)
  BY <1>1, <1>2, <1>7
<1> QED
  BY <1>3, <1>4, <1>5, <1>6, <1>7

LEMMA LastWritesOrdered ==
  ASSUME Sound, Ordered, NEW w \in Workers, MarkWrite(w) \/ ScheduleUndo(w) \/ MissingWrite(w)
  PROVE  Ordered'
<1>1. Finish(w)
  BY DEF MarkWrite, ScheduleUndo, MissingWrite
<1> QED
  BY <1>1, WritesMove, OrderedLastWrite, OrderedFinish

LEMMA RequestWriteOrdered == ASSUME Sound, Ordered, NEW w \in Workers, RequestWrite(w) PROVE Ordered'
<1> DEFINE r == workers[w].request
           copy == workers[w].copy
<1>1. /\ workers[w].pc = "request" /\ workers[w] \in WorkerState /\ record \in RecordRow
      /\ UNCHANGED <<runs, labels, probed, sent, replaced>> /\ record.state # "Absent"
      /\ SoundWorker(workers[w], observed, sent)
  BY Moving, WritesMove DEF RequestWrite, At
<1>2. ASSUME Current(w), NEW p \in UnusedProbes, record' = Requested(copy, r, p),
             Become(w, [workers[w] EXCEPT !.pc = "schedule", !.copy = record', !.probe = p])
      PROVE  Ordered'
  <2> DEFINE x == [workers[w] EXCEPT !.pc = "schedule", !.copy = record', !.probe = p]
  <2>1. copy = record /\ r \in Requests /\ record.attempts[r] = NoAttempt /\ p \in Probes
    BY <1>1, <1>2, CurrentCopy, Unused DEF SoundWorker
  <2>2. Moves
    BY <1>2, WritesMove
  <2>3. Written(record, record', "Verifying", r, [record.attempts EXCEPT ![r] = Opened(p)])
    BY <1>1, <1>2, <2>1, RequestedRow
  <2>4. record' \in RecordRow /\ record'.attempts[r].probe = p /\ record'.revision \in Nat
    BY <1>1, <2>1, <2>3 DEF Written, RecordRow, Opened
  <2>5. x \in WorkerState /\ x.pc = "schedule" /\ x.copy = record' /\ x.request = r /\ x.probe = p
    BY <1>1, <2>1, <2>4 DEF WorkerState, WorkerPc
  <2>6. Become(w, x)
    BY <1>2
  <2> HIDE DEF x
  <2>7. workers'[w] = x
    BY <2>5, <2>6, Moved DEF Sound
  <2>8. probed[r] = 0 /\ record.attempts[r].probe = NoProbe
    <3>1. RequestOrdered(r) /\ probed[r] \in Nat /\ record.attempts[r].probe = NoProbe
      BY <2>1, Moving DEF Ordered, Tables, NoAttempt
    <3> QED
      BY <3>1 DEF RequestOrdered
  <2>9. WorkerOrdered(w)'
    BY <1>1, <2>4, <2>5, <2>7, <2>8 DEF WorkerOrdered, OutsideNow
  <2>10. \A v \in Workers \ {w} : workers[v].pc = "schedule" => probed'[workers[v].request] = 0
    BY <1>1 DEF Ordered, WorkerOrdered
  <2>11. \A s \in Requests : RequestOrdered(s)'
    BY <1>1, <2>2, MovesKeep, RequestsKept
  <2> QED
    BY <1>1, <2>1, <2>2, <2>5, <2>6, <2>8, <2>9, <2>10, <2>11, OrderedMoves
<1>3. CASE Finish(w) /\ UNCHANGED record
  BY <1>1, <1>3, OrderedFinish
<1> QED
  BY <1>2, <1>3 DEF RequestWrite

LEMMA OutcomeWriteOrdered == ASSUME Sound, Ordered, NEW w \in Workers, OutcomeWrite(w) PROVE Ordered'
<1> DEFINE r == workers[w].request
           row == Closed(workers[w].copy, r, workers[w].verdict)
<1>1. /\ workers[w].pc = "outcome" /\ workers[w] \in WorkerState /\ record \in RecordRow
      /\ UNCHANGED <<runs, labels, probed, sent, replaced>> /\ record.state # "Absent"
      /\ r \in Requests /\ workers[w].verdict \in Outcomes
  BY Moving, WritesMove DEF OutcomeWrite, At, SoundWorker, WorkerState
<1>2. CASE Current(w) /\ record' = row /\ Become(w, [workers[w] EXCEPT !.pc = "label", !.copy = row])
  <2> DEFINE x == [workers[w] EXCEPT !.pc = "label", !.copy = row]
  <2>1. Moves
    BY <1>2, WritesMove
  <2>2. record' \in RecordRow /\ record'.revision \in Nat
    BY <2>1, MovesKeep DEF RecordRow
  <2>3. row = record'
    BY <1>2
  <2> HIDE DEF row
  <2>4. x \in WorkerState /\ x.pc = "label" /\ x.copy = record' /\ x.request = r
    BY <1>1, <2>2, <2>3 DEF WorkerState, WorkerPc
  <2>5. Become(w, x)
    BY <1>2
  <2> HIDE DEF x
  <2>6. workers'[w] = x
    BY <2>4, <2>5, Moved DEF Sound
  <2>7. WorkerOrdered(w)' /\ x.pc \notin OutsideNow
    BY <2>2, <2>4, <2>6 DEF WorkerOrdered, OutsideNow
  <2>8. \A v \in Workers \ {w} : workers[v].pc = "schedule" => probed'[workers[v].request] = 0
    BY <1>1 DEF Ordered, WorkerOrdered
  <2>9. \A s \in Requests : RequestOrdered(s)'
    BY <1>1, <2>1, MovesKeep, RequestsKept
  <2> QED
    BY <1>1, <2>1, <2>4, <2>5, <2>7, <2>8, <2>9, OrderedMoves
<1>3. CASE /\ workers[w].tries < 2
           /\ Become(w, [workers[w] EXCEPT !.pc = "complete", !.tries = @ + 1])
           /\ UNCHANGED record
  <2> DEFINE x == [workers[w] EXCEPT !.pc = "complete", !.tries = @ + 1]
  <2>1. workers[w].tries + 1 \in 0 .. 2
    BY <1>1, <1>3 DEF WorkerState
  <2>2. x \in WorkerState /\ x.pc = "complete"
    BY <1>1, <2>1 DEF WorkerState, WorkerPc
  <2>3. Become(w, x)
    BY <1>3
  <2> HIDE DEF x
  <2>4. Quiet(x)
    BY <1>1, <2>2 DEF Quiet
  <2> QED
    BY <1>1, <1>3, <2>2, <2>3, <2>4, OrderedQuiet
<1>4. CASE Finish(w) /\ UNCHANGED record
  BY <1>1, <1>4, OrderedFinish
<1> QED
  BY <1>2, <1>3, <1>4 DEF OutcomeWrite

-----------------------------------------------------------------------------
(* The record begins: it is created, or it arrives.                        *)

Begun == record.state = "Absent" /\ record' = [AbsentRecord EXCEPT !.state = "InProgress"]

Arrives == record.state = "Absent" /\ sent # NotSent /\ record' = Delivered(sent)

LEMMA NothingBefore ==
  ASSUME Sound, Ordered, record.state = "Absent"
  PROVE  /\ record = AbsentRecord /\ \A r \in Requests : record.attempts[r] = NoAttempt
         /\ \A w \in Workers : workers[w].pc \in {"idle", "sync"}
         /\ \A r \in Requests : labels[r] = "none" /\ probed[r] = 0
<1>1. record = AbsentRecord /\ \A w \in Workers : workers[w].pc \in {"idle", "sync"}
  BY DEF Ordered, Fresh
<1>2. \A r \in Requests : record.attempts[r] = NoAttempt
  BY <1>1 DEF AbsentRecord
<1>3. ASSUME NEW r \in Requests PROVE labels[r] = "none" /\ probed[r] = 0
  <2>1. RequestOrdered(r) /\ probed[r] \in Nat
    BY DEF Sound, TypeOK, Ordered
  <2>2. record.attempts[r].probe = NoProbe /\ record.attempts[r].outcome = "none"
    BY <1>2 DEF NoAttempt
  <2> QED
    BY <2>1, <2>2 DEF RequestOrdered
<1> QED
  BY <1>1, <1>2, <1>3

\* The record is there, and nobody has read it yet.
LEMMA OrderedBegins ==
  ASSUME Sound, Ordered, record.state = "Absent", record'.state # "Absent",
         record'.applied => record'.state # "InProgress",
         UNCHANGED <<labels, probed>>, SentKept',
         \A w \in Workers : workers'[w].pc \in {"idle", "sync", "synced"}
  PROVE  Ordered'
<1>1. \A r \in Requests : RequestOrdered(r)'
  BY NothingBefore DEF RequestOrdered
<1>2. \A w \in Workers : WorkerOrdered(w)'
  BY DEF WorkerOrdered, OutsideNow
<1>3. Fresh' /\ Alone'
  BY DEF Fresh, Alone, OutsideNow
<1> QED
  BY <1>1, <1>2, <1>3 DEF Ordered

LEMMA StartOrdered == ASSUME Sound, Ordered, Start PROVE Ordered'
<1>1. /\ record.state = "Absent" /\ record'.state = "InProgress" /\ record'.applied = FALSE
      /\ UNCHANGED <<labels, probed, workers, sent>> /\ sent = NotSent
  BY DEF Start, AbsentRecord
<1>2. SentKept' /\ \A w \in Workers : workers'[w].pc \in {"idle", "sync", "synced"}
  BY <1>1, NothingBefore DEF SentKept
<1> QED
  BY <1>1, <1>2, OrderedBegins

\* What is written when the CLI's record comes in.
LEMMA SyncWriteStep ==
  ASSUME Sound, Ordered, NEW w \in Workers, SyncWrite(w)
  PROVE  \/ record' = record /\ record.state # "Absent" /\ replaced' = replaced
         \/ Arrives /\ replaced' = replaced
         \/ record.state # "Absent" /\ record' = Delivered(sent) /\ replaced' = TRUE
<1>1. workers[w].pc = "sync" /\ sent # NotSent /\ WorkerOrdered(w) /\ replaced \in BOOLEAN
  BY Moving DEF SyncWrite, At, SoundWorker, Ordered, Tables
<1>2. CASE workers[w].copy.state # "Absent"
  <2>1. record.state # "Absent"
    BY <1>1, <1>2 DEF WorkerOrdered
  <2>2. CASE Current(w) /\ record # Delivered(sent)
    BY <1>2, <2>1, <2>2 DEF SyncWrite
  <2>3. CASE Current(w) /\ record = Delivered(sent)
    BY <1>1, <1>2, <2>1, <2>3 DEF SyncWrite
  <2>4. CASE ~Current(w)
    BY <1>1, <1>2, <2>1, <2>4 DEF SyncWrite
  <2> QED
    BY <2>2, <2>3, <2>4
<1>3. CASE workers[w].copy.state = "Absent"
  <2>1. CASE record.state = "Absent"
    BY <1>1, <1>3, <2>1 DEF SyncWrite, Arrives
  <2>2. CASE record.state # "Absent"
    BY <1>1, <1>3, <2>2 DEF SyncWrite
  <2> QED
    BY <2>1, <2>2
<1> QED
  BY <1>2, <1>3

LEMMA SyncWriteOrdered == ASSUME Sound, Ordered, NEW w \in Workers, SyncWrite(w), ~replaced' PROVE Ordered'
<1> DEFINE x == [Idle EXCEPT !.pc = "synced"]
<1>1. UNCHANGED <<runs, labels, observed, probed, sent>>
  BY DEF SyncWrite
<1>2. x \in WorkerState /\ x.pc = "synced"
  BY IdleType DEF WorkerState, WorkerPc, Idle
<1>3. Become(w, x)
  BY DEF SyncWrite
<1> HIDE DEF x
<1>4. CASE record' = record /\ record.state # "Absent"
  <2>1. Quiet(x)
    BY <1>2, <1>4 DEF Quiet
  <2> QED
    BY <1>1, <1>2, <1>3, <1>4, <2>1, OrderedQuiet
<1>5. CASE Arrives
  <2>1. sent \in Delivery /\ sent.request \in Requests /\ sent.probe \in Probes
    BY <1>5 DEF Arrives, Sound, SoundSent, TypeOK
  <2>2. /\ record'.state = sent.verdict
        /\ record'.attempts[sent.request].probe = sent.probe
        /\ record'.attempts[sent.request].outcome = sent.verdict
    BY <1>5, <2>1, DeliveredRow DEF Arrives
  <2>3. sent.verdict \notin {"Absent", "InProgress"}
    BY <2>1 DEF Delivery, Outcomes
  <2>4. SentKept'
    BY <1>1, <2>2 DEF SentKept
  <2>5. \A v \in Workers : workers'[v].pc \in {"idle", "sync", "synced"}
    BY <1>2, <1>3, <1>5, NothingBefore, Moved DEF Arrives, Sound
  <2> QED
    BY <1>1, <1>5, <2>2, <2>3, <2>4, <2>5, OrderedBegins DEF Arrives
<1> QED
  BY <1>4, <1>5, SyncWriteStep

LEMMA OrderedNext == ASSUME Sound, Ordered, [Next]_vars, ~replaced' PROVE Ordered'
<1>1. CASE Start
  BY <1>1, StartOrdered
<1>2. ASSUME NEW w \in Workers, WorkerStep(w) PROVE Ordered'
  <2>1. CASE SyncRun(w) \/ ExpireWrite(w)
    <3>1. /\ Finish(w) /\ record' = record /\ UNCHANGED <<labels, probed, sent>>
          /\ workers[w].pc \in {"synced", "expire"}
      BY <2>1 DEF SyncRun, ExpireWrite, At
    <3>2. record.state # "Absent"
      BY <3>1, Present
    <3> QED
      BY <3>1, <3>2, OrderedFinish
  <2> QED
    BY <1>2, <2>1, SyncWriteOrdered, LastWritesOrdered, RequestWriteOrdered, ScheduleOrdered,
       ScheduleRefusedOrdered, ProbingOrdered, CompleteReadOrdered, OutcomeWriteOrdered, AttachLabelOrdered
       DEF WorkerStep
<1>3. ASSUME NEW w \in Workers, UserStep(w) PROVE Ordered'
  BY <1>3, UserOrdered
<1>4. ASSUME NEW w \in Workers, RecoveryStep(w) PROVE Ordered'
  BY <1>4, RecoveryOrdered
<1>5. ASSUME NEW w \in Workers, Die(w) PROVE Ordered'
  BY <1>5, OrderedFinish DEF Die
<1>6. CASE UNCHANGED vars
  BY <1>6 DEF vars, Ordered, Fresh, RequestOrdered, SentKept, WorkerOrdered, Alone
<1> QED
  BY <1>1, <1>2, <1>3, <1>4, <1>5, <1>6 DEF Next

\* A replacement is not forgotten.
LEMMA ReplacedStays == ASSUME [Next]_vars, replaced PROVE replaced'
<1>1. CASE Start \/ UNCHANGED vars
  BY <1>1 DEF Start, vars
<1>2. ASSUME NEW w \in Workers, WorkerStep(w) PROVE replaced'
  BY <1>2 DEF WorkerStep, SyncWrite, SyncRun, MarkWrite, RequestWrite, Schedule, ScheduleRefused, ScheduleUndo,
     ProbeFinishes, ApplyEvidence, CompleteRead, OutcomeWrite, AttachLabel, ExpireWrite, MissingWrite
<1>3. ASSUME NEW w \in Workers, UserStep(w) \/ RecoveryStep(w) \/ Die(w) PROVE replaced'
  BY <1>3 DEF UserStep, SyncRead, SyncAgain, MarkRead, RequestRead, RecoveryStep, ExpireRead, RecoverFinished,
     MissingRead, Die
<1> QED
  BY <1>1, <1>2, <1>3 DEF Next

InOrder == Sound /\ (replaced \/ Ordered)

LEMMA InitOrdered == ASSUME Init PROVE Ordered
<1>1. /\ record = AbsentRecord /\ record.state = "Absent" /\ record.applied = FALSE
      /\ \A w \in Workers : workers[w].pc = "idle"
      /\ sent = NotSent
      /\ \A r \in Requests : labels[r] = "none" /\ probed[r] = 0
      /\ \A p \in Probes : runs[p] = "absent"
  BY DEF Init, AbsentRecord, Idle
<1>2. (\A r \in Requests : RequestOrdered(r)) /\ \A w \in Workers : WorkerOrdered(w)
  BY <1>1 DEF RequestOrdered, WorkerOrdered, OutsideNow
<1>3. Fresh /\ SentKept /\ Alone
  BY <1>1 DEF Fresh, SentKept, Alone, OutsideNow
<1> QED
  BY <1>1, <1>2, <1>3 DEF Ordered

LEMMA InOrderAlways == Spec => []InOrder
<1>1. Init => InOrder
  BY SoundInit, InitOrdered DEF InOrder
<1>2. InOrder /\ [Next]_vars => InOrder'
  BY SoundNext, OrderedNext, ReplacedStays DEF InOrder
<1> QED
  BY <1>1, <1>2, PTL DEF Spec

(* However often and however concurrently a request is retried, at most    *)
(* one network probe starts for it: the update of the record that opened   *)
(* the attempt succeeded once, and is remembered until a changed record is *)
(* replaced by the one that the CLI sends again.                           *)
THEOREM OneProbe == Spec => []OneProbePerRequest
<1>1. InOrder => OneProbePerRequest
  BY DEF InOrder, Ordered, RequestOrdered, OneProbePerRequest
<1> QED
  BY <1>1, InOrderAlways, PTL

(* The training label of a request is the outcome the analyst sees for it, *)
(* although complete_probe stores the two by separate calls.               *)
THEOREM LabelsFollow == Spec => []LabelsAgree
<1>1. InOrder => LabelsAgree
  BY DEF InOrder, Ordered, RequestOrdered, LabelsAgree
<1> QED
  BY <1>1, InOrderAlways, PTL

-----------------------------------------------------------------------------
(* What a step does to the record.                                         *)

Replaces == record.state # "Absent" /\ record' = Delivered(sent) /\ sent # NotSent /\ replaced'

LEMMA RecordStep ==
  ASSUME Sound, Ordered, [Next]_vars
  PROVE  (replaced' = replaced /\ (record' = record \/ Begun \/ Arrives \/ Moves)) \/ Replaces
<1>1. CASE Start
  BY <1>1 DEF Start, Begun
<1>2. ASSUME NEW w \in Workers, WorkerStep(w)
      PROVE  (replaced' = replaced /\ (record' = record \/ Arrives \/ Moves)) \/ Replaces
  <2>1. CASE SyncWrite(w)
    <3>1. sent # NotSent
      BY <2>1, Moving DEF SyncWrite, At, SoundWorker
    <3> QED
      BY <2>1, <3>1, SyncWriteStep DEF Replaces
  <2>2. CASE MarkWrite(w) \/ RequestWrite(w) \/ ScheduleUndo(w) \/ OutcomeWrite(w) \/ MissingWrite(w)
    BY <2>2, WritesMove
  <2>3. CASE SyncRun(w) \/ Schedule(w) \/ ScheduleRefused(w) \/ (\E verdict \in Outcomes : ProbeFinishes(w, verdict))
             \/ ApplyEvidence(w) \/ CompleteRead(w) \/ AttachLabel(w) \/ ExpireWrite(w)
    BY <2>3 DEF SyncRun, Schedule, ScheduleRefused, ProbeFinishes, ApplyEvidence, CompleteRead, AttachLabel, ExpireWrite
  <2> QED
    BY <1>2, <2>1, <2>2, <2>3 DEF WorkerStep
<1>3. ASSUME NEW w \in Workers, UserStep(w) \/ RecoveryStep(w) \/ Die(w)
      PROVE  record' = record /\ replaced' = replaced
  BY <1>3 DEF UserStep, SyncRead, SyncAgain, MarkRead, RequestRead, RecoveryStep, ExpireRead, RecoverFinished,
     MissingRead, Die
<1>4. CASE UNCHANGED vars
  BY <1>4 DEF vars
<1> QED
  BY <1>1, <1>2, <1>3, <1>4 DEF Next

(* An attempt never disappears, and once closed keeps its run and outcome: *)
(* the probe task, the undo and recovery that come late find another       *)
(* revision.  The one exception is the delivery that replaces a record     *)
(* which had changed, attempts included (api/remediation.rs:102-112).      *)
THEOREM AppendOnly == Spec => AttemptsAppendOnly
<1> DEFINE Keeps ==
      ~replaced' =>
        \A r \in Requests :
          /\ record.attempts[r].probe # NoProbe => record'.attempts[r].probe = record.attempts[r].probe
          /\ record.attempts[r].outcome \in Outcomes => record'.attempts[r].outcome = record.attempts[r].outcome
<1>1. ASSUME InOrder, [Next]_vars PROVE Keeps
  <2>1. SUFFICES ASSUME ~replaced', Sound, Ordered PROVE Keeps
    BY <1>1, ReplacedStays DEF InOrder
  <2>2. CASE record' = record
    BY <2>2
  <2>3. CASE record.state = "Absent"
    BY <2>1, <2>3, NothingBefore DEF NoAttempt, Outcomes
  <2>4. CASE Moves
    BY <2>1, <2>4, MovesKeep DEF Kept
  <2> QED
    BY <1>1, <2>1, <2>2, <2>3, <2>4, RecordStep DEF Begun, Arrives, Replaces
<1>2. InOrder /\ [Next]_vars => [Keeps]_vars
  BY <1>1
<1> HIDE DEF Keeps
<1>3. Spec => [][Keeps]_vars
  BY <1>2, InOrderAlways, PTL DEF Spec
<1> QED
  BY <1>3 DEF AttemptsAppendOnly, Keeps

-----------------------------------------------------------------------------
(* Refinement.                                                             *)

outcomes == [r \in Requests |-> record.attempts[r].outcome]

LEMMA ContractInit == Init => Contract!Init
<1> SUFFICES ASSUME Init PROVE Contract!Init
  OBVIOUS
<1>1. record.state = "Absent" /\ replaced = FALSE /\ \A r \in Requests : record.attempts[r].outcome = "none"
  BY DEF Init, AbsentRecord, NoAttempt
<1> QED
  BY <1>1 DEF Contract!Init

\* The step changes the outcome of one request.
LEMMA OutcomesExcept ==
  ASSUME NEW r \in Requests, NEW o, record'.attempts[r].outcome = o,
         \A s \in Requests \ {r} : record'.attempts[s].outcome = record.attempts[s].outcome
  PROVE  outcomes' = [outcomes EXCEPT ![r] = o]
BY DEF outcomes

LEMMA KeptStep ==
  ASSUME Sound, Ordered, ~replaced, replaced' = replaced, Begun \/ Arrives \/ Moves
  PROVE  Contract!Next
<1>1. record \in RecordRow /\ SoundRow(record, observed)
  BY DEF Sound, TypeOK
<1>2. CASE Begun
  <2>1. /\ record.state = "Absent" /\ record'.state = "InProgress" /\ record'.attempts = AbsentRecord.attempts
        /\ record.attempts = AbsentRecord.attempts
    BY <1>2, NothingBefore DEF Begun, AbsentRecord
  <2>2. outcomes' = outcomes
    BY <2>1 DEF outcomes
  <2>3. Contract!Start
    BY <2>1, <2>2 DEF Contract!Start, outcomes
  <2> QED
    BY <2>3 DEF Contract!Next, Contract!Kept
<1>3. CASE Arrives
  <2>1. sent \in Delivery /\ sent.request \in Requests /\ sent.probe \in Probes /\ record.state = "Absent"
    BY <1>3 DEF Arrives, Sound, SoundSent, TypeOK
  <2>2. PICK r \in Requests, verdict \in Outcomes : r = sent.request /\ verdict = sent.verdict
    BY <2>1 DEF Delivery
  <2>3. /\ record'.state = verdict /\ record'.attempts[r].outcome = verdict
        /\ \A s \in Requests \ {r} : record'.attempts[s] = NoAttempt
    BY <1>3, <2>1, <2>2, DeliveredRow DEF Arrives
  <2>4. \A s \in Requests : record.attempts[s] = NoAttempt
    BY <2>1, NothingBefore
  <2>5. outcomes' = [outcomes EXCEPT ![r] = verdict]
    BY <2>3, <2>4, OutcomesExcept
  <2>6. Contract!Import(r, verdict)
    BY <2>1, <2>3, <2>5 DEF Contract!Import, outcomes
  <2> QED
    BY <2>6 DEF Contract!Next, Contract!Kept
<1>4. CASE Applies
  <2>1. Written(record, record', "Applied", record.last, record.attempts)
    BY <1>1, <1>4, AppliedRow DEF Applies
  <2>2. outcomes' = outcomes /\ record'.state = "Applied"
    BY <2>1 DEF Written, outcomes
  <2>3. Contract!Apply
    BY <1>4, <2>2 DEF Applies, Contract!Apply, outcomes
  <2> QED
    BY <2>3 DEF Contract!Next, Contract!Kept
<1>5. CASE Opens
  <2>1. PICK r \in Requests, p \in UnusedProbes :
          /\ record.applied /\ record.state # "Verifying" /\ record.attempts[r] = NoAttempt
          /\ record' = Requested(record, r, p)
    BY <1>5 DEF Opens
  <2>2. Written(record, record', "Verifying", r, [record.attempts EXCEPT ![r] = Opened(p)])
    BY <1>1, <2>1, RequestedRow DEF UnusedProbes
  <2>3. /\ record'.state = "Verifying" /\ record'.attempts[r].outcome = "open"
        /\ \A s \in Requests \ {r} : record'.attempts[s].outcome = record.attempts[s].outcome
    BY <1>1, <2>2 DEF Written, RecordRow, Opened
  <2>4. outcomes' = [outcomes EXCEPT ![r] = "open"]
    BY <2>3, OutcomesExcept
  <2>5. record.state \notin {"Absent", "InProgress"} /\ outcomes[r] = "none"
    BY <2>1 DEF Ordered, outcomes, NoAttempt
  <2>6. Contract!Request(r)
    BY <2>1, <2>3, <2>4, <2>5 DEF Contract!Request, outcomes
  <2> QED
    BY <2>6 DEF Contract!Next, Contract!Kept
<1>6. CASE Closes
  <2>1. PICK r \in Requests, verdict \in Outcomes :
          /\ record.state = "Verifying" /\ record.last = r
          /\ record' = Closed(record, r, verdict)
    BY <1>6 DEF Closes
  <2>2. Written(record, record', verdict, record.last,
                [record.attempts EXCEPT ![r] = Ended(record.attempts[r], verdict)])
    BY <1>1, <2>1, ClosedRow
  <2>3. /\ record'.state = verdict /\ record'.attempts[r].outcome = verdict
        /\ \A s \in Requests \ {r} : record'.attempts[s].outcome = record.attempts[s].outcome
    BY <1>1, <2>2 DEF Written, RecordRow, Attempt, Ended
  <2>4. outcomes' = [outcomes EXCEPT ![r] = verdict]
    BY <2>3, OutcomesExcept
  <2>5. outcomes[r] = "open"
    BY <1>1, <2>1 DEF SoundRow, outcomes
  <2>6. Contract!Close(r, verdict)
    BY <2>1, <2>3, <2>4, <2>5 DEF Contract!Close, outcomes
  <2> QED
    BY <2>6 DEF Contract!Next, Contract!Kept
<1> QED
  BY <1>2, <1>3, <1>4, <1>5, <1>6 DEF Moves

LEMMA ReplaceStep == ASSUME Sound, Ordered, ~replaced, Replaces PROVE Contract!Next
<1>1. sent \in Delivery /\ sent.request \in Requests /\ sent.probe \in Probes /\ replaced' = TRUE
  BY DEF Replaces, Sound, SoundSent, TypeOK
<1>2. PICK r \in Requests, verdict \in Outcomes : r = sent.request /\ verdict = sent.verdict
  BY <1>1 DEF Delivery
<1>3. /\ record'.state = verdict /\ record'.attempts[r].outcome = verdict
      /\ \A s \in Requests \ {r} : record'.attempts[s].outcome = "none"
  BY <1>1, <1>2, DeliveredRow DEF Replaces, NoAttempt
<1>4. outcomes[r] = verdict
  BY <1>2 DEF Replaces, Ordered, SentKept, outcomes
<1>5. outcomes' = [q \in Requests |-> IF q = r THEN verdict ELSE "none"]
  BY <1>3 DEF outcomes
<1>6. Contract!Replace(r, verdict)
  BY <1>1, <1>3, <1>4, <1>5 DEF Contract!Replace, outcomes
<1> QED
  BY <1>6 DEF Contract!Next

LEMMA ContractStep == ASSUME InOrder, [Next]_vars PROVE [Contract!Next]_(Contract!vars)
<1>1. CASE replaced
  <2>1. replaced' = replaced
    BY <1>1, ReplacedStays, SoundNext DEF InOrder, Sound, TypeOK
  <2> QED
    BY <1>1, <2>1 DEF Contract!Next
<1>2. CASE ~replaced
  <2>1. Sound /\ Ordered
    BY <1>2 DEF InOrder
  <2>2. CASE record' = record /\ replaced' = replaced
    BY <2>2 DEF Contract!vars
  <2>3. CASE replaced' = replaced /\ (Begun \/ Arrives \/ Moves)
    BY <1>2, <2>1, <2>3, KeptStep
  <2>4. CASE Replaces
    BY <1>2, <2>1, <2>4, ReplaceStep
  <2> QED
    BY <2>1, <2>2, <2>3, <2>4, RecordStep
<1> QED
  BY <1>1, <1>2

(* The concurrent workers, ordered by the revision number alone, keep the  *)
(* contract of VerificationContract, whose operations are atomic; that     *)
(* contract ends with the delivery that replaces a changed record.         *)
THEOREM Refinement == Spec => ImplementsContract
<1>1. InOrder /\ [Next]_vars => [Contract!Next]_(Contract!vars)
  BY ContractStep
<1> QED
  BY <1>1, ContractInit, InOrderAlways, PTL DEF Spec, ImplementsContract, Contract!Spec
=============================================================================
