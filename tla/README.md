# A verification development of Mailent

TLA+ models of the stateful parts of Mailent, TLC configurations that check
them on small instances, and theorems that TLAPS proves for every value of the
constants.  Source paths below are relative to the repository; `PROJECT.json`
maps each definition to its lines.

- [The system](#the-system)
- [Modules and how they correspond to the code](#modules-and-how-they-correspond-to-the-code)
- [Runs, bounds and fairness](#runs-bounds-and-fairness)
- [Proofs](#proofs)
- [Where code and documentation disagree](#where-code-and-documentation-disagree)
- [Not modelled, and the plan](#not-modelled-and-the-plan)

## The system

Mailent watches the mail traffic of an organization, keeps an inventory of its
mail servers, reports weak cryptography, and follows a fix until a probe has
verified it.

| Component | State | Operations | Talks to |
|---|---|---|---|
| Job dispatch (`apps/core/src/api/{scans,agent}.rs`, `crates/domain/src/job.rs`) | table `agent_jobs`: state, lease, attempt, created | scan request, look at a job (cancels a stale one), poll (lease, cancel), complete, fail, recovery of expired leases | web UI, companions over HTTP, storage |
| CLI companion (`apps/cli/src/companion.rs`, `credentials.rs`) | what it is running; credentials | heartbeat, poll, run a check, report it once | job dispatch |
| Device registry (`apps/core/src/api/devices.rs`, `auth.rs`) | tables `devices`, `device_tokens`, `device_challenges` | login challenge, approval, polling, report of the installation, heartbeat, revocation, logout | dispatch, the CLI |
| Commands of the CLI (`apps/cli/src/{main,monitor,installation,credentials}.rs`) | the credentials file of the host, shared by all commands | login, status, monitor, companion, logout, signing out when rejected | device registry |
| Remediation lifecycle (`apps/core/src/remediation.rs`, `api/remediation.rs`) | table `remediations`: state, revision, attempts by request | start, mark as applied, request a verification, complete, synchronise from the CLI, recover | probe runs, training labels |
| Probe runs (`apps/core/src/probes.rs`) | table `probe_runs`, a semaphore, cooldowns | schedule, execute, apply evidence, recover | the network, remediation |
| Training (`apps/core/src/training.rs`) | records and outcome labels | capture, attach an outcome, export | remediation, pipeline |
| Observation pipeline (`apps/core/src/pipeline.rs`, `api/observations.rs`) | tables observations, sessions, assets, drift, findings, investigations | process an observation | sensor, assessments, storage |
| Assessments (`apps/core/src/api/{assessments,agent}.rs`, `crates/correlation/src/drift.rs`) | tables `assessments`, findings, drift, investigations | store a check that was synchronised or came as a job's result, compare it with the prior one, keep the drift, file regressions | CLI, devices, pipeline |
| Storage (`crates/storage`, `apps/core/src/dual_storage.rs`) | 30 tables in PostgreSQL, or vectors and maps in memory | 24 repositories | every handler |
| Live sensor (`apps/sensor/src/{live,spool,normalize}.rs`) | Zeek's logs, ids already seen, the spool | poll, submit, drain, heartbeat | Zeek, observation pipeline |
| CLI fix (`apps/cli/src/fix/`) | mail server configuration and its backup | plan, back up, edit, reload, verify, roll back | companion, remediation |
| Decision support (`crates/decision`) | circuit breaker, cache | assess | an external model |
| Pure parts: correlation, drift, posture, policy, baseline, normaliser, reports | none | functions | pipeline |
| Intelligence, integrations, event bus, read API, web, deployment | caches of external answers | lookups, deliveries, queries | external services |

Storage is reached through repository traits with a PostgreSQL and an in-memory
implementation; `DualStorage` gives the requests of guests to the second.  Most
repository calls are atomic, and nothing spans two calls.  (Four calls of
PostgresStorage are several statements without a transaction:
`save_ct_certificates`, `reset_all_data`, `validate_device_token` and
`revoke_device_token`.)  That is where the difficulty of this system lies:

- A handler is a sequence of calls on rows it read earlier.  `update_job`
  overwrites the whole row; only remediations carry a revision number.
- Axum drops a handler whose client disconnects, and processes restart, so a
  handler can end between any two calls.
- Clients repeat: the companion polls, the sensor drains its spool, the CLI
  retries a synchronisation.  Requests and answers get lost or arrive late.
- Many errors of the storage are discarded (`let _ =`, `if let Ok`,
  `unwrap_or_default`): the handler goes on with less than it should have.
- Leases, dispatch windows and deadlines run out while work goes on.

`PROJECT.json` lists the resulting hazards, each at its line, with the
properties that would catch it.  What makes each component correct:

- *Dispatch*: a check runs at most once and only while fresh; a finished check
  stays finished, and with its verdict while it is fresh; every check ends; a
  revoked device does nothing more.
- *Remediation*: one open attempt at a time, closed once, with what its own
  probe saw; retries start nothing twice; labels agree; nothing is left in
  verification unless its task was lost.
- *Pipeline*: no silent change of an asset; a violation that was acknowledged is
  under review; a replay finds what the first delivery stored.
- *Sensor*: every observation is delivered, kept or counted as dropped; in order;
  a connection is reported once it ends.
- *Login*: credentials handed to a client work until they are revoked; reports
  and heartbeats of a device do not undo each other; once a device is revoked
  each of its commands halts.
- *Assessments*: every change between two checks that the store accepts is kept as
  history; what got worse ends in one investigation; a rule that was read as
  failing before is not reported as newly failing.
- *CLI fix*: no crash leaves half a configuration; what was planned is written and
  nothing else changes; the verdict is what the fix's own two handshakes met, and
  counts as verified only on two explicit refusals (which the code does not keep).
- *Storage*: both implementations answer alike; a case loses nothing it gathered.

## Modules and how they correspond to the code

All models take one storage call, one HTTP exchange or one local transition as
one step, and keep every guard, early return and error path.  Payloads,
wording, organization scoping and logging are left out.

**AgentJobs** (with **DispatchContract**, **MCAgentJobs**, **AgentJobsProofs**).
`jobs` and `devices` are the tables, `handlers` the requests the server is
working on (program counter and the job row each has read), `companions` the
daemons, `now` a clock.  A handler is a chain of actions: `PollLease` (the
atomic `lease_next_job`), `PollCancel` or `PollStatus`; `ReportStart`,
`ReportWrite`, `ReportStatus`; `ScanCheckDevice`, `ScanCount`, `ScanCreate`;
`GetJob`, `GetCancel`; `RevokeDevice`, `RevokeStatus`, `CancelActiveForDevice`.
Faults are `Drop` (the client gives up or the server drops the handler),
`Crash` and `TimeOut` of the companion.  `granted` counts how often a job was
handed out for execution.  Assumed: a device runs one companion; the client's
10 second timeout drops a poll that waits for its lease, which is what `Stall`
bounds.  `RecoverExpiredLeases` is the atomic statement of the storage layer,
which no task of the server runs at this commit; the safety results hold with
it, and liveness does not rely on it.  It is also why `OneVerdict` has its second
exception: recovery fails a check that has used up its attempts while its device
still works on it, and the device's late report replaces that failure.  Attempts
are used up without being handed out when polls that leased a check too old to run
are dropped before they cancel it.  The first exception is a cancellation: `GetJob`
and `PollLease` judge the age of the row they read, `GetCancel` and `PollCancel`
write that copy back, and a report stored in between is lost.  As a check is
canceled only once it is past the dispatch window, a verdict is safe until then,
and that is what `OneVerdict` says of it.

`DispatchContract` says the same without leases, handlers and companions:
accept, hand over while fresh, settle, and never back.  `AgentJobs!Contract`
gives the refinement mapping (`Phase`).

**RemediationLifecycle** (with **VerificationContract**,
**MCRemediationLifecycle**, **RemediationLifecycleProofs**).  One record, its probe runs, its labels, and
workers that stand for handlers, spawned probe tasks and recovery.  A worker
holds the `copy` it read; `Current` is the revision check of
`RemediationRepository::update`.  `complete_probe` retries three times, as in
the code.  A worker may `Die` at any step.  What verdict follows from the
evidence (`verify_remediation`) is an input.  At this commit the verify route
answers 409 and `request_verification` is reached from tests and from the
service interface only.  A record of the CLI has a fresh id when it is `sent`
(`SyncRead`), but the same request may be delivered again at any time
(`SyncAgain`).  `SyncWrite` then does what the handler does with a record it
knows: it replaces the row as a whole, attempts and revision included, if the
revision is still the one that was read.  `replaced` remembers that a row that
had changed was overwritten so; `abandoned` are the runs whose task died.
Recovery is part of the model but has no fairness, because nothing calls it.
`VerificationContract` gives the lifecycle as atomic operations, one of which is
that replacement, after which it says no more.

**IngestPipeline** (with **MCIngestPipeline**, **IngestPipelineProofs**).
`process_observation_scoped` as a handler that goes through `save`, `address`,
`name`, `drift`, `asset`, `finding`, `link`, `review`; it holds the asset row it
will write back.  `Abort` ends a request at any step.  The two idempotent saves
of observation and session are one step.  Facts are what an asset row
accumulates and drift reports: TLS versions, cipher suites, certificate
fingerprints.  `Losses` is the one event that does not come from a new fact:
`ForwardSecrecyLost` is stored for each delivery of a session without forward
secrecy (`Weak`) at an asset whose cipher suites once had it (`Forward`), for a
replay too.  Endpoint rows are only added and left out; so are certificate
records, baselines, anomalies, posture and training capture, which are derived
after the asset is saved and feed nothing back into it.

**LiveSensor** (with **MCLiveSensor**, **LiveSensorProofs**).  Zeek appends records to the logs of a
conversation (`LogRecord`: a line of `mailent.log`, of `ssl.log`, of
`conn.log`); `Poll` normalizes everything again and takes what is `Unseen`;
`Submit` sends or enqueues; `DrainNext`, `SendSucceeds`, `SendFails` are
`drain_pending` and `send_to_core`.  An import takes all conversations or none
(`Importable`).  It fails for now while a mail conversation has no flow record,
or a line is half written (`PollUnread`), and for good once a record is logged
that it refuses: a second handshake of a conversation or a certificate that does
not validate (`refused`), or one that contradicts another (`conflict`); the logs only
grow (`Unimportable`).  A failed request was lost, or only its
answer was, or it arrives later (`LateArrival`).  `Stop` is the end of the loop.
Core appears as the sequence of first arrivals, because it stores an observation
under its id.  Assumed: the handshake starts later than its connection (so the
records give different start times), and logs stay below the import limit of
64 MiB and 100,000 connections, beyond which every import fails likewise.

**DeviceLogin** (with **MCDeviceLogin**, **DeviceLoginProofs**).  `challenges` and `devices` are the
tables (a device and its token share a number), `file` the credentials file of
the host, `cli` the commands that run on it, `approval` and `call` the requests
Core is serving.  `SaveDevice`, `SaveDeviceToken` and `ApproveChallenge` are the
three storage calls of an approval, which may be cut short (`ApprovalDies`) and
may run twice for one challenge.  `Read` and `Write` are the two calls of the
handlers of reports and heartbeats, `RevokeDeviceToken` and `DeleteToken` the two
statements of a logout.  A command asks (`Ask`), is answered (`Answered`,
`Heard`), gives up after ten seconds (`GiveUp`) while its handler goes on, or
quits; a token that Core cannot check is answered like a revoked one, as
`auth.rs:217` does; `ClearCredentials` is the second step of `handle_rejection`.  `settled` is
a history: devices whose report was written while no heartbeat was half done.
Jobs are left to AgentJobs, and so is their cancellation when a device goes.

**InfraReports** (with **MCInfraReports**, **InfraReportsProofs**).  `compare_assessments`,
`extract_security_regressions` and `correlate_or_enrich_investigation` are
operators (`Compare`, `Regressions`, `Case`); the two handlers that call them are
chains of actions that differ, as the code does, in order: a synchronisation
stores findings, then the assessment, then looks at the prior one, a job stores
the assessment first.  `Die` ends a request anywhere, `UpdateStatus` is the
analyst.  `ForeignKeys` says whether the store has PostgreSQL's constraints.

A storage call may fail (`Fault`), and what follows is what the code makes of it:
an event that is not saved is forgotten (`SaveDrifts`), a list of investigations
that is not read is empty (`FindCase`), a job leaves out prior findings it cannot
read (`ComparePrior`), compares with nothing if it cannot read the checks
(`MissPrior`), and is answered although its investigation was not saved (`SaveCase`).
A synchronisation passes the errors of reading and of its investigation on.  A
request records what it lost this way (`lost`, `unread`, `unfiled`); the properties
except exactly that and nothing else.

**CliFix** (with **MCCliFix**, **CliFixProofs**).  A configuration is a sequence of lines; a value
a sequence of words that may go on over lines.  `UpdateParam` and `UpdateParams`
translate the line editors of Postfix and Dovecot, `Effective` is how the servers
read a file.  A run goes through plan, confirmation, backup, read, write, copy
into the container, check, reload, probe, challenge and verdict, or restore;
`AtomicWrite` is the rename, `Restore` and `Fill` the truncating copy of
`restore_backup`.  `Crash` ends a run at any step and `Edit` is an administrator.

**StoreTables**, **PostgresStore**, **MemoryStore**, **StoreAgreement** (with
**MCStoreAgreement**, **StoreAgreementProofs**).  One operator per repository method and store: a table is a
set of rows in `PostgresStore`, and a vector or map in `MemoryStore`, as in the
code.  `StoreAgreement` gives both stores the same calls, with the arguments the
handlers make, and `now` as the time of each.  `Cases`, `ProbeRuns` and `Devices`
are the rows whose history is followed; `NoneAssumption` says that NULL and
`Option::None` are no time and no row.  What the handlers never do is a
premise of the comparison: an observation id is not reused for other content, a
finding is stored before it is linked, certificate lists are read for what the
last fetch named, a query names an organization its user belongs to, and a list
ordered by time has no two rows of one time.  Where the stores still differ the
comparison says so at the property (the last use of a token, the lease of a job
given up, the rows of evidence kept by one of them).  An operator is the complete
effect of its method, also of the four in PostgresStorage that are several
statements; DeviceLogin has the two of `revoke_device_token` as two steps.

## Runs, bounds and fairness

| Run | Instance | Shows |
|---|---|---|
| `jobs_safety` | 1 check, 1 device, 2 concurrent requests, 2 faults, 2 attempts, time to 8 | types; at-most-once; terminal stays terminal; what may replace a verdict; implements DispatchContract |
| `jobs_liveness` | 2 checks, 1 request slot, 1 fault, 2 attempts, time to 5 | every check of a device that is not revoked ends; the completed counter |
| `jobs_revocation` | 1 check, 2 requests, no fault | *violation*: a revoked device with an active check |
| `remediation_safety` | 2 requests, 2 probes, 2 workers, 2 deaths or repeated deliveries, with recovery | types; open attempt; attended; one probe per request; observed verdicts; labels; append only; implements VerificationContract |
| `ingest_pass` | 3 observations, 2 addresses, 3 assets, 2 concurrent requests, 5 in all, 2 cut short | no silent change, with loss of forward secrecy among the events; acknowledged violations reviewed; three properties of replays that do not overlap |
| `sensor_pass` | 2 conversations, spool of 2, 3 failing requests | accounting; order; which observation is dropped; ended connections are reported until an import fails for good |
| `login` | 2 commands at once (login or companion; logout or monitor), 1 challenge, 2 devices, 1 approval and 2 requests at once, 1 fault | types; credentials handed out work; reports survive heartbeats; commands of a revoked device halt |
| `infra` | 3 reports of 3 checks, synchronised or from jobs, 1 death or failed storage call, with foreign keys | types; changes stored; regressions in one case; no false alarm |
| `infra_history` | 2 reports, no fault, with foreign keys | *violation*: changes of an answered report are not stored |
| `fix` | 2 runs, 3 requests, 4 initial configurations, a container, 1 crash, failure or edit | types; no half file; written as planned; the verdict follows the answers |
| `fix_alerts` | the same | *violation*: verified without two alerts |
| `stores` | each of 19 families of methods, 2 ids, 3 or 4 calls | both stores agree; a case keeps its history |

Why the bounds suffice for what the runs ask:

- *AgentJobs.*  Jobs interact only through the queue and the request slots, so
  one job with two concurrent requests shows every race on a row, and two jobs
  show the queue.  Dispatch window 1, stall 1 and lease 3 are the smallest values
  that satisfy the timing assumption with equality (the real ones are 60, 10 and
  300 seconds); time 8 lets two leases run out while a check still waits to be
  cancelled or reported: the first time recovery queues it again, the second time
  it has no attempt left and fails.  `LastCreate` and `LastFault` stop new work early enough
  that the clock, which stops at `MaxTime`, does not end a behaviour before its
  checks can.
- *RemediationLifecycle.*  Two workers are two stale copies; two requests an
  older and a newer attempt; two probes let a retry take another run.
  `MaxRevision` stops reapplying.  Two faults are a task that dies and a delivery
  that meets what it left, or two deliveries that overlap.
- *IngestPipeline.*  The three observations are a server without TLS, the same
  server with a certificate, and that certificate at another address: lookup by
  address, by name, drift and discovery all happen.  The first and the second
  together have forward secrecy, which the third, found by name, has lost.  Five requests leave room
  for two that end early and their repetitions.  A third asset is there so that
  a duplicate is never excluded by the bound.  Handlers and assets are
  interchangeable, hence the symmetry; no liveness is checked with it.
- *LiveSensor.*  Two conversations give up to four observations against a spool
  of two, so the spool overflows while requests fail; three failures fill it.

- *DeviceLogin*.  Two commands are a running one and the one that changes the file
  under it, in any order, and an earlier login is a possible initial state, so an
  old and a new device meet.  Two request slots let a report and a heartbeat of
  one device overlap, also when the command that sent the first has given up.
- *InfraReports*.  Three checks of a domain are one that loses STARTTLS, one that
  has it back and fails another rule, and what they are compared with; three
  requests let two race while a third follows or repeats.  One fault is a death or
  one call with any number of failing rows; what it leaves behind meets the other
  requests.  Requests are interchangeable, hence the symmetry.  Synchronised checks
  name hosts that are assets, jobs the domain's id that is none, so both an accepted
  and a refused row occur.
- *CliFix*.  Two runs show a run that starts from what another one left; the
  files have a continued value, a parameter named twice, one that is continued at
  the end of the file, a value that an edit completes, and a Dovecot block.
- *Stores*.  Families of methods share no table that matters to another family's
  reads; three calls make, change and change back, four lease a job again.

`CHECK_DEADLOCK FALSE` is set everywhere because the bounded systems do stop:
the clock reaches its end, the requests are used up, every record is written,
and the sensor may be stopped.

Fairness, where a liveness property needs it:

- `AgentJobs`: handlers the server holds go on (`WF`), the clock advances, a
  device that works restarts its companion, and the companion polls and reports
  whenever it gets a request slot again and again (`SF`: slots are shared).  No
  user ever has to act, and recovery of leases is not assumed.
- `DeviceLogin`: a command that runs goes on and Core serves what it accepted
  (`WF`).  Nobody has to approve, revoke, start or quit anything.
- `LiveSensor`: the one task goes on, and each connection ends and is logged.
  Failing requests are bounded in number, so nothing is said about a Core that
  never comes back, nor about an observation it refuses for ever; and nothing about
  what ends after a record the import refuses was logged, when nothing is reported.

`RemediationLifecycle` has none and claims no liveness: what a task that died leaves
open only `recover_stale_probes` would close, and nothing calls it.
`VerifyingIsAttended` is the safety half of it, that nothing else strands a
verification.

## Proofs

The theorems hold for every set of jobs, devices, observations, assets,
conversations, probes, requests, checks, commands and names, every number of
concurrent requests, calls and faults, and every value of the bounds.  Each invariant below was
checked with TLC on the run's instance before it was proved.

*AgentJobs.*  `TypeCorrect` needs only that a companion that runs something runs
a job.  The rest rests on

    IInv == TypeInv /\ (all jobs) JobSafe /\ (all handlers) HandlerSafe
                    /\ (all companions) CompanionSafe

because the properties are not inductive: whether a write is harmless depends
on how old the copy is that a handler holds.  `JobSafe` relates state, lease,
age and `granted` of a row; `HandlerSafe` says what a held copy may still differ
in from the row; `CompanionSafe` that what runs was handed out.  `TableStep`
first classifies what any step can do to a row, and the invariants are shown
against that classification.  `TimingAssumption` (a lease is at least a dispatch
window and two stalls long) is what makes `AtMostOnce` true: when a lease can
run out, its job is too old to be handed out again.  `TerminalStays` and
`Refinement` follow from the same invariant and classification.

*AgentJobs, reports.*  `VerdictStands` (`OneVerdict`)
and `CountedOnce` (`CompletedCounter`) need to know where a check is between being
handed out and being reported:

    HolderInv  == (all handlers) CopySafe /\ (all checks) CarrierSafe, RunnerSafe
    CounterInv == IsFiniteSet(Table) /\ completed <= Cardinality(Spent(d))

A check that was handed out has one holder at a time, the poll that answers with
it, the companion that runs it or the request that reports it (`Carries`, `Runs`),
and no report of it was written while somebody holds it for reporting
(`Unreported`).  So the blind write of a report hits a row without a verdict, or
one that recovery gave up.  `CopySafe` says that what a handler writes back belongs
to the same device.  `LateInv` adds that a handler about to cancel holds a copy that is past the
dispatch window, so the row it overwrites is.  For the counter, `Spent(d)` are the checks that were handed to
d and that nobody holds any more: the step that counts a report is the one that lets
its check go.  `Jobs` may be infinite; `Table` is finite because a step creates one
row at most.

*RemediationLifecycle.*  None of the properties is inductive, because workers write
back copies, and a repeated delivery brings an old revision back, so that revisions
order nothing any more once a record that had changed was replaced.  So there are
three invariants:

    Sound,   Sound /\ Attended,   InOrder == Sound /\ (replaced \/ Ordered)

`Sound` speaks of one row at a time, the record and each copy alike (`SoundRow`: at
most the newest attempt is open, closed ones were observed), and of what a worker
knows of its run (`SoundWorker`); a row that replaces another one is sound too, so it
survives the replacement and gives `TypeCorrect`, `OpenWhileVerifying` and
`VerdictsObserved` without any condition.  `Attended` relates the verification shown
to the worker that has its run: what that worker holds is the record as long as the
verification is open, since every write in between ends it.  `Ordered` is what
revisions give: a copy whose revision is the record's is the record
(`WorkerOrdered`), one worker at most is on its way to the network for a request
(`Alone`), what the record was sent with is still in it (`SentKept`).  It ends with
the first replacement of a changed record, and so do `OneProbe`, `LabelsFollow` and
`AppendOnly`.  `Refinement` uses that every step before leaves the record alone,
begins it, takes one over from the CLI, or `Moves` it: applies, opens an attempt, or
closes the open one, or that it `Replaces` it, which are the actions of
VerificationContract.

*IngestPipeline.*  `NothingSilent` and `AnsweredReviewed` rest on

    IInv == TypeInv /\ (all assets) AssetSafe /\ (all handlers) HandlerSafe
                    /\ AnsweredIsReviewed

`HandlerSafe` is the strengthening: what a handler is about to save was there at
the discovery, is reported, or is among the drift events it still has to save;
past the save its asset exists; past the link its finding is linked to it.
`OthersSafe` shows that assets, drift and links only grow under the feet of the
other handlers, `QuietStep` that a step that writes no table only needs its own
handler to be safe.

`SameAssetFound`, `AnsweredStaysKnown` and `ReportedOnce` are about requests that
do not overlap, and need two more invariants, which hold as long as none did:

    ~overlapped => Replayed,    ~overlapped /\ faults = 0 => Once

`Replayed` says that one request is served at a time, that no address has two
assets, that the row it holds covers its observation and contains the stored one,
that a linked finding's asset has the observation's address, and that what was
answered is known.  `Once` says that a fact with a drift event is in its asset, or is
being reported by the request under way, which saves it next; a request cut short
between the two would report it again.  `ForwardSecrecyLost` is no fact, so
`ReportedOnce` says nothing of it: it is reported on every delivery.

*LiveSensor.*  `TypeCorrect` and `NothingLost` (`Accounted`) rest on `Shape`: a
request under way holds an observation, a drain sends the head of the spool, the
spool is empty while a new observation is sent, and nothing is anywhere that was
not handed to the spooler.  `OrderKept` and `OldestGivenUp` rest on

    Shape /\ OrderInv,   OrderInv == \A p \in Places : Placed(p) => Ordered(p)

`InOrder` alone is not inductive: an old request may still arrive, and a spooled
observation may be at Core already because only its answer was lost.  `Ordered`
adds that nothing ever sent is younger than anything in the spool (`SentFirst`),
that what may still arrive late is stored, spooled or dropped (`LateKnown`), and
that what is sent at once is the newest of all (`NewestSent`).  The places p
stand for `Position`, which grows with `submitted`; quantifying over them lets a
step keep one p before and after.

*DeviceLogin.*  `TypeCorrect`, `CredentialsWork` (`GrantsWork`) and `ReportsKept`
(`ReportsLast`) rest on

    IInv == TypeInv /\ (all commands) CommandSafe /\ (all handlers) CallSafe
                    /\ AnswersOnce /\ (all approvals) ApprovalSafe
                    /\ PublishedWork /\ TokensSaved
                    /\ (all handlers) CarriesOver /\ ReportsLast

`GrantsWork` is not inductive because a token only works once its second storage
call is done: `ApprovalSafe` says what each stage of an approval has stored, and
a token is deleted only of a device that `CallSafe` says is revoked already.
`Grown` is what every step does to the devices, so that what was given out goes
on working.  `ReportsLast` needs `CarriesOver`: a heartbeat that has read its
device and not yet written it holds what was reported before.  The only premises
are that the programs are commands and that nobody is no process.

*InfraReports.*  The four theorems rest on

    IInv == Shape /\ (all checks) CheckSafe /\ (all cases) CaseSafe
            /\ (all drifts) of a request /\ (all requests) RequestSafe

`CheckSafe` says that a synchronised check was stored after all its findings, which
makes `AlarmsTrue`: what a comparison does not find among the findings of the prior
check did not fail there.  A job stores its check before the findings, so the
property says nothing of such a prior.  `RequestSafe` says that a request holds
events of its own comparison (`Holds`), and which of them are history and in a case by
now (`Stores`).  The theorems hold with foreign keys and without, and for any number
of failed calls: what a refused or failed call lost is in `lost`, `unread` and
`unfiled`, which each step only fills with what it lost itself.  That with PostgreSQL
whole histories are lost this way is `infra_history`.  What `Compare`, `Regressions` and `Case` find is lemmas of
their own.

*CliFix.*  `TypeCorrect`, `NoHalf` (`NoHalfFile`) and `VerdictsFollow`
(`VerdictFollowsAnswers`) rest on

    IInv == Shape /\ (all files) Clean /\ (all backups) Clean
            /\ (all runs) HoldsFile, HasHeard

`NoHalfFile` speaks of files only and is not inductive: a backup made of a file cut
short, or lines read from it, put it back after the restore is done.  `Clean`
says of files, backups and what a run is about to write that every line is whole
or the path is `Cut`: some run has opened it to restore.  A path once cut stays so
(`CutStays`), because a run that has started keeps its path.  `HoldsFile` adds that
a run past its confirmation has a backup of its own file, `HasHeard` that a verdict
is given after two answers and what it says of them, whatever the service has loaded
in between.  The edits enter as `UpdateParamsResult`: from whole
lines come whole lines.  `UpdateParams` is a recursive function over the parameters;
as no change has more than two (`ParamsPlanned`), `UpdateParamsUnrolled` unrolls it
instead of an induction.  Assumed are that the first files and the edits are whole
lines, and that the words the adapters write are strings, which the provers do
not know of a literal.

`AsPlanned` (`WrittenAsPlanned`) holds for files of any length.  `Value` collects the
words of a value with a recursive function over its lines, and the induction
theorems of the library cannot be used; where an induction is needed the proof takes
the least counterexample instead (`MinOf`, from the well-founded order of the naturals),
so `CollectExists` and `ValueMoved`: the same lines at another place are the same value.
An edit is described without the recursion by `Edited`: line i is written, the d lines
that continue it go or lines are added at the end, and the others move (`Place`).
`BlockKept` is the heart: a value that is not edited keeps all of its lines and
gets none of another's.  From it follow `FirstKept`, `EffectiveKept` and `LinesKept`;
`ParamEdited` shows that `UpdateParam` is such an edit, `PlannedTwo` puts two of
them together.  `EInv`, which holds beside `IInv`, adds that the changes of a run are
of different parameters and that what it writes is what it edited.  The two
exceptions of the property are its own: `Already`, and a file that `Misread` says is
read differently by Postfix.

*StoreAgreement.*  `HistoryStands` (`HistoryKept`) says of PostgresStorage, for any
names, families and number of calls, that evidence, probes and status of a case, the
first outcome of a request, a reserved run and a revocation are never forgotten.  It
rests on

    IInv == now \in Nat /\ HasTables /\ CasesInv /\ TrainingInv /\ ProbesInv /\ DevicesInv

because a row that is found by its id is the row that was stored only while the id is
a key (`Keyed`), and because saves are upserts of what a handler read before.  So
`CasesInv` has rows that the columns can hold and no time in the future, `ProbesInv`
types the runs memory holds, from which `FinishProbe` starts, and `DevicesInv` has every
device of PostgreSQL known to memory, since registration asks there whether an id is
free.  A call that writes none of the four tables, most do not, leaves the invariant
alone (`Elsewhere`, from the frame lemmas of each group of repositories).  For the others
one lemma says what the call makes of its table, in terms of `CaseGrows`,
`OutcomesKept`, `RunsStay` and `DeviceKept`; memory's vectors are searched from the front,
and `FirstById` gives the least index by the well-founded order of the naturals.

*Only model-checked.*  Liveness and everything under fairness (TLAPS proves
neither here): `JobsSettle`, `EndedIsReported`, `RevokedHalts`.
`StoresAgree`, which compares the answers of two transcriptions method by method,
lists in order and to their limits: the sorts and filters the lists are made with
are defined by recursion or by choice among all permutations, and what they return
for every table is an induction over data.

## Where code and documentation disagree

Three are runs that expect a violation, quoted in `PROJECT.json`:

1. Revocation is described as one atomic query; it is three calls, and a check
   created or leased meanwhile stays active (`jobs_revocation`).
2. All drift is said to be kept as history; on PostgreSQL the drift of a domain
   whose asset no observation has made is refused by a foreign key and dropped
   (`infra_history`).
3. A legacy TLS fix is said to be verified only by two explicit protocol alerts,
   resets and generic failures being inconclusive (`docs/remediation.md:21-23`, `:117`);
   `classify_challenge` counts both as refusals (`fix_alerts`).

The models show these too; each can be seen by changing a cfg as said, or by
stating the claim as an invariant:

- The limit of five queued checks counts leased checks, not queued ones
  (`apps/core/src/api/scans.rs:45`).
- Interrupted work is said to become inconclusive (`docs/remediation.md:46-47`);
  nothing calls recovery (`VerifyingIsAttended` without its exception for
  `abandoned` runs).
- Remediations are said to be append-only (`docs/persistence.md:47`, `README.md:68`,
  `docs/MAILENT_COMPLETE_GUIDE.md:652`, `:814`), completed attempts to remain
  (`docs/remediation.md:48`) and a retried request never to start another network
  operation (`:6-7`).  The sync handler replaces a known record by the one the CLI
  sent, attempts included (`api/remediation.rs:102-112`): a delivery repeated after the
  server went on with that record takes its later attempts away, and their requests
  may start probes again (`AttemptsAppendOnly`, `OneProbePerRequest` and `LabelsAgree`
  without `~replaced`).
- Writes are said to be idempotent and replays to change nothing
  (`docs/persistence.md:107-112`); `ForwardSecrecyLost` is stored again for each
  delivery of the session (`pipeline.rs:143-171`; `ChangesReportedOnce` over `Reports`).
- Monitoring is said to be continuous (`docs/MAILENT_COMPLETE_GUIDE.md:111`); one record the import
  refuses silently ends what a sensor reports (`live.rs:150`; `EndedIsReported` without
  `Unimportable`).
- "Device access has been revoked" (`credentials.rs:120`) is also what a command says,
  having erased its valid credentials, when Core only failed to check its token
  (`auth.rs:217-227`; the fault in `Ask`).
- Flow and start time are said to identify a connection; the start time comes
  from another record once the connection has ended, so LiveSensor submits a
  connection under two ids (`apps/sensor/src/normalize.rs:492`).
- Replays are said to create no duplicate assets; two that overlap do
  (`docs/persistence.md:110`).
- `credentials.rs:108`: never erase a newer login when an older process is
  rejected.  A login that saves between `still_current` and the removal is
  erased; a login in progress also finds its file truncated first.
- `docs/remediation.md:129`: a failed check is rolled back without a reload; the
  rollback does reload (`postfix.rs:455`, `dovecot.rs:338`), and the original it
  loads was never checked.
- `docs/MAILENT_COMPLETE_GUIDE.md:123` has the token's hash deleted on revocation;
  `revoke_device_handler` only sets `revoked_at`.
- `docs/MAILENT_COMPLETE_GUIDE.md:670`: guests leave nothing in the database.  The
  choice of store is task-local and defaults to PostgreSQL
  (`dual_storage.rs:27-33`), and tasks spawned by a request do not inherit it
  (`integrations.rs:78`, `probes.rs:141`).
- `docs/persistence.md:81` describes a disk spool; the sensor takes a spool
  directory and keeps everything in memory.

Found while modelling, claimed nowhere: approving a challenge twice registers a
device nobody holds; a report whose handler overlaps a heartbeat half done is lost
until the next one, which is why `ReportsLast` speaks of the others; logout
ignores a request that failed, and the device stays active; two regressions that
are filed at once for a domain without a case open two, and so does one that cannot read
the open ones; a job is answered although its regression was filed nowhere, and the
next check, compared with this one, does not find it again; a prior finding a job
cannot read is reported as newly failing; the check a job's result is compared with
may be a later one; a verdict that comes after the dispatch window may be replaced by
a cancellation; two runs of `mailent fix` at once overwrite
each other's edits, and a restore copies over the file in place; a setting that is
named twice is edited where it comes first, while Postfix takes the last; a value
that an administrator brings to the planned one while the user is asked, over
several lines, loses all but its first, because its continuation lines are removed
before the values are compared (`postfix.rs:42-64`, "cleanly handling continuation
lines" at `postfix.rs:15`) and the exception `Already` in `WrittenAsPlanned` says so;
an indented line of `main.cf` that looks like an assignment of a planned parameter is
rewritten as one, while Postfix takes it for the rest of the value before it (`Misread`).
PostgresStore and MemoryStore differ in the organization of findings, the
assessment of drift, and the order and limits of some lists.

## Not modelled, and the plan

Not modelled because nothing there keeps state that interleaves: reports, read
API, routing, schemas, web, deployment, the wire format.  Not modelled because
it is network input and output whose result is an input of the models: the
active probe, the domain scanner, DNS and CT lookups, running Zeek.

In this order, next:

1. `WrittenAsPlanned` counts lines as present or not; that they keep their order,
   which `Edited` has already, could be said of the whole plan.
2. **CircuitBreaker** of decision support: closed and open under concurrent calls.
3. A sensor whose Core refuses an observation for ever, on top of LiveSensor.
4. **Algorithms** without state: posture, policy evaluation and baselines as
   operators compared with reference definitions over bounded inputs.
5. Assessments on top of IngestPipeline: the observations a synchronisation
   carries, and its retry.
