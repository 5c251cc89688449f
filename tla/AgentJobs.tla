----------------------------- MODULE AgentJobs -----------------------------
(***************************************************************************)
(* Dispatch of domain checks to connected CLI installations.  The web UI   *)
(* creates a job for one device, the device's companion polls for it over  *)
(* HTTP, runs the check and reports the result; the UI polls the job, and  *)
(* an operator may revoke the device at any moment.                        *)
(*                                                                         *)
(* The job and device tables are shared and every HTTP handler is a        *)
(* sequence of separate storage calls, so a handler here is a process with *)
(* a program counter and with the job row it read earlier.  update_job     *)
(* overwrites the whole row with that copy and checks no version.  Only    *)
(* lease_next_job, recover_expired_leases and cancel_active_for_device are *)
(* atomic.  A handler may be dropped between two of its calls, because the *)
(* client disconnected or the server stopped.                              *)
(*                                                                         *)
(* Time is an integer clock.  Its unit is left open: the theorems hold for *)
(* every scale that satisfies TimingAssumption.                            *)
(***************************************************************************)
EXTENDS Integers, FiniteSets

CONSTANTS
  Jobs,            \* job ids that may be created
  Devices,         \* registered devices of one organization
  Handlers,        \* slots for HTTP requests the server works on at once
  NoJob,           \* "no job": a null current_job_id or poll answer
  NoDevice,        \* the device of a free handler slot
  NoHandler,       \* a companion with no request in flight
  DispatchWindow,  \* age beyond which an unstarted job is canceled (60 s)
  LeaseDuration,   \* length of a lease (300 s)
  Stall,           \* longest a poll waits for its lease call (client timeout, 10 s)
  OnlineWindow,    \* age of the last heartbeat of an online device (45 s)
  MaxQueued,       \* checks a device may have "queued" (5)
  MaxAttempts,     \* AgentJob::max_attempts (3)
  LastCreate,      \* bound: no job is created later
  LastFault,       \* bound: nothing is dropped or crashes later
  MaxFaults,       \* bound: number of drops, losses and crashes
  MaxTime          \* bound: the clock stops here

ASSUME SentinelAssumption ==
  NoJob \notin Jobs /\ NoDevice \notin Devices /\ NoHandler \notin Handlers

(* What the dispatch rules need of the timing constants: a lease outlives  *)
(* the window in which a job may be handed out, with a poll's stall on     *)
(* both ends (300 >= 60 + 10 + 10).                                        *)
ASSUME TimingAssumption ==
  /\ {DispatchWindow, LeaseDuration, Stall, OnlineWindow} \subseteq Nat
  /\ LeaseDuration >= DispatchWindow + Stall + Stall

ASSUME BoundAssumption ==
  /\ {MaxQueued, MaxAttempts, LastCreate, LastFault, MaxFaults, MaxTime} \subseteq Nat

VARIABLES
  jobs,        \* the agent_jobs table
  devices,     \* the devices table (the columns dispatch reads or writes)
  handlers,    \* HTTP requests in progress on the server
  companions,  \* the companion process of each device
  now,         \* the clock
  granted,     \* history: how often each job was leased for execution
  faults       \* number of faults so far

vars == <<jobs, devices, handlers, companions, now, granted, faults>>

-----------------------------------------------------------------------------
(* Tables and processes.                                                   *)

Active    == {"Pending", "Leased"}
Terminal  == {"Completed", "Failed", "Canceled"}
NoLease   == -1

\* A row of agent_jobs; "Absent" stands for no row.  Nothing sets the state
\* Running or started_at, so neither appears.
JobRow == [state: {"Absent"} \cup Active \cup Terminal,
           device: Devices \cup {NoDevice},
           created: Nat, lease: Int, attempt: Nat]

AbsentJob == [state |-> "Absent", device |-> NoDevice,
              created |-> 0, lease |-> NoLease, attempt |-> 0]

DeviceRow == [revoked: BOOLEAN, status: {"none", "idle", "busy", "revoked"},
              current: Jobs \cup {NoJob}, completed: Nat, beat: Int]

HandlerPc == {"free",
              "poll_lease", "poll_cancel", "poll_status",
              "report_write", "report_status",
              "scan_count", "scan_create", "get_write",
              "revoke_status", "revoke_cancel"}

\* `verdict` is the state a report handler is about to write.
HandlerState == [pc: HandlerPc, device: Devices \cup {NoDevice},
                 job: Jobs \cup {NoJob}, copy: JobRow, at: Nat,
                 verdict: {"Completed", "Failed"}]

FreeHandler == [pc |-> "free", device |-> NoDevice, job |-> NoJob,
                copy |-> AbsentJob, at |-> 0, verdict |-> "Failed"]

\* A companion runs one thing at a time; `via` is the handler it waits for.
CompanionState == [phase: {"down", "idle", "polling", "running", "reporting", "off"},
                   job: Jobs \cup {NoJob}, via: Handlers \cup {NoHandler}]

Companion(phase, job, via) == [phase |-> phase, job |-> job, via |-> via]

Init ==
  /\ jobs = [j \in Jobs |-> AbsentJob]
  /\ devices = [d \in Devices |->
       [revoked |-> FALSE, status |-> "none", current |-> NoJob,
        completed |-> 0, beat |-> -OnlineWindow - 1]]
  /\ handlers = [h \in Handlers |-> FreeHandler]
  /\ companions = [d \in Devices |-> Companion("down", NoJob, NoHandler)]
  /\ now = 0
  /\ granted = [j \in Jobs |-> 0]
  /\ faults = 0

Exists(j)        == jobs[j].state # "Absent"
IsActive(j)      == jobs[j].state \in Active
IsTerminal(j)    == jobs[j].state \in Terminal
\* Mutant of LeaseExpired: the state is not looked at.
LeaseExpiredInAnyState(j, t) == Exists(j) /\ t > jobs[j].lease
LeaseExpired(j, t) == jobs[j].state = "Leased" /\ t > jobs[j].lease
\* Mutant of TooOld: an expired lease is simply run again.
NeverTooOld(job, t) == FALSE
TooOld(job, t)   == t - job.created > DispatchWindow

Become(h, state) == handlers' = [handlers EXCEPT ![h] = state]
Release(h)       == Become(h, FreeHandler)
At(h, pc)        == handlers[h].pc = pc

\* update_job: the row becomes the given one, whatever it is by now.
UpdateJob(j, row) == jobs' = [jobs EXCEPT ![j] = row]

\* Mutant of UpdateAgentStatus: every report counts as a completed check.
UpdateAgentStatusCounting(d, status, job, increment) ==
  devices' = [devices EXCEPT ![d].status = status, ![d].current = job,
                             ![d].completed = @ + IF status = "idle" THEN 1 ELSE 0]

\* update_agent_status: no check that the device is still active.
UpdateAgentStatus(d, status, job, increment) ==
  devices' = [devices EXCEPT ![d].status = status, ![d].current = job,
                             ![d].completed = @ + increment]

\* The handler's answer reaches the companion if it still waits for it.
Answer(h, d, companion) ==
  companions' = IF companions[d].via = h
                THEN [companions EXCEPT ![d] = companion]
                ELSE companions

-----------------------------------------------------------------------------
(* The web UI: start a check on a device, look at it.                      *)

InstallationOnline(d) ==
  /\ ~devices[d].revoked
  /\ devices[d].status \in {"idle", "busy"}
  /\ now - devices[d].beat <= OnlineWindow

\* Bound: a scan starts only while some job id is left for it.
JobIdLeft ==
  Cardinality({h \in Handlers : handlers[h].pc \in {"scan_count", "scan_create"}})
    < Cardinality({j \in Jobs : ~Exists(j)})

ScanCheckDevice(h, d) ==
  /\ At(h, "free")
  /\ now <= LastCreate
  /\ JobIdLeft
  /\ InstallationOnline(d)
  /\ Become(h, [FreeHandler EXCEPT !.pc = "scan_count", !.device = d])
  /\ UNCHANGED <<jobs, devices, companions, now, granted, faults>>

\* count_active_for_agent: leased jobs only, a Pending job is not counted.
ActiveForAgent(d) == {j \in Jobs : jobs[j].device = d /\ jobs[j].state = "Leased"}

ScanCount(h) ==
  /\ At(h, "scan_count")
  /\ IF Cardinality(ActiveForAgent(handlers[h].device)) >= MaxQueued
     THEN Release(h)
     ELSE Become(h, [handlers[h] EXCEPT !.pc = "scan_create", !.at = now])
  /\ UNCHANGED <<jobs, devices, companions, now, granted, faults>>

ScanCreate(h, j) ==
  /\ At(h, "scan_create")
  /\ ~Exists(j)
  /\ UpdateJob(j, [AbsentJob EXCEPT !.state = "Pending",
                                    !.device = handlers[h].device,
                                    !.created = handlers[h].at])
  /\ Release(h)
  /\ UNCHANGED <<devices, companions, now, granted, faults>>

\* Mutant of GetJob: the age of the job is not looked at.
GetJobOfAnyAge(h, j) ==
  /\ At(h, "free")
  /\ jobs[j].state = "Pending"
  /\ Become(h, [FreeHandler EXCEPT !.pc = "get_write", !.job = j, !.copy = jobs[j]])
  /\ UNCHANGED <<jobs, devices, companions, now, granted, faults>>

\* GET /scans/jobs/{id} cancels a job nobody accepted in time.
GetJob(h, j) ==
  /\ At(h, "free")
  /\ jobs[j].state = "Pending"
  /\ TooOld(jobs[j], now)
  /\ Become(h, [FreeHandler EXCEPT !.pc = "get_write", !.job = j, !.copy = jobs[j]])
  /\ UNCHANGED <<jobs, devices, companions, now, granted, faults>>

GetCancel(h) ==
  /\ At(h, "get_write")
  /\ UpdateJob(handlers[h].job, [handlers[h].copy EXCEPT !.state = "Canceled"])
  /\ Release(h)
  /\ UNCHANGED <<devices, companions, now, granted, faults>>

(* Revocation from the UI, or a logout from the device: three calls.       *)

RevokeDevice(h, d) ==
  /\ At(h, "free")
  /\ devices' = [devices EXCEPT ![d].revoked = TRUE]
  /\ Become(h, [FreeHandler EXCEPT !.pc = "revoke_status", !.device = d])
  /\ UNCHANGED <<jobs, companions, now, granted, faults>>

RevokeStatus(h) ==
  /\ At(h, "revoke_status")
  /\ UpdateAgentStatus(handlers[h].device, "revoked", NoJob, 0)
  /\ Become(h, [handlers[h] EXCEPT !.pc = "revoke_cancel"])
  /\ UNCHANGED <<jobs, companions, now, granted, faults>>

CancelActiveForDevice(h) ==
  /\ At(h, "revoke_cancel")
  /\ jobs' = [j \in Jobs |->
       IF jobs[j].device = handlers[h].device /\ IsActive(j)
       THEN [jobs[j] EXCEPT !.state = "Canceled", !.lease = NoLease]
       ELSE jobs[j]]
  /\ Release(h)
  /\ UNCHANGED <<devices, companions, now, granted, faults>>

-----------------------------------------------------------------------------
(* The companion polls for work.  `at` is the handler's clock reading.     *)

FaultAllowed == faults < MaxFaults /\ now <= LastFault
Fault == FaultAllowed /\ faults' = faults + 1

PollStart(d, h) ==
  /\ companions[d].phase = "idle"
  /\ ~devices[d].revoked
  /\ At(h, "free")
  /\ Become(h, [FreeHandler EXCEPT !.pc = "poll_lease", !.device = d, !.at = now])
  /\ companions' = [companions EXCEPT ![d] = Companion("polling", NoJob, h)]
  /\ UNCHANGED <<jobs, devices, now, granted, faults>>

\* Mutants of Leasable: expired leases are never found; leases do not exclude.
LeasablePendingOnly(d, t) == {j \in Jobs : jobs[j].device = d /\ jobs[j].state = "Pending"}
LeasableIgnoringLeases(d, t) == {j \in Jobs : jobs[j].device = d /\ IsActive(j)}

\* What lease_next_job may hand to device d at time t: the oldest job that
\* is pending or whose lease has run out.
Leasable(d, t) == {j \in Jobs : /\ jobs[j].device = d
                                /\ jobs[j].state = "Pending" \/ LeaseExpired(j, t)}
Oldest(S) == {j \in S : \A k \in S : jobs[j].created <= jobs[k].created}

\* Mutant of LeaseJob: the state Running, which no row may hold, is set at once.
LeaseJobRunning(j, t) == [jobs[j] EXCEPT !.state = "Running",
                                         !.lease = t + LeaseDuration,
                                         !.attempt = @ + 1]

LeaseJob(j, t) == [jobs[j] EXCEPT !.state = "Leased",
                                  !.lease = t + LeaseDuration,
                                  !.attempt = @ + 1]

\* A job leased too late to be run is canceled by the next step instead.
PollLease(h) ==
  LET d == handlers[h].device  t == handlers[h].at IN
  /\ At(h, "poll_lease")
  /\ \/ /\ Leasable(d, t) = {}
        /\ Become(h, [handlers[h] EXCEPT !.pc = "poll_status"])
        /\ UNCHANGED <<jobs, granted>>
     \/ \E j \in Oldest(Leasable(d, t)) :
          /\ UpdateJob(j, LeaseJob(j, t))
          /\ Become(h, [handlers[h] EXCEPT
               !.pc = IF TooOld(jobs[j], t) THEN "poll_cancel" ELSE "poll_status",
               !.job = j,
               !.copy = LeaseJob(j, t)])
          /\ granted' = [granted EXCEPT ![j] = @ + IF TooOld(jobs[j], t) THEN 0 ELSE 1]
  /\ UNCHANGED <<devices, companions, now, faults>>

PollCancel(h) ==
  /\ At(h, "poll_cancel")
  /\ UpdateJob(handlers[h].job,
               [handlers[h].copy EXCEPT !.state = "Canceled", !.lease = NoLease])
  /\ Release(h)
  /\ Answer(h, handlers[h].device, Companion("idle", NoJob, NoHandler))
  /\ UNCHANGED <<devices, now, granted, faults>>

PollStatus(h) ==
  LET j == handlers[h].job IN
  /\ At(h, "poll_status")
  /\ UpdateAgentStatus(handlers[h].device, IF j = NoJob THEN "idle" ELSE "busy", j, 0)
  /\ Release(h)
  /\ Answer(h, handlers[h].device,
            Companion(IF j = NoJob THEN "idle" ELSE "running", j, NoHandler))
  /\ UNCHANGED <<jobs, now, granted, faults>>

-----------------------------------------------------------------------------
(* The companion reports a result: the complete and fail handlers.         *)

ReportStart(d, h, verdict) ==
  LET j == companions[d].job IN
  /\ companions[d].phase = "running"
  /\ ~devices[d].revoked
  /\ At(h, "free")
  /\ Become(h, [FreeHandler EXCEPT !.pc = "report_write", !.device = d, !.job = j,
                                   !.copy = jobs[j], !.verdict = verdict])
  /\ companions' = [companions EXCEPT ![d] = Companion("reporting", j, h)]
  /\ UNCHANGED <<jobs, devices, now, granted, faults>>

ReportWrite(h) ==
  /\ At(h, "report_write")
  /\ UpdateJob(handlers[h].job, [handlers[h].copy EXCEPT !.state = handlers[h].verdict])
  /\ Become(h, [handlers[h] EXCEPT !.pc = "report_status"])
  /\ UNCHANGED <<devices, companions, now, granted, faults>>

ReportStatus(h) ==
  /\ At(h, "report_status")
  /\ UpdateAgentStatus(handlers[h].device, "idle", NoJob,
                       IF handlers[h].verdict = "Completed" THEN 1 ELSE 0)
  /\ Release(h)
  /\ Answer(h, handlers[h].device, Companion("idle", NoJob, NoHandler))
  /\ UNCHANGED <<jobs, now, granted, faults>>

-----------------------------------------------------------------------------
(* The companion process.  A rejected request erases the credentials and   *)
(* ends it; a failed one is not repeated.                                  *)

Start(d) ==
  /\ companions[d].phase = "down"
  /\ companions' = [companions EXCEPT ![d].phase = "idle"]
  /\ UNCHANGED <<jobs, devices, handlers, now, granted, faults>>

Heartbeat(d) ==
  /\ companions[d].phase \in {"idle", "running", "reporting"}
  /\ ~devices[d].revoked
  /\ devices' = [devices EXCEPT
       ![d].status = IF companions[d].phase = "idle" THEN "idle" ELSE "busy",
       ![d].beat = now]
  /\ UNCHANGED <<jobs, handlers, companions, now, granted, faults>>

\* Any request of a revoked device: heartbeat, poll or report.
Rejected(d) ==
  /\ companions[d].phase \in {"idle", "running", "reporting"}
  /\ devices[d].revoked
  /\ companions' = [companions EXCEPT ![d] = Companion("off", NoJob, NoHandler)]
  /\ UNCHANGED <<jobs, devices, handlers, now, granted, faults>>

\* The companion gives up on its request, or its report never arrives.
TimeOut(d) ==
  /\ Fault
  /\ companions[d].phase \in {"polling", "running", "reporting"}
  /\ companions' = [companions EXCEPT ![d] = Companion("idle", NoJob, NoHandler)]
  /\ UNCHANGED <<jobs, devices, handlers, now, granted>>

Crash(d) ==
  /\ Fault
  /\ companions[d].phase \notin {"down", "off"}
  /\ companions' = [companions EXCEPT ![d] = Companion("down", NoJob, NoHandler)]
  /\ UNCHANGED <<jobs, devices, handlers, now, granted>>

\* A handler is dropped where it waits; a companion waiting for it sees an error.
Drop(h) ==
  /\ Fault
  /\ ~At(h, "free")
  /\ Release(h)
  /\ companions' = [d \in Devices |->
       IF companions[d].via = h THEN Companion("idle", NoJob, NoHandler)
                                ELSE companions[d]]
  /\ UNCHANGED <<jobs, devices, now, granted>>

-----------------------------------------------------------------------------
(* recover_expired_leases, offered by the repository to a periodic task.   *)

Recovered(row) ==
  IF row.attempt >= MaxAttempts
  THEN [row EXCEPT !.state = "Failed", !.lease = NoLease]
  ELSE [row EXCEPT !.state = "Pending", !.lease = NoLease]

RecoverExpiredLeases ==
  /\ \E j \in Jobs : LeaseExpired(j, now)
  /\ jobs' = [j \in Jobs |-> IF LeaseExpired(j, now) THEN Recovered(jobs[j]) ELSE jobs[j]]
  /\ UNCHANGED <<devices, handlers, companions, now, granted, faults>>

\* A poll reaches its lease call within Stall of reading the clock: the
\* companion abandons the request after that, and the server drops it.
Tick ==
  /\ now < MaxTime
  /\ \A h \in Handlers : At(h, "poll_lease") => now < handlers[h].at + Stall
  /\ now' = now + 1
  /\ UNCHANGED <<jobs, devices, handlers, companions, granted, faults>>

-----------------------------------------------------------------------------
HandlerStep(h) ==
  \/ ScanCount(h)
  \/ \E j \in Jobs : ScanCreate(h, j)
  \/ GetCancel(h)
  \/ RevokeStatus(h)
  \/ CancelActiveForDevice(h)
  \/ PollLease(h)
  \/ PollCancel(h)
  \/ PollStatus(h)
  \/ ReportWrite(h)
  \/ ReportStatus(h)

CompanionStep(d) ==
  \/ Start(d)
  \/ Heartbeat(d)
  \/ Rejected(d)
  \/ \E h \in Handlers : PollStart(d, h)
  \/ \E h \in Handlers, verdict \in {"Completed", "Failed"} : ReportStart(d, h, verdict)

WebStep(h) ==
  \/ \E d \in Devices : ScanCheckDevice(h, d) \/ RevokeDevice(h, d)
  \/ \E j \in Jobs : GetJob(h, j)

FaultStep ==
  \/ \E d \in Devices : TimeOut(d) \/ Crash(d)
  \/ \E h \in Handlers : Drop(h)

Next ==
  \/ \E h \in Handlers : HandlerStep(h) \/ WebStep(h)
  \/ \E d \in Devices : CompanionStep(d)
  \/ FaultStep
  \/ RecoverExpiredLeases
  \/ Tick

Spec == Init /\ [][Next]_vars

(* The server runs the handlers it holds and the clock advances; a device  *)
(* that works restarts its companion and keeps polling and reporting.      *)
(* Nothing obliges a user to act, and no task is assumed to recover leases.*)
Fairness ==
  /\ WF_vars(Tick)
  /\ \A h \in Handlers : WF_vars(HandlerStep(h))
  /\ \A d \in Devices :
       /\ WF_vars(Start(d))
       /\ SF_vars(\E h \in Handlers : PollStart(d, h))
       /\ SF_vars(\E h \in Handlers, verdict \in {"Completed", "Failed"} :
                    ReportStart(d, h, verdict))

FairSpec == Spec /\ Fairness

-----------------------------------------------------------------------------
(* Every table, handler and companion keeps its shape: a handler that will *)
(* write a row back holds one, and nothing is ever counted below zero.     *)
TypeOK ==
  /\ jobs \in [Jobs -> JobRow]
  /\ devices \in [Devices -> DeviceRow]
  /\ handlers \in [Handlers -> HandlerState]
  /\ companions \in [Devices -> CompanionState]
  /\ now \in Nat
  /\ granted \in [Jobs -> Nat]
  /\ faults \in Nat

(* A check is handed to a device for execution at most once, although      *)
(* expired leases are given out again, recovery returns jobs to the queue, *)
(* and companions crash, time out and come back (agent.rs, poll handler).  *)
GrantedAtMostOnce == \A j \in Jobs : granted[j] <= 1

(* A finished check is never queued or leased again, although handlers     *)
(* write back whole rows they read before other handlers changed them.     *)
TerminalNotReopened ==
  [][\A j \in Jobs : IsTerminal(j) => IsTerminal(j)']_vars

(* The device's verdict stands while its check is fresh.  The complete and  *)
(* fail handlers of agent.rs overwrite without looking, and so does a      *)
(* cancellation, with the row its handler read before the report came: a   *)
(* stored verdict gives way to a cancellation only beyond the dispatch     *)
(* window, and to another verdict only where recovery had failed the check *)
(* for want of attempts while its device was still working on it.          *)
OneVerdict ==
  [][\A j \in Jobs :
       /\ jobs[j].state = "Completed" => jobs'[j].state # "Failed"
       /\ jobs[j].state = "Failed" /\ jobs'[j].state = "Completed" => jobs[j].attempt >= MaxAttempts
       /\ jobs[j].state \in {"Completed", "Failed"} /\ jobs'[j].state = "Canceled" =>
            now - jobs[j].created > DispatchWindow]_vars

(* completed_jobs_count never counts a check twice: it stays within the    *)
(* checks that were really handed to the device.                           *)
CompletedCounter ==
  \A d \in Devices :
    devices[d].completed <=
      Cardinality({j \in Jobs : jobs[j].device = d /\ granted[j] > 0})

(* Once the faults stop, every check of a connected device ends: it is     *)
(* reported, or canceled by a later poll when its lease has run out.       *)
JobsSettle ==
  \A j \in Jobs :
    IsActive(j) ~> (IsTerminal(j) \/ \E d \in Devices : jobs[j].device = d /\ devices[d].revoked)

(* Dispatch as its users see it.  A handler may hand a job out a stall     *)
(* after it judged the job's age.                                          *)
Phase(j) ==
  IF ~Exists(j) THEN "absent"
  ELSE IF IsTerminal(j) THEN "settled"
  ELSE CASE granted[j] = 0 -> "waiting"
         [] granted[j] = 1 -> "handed"
         [] OTHER          -> "handed again"

Contract == INSTANCE DispatchContract WITH
  Freshness <- DispatchWindow + Stall,
  phase     <- [j \in Jobs |-> Phase(j)],
  accepted  <- [j \in Jobs |-> jobs[j].created],
  clock     <- now

(* The handlers, leases and faults together keep the contract: a check is  *)
(* handed out at most once, while fresh, and never after it was settled.   *)
ImplementsContract == Contract!Spec

(* The documented promise of revocation: a revoked device has no active    *)
(* job left once no revocation is still being carried out.                 *)
RevokedDeviceHasNoActiveJob ==
  \A d \in Devices :
    devices[d].revoked /\ (\A h \in Handlers : handlers[h].pc \notin {"revoke_status", "revoke_cancel"})
      => ~\E j \in Jobs : jobs[j].device = d /\ IsActive(j)

=============================================================================
