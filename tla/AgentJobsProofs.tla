-------------------------- MODULE AgentJobsProofs --------------------------
(***************************************************************************)
(* Proofs about AgentJobs for every set of jobs, devices and handlers and  *)
(* every timing that satisfies TimingAssumption.                           *)
(***************************************************************************)
EXTENDS AgentJobs, FiniteSetTheorems, TLAPS

(* A companion that runs something runs a job. *)
RunningHasJob ==
  \A d \in Devices : companions[d].phase = "running" => companions[d].job \in Jobs

TypeInv == TypeOK /\ RunningHasJob

LEMMA NoLeaseType == NoLease \in Int
BY DEF NoLease

LEMMA AbsentJobType == AbsentJob \in JobRow
BY DEF AbsentJob, JobRow, NoLease, Active, Terminal

LEMMA FreeHandlerType == FreeHandler \in HandlerState
BY AbsentJobType DEF FreeHandler, HandlerState, HandlerPc

(* The three ways a step writes a table keep the table's type. *)
LEMMA BecomeType ==
  ASSUME TypeOK, NEW h, NEW x \in HandlerState, Become(h, x)
  PROVE  handlers' \in [Handlers -> HandlerState]
BY DEF TypeOK, Become

LEMMA ReleaseType ==
  ASSUME TypeOK, NEW h, Release(h)
  PROVE  handlers' \in [Handlers -> HandlerState]
BY FreeHandlerType, BecomeType DEF Release

LEMMA UpdateJobType ==
  ASSUME TypeOK, NEW j, NEW row \in JobRow, UpdateJob(j, row)
  PROVE  jobs' \in [Jobs -> JobRow]
BY DEF TypeOK, UpdateJob

LEMMA UpdateAgentStatusType ==
  ASSUME TypeOK, NEW d, NEW status \in {"idle", "busy", "revoked"},
         NEW job \in Jobs \cup {NoJob}, NEW increment \in Nat,
         UpdateAgentStatus(d, status, job, increment)
  PROVE  devices' \in [Devices -> DeviceRow]
<1>1. CASE d \in Devices
  <2>1. devices[d] \in DeviceRow
    BY <1>1 DEF TypeOK
  <2>2. devices[d].completed + increment \in Nat
    BY <2>1 DEF DeviceRow
  <2>3. [devices[d] EXCEPT !.status = status, !.current = job,
                           !.completed = @ + increment] \in DeviceRow
    BY <2>1, <2>2 DEF DeviceRow
  <2> QED
    BY <1>1, <2>3 DEF TypeOK, UpdateAgentStatus
<1>2. CASE d \notin Devices
  BY <1>2 DEF TypeOK, UpdateAgentStatus
<1> QED
  BY <1>1, <1>2

(* What a companion may become. *)
GoodCompanion(c) == c \in CompanionState /\ (c.phase = "running" => c.job \in Jobs)

LEMMA AnswerType ==
  ASSUME TypeInv, NEW h, NEW d, NEW c, GoodCompanion(c), Answer(h, d, c)
  PROVE  companions' \in [Devices -> CompanionState] /\ RunningHasJob'
BY DEF TypeInv, TypeOK, RunningHasJob, Answer, GoodCompanion

LEMMA WaitingCompanion ==
  \A phase \in {"down", "idle", "off"} : GoodCompanion(Companion(phase, NoJob, NoHandler))
BY DEF GoodCompanion, Companion, CompanionState

LEMMA TypeInvInit == Init => TypeInv
<1> SUFFICES ASSUME Init PROVE TypeInv
  OBVIOUS
<1>1. jobs \in [Jobs -> JobRow]
  BY AbsentJobType DEF Init
<1>2. devices \in [Devices -> DeviceRow]
  BY TimingAssumption DEF Init, DeviceRow
<1>3. handlers \in [Handlers -> HandlerState]
  BY FreeHandlerType DEF Init
<1>4. companions \in [Devices -> CompanionState] /\ RunningHasJob
  BY DEF Init, CompanionState, Companion, RunningHasJob
<1>5. now \in Nat /\ granted \in [Jobs -> Nat] /\ faults \in Nat
  BY DEF Init
<1> QED
  BY <1>1, <1>2, <1>3, <1>4, <1>5 DEF TypeInv, TypeOK

LEMMA TypeInvStep == TypeInv /\ [Next]_vars => TypeInv'
<1> SUFFICES ASSUME TypeInv, [Next]_vars PROVE TypeInv'
  OBVIOUS
<1>k. TypeOK /\ RunningHasJob
  BY DEF TypeInv
<1>a. AbsentJob \in JobRow /\ FreeHandler \in HandlerState
  BY AbsentJobType, FreeHandlerType
<1>h. ASSUME NEW h \in Handlers, HandlerStep(h) PROVE TypeInv'
  <2> DEFINE H == handlers[h]
  <2>a. H \in HandlerState
    BY <1>k DEF TypeOK
  <2>b. /\ H.device \in Devices \cup {NoDevice}
        /\ H.job \in Jobs \cup {NoJob}
        /\ H.copy \in JobRow
        /\ H.at \in Nat
        /\ H.verdict \in {"Completed", "Failed"}
    BY <2>a DEF HandlerState
  <2>1. CASE ScanCount(h)
    <3>1. [H EXCEPT !.pc = "scan_create", !.at = now] \in HandlerState
      BY <1>k, <2>a DEF TypeOK, HandlerState, HandlerPc
    <3>2. handlers' \in [Handlers -> HandlerState]
      BY <1>k, <2>1, <3>1, BecomeType, ReleaseType DEF ScanCount
    <3> QED
      BY <1>k, <2>1, <3>2 DEF ScanCount, TypeInv, TypeOK, RunningHasJob
  <2>2. ASSUME NEW j \in Jobs, ScanCreate(h, j) PROVE TypeInv'
    <3>1. [AbsentJob EXCEPT !.state = "Pending", !.device = H.device,
                            !.created = H.at] \in JobRow
      BY <2>b, NoLeaseType DEF JobRow, AbsentJob, Active, Terminal
    <3>2. jobs' \in [Jobs -> JobRow] /\ handlers' \in [Handlers -> HandlerState]
      BY <1>k, <2>2, <3>1, UpdateJobType, ReleaseType DEF ScanCreate
    <3> QED
      BY <1>k, <2>2, <3>2 DEF ScanCreate, TypeInv, TypeOK, RunningHasJob
  <2>3. CASE GetCancel(h)
    <3>1. [H.copy EXCEPT !.state = "Canceled"] \in JobRow
      BY <2>b DEF JobRow, Terminal
    <3>2. jobs' \in [Jobs -> JobRow] /\ handlers' \in [Handlers -> HandlerState]
      BY <1>k, <2>3, <3>1, UpdateJobType, ReleaseType DEF GetCancel
    <3> QED
      BY <1>k, <2>3, <3>2 DEF GetCancel, TypeInv, TypeOK, RunningHasJob
  <2>4. CASE RevokeStatus(h)
    <3>1. [H EXCEPT !.pc = "revoke_cancel"] \in HandlerState
      BY <2>a DEF HandlerState, HandlerPc
    <3>2. handlers' \in [Handlers -> HandlerState] /\ devices' \in [Devices -> DeviceRow]
      BY <1>k, <2>4, <3>1, BecomeType, UpdateAgentStatusType DEF RevokeStatus
    <3> QED
      BY <1>k, <2>4, <3>2 DEF RevokeStatus, TypeInv, TypeOK, RunningHasJob
  <2>5. CASE CancelActiveForDevice(h)
    <3>1. jobs' \in [Jobs -> JobRow]
      BY <1>k, <2>5, NoLeaseType DEF CancelActiveForDevice, TypeOK, JobRow, Terminal
    <3>2. handlers' \in [Handlers -> HandlerState]
      BY <1>k, <2>5, ReleaseType DEF CancelActiveForDevice
    <3> QED
      BY <1>k, <2>5, <3>1, <3>2 DEF CancelActiveForDevice, TypeInv, TypeOK, RunningHasJob
  <2>6. CASE PollLease(h)
    <3> DEFINE d == H.device  t == H.at
    <3>1. CASE /\ Leasable(d, t) = {}
               /\ Become(h, [H EXCEPT !.pc = "poll_status"])
               /\ UNCHANGED <<jobs, granted, devices, companions, now, faults>>
      <4>1. [H EXCEPT !.pc = "poll_status"] \in HandlerState
        BY <2>a DEF HandlerState, HandlerPc
      <4>2. handlers' \in [Handlers -> HandlerState]
        BY <1>k, <3>1, <4>1, BecomeType
      <4> QED
        BY <1>k, <3>1, <4>2 DEF TypeInv, TypeOK, RunningHasJob
    <3>2. ASSUME NEW j \in Oldest(Leasable(d, t)),
                 UpdateJob(j, LeaseJob(j, t)),
                 Become(h, [H EXCEPT
                   !.pc = IF TooOld(jobs[j], t) THEN "poll_cancel" ELSE "poll_status",
                   !.job = j, !.copy = LeaseJob(j, t)]),
                 granted' = [granted EXCEPT ![j] = @ + IF TooOld(jobs[j], t) THEN 0 ELSE 1],
                 UNCHANGED <<devices, companions, now, faults>>
          PROVE  TypeInv'
      <4>1. j \in Jobs /\ t \in Nat
        BY <2>b DEF Oldest, Leasable
      <4>a. t + LeaseDuration \in Int /\ jobs[j] \in JobRow
        BY <1>k, <4>1, TimingAssumption DEF TypeOK
      <4>b. jobs[j].attempt + 1 \in Nat
        BY <4>a DEF JobRow
      <4>2. LeaseJob(j, t) \in JobRow
        BY <4>a, <4>b DEF LeaseJob, JobRow, Active
      <4>3. jobs' \in [Jobs -> JobRow]
        BY <1>k, <3>2, <4>2, UpdateJobType
      <4>4. [H EXCEPT !.pc = IF TooOld(jobs[j], t) THEN "poll_cancel" ELSE "poll_status",
                      !.job = j, !.copy = LeaseJob(j, t)] \in HandlerState
        BY <2>a, <4>1, <4>2 DEF HandlerState, HandlerPc
      <4>5. handlers' \in [Handlers -> HandlerState]
        BY <1>k, <3>2, <4>4, BecomeType
      <4>6. granted' \in [Jobs -> Nat]
        BY <1>k, <3>2, <4>1 DEF TypeOK
      <4> QED
        BY <1>k, <3>2, <4>3, <4>5, <4>6 DEF TypeInv, TypeOK, RunningHasJob
    <3> QED
      BY <2>6, <3>1, <3>2 DEF PollLease
  <2>7. CASE PollCancel(h)
    <3>1. [H.copy EXCEPT !.state = "Canceled", !.lease = NoLease] \in JobRow
      BY <2>b, NoLeaseType DEF JobRow, Terminal
    <3>2. jobs' \in [Jobs -> JobRow] /\ handlers' \in [Handlers -> HandlerState]
      BY <1>k, <2>7, <3>1, UpdateJobType, ReleaseType DEF PollCancel
    <3>3. companions' \in [Devices -> CompanionState] /\ RunningHasJob'
      BY <2>7, WaitingCompanion, AnswerType DEF PollCancel
    <3> QED
      BY <1>k, <2>7, <3>2, <3>3 DEF PollCancel, TypeInv, TypeOK
  <2>8. CASE PollStatus(h)
    <3>1. handlers' \in [Handlers -> HandlerState]
      BY <1>k, <2>8, ReleaseType DEF PollStatus
    <3>2. devices' \in [Devices -> DeviceRow]
      BY <1>k, <2>8, <2>b, UpdateAgentStatusType DEF PollStatus
    <3>3. GoodCompanion(Companion(IF H.job = NoJob THEN "idle" ELSE "running", H.job, NoHandler))
      BY <2>b DEF GoodCompanion, Companion, CompanionState
    <3>4. companions' \in [Devices -> CompanionState] /\ RunningHasJob'
      BY <2>8, <3>3, AnswerType DEF PollStatus
    <3> QED
      BY <1>k, <2>8, <3>1, <3>2, <3>4 DEF PollStatus, TypeInv, TypeOK
  <2>9. CASE ReportWrite(h)
    <3>1. [H.copy EXCEPT !.state = H.verdict] \in JobRow
      BY <2>b DEF JobRow, Terminal
    <3>2. [H EXCEPT !.pc = "report_status"] \in HandlerState
      BY <2>a DEF HandlerState, HandlerPc
    <3>3. jobs' \in [Jobs -> JobRow] /\ handlers' \in [Handlers -> HandlerState]
      BY <1>k, <2>9, <3>1, <3>2, UpdateJobType, BecomeType DEF ReportWrite
    <3> QED
      BY <1>k, <2>9, <3>3 DEF ReportWrite, TypeInv, TypeOK, RunningHasJob
  <2>10. CASE ReportStatus(h)
    <3>1. handlers' \in [Handlers -> HandlerState]
      BY <1>k, <2>10, ReleaseType DEF ReportStatus
    <3>2. devices' \in [Devices -> DeviceRow]
      BY <1>k, <2>10, UpdateAgentStatusType DEF ReportStatus
    <3>3. companions' \in [Devices -> CompanionState] /\ RunningHasJob'
      BY <2>10, WaitingCompanion, AnswerType DEF ReportStatus
    <3> QED
      BY <1>k, <2>10, <3>1, <3>2, <3>3 DEF ReportStatus, TypeInv, TypeOK
  <2> QED
    BY <1>h, <2>1, <2>2, <2>3, <2>4, <2>5, <2>6, <2>7, <2>8, <2>9, <2>10 DEF HandlerStep
<1>w. ASSUME NEW h \in Handlers, WebStep(h) PROVE TypeInv'
  <2>1. ASSUME NEW d \in Devices, ScanCheckDevice(h, d) PROVE TypeInv'
    <3>1. [FreeHandler EXCEPT !.pc = "scan_count", !.device = d] \in HandlerState
      BY <1>a DEF HandlerState, HandlerPc
    <3>2. handlers' \in [Handlers -> HandlerState]
      BY <1>k, <2>1, <3>1, BecomeType DEF ScanCheckDevice
    <3> QED
      BY <1>k, <2>1, <3>2 DEF ScanCheckDevice, TypeInv, TypeOK, RunningHasJob
  <2>2. ASSUME NEW d \in Devices, RevokeDevice(h, d) PROVE TypeInv'
    <3>1. [FreeHandler EXCEPT !.pc = "revoke_status", !.device = d] \in HandlerState
      BY <1>a DEF HandlerState, HandlerPc
    <3>2. handlers' \in [Handlers -> HandlerState]
      BY <1>k, <2>2, <3>1, BecomeType DEF RevokeDevice
    <3>3. devices' \in [Devices -> DeviceRow]
      BY <1>k, <2>2 DEF RevokeDevice, TypeOK, DeviceRow
    <3> QED
      BY <1>k, <2>2, <3>2, <3>3 DEF RevokeDevice, TypeInv, TypeOK, RunningHasJob
  <2>3. ASSUME NEW j \in Jobs, GetJob(h, j) PROVE TypeInv'
    <3>1. [FreeHandler EXCEPT !.pc = "get_write", !.job = j, !.copy = jobs[j]] \in HandlerState
      BY <1>a, <1>k DEF TypeOK, HandlerState, HandlerPc
    <3>2. handlers' \in [Handlers -> HandlerState]
      BY <1>k, <2>3, <3>1, BecomeType DEF GetJob
    <3> QED
      BY <1>k, <2>3, <3>2 DEF GetJob, TypeInv, TypeOK, RunningHasJob
  <2> QED
    BY <1>w, <2>1, <2>2, <2>3 DEF WebStep
<1>c. ASSUME NEW d \in Devices, CompanionStep(d) PROVE TypeInv'
  <2>1. CASE Start(d)
    BY <1>k, <2>1 DEF Start, CompanionState, TypeInv, TypeOK, RunningHasJob
  <2>2. CASE Heartbeat(d)
    <3>1. devices' \in [Devices -> DeviceRow]
      <4>1. devices[d] \in DeviceRow /\ now \in Int
        BY <1>k DEF TypeOK
      <4>2. \A s \in {"idle", "busy"} :
              [devices[d] EXCEPT !.status = s, !.beat = now] \in DeviceRow
        BY <4>1 DEF DeviceRow
      <4> QED
        BY <1>k, <2>2, <4>2 DEF Heartbeat, TypeOK
    <3> QED
      BY <1>k, <2>2, <3>1 DEF Heartbeat, TypeInv, TypeOK, RunningHasJob
  <2>3. CASE Rejected(d)
    BY <1>k, <2>3, WaitingCompanion
    DEF Rejected, GoodCompanion, TypeInv, TypeOK, RunningHasJob
  <2>4. ASSUME NEW h \in Handlers, PollStart(d, h) PROVE TypeInv'
    <3>1. [FreeHandler EXCEPT !.pc = "poll_lease", !.device = d, !.at = now] \in HandlerState
      BY <1>a, <1>k DEF TypeOK, HandlerState, HandlerPc
    <3>2. handlers' \in [Handlers -> HandlerState]
      BY <1>k, <2>4, <3>1, BecomeType DEF PollStart
    <3> QED
      BY <1>k, <2>4, <3>2
      DEF PollStart, Companion, CompanionState, TypeInv, TypeOK, RunningHasJob
  <2>5. ASSUME NEW h \in Handlers, NEW verdict \in {"Completed", "Failed"},
               ReportStart(d, h, verdict)
        PROVE  TypeInv'
    <3> DEFINE j == companions[d].job
    <3>1. j \in Jobs
      BY <1>k, <2>5 DEF ReportStart, RunningHasJob
    <3>2. [FreeHandler EXCEPT !.pc = "report_write", !.device = d, !.job = j,
                              !.copy = jobs[j], !.verdict = verdict] \in HandlerState
      BY <1>a, <1>k, <3>1 DEF TypeOK, HandlerState, HandlerPc
    <3>3. handlers' \in [Handlers -> HandlerState]
      BY <1>k, <2>5, <3>2, BecomeType DEF ReportStart
    <3> QED
      BY <1>k, <2>5, <3>1, <3>3
      DEF ReportStart, Companion, CompanionState, TypeInv, TypeOK, RunningHasJob
  <2> QED
    BY <1>c, <2>1, <2>2, <2>3, <2>4, <2>5 DEF CompanionStep
<1>f. CASE FaultStep
  <2> USE WaitingCompanion DEF Fault, GoodCompanion, TypeInv, TypeOK, RunningHasJob
  <2>1. ASSUME NEW d \in Devices, TimeOut(d) PROVE TypeInv'
    BY <1>k, <2>1 DEF TimeOut
  <2>2. ASSUME NEW d \in Devices, Crash(d) PROVE TypeInv'
    BY <1>k, <2>2 DEF Crash
  <2>3. ASSUME NEW h \in Handlers, Drop(h) PROVE TypeInv'
    <3>1. handlers' \in [Handlers -> HandlerState]
      BY <1>k, <2>3, ReleaseType DEF Drop
    <3>2. companions' \in [Devices -> CompanionState] /\ RunningHasJob'
      BY <1>k, <2>3 DEF Drop
    <3> QED
      BY <1>k, <2>3, <3>1, <3>2 DEF Drop
  <2> QED
    BY <1>f, <2>1, <2>2, <2>3 DEF FaultStep
<1>r. CASE RecoverExpiredLeases
  <2>1. \A row \in JobRow : Recovered(row) \in JobRow
    BY NoLeaseType DEF Recovered, JobRow, Active, Terminal
  <2>2. jobs' \in [Jobs -> JobRow]
    BY <1>k, <1>r, <2>1 DEF RecoverExpiredLeases, TypeOK
  <2> QED
    BY <1>k, <1>r, <2>2 DEF RecoverExpiredLeases, TypeInv, TypeOK, RunningHasJob
<1>t. CASE Tick
  BY <1>k, <1>t DEF Tick, TypeInv, TypeOK, RunningHasJob
<1>u. CASE UNCHANGED vars
  BY <1>k, <1>u DEF vars, TypeInv, TypeOK, RunningHasJob
<1> QED
  BY <1>h, <1>w, <1>c, <1>f, <1>r, <1>t, <1>u DEF Next

(* Type correctness of the tables, the handlers and the companions. *)
THEOREM TypeCorrect == Spec => []TypeOK
<1>1. TypeInv => TypeOK
  BY DEF TypeInv
<1> QED
  BY <1>1, TypeInvInit, TypeInvStep, PTL DEF Spec
-----------------------------------------------------------------------------
(* The inductive invariant behind at-most-once dispatch.  A lease outlives *)
(* the window in which its job may be handed out, so whoever finds the     *)
(* lease expired, or the job requeued by recovery, finds the job too old.  *)

JobSafe(j) ==
  /\ Exists(j) => jobs[j].created <= now
  /\ jobs[j].state = "Leased" =>
       jobs[j].lease >= jobs[j].created + LeaseDuration - Stall
  /\ jobs[j].state = "Pending" /\ granted[j] > 0 =>
       now > jobs[j].created + DispatchWindow + Stall
  /\ granted[j] > 0 => Exists(j)
  /\ granted[j] <= 1

HandlerSafe(h) ==
  /\ At(h, "poll_lease") =>
       /\ handlers[h].at <= now /\ now <= handlers[h].at + Stall
       /\ handlers[h].job = NoJob
  /\ At(h, "scan_create") => handlers[h].at <= now
  /\ handlers[h].pc \in {"get_write", "poll_cancel", "report_write"} =>
       /\ handlers[h].job \in Jobs
       /\ Exists(handlers[h].job)
       /\ handlers[h].copy.created = jobs[handlers[h].job].created
  /\ At(h, "poll_status") /\ handlers[h].job # NoJob => Exists(handlers[h].job)

CompanionSafe(d) == companions[d].phase = "running" => Exists(companions[d].job)

IInv ==
  /\ TypeInv
  /\ \A j \in Jobs : JobSafe(j)
  /\ \A h \in Handlers : HandlerSafe(h)
  /\ \A d \in Devices : CompanionSafe(d)

(* What a step may do to one row of the job table. *)
Kept(j) == jobs'[j] = jobs[j] /\ granted'[j] = granted[j]

Created(j) ==
  /\ ~Exists(j) /\ jobs'[j].state = "Pending"
  /\ jobs'[j].created <= now
  /\ granted'[j] = granted[j]

LeasedOut(j, t) ==
  /\ t <= now /\ now <= t + Stall
  /\ jobs[j].state = "Pending" \/ LeaseExpired(j, t)
  /\ jobs'[j].state = "Leased" /\ jobs'[j].lease = t + LeaseDuration
  /\ jobs'[j].created = jobs[j].created
  /\ granted'[j] = granted[j] + IF TooOld(jobs[j], t) THEN 0 ELSE 1

Settled(j) ==
  /\ Exists(j) /\ jobs'[j].state \in Terminal
  /\ jobs'[j].created = jobs[j].created
  /\ granted'[j] = granted[j]

Requeued(j) ==
  /\ LeaseExpired(j, now) /\ jobs'[j].state = "Pending"
  /\ jobs'[j].created = jobs[j].created
  /\ granted'[j] = granted[j]

(* What a step may do to the job table and the clock. *)
TableStep ==
  \/ now' \in {now, now + 1} /\ \A j \in Jobs : Kept(j)
  \/ now' = now /\ \E j \in Jobs : Created(j) /\ \A k \in Jobs \ {j} : Kept(k)
  \/ now' = now /\ \E j \in Jobs, t \in Nat :
       LeasedOut(j, t) /\ \A k \in Jobs \ {j} : Kept(k)
  \/ now' = now /\ \A j \in Jobs : Kept(j) \/ Settled(j) \/ Requeued(j)

LEMMA TableStepOfNext == IInv /\ [Next]_vars => TableStep
<1> SUFFICES ASSUME IInv, [Next]_vars PROVE TableStep
  OBVIOUS
<1>k. TypeOK /\ RunningHasJob
  BY DEF IInv, TypeInv
<1>n. UNCHANGED <<jobs, granted, now>> => TableStep
  BY DEF TableStep, Kept
<1>h. ASSUME NEW h \in Handlers, HandlerStep(h) PROVE TableStep
  <2> DEFINE H == handlers[h]
  <2>a. HandlerSafe(h) /\ H \in HandlerState
    BY <1>k DEF IInv, TypeOK
  <2>2. ASSUME NEW j \in Jobs, ScanCreate(h, j) PROVE TableStep
    <3>1. jobs' = [jobs EXCEPT ![j] =
            [AbsentJob EXCEPT !.state = "Pending", !.device = H.device, !.created = H.at]]
      BY <2>2 DEF ScanCreate, UpdateJob
    <3>2. jobs'[j].state = "Pending" /\ jobs'[j].created = H.at
      BY <1>k, <3>1 DEF TypeOK, AbsentJob
    <3>3. Created(j)
      BY <2>2, <2>a, <3>2 DEF ScanCreate, HandlerSafe, Created
    <3>4. \A k \in Jobs \ {j} : Kept(k)
      BY <1>k, <2>2, <3>1 DEF ScanCreate, Kept, TypeOK
    <3> QED
      BY <2>2, <3>3, <3>4 DEF ScanCreate, TableStep
  <2>o. ASSUME NEW row, UpdateJob(H.job, row), row.state \in Terminal,
               row.created = H.copy.created,
               H.pc \in {"get_write", "poll_cancel", "report_write"},
               UNCHANGED <<granted, now>>
        PROVE  TableStep
    <3>1. H.job \in Jobs /\ Exists(H.job) /\ H.copy.created = jobs[H.job].created
      BY <2>a, <2>o DEF HandlerSafe
    <3>2. Settled(H.job)
      BY <1>k, <2>o, <3>1 DEF UpdateJob, Settled, TypeOK
    <3>3. \A k \in Jobs \ {H.job} : Kept(k)
      BY <1>k, <2>o DEF UpdateJob, Kept, TypeOK
    <3> QED
      BY <2>o, <3>2, <3>3 DEF TableStep
  <2>3. CASE GetCancel(h)
    <3>1. H.copy \in JobRow
      BY <2>a DEF HandlerState
    <3>2. /\ [H.copy EXCEPT !.state = "Canceled"].state \in Terminal
          /\ [H.copy EXCEPT !.state = "Canceled"].created = H.copy.created
      BY <3>1 DEF JobRow, Terminal
    <3> QED
      BY <2>3, <2>o, <3>2 DEF GetCancel, At
  <2>5. CASE CancelActiveForDevice(h)
    <3>1. \A j \in Jobs : Kept(j) \/ Settled(j)
      <4> SUFFICES ASSUME NEW j \in Jobs PROVE Kept(j) \/ Settled(j)
        OBVIOUS
      <4>1. jobs[j] \in JobRow
        BY <1>k DEF TypeOK
      <4>2. /\ [jobs[j] EXCEPT !.state = "Canceled", !.lease = NoLease].state = "Canceled"
            /\ [jobs[j] EXCEPT !.state = "Canceled", !.lease = NoLease].created = jobs[j].created
        BY <4>1 DEF JobRow
      <4> QED
        BY <2>5, <4>2
        DEF CancelActiveForDevice, Kept, Settled, IsActive, Active, Exists, Terminal
    <3> QED
      BY <2>5, <3>1 DEF CancelActiveForDevice, TableStep
  <2>6. CASE PollLease(h)
    <3> DEFINE t == H.at
    <3>1. t \in Nat /\ t <= now /\ now <= t + Stall
      BY <2>a, <2>6 DEF PollLease, HandlerSafe, HandlerState
    <3>2. ASSUME NEW j \in Oldest(Leasable(H.device, t)),
                 UpdateJob(j, LeaseJob(j, t)),
                 granted' = [granted EXCEPT ![j] = @ + IF TooOld(jobs[j], t) THEN 0 ELSE 1],
                 now' = now
          PROVE  TableStep
      <4>1. j \in Jobs /\ (jobs[j].state = "Pending" \/ LeaseExpired(j, t))
        BY DEF Oldest, Leasable
      <4>2. jobs[j] \in JobRow
        BY <1>k, <4>1 DEF TypeOK
      <4>3. /\ LeaseJob(j, t).state = "Leased"
            /\ LeaseJob(j, t).lease = t + LeaseDuration
            /\ LeaseJob(j, t).created = jobs[j].created
        BY <4>2 DEF LeaseJob, JobRow
      <4>4. LeasedOut(j, t)
        BY <1>k, <3>1, <3>2, <4>1, <4>3 DEF LeasedOut, UpdateJob, TypeOK
      <4>5. \A k \in Jobs \ {j} : Kept(k)
        BY <1>k, <3>2 DEF UpdateJob, Kept, TypeOK
      <4> QED
        BY <3>1, <3>2, <4>1, <4>4, <4>5 DEF TableStep
    <3> QED
      BY <1>n, <2>6, <3>2 DEF PollLease
  <2>7. CASE PollCancel(h)
    <3>1. H.copy \in JobRow
      BY <2>a DEF HandlerState
    <3>2. /\ [H.copy EXCEPT !.state = "Canceled", !.lease = NoLease].state \in Terminal
          /\ [H.copy EXCEPT !.state = "Canceled", !.lease = NoLease].created = H.copy.created
      BY <3>1 DEF JobRow, Terminal
    <3> QED
      BY <2>7, <2>o, <3>2 DEF PollCancel, At
  <2>9. CASE ReportWrite(h)
    <3>1. H.copy \in JobRow /\ H.verdict \in {"Completed", "Failed"}
      BY <2>a DEF HandlerState
    <3>2. /\ [H.copy EXCEPT !.state = H.verdict].state \in Terminal
          /\ [H.copy EXCEPT !.state = H.verdict].created = H.copy.created
      BY <3>1 DEF JobRow, Terminal
    <3> QED
      BY <2>9, <2>o, <3>2 DEF ReportWrite, At
  <2> QED
    BY <1>h, <1>n, <2>2, <2>3, <2>5, <2>6, <2>7, <2>9
    DEF HandlerStep, ScanCount, RevokeStatus, PollStatus, ReportStatus
<1>w. ASSUME NEW h \in Handlers, WebStep(h) PROVE TableStep
  BY <1>w, <1>n DEF WebStep, ScanCheckDevice, RevokeDevice, GetJob
<1>c. ASSUME NEW d \in Devices, CompanionStep(d) PROVE TableStep
  BY <1>c, <1>n DEF CompanionStep, Start, Heartbeat, Rejected, PollStart, ReportStart
<1>f. CASE FaultStep
  BY <1>f, <1>n DEF FaultStep, TimeOut, Crash, Drop
<1>r. CASE RecoverExpiredLeases
  <2>1. \A j \in Jobs : Kept(j) \/ Settled(j) \/ Requeued(j)
    <3> SUFFICES ASSUME NEW j \in Jobs PROVE Kept(j) \/ Settled(j) \/ Requeued(j)
      OBVIOUS
    <3>1. jobs[j] \in JobRow
      BY <1>k DEF TypeOK
    <3>2. /\ Recovered(jobs[j]).state \in {"Failed", "Pending"}
          /\ Recovered(jobs[j]).created = jobs[j].created
      BY <3>1 DEF Recovered, JobRow
    <3>3. jobs'[j] = IF LeaseExpired(j, now) THEN Recovered(jobs[j]) ELSE jobs[j]
      BY <1>r DEF RecoverExpiredLeases
    <3> QED
      BY <1>r, <3>2, <3>3
      DEF RecoverExpiredLeases, Kept, Settled, Requeued, LeaseExpired, Exists, Terminal
  <2> QED
    BY <1>r, <2>1 DEF RecoverExpiredLeases, TableStep
<1>t. CASE Tick
  BY <1>t DEF Tick, TableStep, Kept
<1>u. CASE UNCHANGED vars
  BY <1>u, <1>n DEF vars
<1> QED
  BY <1>h, <1>w, <1>c, <1>f, <1>r, <1>t, <1>u DEF Next
(* No step removes a job or changes when it was created. *)
RowsKept ==
  \A j \in Jobs : Exists(j) => Exists(j)' /\ jobs'[j].created = jobs[j].created

LEMMA RowsKeptStep == TableStep => RowsKept
BY DEF TableStep, RowsKept, Kept, Created, LeasedOut, Settled, Requeued,
       LeaseExpired, Exists, Terminal

LEMMA JobSafeInit == Init => \A j \in Jobs : JobSafe(j)
BY DEF Init, JobSafe, Exists, AbsentJob

LEMMA JobSafeStep ==
  ASSUME IInv, TableStep, TypeOK', NEW j \in Jobs
  PROVE  JobSafe(j)'
<1>1. /\ JobSafe(j)
      /\ jobs[j].created \in Nat /\ jobs[j].lease \in Int
      /\ jobs'[j].created \in Nat /\ jobs'[j].lease \in Int
      /\ granted[j] \in Nat /\ granted'[j] \in Nat
      /\ now \in Nat /\ now' \in Nat
  BY DEF IInv, TypeInv, TypeOK, JobRow
<1>c. {DispatchWindow, LeaseDuration, Stall} \subseteq Nat
      /\ LeaseDuration >= DispatchWindow + Stall + Stall
  BY TimingAssumption
<1>2. CASE Kept(j) /\ now' \in {now, now + 1}
  BY <1>1, <1>2, <1>c DEF Kept, JobSafe, Exists
<1>3. CASE Created(j) /\ now' = now
  BY <1>1, <1>3 DEF Created, JobSafe, Exists
<1>4. ASSUME NEW t \in Nat, LeasedOut(j, t), now' = now PROVE JobSafe(j)'
  <2>1. Exists(j) /\ Exists(j)'
    BY <1>4 DEF LeasedOut, Exists, LeaseExpired
  <2>2. jobs'[j].lease >= jobs'[j].created + LeaseDuration - Stall
    BY <1>1, <1>4, <1>c, <2>1 DEF LeasedOut, JobSafe
  <2>3. CASE TooOld(jobs[j], t)
    BY <1>1, <1>4, <2>1, <2>2, <2>3 DEF LeasedOut, JobSafe
  <2>4. CASE ~TooOld(jobs[j], t)
    <3>1. t - jobs[j].created <= DispatchWindow
      BY <1>1, <1>c, <2>4 DEF TooOld
    <3>2. granted[j] = 0
      <4>1. CASE jobs[j].state = "Pending"
        BY <1>1, <1>4, <1>c, <3>1, <4>1 DEF LeasedOut, JobSafe
      <4>2. CASE LeaseExpired(j, t)
        <5>1. t > DispatchWindow + jobs[j].created
          BY <1>1, <1>c, <4>2 DEF LeaseExpired, JobSafe
        <5> QED
          BY <1>1, <1>c, <3>1, <5>1
      <4> QED
        BY <1>4, <4>1, <4>2 DEF LeasedOut
    <3> QED
      BY <1>1, <1>4, <2>1, <2>2, <2>4, <3>2 DEF LeasedOut, JobSafe
  <2> QED
    BY <2>3, <2>4
<1>5. CASE Settled(j) /\ now' = now
  BY <1>1, <1>5 DEF Settled, JobSafe, Exists, Terminal
<1>6. CASE Requeued(j) /\ now' = now
  BY <1>1, <1>6, <1>c DEF Requeued, LeaseExpired, JobSafe, Exists
<1> QED
  BY <1>2, <1>3, <1>4, <1>5, <1>6 DEF TableStep

(* A handler that a step leaves alone stays safe while the clock stands. *)
LEMMA HandlerKept ==
  ASSUME RowsKept, now' = now, NEW h, handlers'[h] = handlers[h], HandlerSafe(h),
         handlers[h].job \in Jobs \cup {NoJob}
  PROVE  HandlerSafe(h)'
BY DEF HandlerSafe, RowsKept, At, Exists

LEMMA FreeHandlerSafe ==
  ASSUME NEW h, handlers'[h] = FreeHandler
  PROVE  HandlerSafe(h)'
BY DEF HandlerSafe, FreeHandler, At

LEMMA CompanionKept ==
  ASSUME RowsKept, RunningHasJob, NEW d \in Devices, CompanionSafe(d),
         companions'[d] = companions[d] \/ companions'[d].phase # "running"
  PROVE  CompanionSafe(d)'
BY DEF CompanionSafe, RunningHasJob, RowsKept, Exists

LEMMA HandlerSafeStep ==
  ASSUME IInv, [Next]_vars, RowsKept
  PROVE  \A h \in Handlers : HandlerSafe(h)'
<1>k. TypeOK /\ RunningHasJob
  BY DEF IInv, TypeInv
<1>s. \A h \in Handlers : HandlerSafe(h) /\ handlers[h] \in HandlerState
  BY <1>k DEF IInv, TypeOK
<1>e. ASSUME NEW h \in Handlers, NEW x, Become(h, x), now' = now,
             HandlerSafe(h)'
      PROVE  \A g \in Handlers : HandlerSafe(g)'
  <2>1. \A g \in Handlers \ {h} : handlers'[g] = handlers[g]
    BY <1>k, <1>e DEF Become, TypeOK
  <2>2. \A g \in Handlers : handlers[g].job \in Jobs \cup {NoJob}
    BY <1>s DEF HandlerState
  <2> QED
    BY <1>s, <1>e, <2>1, <2>2, HandlerKept
<1>f. ASSUME NEW h \in Handlers, Release(h), now' = now
      PROVE  \A g \in Handlers : HandlerSafe(g)'
  <2>1. handlers'[h] = FreeHandler
    BY <1>k, <1>f DEF Release, Become, TypeOK
  <2> QED
    BY <1>e, <1>f, <2>1, FreeHandlerSafe DEF Release
<1>x. ASSUME NEW h \in Handlers, NEW x, Become(h, x)
      PROVE  handlers'[h] = x
  BY <1>k, <1>x DEF Become, TypeOK
<1>n. ASSUME UNCHANGED <<handlers, now>> PROVE \A g \in Handlers : HandlerSafe(g)'
  <2>1. \A g \in Handlers : handlers[g].job \in Jobs \cup {NoJob}
    BY <1>s DEF HandlerState
  <2> QED
    BY <1>s, <1>n, <2>1, HandlerKept
<1>h. ASSUME NEW h \in Handlers, HandlerStep(h)
      PROVE  \A g \in Handlers : HandlerSafe(g)'
  <2> DEFINE H == handlers[h]
  <2>a. HandlerSafe(h) /\ H \in HandlerState
    BY <1>s
  <2>1. CASE ScanCount(h)
    <3>1. CASE Become(h, [H EXCEPT !.pc = "scan_create", !.at = now])
      <4> DEFINE x == [H EXCEPT !.pc = "scan_create", !.at = now]
      <4>1. x.pc = "scan_create" /\ x.at = now
        BY <2>a DEF HandlerState
      <4>2. handlers'[h].pc = "scan_create" /\ handlers'[h].at = now
        BY <1>x, <3>1, <4>1
      <4>3. now \in Nat /\ now' = now
        BY <1>k, <2>1 DEF TypeOK, ScanCount
      <4>4. HandlerSafe(h)'
        BY <4>2, <4>3 DEF HandlerSafe, At
      <4> QED
        BY <1>e, <3>1, <4>3, <4>4
    <3> QED
      BY <1>f, <2>1, <3>1 DEF ScanCount
  <2>4. CASE RevokeStatus(h)
    <3>1. [H EXCEPT !.pc = "revoke_cancel"].pc = "revoke_cancel"
      BY <2>a DEF HandlerState
    <3>2. handlers'[h].pc = "revoke_cancel"
      BY <1>x, <2>4, <3>1 DEF RevokeStatus
    <3>3. HandlerSafe(h)'
      BY <3>2 DEF HandlerSafe, At
    <3> QED
      BY <1>e, <2>4, <3>3 DEF RevokeStatus
  <2>6. CASE PollLease(h)
    <3> DEFINE t == H.at
    <3>1. CASE Become(h, [H EXCEPT !.pc = "poll_status"]) /\ H.job = NoJob
      <4>1. [H EXCEPT !.pc = "poll_status"].pc = "poll_status"
            /\ [H EXCEPT !.pc = "poll_status"].job = NoJob
        BY <2>a, <3>1 DEF HandlerState
      <4>2. handlers'[h].pc = "poll_status" /\ handlers'[h].job = NoJob
        BY <1>x, <3>1, <4>1
      <4>3. HandlerSafe(h)'
        BY <4>2 DEF HandlerSafe, At
      <4> QED
        BY <1>e, <2>6, <3>1, <4>3 DEF PollLease
    <3>2. ASSUME NEW j \in Oldest(Leasable(H.device, t)),
                 UpdateJob(j, LeaseJob(j, t)),
                 Become(h, [H EXCEPT
                   !.pc = IF TooOld(jobs[j], t) THEN "poll_cancel" ELSE "poll_status",
                   !.job = j, !.copy = LeaseJob(j, t)])
          PROVE  \A g \in Handlers : HandlerSafe(g)'
      <4>1. j \in Jobs /\ jobs[j] \in JobRow
        BY <1>k DEF Oldest, Leasable, TypeOK
      <4>2. LeaseJob(j, t).created = jobs[j].created /\ LeaseJob(j, t).state = "Leased"
        BY <4>1 DEF LeaseJob, JobRow
      <4>3. jobs'[j] = LeaseJob(j, t)
        BY <1>k, <3>2, <4>1 DEF UpdateJob, TypeOK
      <4> DEFINE x == [H EXCEPT
                   !.pc = IF TooOld(jobs[j], t) THEN "poll_cancel" ELSE "poll_status",
                   !.job = j, !.copy = LeaseJob(j, t)]
      <4>4. /\ x.pc \in {"poll_cancel", "poll_status"}
            /\ x.job = j /\ x.copy = LeaseJob(j, t)
        BY <2>a DEF HandlerState
      <4>5. /\ handlers'[h].pc \in {"poll_cancel", "poll_status"}
            /\ handlers'[h].job = j /\ handlers'[h].copy = jobs'[j]
        BY <1>x, <3>2, <4>3, <4>4
      <4>6. HandlerSafe(h)'
        BY <4>1, <4>2, <4>3, <4>5 DEF HandlerSafe, At, Exists
      <4> QED
        BY <1>e, <2>6, <3>2, <4>6 DEF PollLease
    <3>3. H.job = NoJob
      BY <2>6, <2>a DEF PollLease, HandlerSafe
    <3> QED
      BY <2>6, <3>1, <3>2, <3>3 DEF PollLease
  <2>9. CASE ReportWrite(h)
    <3>1. [H EXCEPT !.pc = "report_status"].pc = "report_status"
      BY <2>a DEF HandlerState
    <3>2. handlers'[h].pc = "report_status"
      BY <1>x, <2>9, <3>1 DEF ReportWrite
    <3>3. HandlerSafe(h)'
      BY <3>2 DEF HandlerSafe, At
    <3> QED
      BY <1>e, <2>9, <3>3 DEF ReportWrite
  <2>10. CASE \/ \E j \in Jobs : ScanCreate(h, j)
              \/ GetCancel(h) \/ CancelActiveForDevice(h)
              \/ PollCancel(h) \/ PollStatus(h) \/ ReportStatus(h)
    BY <1>f, <2>10
    DEF ScanCreate, GetCancel, CancelActiveForDevice, PollCancel, PollStatus, ReportStatus
  <2> QED
    BY <1>h, <2>1, <2>4, <2>6, <2>9, <2>10 DEF HandlerStep
<1>w. ASSUME NEW h \in Handlers, WebStep(h)
      PROVE  \A g \in Handlers : HandlerSafe(g)'
  <2>1. ASSUME NEW d \in Devices, ScanCheckDevice(h, d)
        PROVE  \A g \in Handlers : HandlerSafe(g)'
    <3>1. handlers'[h].pc = "scan_count"
      BY <1>x, <2>1, FreeHandlerType DEF ScanCheckDevice, HandlerState
    <3>2. HandlerSafe(h)'
      BY <3>1 DEF HandlerSafe, At
    <3> QED
      BY <1>e, <2>1, <3>2 DEF ScanCheckDevice
  <2>2. ASSUME NEW d \in Devices, RevokeDevice(h, d)
        PROVE  \A g \in Handlers : HandlerSafe(g)'
    <3>1. handlers'[h].pc = "revoke_status"
      BY <1>x, <2>2, FreeHandlerType DEF RevokeDevice, HandlerState
    <3>2. HandlerSafe(h)'
      BY <3>1 DEF HandlerSafe, At
    <3> QED
      BY <1>e, <2>2, <3>2 DEF RevokeDevice
  <2>3. ASSUME NEW j \in Jobs, GetJob(h, j)
        PROVE  \A g \in Handlers : HandlerSafe(g)'
    <3>1. /\ handlers'[h].pc = "get_write"
          /\ handlers'[h].job = j /\ handlers'[h].copy = jobs[j]
      BY <1>x, <2>3, FreeHandlerType DEF GetJob, HandlerState
    <3>2. Exists(j) /\ jobs' = jobs
      BY <2>3 DEF GetJob, Exists
    <3>3. HandlerSafe(h)'
      BY <3>1, <3>2 DEF HandlerSafe, At, Exists
    <3> QED
      BY <1>e, <2>3, <3>3 DEF GetJob
  <2> QED
    BY <1>w, <2>1, <2>2, <2>3 DEF WebStep
<1>c. ASSUME NEW d \in Devices, CompanionStep(d)
      PROVE  \A g \in Handlers : HandlerSafe(g)'
  <2>1. ASSUME NEW h \in Handlers, PollStart(d, h)
        PROVE  \A g \in Handlers : HandlerSafe(g)'
    <3>1. /\ handlers'[h].pc = "poll_lease" /\ handlers'[h].at = now
          /\ handlers'[h].job = NoJob
      BY <1>x, <2>1 DEF PollStart, FreeHandler
    <3>2. HandlerSafe(h)'
      BY <1>k, <2>1, <3>1, TimingAssumption DEF PollStart, HandlerSafe, At, TypeOK
    <3> QED
      BY <1>e, <2>1, <3>2 DEF PollStart
  <2>2. ASSUME NEW h \in Handlers, NEW verdict \in {"Completed", "Failed"},
               ReportStart(d, h, verdict)
        PROVE  \A g \in Handlers : HandlerSafe(g)'
    <3> DEFINE j == companions[d].job
    <3>1. j \in Jobs /\ Exists(j)
      BY <1>k, <2>2 DEF ReportStart, RunningHasJob, IInv, CompanionSafe
    <3>2. /\ handlers'[h].pc = "report_write"
          /\ handlers'[h].job = j /\ handlers'[h].copy = jobs[j]
      BY <1>x, <2>2 DEF ReportStart, FreeHandler
    <3>3. HandlerSafe(h)'
      BY <2>2, <3>1, <3>2 DEF ReportStart, HandlerSafe, At, Exists
    <3> QED
      BY <1>e, <2>2, <3>3 DEF ReportStart
  <2> QED
    BY <1>c, <1>n, <2>1, <2>2 DEF CompanionStep, Start, Heartbeat, Rejected
<1>f2. CASE FaultStep
  BY <1>f, <1>n, <1>f2 DEF FaultStep, TimeOut, Crash, Drop
<1>r. CASE RecoverExpiredLeases
  BY <1>n, <1>r DEF RecoverExpiredLeases
<1>t. CASE Tick
  <2> SUFFICES ASSUME NEW h \in Handlers PROVE HandlerSafe(h)'
    OBVIOUS
  <2>1. handlers[h] \in HandlerState /\ HandlerSafe(h) /\ now \in Nat /\ Stall \in Nat
    BY <1>k, <1>s, TimingAssumption DEF TypeOK
  <2>2. handlers[h].at \in Nat
    BY <2>1 DEF HandlerState
  <2>3. At(h, "poll_lease") => now < handlers[h].at + Stall
    BY <1>t DEF Tick
  <2> QED
    BY <1>t, <2>1, <2>2, <2>3 DEF Tick, HandlerSafe, At, Exists
<1>u. CASE UNCHANGED vars
  BY <1>n, <1>u DEF vars
<1> QED
  BY <1>h, <1>w, <1>c, <1>f2, <1>r, <1>t, <1>u DEF Next

LEMMA CompanionSafeStep ==
  ASSUME IInv, [Next]_vars, RowsKept
  PROVE  \A d \in Devices : CompanionSafe(d)'
<1>k. TypeOK /\ RunningHasJob /\ \A d \in Devices : CompanionSafe(d)
  BY DEF IInv, TypeInv
<1>n. ASSUME \A d \in Devices : \/ companions'[d] = companions[d]
                                \/ companions'[d].phase # "running"
      PROVE  \A d \in Devices : CompanionSafe(d)'
  BY <1>k, <1>n, CompanionKept
<1>h. ASSUME NEW h \in Handlers, HandlerStep(h)
      PROVE  \A d \in Devices : CompanionSafe(d)'
  <2>1. CASE PollCancel(h) \/ ReportStatus(h)
    <3>1. \A d \in Devices : \/ companions'[d] = companions[d]
                             \/ companions'[d].phase # "running"
      BY <1>k, <2>1 DEF PollCancel, ReportStatus, Answer, Companion, TypeOK
    <3> QED
      BY <1>n, <3>1
  <2>2. CASE PollStatus(h)
    <3> DEFINE j == handlers[h].job
    <3> SUFFICES ASSUME NEW d \in Devices PROVE CompanionSafe(d)'
      OBVIOUS
    <3>1. CASE companions'[d] = companions[d] \/ companions'[d].phase # "running"
      BY <1>k, <3>1, CompanionKept
    <3>2. CASE ~(companions'[d] = companions[d] \/ companions'[d].phase # "running")
      <4>1. companions'[d] = Companion(IF j = NoJob THEN "idle" ELSE "running", j, NoHandler)
        BY <1>k, <2>2, <3>2 DEF PollStatus, Answer, TypeOK
      <4>2. j # NoJob /\ companions'[d].job = j
        BY <3>2, <4>1 DEF Companion
      <4>3. Exists(j) /\ jobs' = jobs
        BY <2>2, <4>2 DEF PollStatus, IInv, HandlerSafe
      <4> QED
        BY <4>2, <4>3 DEF CompanionSafe, Exists
    <3> QED
      BY <3>1, <3>2
  <2> QED
    BY <1>h, <1>n, <2>1, <2>2
    DEF HandlerStep, ScanCount, ScanCreate, GetCancel, RevokeStatus,
        CancelActiveForDevice, PollLease, ReportWrite
<1>w. ASSUME NEW h \in Handlers, WebStep(h) PROVE \A d \in Devices : CompanionSafe(d)'
  BY <1>n, <1>w DEF WebStep, ScanCheckDevice, RevokeDevice, GetJob
<1>c. ASSUME NEW d \in Devices, CompanionStep(d)
      PROVE  \A e \in Devices : CompanionSafe(e)'
  <2>1. \A e \in Devices : \/ companions'[e] = companions[e]
                           \/ companions'[e].phase # "running"
    BY <1>k, <1>c DEF CompanionStep, Start, Heartbeat, Rejected, PollStart, ReportStart,
                      Companion, TypeOK, CompanionState
  <2> QED
    BY <1>n, <2>1
<1>f. CASE FaultStep
  <2>1. \A d \in Devices : \/ companions'[d] = companions[d]
                           \/ companions'[d].phase # "running"
    BY <1>k, <1>f DEF FaultStep, TimeOut, Crash, Drop, Companion, TypeOK
  <2> QED
    BY <1>n, <2>1
<1>r. CASE RecoverExpiredLeases \/ Tick \/ UNCHANGED vars
  BY <1>n, <1>r DEF RecoverExpiredLeases, Tick, vars
<1> QED
  BY <1>h, <1>w, <1>c, <1>f, <1>r DEF Next

LEMMA IInvInit == Init => IInv
<1> SUFFICES ASSUME Init PROVE IInv
  OBVIOUS
<1>1. \A h \in Handlers : HandlerSafe(h)
  BY DEF Init, HandlerSafe, FreeHandler, At
<1>2. \A d \in Devices : CompanionSafe(d)
  BY DEF Init, CompanionSafe, Companion
<1> QED
  BY <1>1, <1>2, TypeInvInit, JobSafeInit DEF IInv

LEMMA IInvStep == IInv /\ [Next]_vars => IInv'
<1> SUFFICES ASSUME IInv, [Next]_vars PROVE IInv'
  OBVIOUS
<1>1. TypeInv' /\ TypeOK'
  BY TypeInvStep DEF IInv, TypeInv
<1>2. TableStep /\ RowsKept
  BY TableStepOfNext, RowsKeptStep
<1>3. \A j \in Jobs : JobSafe(j)'
  BY <1>1, <1>2, JobSafeStep
<1> QED
  BY <1>1, <1>2, <1>3, HandlerSafeStep, CompanionSafeStep DEF IInv

LEMMA IInvAlways == Spec => []IInv
BY IInvInit, IInvStep, PTL DEF Spec

(* At-most-once dispatch: however many polls, expired leases, recoveries,  *)
(* crashes and dropped requests, no check is handed out twice.             *)
THEOREM AtMostOnce == Spec => []GrantedAtMostOnce
<1>1. IInv => GrantedAtMostOnce
  BY DEF IInv, JobSafe, GrantedAtMostOnce
<1> QED
  BY <1>1, IInvAlways, PTL

(* A finished check stays finished, whatever stale copy a handler writes.  *)
THEOREM TerminalStays == Spec => TerminalNotReopened
<1>1. IInv /\ [Next]_vars => [\A j \in Jobs : IsTerminal(j) => IsTerminal(j)']_vars
  <2> SUFFICES ASSUME IInv, [Next]_vars, NEW j \in Jobs, IsTerminal(j)
               PROVE  IsTerminal(j)'
    OBVIOUS
  <2>1. TableStep
    BY TableStepOfNext
  <2> QED
    BY <2>1 DEF TableStep, Kept, Created, LeasedOut, Settled, Requeued,
                LeaseExpired, IsTerminal, Terminal, Exists
<1> QED
  BY <1>1, IInvAlways, PTL DEF Spec, TerminalNotReopened

(* The refinement of DispatchContract, step by step. *)
LEMMA ContractInit == Init => Contract!Init
BY DEF Init, Contract!Init, Phase, Exists, AbsentJob

LEMMA PhaseKept == ASSUME NEW j, Kept(j) PROVE Phase(j)' = Phase(j)
BY DEF Kept, Phase, Exists, IsTerminal

LEMMA ContractStep == IInv /\ IInv' /\ TableStep => [Contract!Next]_(Contract!vars)
<1> SUFFICES ASSUME IInv, IInv', TableStep PROVE [Contract!Next]_(Contract!vars)
  OBVIOUS
<1>k. TypeOK /\ TypeOK' /\ \A j \in Jobs : JobSafe(j) /\ JobSafe(j)'
  BY DEF IInv, TypeInv
<1>j. \A j \in Jobs : /\ jobs[j].created \in Nat /\ granted[j] \in Nat
                     /\ jobs'[j].created \in Nat /\ granted'[j] \in Nat
  BY <1>k DEF TypeOK, JobRow
<1>n. now \in Nat
  BY <1>k DEF TypeOK
<1> DEFINE phase == [j \in Jobs |-> Phase(j)]
           accepted == [j \in Jobs |-> jobs[j].created]
<1>1. CASE now' \in {now, now + 1} /\ \A j \in Jobs : Kept(j)
  <2>1. phase' = phase
    BY <1>1, PhaseKept
  <2>2. accepted' = accepted
    BY <1>1 DEF Kept
  <2> QED
    BY <1>1, <2>1, <2>2 DEF Contract!Next, Contract!Advance, Contract!vars
<1>2. ASSUME NEW j \in Jobs, now' = now, Created(j), \A k \in Jobs \ {j} : Kept(k)
      PROVE  Contract!Accept(j)
  <2>1. Phase(j) = "absent" /\ Phase(j)' = "waiting"
    BY <1>k, <1>2, <1>j DEF Created, Phase, Exists, IsTerminal, Terminal, JobSafe
  <2>2. phase' = [phase EXCEPT ![j] = "waiting"]
    BY <1>2, <2>1, PhaseKept
  <2>3. jobs'[j].created \in 0 .. now
    BY <1>2, <1>j, <1>n DEF Created
  <2>4. accepted' = [accepted EXCEPT ![j] = jobs'[j].created]
    BY <1>2 DEF Kept
  <2> QED
    BY <1>2, <2>1, <2>2, <2>3, <2>4 DEF Contract!Accept
<1>3. ASSUME NEW j \in Jobs, NEW t \in Nat, now' = now, LeasedOut(j, t),
             \A k \in Jobs \ {j} : Kept(k)
      PROVE  Contract!Hand(j) \/ (phase' = phase /\ accepted' = accepted)
  <2>1. accepted' = accepted
    BY <1>3 DEF Kept, LeasedOut
  <2>2. /\ Exists(j) /\ Exists(j)' /\ ~IsTerminal(j) /\ ~IsTerminal(j)'
    BY <1>3 DEF LeasedOut, LeaseExpired, Exists, IsTerminal, Terminal
  <2>3. CASE TooOld(jobs[j], t)
    <3>1. granted'[j] = granted[j]
      BY <1>3, <1>j, <2>3 DEF LeasedOut
    <3>2. Phase(j)' = Phase(j)
      BY <2>2, <3>1 DEF Phase
    <3> QED
      BY <1>3, <2>1, <3>2, PhaseKept
  <2>4. CASE ~TooOld(jobs[j], t)
    <3>1. granted'[j] = granted[j] + 1
      BY <1>3, <2>4 DEF LeasedOut
    <3>2. granted[j] = 0
      BY <1>k, <1>j, <3>1 DEF JobSafe
    <3>3. Phase(j) = "waiting" /\ Phase(j)' = "handed"
      BY <2>2, <3>1, <3>2 DEF Phase
    <3>4. phase' = [phase EXCEPT ![j] = "handed"]
      BY <1>3, <3>3, PhaseKept
    <3>5. now - jobs[j].created <= DispatchWindow + Stall
      BY <1>3, <1>j, <1>n, <2>4, TimingAssumption DEF LeasedOut, TooOld
    <3> QED
      BY <1>3, <2>1, <3>3, <3>4, <3>5 DEF Contract!Hand
  <2> QED
    BY <2>3, <2>4
<1>4. ASSUME now' = now, \A j \in Jobs : Kept(j) \/ Settled(j) \/ Requeued(j)
      PROVE  \E S \in SUBSET Jobs : Contract!Settle(S)
  <2> DEFINE S == {j \in Jobs : Settled(j)}
  <2>1. \A j \in S : Phase(j) # "absent" /\ Phase(j)' = "settled"
    BY DEF Settled, Phase, Exists, IsTerminal, Terminal
  <2>2. \A j \in Jobs \ S : Phase(j)' = Phase(j)
    <3> SUFFICES ASSUME NEW j \in Jobs, Requeued(j) PROVE Phase(j)' = Phase(j)
      BY <1>4, PhaseKept
    <3>1. Exists(j) /\ Exists(j)' /\ ~IsTerminal(j) /\ ~IsTerminal(j)'
      BY DEF Requeued, LeaseExpired, Exists, IsTerminal, Terminal
    <3>2. granted'[j] = granted[j]
      BY DEF Requeued
    <3> QED
      BY <3>1, <3>2 DEF Phase
  <2>3. phase' = [j \in Jobs |-> IF j \in S THEN "settled" ELSE phase[j]]
    BY <2>1, <2>2
  <2>4. accepted' = accepted
    BY <1>4 DEF Kept, Settled, Requeued
  <2> QED
    BY <1>4, <2>1, <2>3, <2>4 DEF Contract!Settle
<1> QED
  BY <1>1, <1>2, <1>3, <1>4 DEF TableStep, Contract!Next, Contract!vars

(* Handlers, leases, recovery and faults together implement the contract   *)
(* of DispatchContract.                                                    *)
THEOREM Refinement == Spec => ImplementsContract
<1>1. IInv /\ IInv' /\ [Next]_vars => [Contract!Next]_(Contract!vars)
  BY TableStepOfNext, ContractStep
<1> QED
  BY <1>1, ContractInit, IInvAlways, PTL DEF Spec, ImplementsContract, Contract!Spec

-----------------------------------------------------------------------------
(* What becomes of a check that was handed out: it is held in one place    *)
(* until its device reports it, so it gets one verdict and is counted once.*)

(* Who holds a check that was handed out: the poll that answers with it,   *)
(* the companion that runs it, or the request that reports it.             *)
Carries(h, j) == /\ handlers[h].pc \in {"poll_status", "report_write", "report_status"}
                 /\ handlers[h].job = j
Runs(d, j) == companions[d].phase = "running" /\ companions[d].job = j
Held(j) == (\E h \in Handlers : Carries(h, j)) \/ (\E d \in Devices : Runs(d, j))

(* No device has reported the check; recovery may have given it up. *)
Unreported(j) == /\ jobs[j].state # "Completed"
                 /\ jobs[j].state = "Failed" => jobs[j].attempt >= MaxAttempts

(* One holder at a time, and the report is still to come. *)
CarrierSafe(h, j) ==
  Carries(h, j) =>
    /\ granted[j] = 1
    /\ handlers[h].device = jobs[j].device
    /\ ~At(h, "report_status") => Unreported(j)
    /\ \A g \in Handlers : Carries(g, j) => g = h
    /\ \A d \in Devices : ~Runs(d, j)

RunnerSafe(d, j) ==
  Runs(d, j) => granted[j] = 1 /\ jobs[j].device = d /\ Unreported(j)

(* The row a handler writes back belongs to the device of the row it hits. *)
CopySafe(h) ==
  /\ handlers[h].pc \in {"get_write", "poll_cancel", "report_write"} =>
       handlers[h].copy.device = jobs[handlers[h].job].device
  /\ At(h, "report_status") => handlers[h].job \in Jobs

HolderInv ==
  /\ \A h \in Handlers : CopySafe(h)
  /\ \A h \in Handlers, j \in Jobs : CarrierSafe(h, j)
  /\ \A d \in Devices, j \in Jobs : RunnerSafe(d, j)

-----------------------------------------------------------------------------
(* What a step does to a row, reports aside. *)
RowKept(j) ==
  /\ jobs'[j].device = jobs[j].device
  /\ \/ jobs'[j] = jobs[j]
     \/ jobs'[j].state = "Canceled"
     \/ jobs[j].state \notin {"Completed", "Failed"} /\ Unreported(j)'

RowReported(h, j) ==
  /\ At(h, "report_write") /\ handlers[h].job = j
  /\ At(h, "report_status")' /\ handlers'[h].job = j
  /\ jobs'[j].device = jobs[j].device

(* A step leaves every other row alone, or writes one row whole. *)
LEMMA RowKeptIfUnchanged ==
  ASSUME NEW j, jobs'[j] = jobs[j]
  PROVE  RowKept(j)
BY DEF RowKept

LEMMA RowsKeptByUpdate ==
  ASSUME TypeOK, NEW i, NEW row, UpdateJob(i, row), NEW j \in Jobs,
         i = j => /\ row.device = jobs[j].device
                  /\ \/ row.state = "Canceled"
                     \/ /\ jobs[j].state \notin {"Completed", "Failed"}
                        /\ row.state \notin {"Completed", "Failed"}
  PROVE  RowKept(j)
<1>1. CASE i = j
  <2>1. jobs'[j] = row
    BY <1>1 DEF TypeOK, UpdateJob
  <2> QED
    BY <1>1, <2>1 DEF RowKept, Unreported
<1>2. CASE i # j
  BY <1>2, RowKeptIfUnchanged DEF TypeOK, UpdateJob
<1> QED
  BY <1>1, <1>2

LEMMA RowKeptStep ==
  ASSUME IInv, \A h \in Handlers : CopySafe(h), [Next]_vars,
         NEW j \in Jobs, Exists(j)
  PROVE  RowKept(j) \/ \E h \in Handlers : RowReported(h, j)
<1>k. TypeOK /\ jobs[j] \in JobRow
  BY DEF IInv, TypeInv, TypeOK
<1>n. jobs' = jobs => RowKept(j)
  BY RowKeptIfUnchanged
<1>h. ASSUME NEW h \in Handlers, HandlerStep(h), ~ReportWrite(h) PROVE RowKept(j)
  <2> DEFINE H == handlers[h]
  <2>a. HandlerSafe(h) /\ CopySafe(h) /\ H \in HandlerState
    BY <1>k DEF IInv, TypeOK
  <2>b. H.copy \in JobRow
    BY <2>a DEF HandlerState
  <2>1. ASSUME NEW i \in Jobs, ScanCreate(h, i) PROVE RowKept(j)
    <3>1. i # j
      BY <2>1 DEF ScanCreate
    <3> QED
      BY <1>k, <2>1, <3>1, RowKeptIfUnchanged DEF ScanCreate, UpdateJob, TypeOK
  <2>2. CASE GetCancel(h)
    <3>1. /\ [H.copy EXCEPT !.state = "Canceled"].state = "Canceled"
          /\ [H.copy EXCEPT !.state = "Canceled"].device = H.copy.device
      BY <2>b DEF JobRow
    <3>2. H.copy.device = jobs[H.job].device
      BY <2>a, <2>2 DEF GetCancel, At, CopySafe
    <3> QED
      BY <1>k, <2>2, <3>1, <3>2, RowsKeptByUpdate DEF GetCancel
  <2>3. CASE CancelActiveForDevice(h)
    <3>1. /\ [jobs[j] EXCEPT !.state = "Canceled", !.lease = NoLease].state = "Canceled"
          /\ [jobs[j] EXCEPT !.state = "Canceled", !.lease = NoLease].device = jobs[j].device
      BY <1>k DEF JobRow
    <3> QED
      BY <2>3, <3>1 DEF CancelActiveForDevice, RowKept
  <2>4. CASE PollLease(h)
    <3>1. ASSUME NEW i \in Oldest(Leasable(H.device, H.at)), UpdateJob(i, LeaseJob(i, H.at))
          PROVE  RowKept(j)
      <4>1. i \in Jobs /\ jobs[i] \in JobRow /\ jobs[i].state \in {"Pending", "Leased"}
        BY <1>k DEF Oldest, Leasable, LeaseExpired, TypeOK
      <4>2. /\ LeaseJob(i, H.at).state = "Leased"
            /\ LeaseJob(i, H.at).device = jobs[i].device
        BY <4>1 DEF LeaseJob, JobRow
      <4> QED
        BY <1>k, <3>1, <4>1, <4>2, RowsKeptByUpdate
    <3> QED
      BY <1>n, <2>4, <3>1 DEF PollLease
  <2>5. CASE PollCancel(h)
    <3>1. /\ [H.copy EXCEPT !.state = "Canceled", !.lease = NoLease].state = "Canceled"
          /\ [H.copy EXCEPT !.state = "Canceled", !.lease = NoLease].device = H.copy.device
      BY <2>b DEF JobRow
    <3>2. H.copy.device = jobs[H.job].device
      BY <2>a, <2>5 DEF PollCancel, At, CopySafe
    <3> QED
      BY <1>k, <2>5, <3>1, <3>2, RowsKeptByUpdate DEF PollCancel
  <2> QED
    BY <1>h, <1>n, <2>1, <2>2, <2>3, <2>4, <2>5
    DEF HandlerStep, ScanCount, RevokeStatus, PollStatus, ReportStatus
<1>r. ASSUME NEW h \in Handlers, ReportWrite(h)
      PROVE  RowKept(j) \/ RowReported(h, j)
  <2> DEFINE H == handlers[h]
  <2>1. CopySafe(h) /\ H.copy \in JobRow
    BY <1>k DEF TypeOK, HandlerState
  <2>2. [H.copy EXCEPT !.state = H.verdict].device = H.copy.device
    BY <2>1 DEF JobRow
  <2>3. H.copy.device = jobs[H.job].device
    BY <1>r, <2>1 DEF ReportWrite, At, CopySafe
  <2>4. CASE H.job = j
    <3>1. jobs'[j].device = jobs[j].device
      BY <1>k, <1>r, <2>2, <2>3, <2>4 DEF ReportWrite, UpdateJob, TypeOK
    <3>2. /\ [H EXCEPT !.pc = "report_status"].pc = "report_status"
          /\ [H EXCEPT !.pc = "report_status"].job = H.job
      BY <1>k DEF TypeOK, HandlerState
    <3>3. handlers'[h] = [H EXCEPT !.pc = "report_status"]
      BY <1>k, <1>r DEF ReportWrite, Become, TypeOK
    <3> QED
      BY <1>r, <2>4, <3>1, <3>2, <3>3 DEF ReportWrite, RowReported, At
  <2>5. CASE H.job # j
    BY <1>k, <1>r, <2>5, RowKeptIfUnchanged DEF ReportWrite, UpdateJob, TypeOK
  <2> QED
    BY <2>4, <2>5
<1>w. ASSUME NEW h \in Handlers, WebStep(h) PROVE RowKept(j)
  BY <1>n, <1>w DEF WebStep, ScanCheckDevice, RevokeDevice, GetJob
<1>c. ASSUME NEW d \in Devices, CompanionStep(d) PROVE RowKept(j)
  BY <1>n, <1>c DEF CompanionStep, Start, Heartbeat, Rejected, PollStart, ReportStart
<1>f. CASE FaultStep
  BY <1>n, <1>f DEF FaultStep, TimeOut, Crash, Drop
<1>x. CASE RecoverExpiredLeases
  <2>1. jobs'[j] = IF LeaseExpired(j, now) THEN Recovered(jobs[j]) ELSE jobs[j]
    BY <1>x DEF RecoverExpiredLeases
  <2>2. /\ Recovered(jobs[j]).device = jobs[j].device
        /\ Recovered(jobs[j]).attempt = jobs[j].attempt
        /\ \/ Recovered(jobs[j]).state = "Pending"
           \/ Recovered(jobs[j]).state = "Failed" /\ jobs[j].attempt >= MaxAttempts
    BY <1>k DEF Recovered, JobRow
  <2>3. CASE LeaseExpired(j, now)
    BY <2>1, <2>2, <2>3 DEF LeaseExpired, RowKept, Unreported
  <2>4. CASE ~LeaseExpired(j, now)
    BY <2>1, <2>4, RowKeptIfUnchanged
  <2> QED
    BY <2>3, <2>4
<1>t. CASE Tick \/ UNCHANGED vars
  BY <1>n, <1>t DEF Tick, vars
<1> QED
  BY <1>h, <1>r, <1>w, <1>c, <1>f, <1>x, <1>t DEF Next

(* Where the report is not the step, what is unreported stays unreported.  *)
LEMMA RowKeptUnreported ==
  ASSUME NEW j, RowKept(j), Unreported(j)
  PROVE  Unreported(j)'
BY DEF RowKept, Unreported

-----------------------------------------------------------------------------
(* One check seen on its own: who holds it, and that only the lease that   *)
(* grants it gives it to a holder where there was none.                    *)
HoldersSafe(j) == /\ \A h \in Handlers : CarrierSafe(h, j)
                  /\ \A d \in Devices : RunnerSafe(d, j)

HeldAnew(j) == Held(j)' => Held(j) \/ granted[j] = 0

QuietFor(j) ==
  /\ granted'[j] = granted[j]
  /\ \A h \in Handlers : Carries(h, j)' => Carries(h, j) /\ handlers'[h] = handlers[h]
  /\ \A d \in Devices : Runs(d, j)' => Runs(d, j)

LEMMA HeldExists ==
  ASSUME IInv, HolderInv, NEW j \in Jobs, Held(j)
  PROVE  Exists(j)
BY DEF IInv, HolderInv, JobSafe, Held, CarrierSafe, RunnerSafe

LEMMA QuietSafe ==
  ASSUME IInv, HolderInv, [Next]_vars, NEW j \in Jobs, QuietFor(j)
  PROVE  HoldersSafe(j)' /\ HeldAnew(j)
<1>1. Held(j)' => Held(j)
  BY DEF QuietFor, Held
<1>2. Held(j) => RowKept(j)
  <2> SUFFICES ASSUME Held(j), NEW h \in Handlers, RowReported(h, j) PROVE FALSE
    BY HeldExists, RowKeptStep DEF HolderInv
  <2> QED
    BY DEF QuietFor, Carries, RowReported, At
<1>3. ASSUME NEW h \in Handlers PROVE CarrierSafe(h, j)'
  <2> SUFFICES ASSUME Carries(h, j)' PROVE CarrierSafe(h, j)'
    BY DEF CarrierSafe
  <2>1. Carries(h, j) /\ handlers'[h] = handlers[h] /\ CarrierSafe(h, j) /\ RowKept(j)
    BY <1>1, <1>2 DEF QuietFor, HolderInv, Held
  <2>2. jobs'[j].device = jobs[j].device /\ (Unreported(j) => Unreported(j)')
    BY <2>1, RowKeptUnreported DEF RowKept
  <2> QED
    BY <2>1, <2>2 DEF QuietFor, CarrierSafe, At
<1>4. ASSUME NEW d \in Devices PROVE RunnerSafe(d, j)'
  <2> SUFFICES ASSUME Runs(d, j)' PROVE RunnerSafe(d, j)'
    BY DEF RunnerSafe
  <2>1. Runs(d, j) /\ RunnerSafe(d, j) /\ RowKept(j)
    BY <1>1, <1>2 DEF QuietFor, HolderInv, Held
  <2>2. jobs'[j].device = jobs[j].device /\ (Unreported(j) => Unreported(j)')
    BY <2>1, RowKeptUnreported DEF RowKept
  <2> QED
    BY <2>1, <2>2 DEF QuietFor, RunnerSafe
<1> QED
  BY <1>1, <1>3, <1>4 DEF HoldersSafe, HeldAnew

(* A handler that stops carrying, or carries something else, is quiet. *)
LEMMA QuietBecome ==
  ASSUME TypeOK, NEW h \in Handlers, NEW x, Become(h, x), NEW j,
         x.pc \notin {"poll_status", "report_write", "report_status"} \/ x.job # j,
         granted'[j] = granted[j],
         \A d \in Devices : Runs(d, j)' => Runs(d, j)
  PROVE  QuietFor(j)
<1>1. handlers'[h] = x /\ \A g \in Handlers \ {h} : handlers'[g] = handlers[g]
  BY DEF TypeOK, Become
<1> QED
  BY <1>1 DEF QuietFor, Carries

LEMMA QuietAnswer ==
  ASSUME TypeOK, NEW h, NEW d, Answer(h, d, Companion("idle", NoJob, NoHandler)),
         NEW j, NEW e \in Devices, Runs(e, j)'
  PROVE  Runs(e, j)
BY DEF TypeOK, Answer, Companion, Runs

LEMMA PollLeaseHolders ==
  ASSUME IInv, HolderInv, IInv', NEW h \in Handlers, PollLease(h), NEW j \in Jobs
  PROVE  QuietFor(j) \/ (HoldersSafe(j)' /\ HeldAnew(j))
<1>k. TypeOK /\ JobSafe(j)' /\ HandlerSafe(h) /\ granted[j] \in Nat
  BY DEF IInv, TypeInv, TypeOK
<1> DEFINE H == handlers[h]  t == H.at
<1>a. H \in HandlerState /\ H.job = NoJob /\ j # NoJob
  BY <1>k, SentinelAssumption DEF TypeOK, PollLease, HandlerSafe
<1>r. \A d \in Devices : Runs(d, j)' = Runs(d, j)
  BY DEF PollLease, Runs
<1>1. CASE Become(h, [H EXCEPT !.pc = "poll_status"]) /\ UNCHANGED granted
  <2>1. [H EXCEPT !.pc = "poll_status"].job = NoJob
    BY <1>a DEF HandlerState
  <2> QED
    BY <1>k, <1>a, <1>r, <1>1, <2>1, QuietBecome
<1>2. ASSUME NEW i \in Oldest(Leasable(H.device, t)),
             UpdateJob(i, LeaseJob(i, t)),
             Become(h, [H EXCEPT
               !.pc = IF TooOld(jobs[i], t) THEN "poll_cancel" ELSE "poll_status",
               !.job = i, !.copy = LeaseJob(i, t)]),
             granted' = [granted EXCEPT ![i] = @ + IF TooOld(jobs[i], t) THEN 0 ELSE 1]
      PROVE  QuietFor(j) \/ (HoldersSafe(j)' /\ HeldAnew(j))
  <2> DEFINE x == [H EXCEPT
               !.pc = IF TooOld(jobs[i], t) THEN "poll_cancel" ELSE "poll_status",
               !.job = i, !.copy = LeaseJob(i, t)]
  <2>1. i \in Jobs /\ jobs[i] \in JobRow /\ jobs[i].device = H.device
    BY <1>k DEF Oldest, Leasable, TypeOK
  <2>2. /\ x.pc = IF TooOld(jobs[i], t) THEN "poll_cancel" ELSE "poll_status"
        /\ x.job = i /\ x.device = H.device
    BY <1>a DEF HandlerState
  <2>3. handlers'[h] = x /\ \A g \in Handlers \ {h} : handlers'[g] = handlers[g]
    BY <1>k, <1>2 DEF TypeOK, Become
  <2>4. granted'[j] = granted[j] + IF i = j /\ ~TooOld(jobs[i], t) THEN 1 ELSE 0
    BY <1>k, <1>2 DEF TypeOK
  <2>b. Become(h, x)
    BY <1>2
  <2> HIDE DEF x
  <2>5. CASE i # j \/ TooOld(jobs[i], t)
    <3>1. granted'[j] = granted[j]
      BY <1>k, <2>4, <2>5
    <3>2. x.pc = "poll_cancel" \/ x.job # j
      BY <2>2, <2>5
    <3>3. \A d \in Devices : Runs(d, j)' => Runs(d, j)
      BY <1>r
    <3>4. QuietFor(j)
      BY <1>k, <2>b, <3>1, <3>2, <3>3, QuietBecome
    <3> QED
      BY <3>4
  <2>6. CASE i = j /\ ~TooOld(jobs[i], t)
    <3>1. granted[j] = 0 /\ granted'[j] = 1
      BY <1>k, <2>4, <2>6 DEF JobSafe
    <3>2. /\ \A g \in Handlers : ~Carries(g, j)
          /\ \A d \in Devices : ~Runs(d, j)'
      BY <1>r, <3>1 DEF HolderInv, CarrierSafe, RunnerSafe
    <3>3. \A g \in Handlers : Carries(g, j)' => g = h
      BY <2>3, <3>2 DEF Carries
    <3>4. /\ LeaseJob(i, t).state = "Leased"
          /\ LeaseJob(i, t).device = jobs[i].device
      BY <2>1 DEF LeaseJob, JobRow
    <3>5. jobs'[j] = LeaseJob(i, t)
      BY <1>k, <1>2, <2>6 DEF UpdateJob, TypeOK
    <3>6. Unreported(j)'
      BY <3>4, <3>5 DEF Unreported
    <3>7. handlers'[h].device = jobs'[j].device
      BY <2>1, <2>2, <2>3, <2>6, <3>4, <3>5
    <3>8. HoldersSafe(j)'
      BY <3>1, <3>2, <3>3, <3>6, <3>7 DEF HoldersSafe, CarrierSafe, RunnerSafe
    <3> QED
      BY <3>1, <3>8 DEF HeldAnew
  <2> QED
    BY <2>5, <2>6
<1> QED
  BY <1>1, <1>2 DEF PollLease

LEMMA PollStatusHolders ==
  ASSUME IInv, HolderInv, NEW h \in Handlers, PollStatus(h), NEW j \in Jobs
  PROVE  QuietFor(j) \/ (HoldersSafe(j)' /\ HeldAnew(j))
<1>k. TypeOK
  BY DEF IInv, TypeInv
<1> DEFINE H == handlers[h]
           c == Companion(IF H.job = NoJob THEN "idle" ELSE "running", H.job, NoHandler)
<1>1. /\ handlers'[h] = FreeHandler
      /\ \A g \in Handlers \ {h} : handlers'[g] = handlers[g]
      /\ jobs' = jobs /\ granted' = granted
  BY <1>k DEF PollStatus, Release, Become, TypeOK
<1>2. \A d \in Devices : companions'[d] = companions[d] \/ (d = H.device /\ companions'[d] = c)
  BY <1>k DEF PollStatus, Answer, TypeOK
<1>3. FreeHandler.pc = "free" /\ c.job = H.job
  BY DEF FreeHandler, Companion
<1> HIDE DEF c
<1>4. \A d \in Devices : Runs(d, j)' => Runs(d, j) \/ (d = H.device /\ H.job = j)
  BY <1>2, <1>3 DEF Runs
<1>5. \A g \in Handlers : Carries(g, j)' => g # h /\ Carries(g, j) /\ handlers'[g] = handlers[g]
  BY <1>1, <1>3 DEF Carries
<1>6. CASE H.job # j
  BY <1>1, <1>4, <1>5, <1>6 DEF QuietFor
<1>7. CASE H.job = j
  <2>1. Carries(h, j)
    BY <1>7 DEF PollStatus, Carries, At
  <2>2. /\ granted[j] = 1 /\ H.device = jobs[j].device /\ Unreported(j)
        /\ \A g \in Handlers : Carries(g, j) => g = h
        /\ \A d \in Devices : ~Runs(d, j)
    BY <2>1 DEF PollStatus, HolderInv, CarrierSafe, At
  <2>3. Unreported(j)'
    BY <1>1, <2>2 DEF Unreported
  <2>4. \A g \in Handlers : ~Carries(g, j)'
    BY <1>5, <2>2
  <2>5. \A d \in Devices : Runs(d, j)' => d = H.device
    BY <1>4, <2>2
  <2>6. HoldersSafe(j)'
    BY <1>1, <2>2, <2>3, <2>4, <2>5 DEF HoldersSafe, CarrierSafe, RunnerSafe
  <2> QED
    BY <2>1, <2>6 DEF HeldAnew, Held
<1> QED
  BY <1>6, <1>7

LEMMA ReportStartHolders ==
  ASSUME IInv, HolderInv, NEW d \in Devices, NEW h \in Handlers, NEW v,
         ReportStart(d, h, v), NEW j \in Jobs
  PROVE  QuietFor(j) \/ (HoldersSafe(j)' /\ HeldAnew(j))
<1>k. TypeOK
  BY DEF IInv, TypeInv
<1> DEFINE i == companions[d].job
           x == [FreeHandler EXCEPT !.pc = "report_write", !.device = d, !.job = i,
                                    !.copy = jobs[i], !.verdict = v]
<1>1. x.pc = "report_write" /\ x.device = d /\ x.job = i
  BY DEF FreeHandler
<1>2. /\ handlers'[h] = x
      /\ \A g \in Handlers \ {h} : handlers'[g] = handlers[g]
      /\ jobs' = jobs /\ granted' = granted
  BY <1>k DEF ReportStart, Become, TypeOK
<1> HIDE DEF x
<1>3. \A e \in Devices : Runs(e, j)' => e # d /\ Runs(e, j)
  BY <1>k DEF ReportStart, Companion, Runs, TypeOK
<1>4. CASE i # j
  <2>1. \A g \in Handlers : Carries(g, j)' => Carries(g, j) /\ handlers'[g] = handlers[g]
    BY <1>1, <1>2, <1>4 DEF Carries
  <2> QED
    BY <1>2, <1>3, <2>1 DEF QuietFor
<1>5. CASE i = j
  <2>1. Runs(d, j)
    BY <1>5 DEF ReportStart, Runs
  <2>2. granted[j] = 1 /\ jobs[j].device = d /\ Unreported(j)
    BY <2>1 DEF HolderInv, RunnerSafe
  <2>3. \A g \in Handlers : ~Carries(g, j)
    BY <2>1 DEF HolderInv, CarrierSafe
  <2>4. \A e \in Devices : Runs(e, j) => e = d
    BY <2>2 DEF HolderInv, RunnerSafe
  <2>5. \A g \in Handlers : Carries(g, j)' => g = h
    BY <1>2, <2>3 DEF Carries
  <2>6. Unreported(j)'
    BY <1>2, <2>2 DEF Unreported
  <2>7. HoldersSafe(j)'
    BY <1>1, <1>2, <1>3, <2>2, <2>4, <2>5, <2>6 DEF HoldersSafe, CarrierSafe, RunnerSafe
  <2> QED
    BY <2>1, <2>7 DEF HeldAnew, Held
<1> QED
  BY <1>4, <1>5

LEMMA ReportWriteHolders ==
  ASSUME IInv, HolderInv, NEW h \in Handlers, ReportWrite(h), NEW j \in Jobs
  PROVE  QuietFor(j) \/ (HoldersSafe(j)' /\ HeldAnew(j))
<1>k. TypeOK
  BY DEF IInv, TypeInv
<1> DEFINE H == handlers[h]  x == [H EXCEPT !.pc = "report_status"]
<1>a. H \in HandlerState /\ H.copy \in JobRow /\ H.job \in Jobs /\ H.pc = "report_write"
  BY <1>k DEF TypeOK, HandlerState, IInv, HandlerSafe, ReportWrite, At
<1>1. x.pc = "report_status" /\ x.device = H.device /\ x.job = H.job
  BY <1>a DEF HandlerState
<1>2. /\ handlers'[h] = x
      /\ \A g \in Handlers \ {h} : handlers'[g] = handlers[g]
      /\ companions' = companions /\ granted' = granted
  BY <1>k DEF ReportWrite, Become, TypeOK
<1> HIDE DEF x
<1>3. \A d \in Devices : Runs(d, j)' => Runs(d, j)
  BY <1>2 DEF Runs
<1>4. CASE H.job # j
  <2>1. \A g \in Handlers : Carries(g, j)' => Carries(g, j) /\ handlers'[g] = handlers[g]
    BY <1>1, <1>2, <1>4 DEF Carries
  <2> QED
    BY <1>2, <1>3, <2>1 DEF QuietFor
<1>5. CASE H.job = j
  <2>1. Carries(h, j) /\ CarrierSafe(h, j) /\ CopySafe(h)
    BY <1>a, <1>5 DEF Carries, HolderInv
  <2>2. [H.copy EXCEPT !.state = H.verdict].device = H.copy.device
    BY <1>a DEF JobRow
  <2>3. jobs'[j] = [H.copy EXCEPT !.state = H.verdict]
    BY <1>k, <1>5 DEF ReportWrite, UpdateJob, TypeOK
  <2>4. jobs'[j].device = jobs[j].device
    BY <1>a, <1>5, <2>1, <2>2, <2>3 DEF CopySafe
  <2>5. \A g \in Handlers : Carries(g, j)' => g = h
    BY <1>2, <2>1 DEF Carries, CarrierSafe
  <2>6. \A d \in Devices : ~Runs(d, j)'
    BY <1>3, <2>1 DEF CarrierSafe
  <2>7. HoldersSafe(j)'
    BY <1>1, <1>2, <2>1, <2>4, <2>5, <2>6 DEF HoldersSafe, CarrierSafe, RunnerSafe, At
  <2> QED
    BY <2>1, <2>7 DEF HeldAnew, Held
<1> QED
  BY <1>4, <1>5

LEMMA HoldersStep ==
  ASSUME IInv, HolderInv, IInv', [Next]_vars, NEW j \in Jobs
  PROVE  HoldersSafe(j)' /\ HeldAnew(j)
<1>k. TypeOK
  BY DEF IInv, TypeInv
<1>q. QuietFor(j) => HoldersSafe(j)' /\ HeldAnew(j)
  BY QuietSafe
<1>f. FreeHandler.pc = "free"
  BY DEF FreeHandler
<1>n. UNCHANGED <<handlers, companions, granted>> => QuietFor(j)
  BY DEF QuietFor, Carries, Runs
<1>h. ASSUME NEW h \in Handlers, HandlerStep(h)
      PROVE  HoldersSafe(j)' /\ HeldAnew(j)
  <2> DEFINE H == handlers[h]
  <2>a. H \in HandlerState
    BY <1>k DEF TypeOK
  <2>1. ASSUME Release(h), UNCHANGED <<companions, granted>> PROVE QuietFor(j)
    <3>1. \A d \in Devices : Runs(d, j)' => Runs(d, j)
      BY <2>1 DEF Runs
    <3> QED
      BY <1>k, <1>f, <2>1, <3>1, QuietBecome DEF Release
  <2>2. ASSUME NEW d, Release(h), Answer(h, d, Companion("idle", NoJob, NoHandler)),
               UNCHANGED granted
        PROVE  QuietFor(j)
    <3>1. \A e \in Devices : Runs(e, j)' => Runs(e, j)
      BY <1>k, <2>2, QuietAnswer
    <3> QED
      BY <1>k, <1>f, <2>2, <3>1, QuietBecome DEF Release
  <2>3. ASSUME NEW x, Become(h, x), UNCHANGED <<companions, granted>>,
               x.pc \in {"scan_create", "revoke_cancel"}
        PROVE  QuietFor(j)
    <3>1. \A d \in Devices : Runs(d, j)' => Runs(d, j)
      BY <2>3 DEF Runs
    <3> QED
      BY <1>k, <2>3, <3>1, QuietBecome
  <2>4. CASE ScanCount(h)
    <3>1. [H EXCEPT !.pc = "scan_create", !.at = now].pc = "scan_create"
      BY <2>a DEF HandlerState
    <3> QED
      BY <1>q, <2>1, <2>3, <2>4, <3>1 DEF ScanCount
  <2>5. CASE RevokeStatus(h)
    <3>1. [H EXCEPT !.pc = "revoke_cancel"].pc = "revoke_cancel"
      BY <2>a DEF HandlerState
    <3> QED
      BY <1>q, <2>3, <2>5, <3>1 DEF RevokeStatus
  <2>6. CASE (\E i \in Jobs : ScanCreate(h, i)) \/ GetCancel(h) \/ CancelActiveForDevice(h)
    BY <1>q, <2>1, <2>6 DEF ScanCreate, GetCancel, CancelActiveForDevice
  <2>7. CASE PollCancel(h) \/ ReportStatus(h)
    BY <1>q, <2>2, <2>7 DEF PollCancel, ReportStatus
  <2> QED
    BY <1>h, <1>q, <2>4, <2>5, <2>6, <2>7,
       PollLeaseHolders, PollStatusHolders, ReportWriteHolders DEF HandlerStep
<1>w. ASSUME NEW h \in Handlers, WebStep(h) PROVE QuietFor(j)
  <2>1. \A d \in Devices : Runs(d, j)' => Runs(d, j)
    BY <1>w DEF WebStep, ScanCheckDevice, RevokeDevice, GetJob, Runs
  <2>2. ASSUME NEW x, Become(h, x), UNCHANGED granted,
               x.pc \in {"scan_count", "revoke_status", "get_write"}
        PROVE  QuietFor(j)
    BY <1>k, <2>1, <2>2, QuietBecome
  <2>3. ASSUME NEW d \in Devices, ScanCheckDevice(h, d) PROVE QuietFor(j)
    <3>1. [FreeHandler EXCEPT !.pc = "scan_count", !.device = d].pc = "scan_count"
      BY DEF FreeHandler
    <3> QED
      BY <2>2, <2>3, <3>1 DEF ScanCheckDevice
  <2>4. ASSUME NEW d \in Devices, RevokeDevice(h, d) PROVE QuietFor(j)
    <3>1. [FreeHandler EXCEPT !.pc = "revoke_status", !.device = d].pc = "revoke_status"
      BY DEF FreeHandler
    <3> QED
      BY <2>2, <2>4, <3>1 DEF RevokeDevice
  <2>5. ASSUME NEW i \in Jobs, GetJob(h, i) PROVE QuietFor(j)
    <3>1. [FreeHandler EXCEPT !.pc = "get_write", !.job = i, !.copy = jobs[i]].pc = "get_write"
      BY DEF FreeHandler
    <3> QED
      BY <2>2, <2>5, <3>1 DEF GetJob
  <2> QED
    BY <1>w, <2>3, <2>4, <2>5 DEF WebStep
<1>c. ASSUME NEW d \in Devices, CompanionStep(d)
      PROVE  HoldersSafe(j)' /\ HeldAnew(j)
  <2>1. CASE Start(d) \/ Rejected(d)
    <3>1. \A e \in Devices : Runs(e, j)' => Runs(e, j)
      BY <1>k, <2>1 DEF Start, Rejected, Companion, Runs, TypeOK, CompanionState
    <3>2. handlers' = handlers /\ granted' = granted
      BY <2>1 DEF Start, Rejected
    <3> QED
      BY <1>q, <3>1, <3>2 DEF QuietFor, Carries
  <2>2. CASE Heartbeat(d)
    BY <1>n, <1>q, <2>2 DEF Heartbeat
  <2>3. ASSUME NEW h \in Handlers, PollStart(d, h) PROVE QuietFor(j)
    <3> DEFINE x == [FreeHandler EXCEPT !.pc = "poll_lease", !.device = d, !.at = now]
    <3>1. x.pc = "poll_lease"
      BY DEF FreeHandler
    <3>2. \A e \in Devices : Runs(e, j)' => Runs(e, j)
      BY <1>k, <2>3 DEF PollStart, Companion, Runs, TypeOK
    <3>3. Become(h, x) /\ granted' = granted
      BY <2>3 DEF PollStart
    <3> HIDE DEF x
    <3> QED
      BY <1>k, <3>1, <3>2, <3>3, QuietBecome
  <2> QED
    BY <1>c, <1>q, <2>1, <2>2, <2>3, ReportStartHolders DEF CompanionStep
<1>x. CASE FaultStep
  <2>1. \A d \in Devices : Runs(d, j)' => Runs(d, j)
    BY <1>k, <1>x DEF FaultStep, TimeOut, Crash, Drop, Companion, Runs, TypeOK
  <2>2. granted' = granted
    BY <1>x DEF FaultStep, TimeOut, Crash, Drop
  <2>3. ASSUME NEW h \in Handlers, Drop(h) PROVE QuietFor(j)
    BY <1>k, <1>f, <2>1, <2>2, <2>3, QuietBecome DEF Drop, Release
  <2>4. CASE handlers' = handlers
    BY <1>q, <2>1, <2>2, <2>4 DEF QuietFor, Carries
  <2> QED
    BY <1>x, <1>q, <2>3, <2>4 DEF FaultStep, TimeOut, Crash
<1>t. CASE RecoverExpiredLeases \/ Tick \/ UNCHANGED vars
  BY <1>n, <1>q, <1>t DEF RecoverExpiredLeases, Tick, vars
<1> QED
  BY <1>h, <1>w, <1>q, <1>c, <1>x, <1>t DEF Next

(* The rows that handlers hold to write back. *)
LEMMA CopySafeStep ==
  ASSUME IInv, HolderInv, [Next]_vars, NEW h \in Handlers
  PROVE  CopySafe(h)'
<1>k. /\ TypeOK /\ RunningHasJob /\ HandlerSafe(h) /\ CopySafe(h)
      /\ \A d \in Devices : CompanionSafe(d)
  BY DEF IInv, TypeInv, HolderInv
<1>a. /\ handlers[h] \in HandlerState
      /\ handlers[h].job \in Jobs \cup {NoJob}
  BY <1>k DEF TypeOK, HandlerState
<1>d. \A j \in Jobs : Exists(j) => jobs'[j].device = jobs[j].device
  BY RowKeptStep DEF HolderInv, RowKept, RowReported
<1>1. CASE handlers'[h] = handlers[h]
  BY <1>k, <1>d, <1>1 DEF CopySafe, HandlerSafe, At
<1>2. CASE handlers'[h].pc \notin {"get_write", "poll_cancel", "report_write", "report_status"}
  BY <1>2 DEF CopySafe, At
<1>3. ASSUME NEW x, Become(h, x) PROVE handlers'[h] = x
  BY <1>k, <1>3 DEF Become, TypeOK
<1>4. ASSUME NEW j \in Jobs, GetJob(h, j) PROVE CopySafe(h)'
  <2> DEFINE x == [FreeHandler EXCEPT !.pc = "get_write", !.job = j, !.copy = jobs[j]]
  <2>1. x.pc = "get_write" /\ x.job = j /\ x.copy = jobs[j]
    BY DEF FreeHandler
  <2>2. handlers'[h] = x /\ jobs' = jobs
    BY <1>3, <1>4 DEF GetJob
  <2> QED
    BY <2>1, <2>2 DEF CopySafe, At
<1>5. ASSUME NEW d \in Devices, NEW v, ReportStart(d, h, v) PROVE CopySafe(h)'
  <2> DEFINE j == companions[d].job
             x == [FreeHandler EXCEPT !.pc = "report_write", !.device = d, !.job = j,
                                      !.copy = jobs[j], !.verdict = v]
  <2>1. x.pc = "report_write" /\ x.job = j /\ x.copy = jobs[j]
    BY DEF FreeHandler
  <2>2. handlers'[h] = x /\ jobs' = jobs
    BY <1>3, <1>5 DEF ReportStart
  <2> QED
    BY <2>1, <2>2 DEF CopySafe, At
<1>6. CASE ReportWrite(h)
  <2> DEFINE x == [handlers[h] EXCEPT !.pc = "report_status"]
  <2>1. x.pc = "report_status" /\ x.job = handlers[h].job
    BY <1>a DEF HandlerState
  <2>2. handlers'[h] = x
    BY <1>3, <1>6 DEF ReportWrite
  <2>3. handlers[h].job \in Jobs
    BY <1>k, <1>6 DEF ReportWrite, At, HandlerSafe
  <2> QED
    BY <2>1, <2>2, <2>3 DEF CopySafe, At
<1>7. CASE PollLease(h)
  <2> DEFINE H == handlers[h]
  <2>1. ASSUME NEW i \in Oldest(Leasable(H.device, H.at)), UpdateJob(i, LeaseJob(i, H.at)),
               Become(h, [H EXCEPT
                 !.pc = IF TooOld(jobs[i], H.at) THEN "poll_cancel" ELSE "poll_status",
                 !.job = i, !.copy = LeaseJob(i, H.at)])
        PROVE  CopySafe(h)'
    <3> DEFINE x == [H EXCEPT
                 !.pc = IF TooOld(jobs[i], H.at) THEN "poll_cancel" ELSE "poll_status",
                 !.job = i, !.copy = LeaseJob(i, H.at)]
    <3>1. x.pc \in {"poll_cancel", "poll_status"} /\ x.job = i /\ x.copy = LeaseJob(i, H.at)
      BY <1>a DEF HandlerState
    <3>2. handlers'[h] = x
      BY <1>3, <2>1
    <3>3. jobs'[i] = LeaseJob(i, H.at)
      BY <1>k, <2>1 DEF UpdateJob, TypeOK, Oldest, Leasable
    <3> QED
      BY <3>1, <3>2, <3>3 DEF CopySafe, At
  <2>2. ASSUME Become(h, [H EXCEPT !.pc = "poll_status"]) PROVE CopySafe(h)'
    <3>1. [H EXCEPT !.pc = "poll_status"].pc = "poll_status"
      BY <1>a DEF HandlerState
    <3> QED
      BY <1>2, <1>3, <2>2, <3>1
  <2> QED
    BY <1>7, <2>1, <2>2 DEF PollLease
<1>8. CASE Release(h)
  <2>1. handlers'[h].pc = "free"
    BY <1>3, <1>8 DEF Release, FreeHandler
  <2> QED
    BY <1>2, <2>1
<1>9. CASE ScanCount(h) \/ RevokeStatus(h)
  <2>1. /\ [handlers[h] EXCEPT !.pc = "scan_create", !.at = now].pc = "scan_create"
        /\ [handlers[h] EXCEPT !.pc = "revoke_cancel"].pc = "revoke_cancel"
    BY <1>a DEF HandlerState
  <2> QED
    BY <1>2, <1>3, <1>8, <1>9, <2>1 DEF ScanCount, RevokeStatus
<1>10. ASSUME NEW d \in Devices,
              ScanCheckDevice(h, d) \/ RevokeDevice(h, d) \/ PollStart(d, h)
       PROVE  CopySafe(h)'
  <2>1. /\ [FreeHandler EXCEPT !.pc = "scan_count", !.device = d].pc = "scan_count"
        /\ [FreeHandler EXCEPT !.pc = "revoke_status", !.device = d].pc = "revoke_status"
        /\ [FreeHandler EXCEPT !.pc = "poll_lease", !.device = d, !.at = now].pc = "poll_lease"
    BY DEF FreeHandler
  <2> QED
    BY <1>2, <1>3, <1>10, <2>1 DEF ScanCheckDevice, RevokeDevice, PollStart
<1>o. ASSUME NEW g \in Handlers \ {h}, NEW x, Become(g, x) PROVE handlers'[h] = handlers[h]
  BY <1>k, <1>o DEF Become, TypeOK
<1>h. ASSUME NEW g \in Handlers, HandlerStep(g) \/ WebStep(g) PROVE CopySafe(h)'
  <2>1. CASE g = h
    BY <1>h, <1>4, <1>6, <1>7, <1>8, <1>9, <1>10, <2>1
    DEF HandlerStep, WebStep, ScanCreate, GetCancel, CancelActiveForDevice, PollCancel,
        PollStatus, ReportStatus
  <2>2. CASE g # h
    BY <1>h, <1>1, <1>o, <2>2
    DEF HandlerStep, WebStep, ScanCreate, GetCancel, CancelActiveForDevice, PollCancel,
        PollStatus, ReportStatus, ScanCount, RevokeStatus, PollLease, ReportWrite,
        ScanCheckDevice, RevokeDevice, GetJob, Release
  <2> QED
    BY <2>1, <2>2
<1>c. ASSUME NEW d \in Devices, CompanionStep(d) PROVE CopySafe(h)'
  <2>1. ASSUME NEW g \in Handlers, NEW v, PollStart(d, g) \/ ReportStart(d, g, v)
        PROVE  CopySafe(h)'
    <3>1. CASE g = h
      BY <1>5, <1>10, <2>1, <3>1
    <3>2. CASE g # h
      BY <1>1, <1>o, <2>1, <3>2 DEF PollStart, ReportStart
    <3> QED
      BY <3>1, <3>2
  <2> QED
    BY <1>1, <1>c, <2>1 DEF CompanionStep, Start, Heartbeat, Rejected
<1>f. CASE FaultStep
  <2>1. ASSUME NEW g \in Handlers, Drop(g) PROVE CopySafe(h)'
    BY <1>1, <1>8, <1>o, <2>1 DEF Drop, Release
  <2> QED
    BY <1>1, <1>f, <2>1 DEF FaultStep, TimeOut, Crash
<1>t. CASE RecoverExpiredLeases \/ Tick \/ UNCHANGED vars
  BY <1>1, <1>t DEF RecoverExpiredLeases, Tick, vars
<1> QED
  BY <1>h, <1>c, <1>f, <1>t DEF Next

LEMMA HolderInvInit == Init => HolderInv
BY DEF Init, HolderInv, CopySafe, CarrierSafe, RunnerSafe, Carries, Runs, At,
       FreeHandler, Companion

LEMMA HolderInvStep == IInv /\ HolderInv /\ IInv' /\ [Next]_vars => HolderInv'
BY CopySafeStep, HoldersStep DEF HolderInv, HoldersSafe

LEMMA HolderInvAlways == Spec => []HolderInv
BY IInvAlways, HolderInvInit, HolderInvStep, PTL DEF Spec

(* A handler that will cancel a job holds a row it found too old.          *)
Late(h) ==
  handlers[h].pc \in {"get_write", "poll_cancel"} =>
    now - handlers[h].copy.created > DispatchWindow

LateInv == \A h \in Handlers : Late(h)

LEMMA LateKept ==
  ASSUME TypeInv, NEW h \in Handlers, Late(h), now' \in {now, now + 1},
         handlers'[h] = handlers[h]
  PROVE  Late(h)'
<1>1. handlers[h].copy.created \in Nat /\ now \in Nat
  BY DEF TypeInv, TypeOK, HandlerState, JobRow
<1> QED
  BY <1>1, TimingAssumption DEF Late

LEMMA LateElsewhere ==
  ASSUME TypeInv, LateInv, NEW h \in Handlers, NEW x, Become(h, x), now' = now,
         x.pc \notin {"get_write", "poll_cancel"}
  PROVE  LateInv'
<1>1. handlers'[h] = x /\ \A g \in Handlers \ {h} : handlers'[g] = handlers[g]
  BY DEF TypeInv, TypeOK, Become
<1>2. Late(h)'
  BY <1>1 DEF Late
<1>3. \A g \in Handlers \ {h} : Late(g)'
  BY <1>1, LateKept DEF LateInv
<1> QED
  BY <1>2, <1>3 DEF LateInv

LEMMA LateReleased ==
  ASSUME TypeInv, LateInv, NEW h \in Handlers, Release(h), now' = now
  PROVE  LateInv'
<1>1. FreeHandler.pc = "free"
  BY DEF FreeHandler
<1> QED
  BY <1>1, LateElsewhere DEF Release

LEMMA LateStep == IInv /\ LateInv /\ [Next]_vars => LateInv'
<1> SUFFICES ASSUME IInv, LateInv, [Next]_vars PROVE LateInv'
  OBVIOUS
<1>k. TypeInv /\ TypeOK
  BY DEF IInv, TypeInv
<1>n. ASSUME handlers' = handlers, now' \in {now, now + 1} PROVE LateInv'
  BY <1>k, <1>n, LateKept DEF LateInv
<1>b. ASSUME NEW h \in Handlers, NEW x, Become(h, x)
      PROVE  handlers'[h] = x /\ \A g \in Handlers \ {h} : handlers'[g] = handlers[g]
  BY <1>k, <1>b DEF Become, TypeOK
<1>l. ASSUME NEW h \in Handlers, NEW x, Become(h, x), now' = now,
             now - x.copy.created > DispatchWindow
      PROVE  LateInv'
  <2>1. Late(h)'
    BY <1>b, <1>l DEF Late
  <2>2. \A g \in Handlers \ {h} : Late(g)'
    BY <1>b, <1>l, <1>k, LateKept DEF LateInv
  <2> QED
    BY <2>1, <2>2 DEF LateInv
<1>h. ASSUME NEW h \in Handlers, HandlerStep(h) PROVE LateInv'
  <2> DEFINE H == handlers[h]
  <2>a. H \in HandlerState /\ HandlerSafe(h)
    BY <1>k DEF IInv, TypeOK
  <2>p. /\ [H EXCEPT !.pc = "scan_create", !.at = now].pc = "scan_create"
        /\ [H EXCEPT !.pc = "revoke_cancel"].pc = "revoke_cancel"
        /\ [H EXCEPT !.pc = "report_status"].pc = "report_status"
        /\ [H EXCEPT !.pc = "poll_status"].pc = "poll_status"
    BY <2>a DEF HandlerState
  <2>1. CASE ScanCount(h)
    <3>1. CASE Become(h, [H EXCEPT !.pc = "scan_create", !.at = now])
      BY <1>k, <2>1, <2>p, <3>1, LateElsewhere DEF ScanCount
    <3> QED
      BY <1>k, <2>1, <3>1, LateReleased DEF ScanCount
  <2>2. CASE RevokeStatus(h)
    BY <1>k, <2>2, <2>p, LateElsewhere DEF RevokeStatus
  <2>3. CASE ReportWrite(h)
    BY <1>k, <2>3, <2>p, LateElsewhere DEF ReportWrite
  <2>4. CASE PollLease(h)
    <3>1. CASE Become(h, [H EXCEPT !.pc = "poll_status"])
      BY <1>k, <2>4, <2>p, <3>1, LateElsewhere DEF PollLease
    <3>2. ASSUME NEW j \in Oldest(Leasable(H.device, H.at)),
                 Become(h, [H EXCEPT
                   !.pc = IF TooOld(jobs[j], H.at) THEN "poll_cancel" ELSE "poll_status",
                   !.job = j, !.copy = LeaseJob(j, H.at)])
          PROVE  LateInv'
      <4> DEFINE x == [H EXCEPT
                   !.pc = IF TooOld(jobs[j], H.at) THEN "poll_cancel" ELSE "poll_status",
                   !.job = j, !.copy = LeaseJob(j, H.at)]
      <4>1. j \in Jobs /\ jobs[j] \in JobRow
        BY <1>k DEF Oldest, Leasable, TypeOK
      <4>2. /\ x.pc = IF TooOld(jobs[j], H.at) THEN "poll_cancel" ELSE "poll_status"
            /\ x.copy = LeaseJob(j, H.at)
        BY <2>a DEF HandlerState
      <4>3. LeaseJob(j, H.at).created = jobs[j].created
        BY <4>1 DEF LeaseJob, JobRow
      <4>4. now' = now
        BY <2>4 DEF PollLease
      <4>5. CASE TooOld(jobs[j], H.at)
        <5>1. H.at <= now
          BY <2>4, <2>a DEF PollLease, HandlerSafe
        <5>2. H.at \in Nat /\ now \in Nat /\ jobs[j].created \in Nat
          BY <1>k, <2>a, <4>1 DEF HandlerState, JobRow, TypeOK
        <5>3. now - x.copy.created > DispatchWindow
          BY <4>2, <4>3, <4>5, <5>1, <5>2, TimingAssumption DEF TooOld
        <5> QED
          BY <1>l, <3>2, <4>4, <5>3
      <4>6. CASE ~TooOld(jobs[j], H.at)
        <5>1. Become(h, x) /\ x.pc = "poll_status"
          BY <3>2, <4>2, <4>6
        <5> QED
          BY <1>k, <4>4, <5>1, LateElsewhere
      <4> QED
        BY <4>5, <4>6
    <3> QED
      BY <2>4, <3>1, <3>2 DEF PollLease
  <2> QED
    BY <1>h, <1>k, <2>1, <2>2, <2>3, <2>4, LateReleased
    DEF HandlerStep, ScanCreate, GetCancel, CancelActiveForDevice, PollCancel,
        PollStatus, ReportStatus
<1>w. ASSUME NEW h \in Handlers, WebStep(h) PROVE LateInv'
  <2>1. ASSUME NEW j \in Jobs, GetJob(h, j) PROVE LateInv'
    <3> DEFINE x == [FreeHandler EXCEPT !.pc = "get_write", !.job = j, !.copy = jobs[j]]
    <3>1. x.copy = jobs[j]
      BY DEF FreeHandler
    <3>2. now - x.copy.created > DispatchWindow
      BY <2>1, <3>1 DEF GetJob, TooOld
    <3> QED
      BY <1>l, <2>1, <3>2 DEF GetJob
  <2>2. ASSUME NEW d \in Devices, ScanCheckDevice(h, d) \/ RevokeDevice(h, d) PROVE LateInv'
    <3>1. /\ [FreeHandler EXCEPT !.pc = "scan_count", !.device = d].pc = "scan_count"
          /\ [FreeHandler EXCEPT !.pc = "revoke_status", !.device = d].pc = "revoke_status"
      BY DEF FreeHandler
    <3> QED
      BY <1>k, <2>2, <3>1, LateElsewhere DEF ScanCheckDevice, RevokeDevice
  <2> QED
    BY <1>w, <2>1, <2>2 DEF WebStep
<1>c. ASSUME NEW d \in Devices, CompanionStep(d) PROVE LateInv'
  <2>1. ASSUME NEW h \in Handlers, PollStart(d, h) PROVE LateInv'
    <3>1. [FreeHandler EXCEPT !.pc = "poll_lease", !.device = d, !.at = now].pc = "poll_lease"
      BY DEF FreeHandler
    <3> QED
      BY <1>k, <2>1, <3>1, LateElsewhere DEF PollStart
  <2>2. ASSUME NEW h \in Handlers, NEW verdict, ReportStart(d, h, verdict) PROVE LateInv'
    <3> DEFINE j == companions[d].job
    <3>1. [FreeHandler EXCEPT !.pc = "report_write", !.device = d, !.job = j,
                              !.copy = jobs[j], !.verdict = verdict].pc = "report_write"
      BY DEF FreeHandler
    <3> QED
      BY <1>k, <2>2, <3>1, LateElsewhere DEF ReportStart
  <2> QED
    BY <1>c, <1>n, <2>1, <2>2 DEF CompanionStep, Start, Heartbeat, Rejected
<1>f. CASE FaultStep
  BY <1>f, <1>k, <1>n, LateReleased DEF FaultStep, TimeOut, Crash, Drop
<1>t. CASE RecoverExpiredLeases \/ Tick \/ UNCHANGED vars
  BY <1>n, <1>t DEF RecoverExpiredLeases, Tick, vars
<1> QED
  BY <1>h, <1>w, <1>c, <1>f, <1>t DEF Next

LEMMA LateInvAlways == Spec => []LateInv
<1>1. Init => LateInv
  BY DEF Init, LateInv, Late, FreeHandler
<1> QED
  BY <1>1, IInvAlways, LateStep, PTL DEF Spec

(* Only a handler whose row was too old turns a verdict into a cancellation: *)
(* a revocation cancels active jobs, and a report writes its own verdict.    *)
LEMMA CanceledLate ==
  ASSUME IInv, LateInv, [Next]_vars, NEW j \in Jobs,
         jobs[j].state \in {"Completed", "Failed"}, jobs'[j].state = "Canceled"
  PROVE  now - jobs[j].created > DispatchWindow
<1>k. TypeOK /\ jobs[j] \in JobRow
  BY DEF IInv, TypeInv, TypeOK
<1>n. jobs'[j] # jobs[j]
  OBVIOUS
<1>h. ASSUME NEW h \in Handlers, HandlerStep(h)
      PROVE  now - jobs[j].created > DispatchWindow
  <2> DEFINE H == handlers[h]
  <2>a. HandlerSafe(h) /\ Late(h) /\ H \in HandlerState /\ H.copy \in JobRow
    BY <1>k DEF IInv, LateInv, TypeOK, HandlerState
  <2>u. ASSUME NEW i, NEW row, UpdateJob(i, row) PROVE i = j /\ row.state = "Canceled"
    BY <1>k, <1>n, <2>u DEF UpdateJob, TypeOK
  <2>1. ASSUME NEW i \in Jobs, ScanCreate(h, i) PROVE FALSE
    <3>1. i = j
      BY <2>1, <2>u DEF ScanCreate
    <3> QED
      BY <2>1, <3>1 DEF ScanCreate, Exists
  <2>2. CASE GetCancel(h) \/ PollCancel(h)
    <3>1. H.job = j /\ H.pc \in {"get_write", "poll_cancel"}
      BY <2>2, <2>u DEF GetCancel, PollCancel, At
    <3> QED
      BY <2>a, <3>1 DEF HandlerSafe, Late
  <2>3. CASE CancelActiveForDevice(h)
    BY <1>n, <2>3 DEF CancelActiveForDevice, IsActive, Active
  <2>4. CASE PollLease(h)
    <3>1. PICK i \in Oldest(Leasable(H.device, H.at)) : UpdateJob(i, LeaseJob(i, H.at))
      BY <1>n, <2>4 DEF PollLease
    <3>2. i = j
      BY <2>u, <3>1
    <3> QED
      BY <3>1, <3>2 DEF Oldest, Leasable, LeaseExpired
  <2>5. CASE ReportWrite(h)
    <3>1. [H.copy EXCEPT !.state = H.verdict].state = H.verdict
      BY <2>a DEF JobRow
    <3>2. H.verdict \in {"Completed", "Failed"}
      BY <2>a DEF HandlerState
    <3> QED
      BY <2>5, <2>u, <3>1, <3>2 DEF ReportWrite
  <2> QED
    BY <1>h, <1>n, <2>1, <2>2, <2>3, <2>4, <2>5
    DEF HandlerStep, ScanCount, RevokeStatus, PollStatus, ReportStatus
<1>w. ASSUME NEW h \in Handlers, WebStep(h) PROVE FALSE
  BY <1>n, <1>w DEF WebStep, ScanCheckDevice, RevokeDevice, GetJob
<1>c. ASSUME NEW d \in Devices, CompanionStep(d) PROVE FALSE
  BY <1>n, <1>c DEF CompanionStep, Start, Heartbeat, Rejected, PollStart, ReportStart
<1>f. CASE FaultStep
  BY <1>n, <1>f DEF FaultStep, TimeOut, Crash, Drop
<1>x. CASE RecoverExpiredLeases
  BY <1>n, <1>x DEF RecoverExpiredLeases, LeaseExpired
<1>t. CASE Tick \/ UNCHANGED vars
  BY <1>n, <1>t DEF Tick, vars
<1> QED
  BY <1>h, <1>w, <1>c, <1>f, <1>x, <1>t DEF Next

(* A fresh check keeps the verdict of its device, whatever copies the      *)
(* handlers write back; later only a cancellation can replace it.          *)
THEOREM VerdictStands == Spec => OneVerdict
<1> DEFINE Stands(j) ==
      /\ jobs[j].state = "Completed" => jobs'[j].state # "Failed"
      /\ jobs[j].state = "Failed" /\ jobs'[j].state = "Completed" => jobs[j].attempt >= MaxAttempts
      /\ jobs[j].state \in {"Completed", "Failed"} /\ jobs'[j].state = "Canceled" =>
           now - jobs[j].created > DispatchWindow
<1>1. IInv /\ HolderInv /\ LateInv /\ [Next]_vars => [\A j \in Jobs : Stands(j)]_vars
  <2> SUFFICES ASSUME IInv, HolderInv, LateInv, [Next]_vars, NEW j \in Jobs,
                      jobs[j].state \in {"Completed", "Failed"}
               PROVE  Stands(j)
    OBVIOUS
  <2>1. Exists(j)
    BY DEF Exists
  <2>c. jobs'[j].state = "Canceled" => now - jobs[j].created > DispatchWindow
    BY CanceledLate
  <2>2. CASE RowKept(j)
    BY <2>2, <2>c DEF RowKept
  <2>3. ASSUME NEW h \in Handlers, RowReported(h, j) PROVE Stands(j)
    <3>1. Carries(h, j) /\ ~At(h, "report_status")
      BY <2>3 DEF RowReported, Carries, At
    <3>2. Unreported(j)
      BY <3>1 DEF HolderInv, CarrierSafe
    <3> QED
      BY <3>2, <2>c DEF Unreported
  <2> QED
    BY <2>1, <2>2, <2>3, RowKeptStep DEF HolderInv
<1> QED
  BY <1>1, IInvAlways, HolderInvAlways, LateInvAlways, PTL DEF Spec, OneVerdict

-----------------------------------------------------------------------------
(* The counter: a device's completed checks are among the checks it was    *)
(* given and nobody holds any more.  The set of rows is finite because a   *)
(* step creates one row at most; nothing is assumed of Jobs.               *)
Table    == {j \in Jobs : Exists(j)}
Spent(d) == {j \in Jobs : jobs[j].device = d /\ granted[j] > 0 /\ ~Held(j)}

CounterInv ==
  /\ IsFiniteSet(Table)
  /\ \A d \in Devices : devices[d].completed <= Cardinality(Spent(d))

LEMMA TableStepFinite ==
  ASSUME TableStep, IsFiniteSet(Table)
  PROVE  IsFiniteSet(Table')
<1>1. PICK j : Table' \subseteq Table \cup {j}
  BY DEF TableStep, Table, Kept, Created, LeasedOut, Settled, Requeued, LeaseExpired, Exists
<1>2. IsFiniteSet(Table \cup {j})
  BY FS_AddElement
<1> QED
  BY <1>1, <1>2, FS_Subset

LEMMA SpentInTable ==
  ASSUME IInv, IsFiniteSet(Table), NEW d
  PROVE  IsFiniteSet(Spent(d)) /\ Cardinality(Spent(d)) \in Nat
<1>1. Spent(d) \subseteq Table
  BY DEF IInv, JobSafe, Spent, Table
<1> QED
  BY <1>1, FS_Subset, FS_CardinalityType

(* A check leaves the spent ones of its device by no step. *)
LEMMA SpentKept ==
  ASSUME IInv, HolderInv, IInv', [Next]_vars, NEW d
  PROVE  Spent(d) \subseteq Spent(d)'
<1> SUFFICES ASSUME NEW j \in Jobs, jobs[j].device = d, granted[j] > 0, ~Held(j)
             PROVE  jobs'[j].device = d /\ granted'[j] > 0 /\ ~Held(j)'
  BY DEF Spent
<1>1. Exists(j) /\ granted[j] \in Nat
  BY DEF IInv, JobSafe, TypeInv, TypeOK
<1>2. jobs'[j].device = d
  BY <1>1, RowKeptStep DEF HolderInv, RowKept, RowReported
<1>3. granted'[j] >= granted[j]
  BY <1>1, TableStepOfNext
  DEF TableStep, Kept, Created, LeasedOut, Settled, Requeued
<1>4. granted'[j] > 0
  BY <1>1, <1>3 DEF IInv, TypeInv, TypeOK
<1>5. ~Held(j)'
  BY <1>1, HoldersStep DEF HeldAnew
<1> QED
  BY <1>2, <1>4, <1>5

(* Only the last call of a report counts, and the check is spent by it.    *)
LEMMA CompletedStep ==
  ASSUME IInv, HolderInv, [Next]_vars, NEW d \in Devices
  PROVE  \/ devices'[d].completed = devices[d].completed
         \/ \E h \in Handlers :
              /\ ReportStatus(h) /\ handlers[h].device = d
              /\ devices'[d].completed \in {devices[d].completed, devices[d].completed + 1}
<1>k. TypeOK
  BY DEF IInv, TypeInv
<1>a. devices[d] \in DeviceRow /\ devices[d].completed \in Nat
  BY <1>k DEF TypeOK, DeviceRow
<1>n. devices' = devices => devices'[d].completed = devices[d].completed
  OBVIOUS
<1>u. ASSUME NEW e, NEW status, NEW job, NEW n \in Nat, UpdateAgentStatus(e, status, job, n)
      PROVE  devices'[d].completed = devices[d].completed + IF e = d THEN n ELSE 0
  <2>1. [devices[d] EXCEPT !.status = status, !.current = job,
                           !.completed = @ + n].completed = devices[d].completed + n
    BY <1>a DEF DeviceRow
  <2> QED
    BY <1>k, <1>a, <1>u, <2>1 DEF UpdateAgentStatus, TypeOK
<1>1. ASSUME NEW h \in Handlers, HandlerStep(h)
      PROVE  \/ devices'[d].completed = devices[d].completed
             \/ /\ ReportStatus(h) /\ handlers[h].device = d
                /\ devices'[d].completed \in {devices[d].completed, devices[d].completed + 1}
  <2>1. CASE RevokeStatus(h)
    <3>1. devices'[d].completed = devices[d].completed + 0
      BY <1>u, <2>1 DEF RevokeStatus
    <3> QED
      BY <1>a, <3>1
  <2>2. CASE PollStatus(h)
    <3>1. devices'[d].completed = devices[d].completed + 0
      BY <1>u, <2>2 DEF PollStatus
    <3> QED
      BY <1>a, <3>1
  <2>3. CASE ReportStatus(h)
    <3> DEFINE n == IF handlers[h].verdict = "Completed" THEN 1 ELSE 0
    <3>1. devices'[d].completed = devices[d].completed + IF handlers[h].device = d THEN n ELSE 0
      BY <1>u, <2>3 DEF ReportStatus
    <3> QED
      BY <1>a, <2>3, <3>1
  <2> QED
    BY <1>1, <1>n, <2>1, <2>2, <2>3
    DEF HandlerStep, ScanCount, ScanCreate, GetCancel, CancelActiveForDevice, PollLease,
        PollCancel, ReportWrite
<1>2. ASSUME NEW h \in Handlers, WebStep(h)
      PROVE  devices'[d].completed = devices[d].completed
  <2>1. ASSUME NEW e \in Devices, RevokeDevice(h, e)
        PROVE  devices'[d].completed = devices[d].completed
    <3>1. [devices[d] EXCEPT !.revoked = TRUE].completed = devices[d].completed
      BY <1>a DEF DeviceRow
    <3> QED
      BY <1>k, <2>1, <3>1 DEF RevokeDevice, TypeOK
  <2> QED
    BY <1>2, <1>n, <2>1 DEF WebStep, ScanCheckDevice, GetJob
<1>3. ASSUME NEW e \in Devices, CompanionStep(e)
      PROVE  devices'[d].completed = devices[d].completed
  <2>1. CASE Heartbeat(e)
    <3>1. \A s : [devices[d] EXCEPT !.status = s, !.beat = now].completed = devices[d].completed
      BY <1>a DEF DeviceRow
    <3> QED
      BY <1>k, <2>1, <3>1 DEF Heartbeat, TypeOK
  <2> QED
    BY <1>3, <1>n, <2>1 DEF CompanionStep, Start, Rejected, PollStart, ReportStart
<1>4. CASE FaultStep \/ RecoverExpiredLeases \/ Tick \/ UNCHANGED vars
  BY <1>4, <1>n DEF FaultStep, TimeOut, Crash, Drop, RecoverExpiredLeases, Tick, vars
<1> QED
  BY <1>1, <1>2, <1>3, <1>4 DEF Next

LEMMA ReportedIsSpent ==
  ASSUME IInv, HolderInv, NEW h \in Handlers, ReportStatus(h),
         NEW j, j = handlers[h].job, NEW d, d = handlers[h].device
  PROVE  j \in Spent(d)' /\ j \notin Spent(d)
<1>k. TypeOK
  BY DEF IInv, TypeInv
<1>1. j \in Jobs /\ Carries(h, j)
  BY DEF ReportStatus, HolderInv, CopySafe, Carries, At
<1>2. /\ granted[j] = 1 /\ d = jobs[j].device
      /\ \A g \in Handlers : Carries(g, j) => g = h
      /\ \A e \in Devices : ~Runs(e, j)
  BY <1>1 DEF HolderInv, CarrierSafe
<1>3. /\ handlers'[h] = FreeHandler
      /\ \A g \in Handlers \ {h} : handlers'[g] = handlers[g]
      /\ jobs' = jobs /\ granted' = granted
  BY <1>k DEF ReportStatus, Release, Become, TypeOK
<1>4. \A g \in Handlers : ~Carries(g, j)'
  BY <1>2, <1>3 DEF Carries, FreeHandler
<1>5. \A e \in Devices : ~Runs(e, j)'
  BY <1>k, <1>2, QuietAnswer DEF ReportStatus
<1>6. j \in Spent(d)'
  BY <1>1, <1>2, <1>3, <1>4, <1>5 DEF Spent, Held
<1>7. j \notin Spent(d)
  BY <1>1 DEF Spent, Held
<1> QED
  BY <1>6, <1>7

LEMMA CounterInvStep ==
  ASSUME IInv, HolderInv, CounterInv, IInv', [Next]_vars
  PROVE  CounterInv'
<1>1. IsFiniteSet(Table)'
  BY TableStepOfNext, TableStepFinite DEF CounterInv
<1>2. ASSUME NEW d \in Devices
      PROVE  devices'[d].completed <= Cardinality(Spent(d)')
  <2>1. /\ IsFiniteSet(Spent(d)) /\ Cardinality(Spent(d)) \in Nat
        /\ devices[d].completed <= Cardinality(Spent(d))
        /\ devices[d].completed \in Nat
    BY SpentInTable DEF CounterInv, IInv, TypeInv, TypeOK, DeviceRow
  <2>2. Spent(d)' \subseteq Table'
    BY DEF IInv, JobSafe, Spent, Table
  <2>3. IsFiniteSet(Spent(d)') /\ Cardinality(Spent(d)') \in Nat
    BY <1>1, <2>2, FS_Subset, FS_CardinalityType
  <2>4. Cardinality(Spent(d)) <= Cardinality(Spent(d)')
    BY <2>3, SpentKept, FS_Subset
  <2>5. CASE devices'[d].completed = devices[d].completed
    BY <2>1, <2>3, <2>4, <2>5
  <2>6. ASSUME NEW h \in Handlers, ReportStatus(h), handlers[h].device = d,
               devices'[d].completed \in {devices[d].completed, devices[d].completed + 1}
        PROVE  devices'[d].completed <= Cardinality(Spent(d)')
    <3> PICK j : j = handlers[h].job
      OBVIOUS
    <3>1. j \in Spent(d)' /\ j \notin Spent(d)
      BY <2>6, ReportedIsSpent
    <3>2. /\ IsFiniteSet(Spent(d) \cup {j})
          /\ Cardinality(Spent(d) \cup {j}) = Cardinality(Spent(d)) + 1
      BY <2>1, <3>1, FS_AddElement
    <3>3. Spent(d) \cup {j} \subseteq Spent(d)'
      BY <3>1, SpentKept
    <3>4. Cardinality(Spent(d) \cup {j}) <= Cardinality(Spent(d)')
      BY <2>3, <3>3, FS_Subset
    <3> QED
      BY <2>1, <2>3, <2>6, <3>2, <3>4
  <2> QED
    BY <2>5, <2>6, CompletedStep
<1> QED
  BY <1>1, <1>2 DEF CounterInv

LEMMA CounterInvInit == Init => CounterInv
<1> SUFFICES ASSUME Init PROVE CounterInv
  OBVIOUS
<1>1. Table = {} /\ \A d \in Devices : Spent(d) = {} /\ devices[d].completed = 0
  BY DEF Init, Table, Spent, Exists, AbsentJob
<1> QED
  BY <1>1, FS_EmptySet DEF CounterInv

(* completed_jobs_count counts no check twice and none of another device.  *)
THEOREM CountedOnce == Spec => []CompletedCounter
<1>1. IInv /\ CounterInv => CompletedCounter
  <2> SUFFICES ASSUME IInv, CounterInv, NEW d \in Devices
               PROVE  devices[d].completed <=
                        Cardinality({j \in Jobs : jobs[j].device = d /\ granted[j] > 0})
    BY DEF CompletedCounter
  <2> DEFINE Given == {j \in Jobs : jobs[j].device = d /\ granted[j] > 0}
  <2>1. Given \subseteq Table /\ Spent(d) \subseteq Given
    BY DEF IInv, JobSafe, Table, Spent
  <2>2. IsFiniteSet(Given) /\ Cardinality(Given) \in Nat
    BY <2>1, FS_Subset, FS_CardinalityType DEF CounterInv
  <2>3. /\ Cardinality(Spent(d)) \in Nat
        /\ Cardinality(Spent(d)) <= Cardinality(Given)
    BY <2>1, <2>2, SpentInTable, FS_Subset DEF CounterInv
  <2> QED
    BY <2>2, <2>3 DEF CounterInv, IInv, TypeInv, TypeOK, DeviceRow
<1> QED
  BY <1>1, IInvAlways, HolderInvAlways, CounterInvInit, CounterInvStep, PTL DEF Spec
=============================================================================
