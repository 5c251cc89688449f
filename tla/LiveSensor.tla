----------------------------- MODULE LiveSensor -----------------------------
(***************************************************************************)
(* The live sensor.  Zeek appends to its logs while connections are still  *)
(* open; every two seconds the sensor normalizes all logs again, submits   *)
(* what it has not seen before, and drains its spool to Core.  One task    *)
(* does all of this, one request at a time.  A request may be lost, its    *)
(* answer may be lost, and a request the client gave up on may still reach *)
(* Core later.                                                             *)
(*                                                                         *)
(* Core stores an observation under its id, so a second copy of it changes *)
(* nothing here.  An error answer and no answer are the same to the sensor.*)
(* A handshake is assumed to start later than its connection does.         *)
(***************************************************************************)
EXTENDS Integers, Sequences, FiniteSets

CONSTANTS
  Conversations,   \* mail connections on the interface
  Implicit,        \* those on a port with implicit TLS (465, 993, 995)
  NoObservation,   \* no request under way
  Capacity,        \* of the spool (10000 by default, at least 10)
  MaxFaults        \* bound: number of requests and of readings that fail

ASSUME SensorAssumption ==
  /\ Implicit \subseteq Conversations
  /\ Capacity \in Nat \ {0}
  /\ MaxFaults \in Nat

\* `by` tells which log gave the start time, and with it the observation's id.
Observations == [of: Conversations, by: {"ssl", "conn"}]

ASSUME SentinelAssumption == NoObservation \notin Observations

VARIABLES
  logs,        \* which records Zeek has written about a conversation
  seen,        \* ids submitted since the start
  batch,       \* new observations of this poll, still to be submitted
  spool,       \* the queue of the spooler
  pc,          \* what the sensor's task is doing
  item,        \* the observation of the request under way
  submitted,   \* the observations handed to the spooler; processed_count is its length
  dropped,     \* the observations dropped; dropped_count is its size
  late,        \* requests the sensor gave up on that may still arrive
  arrived,     \* Core: the observations stored, by their first arrival
  faults       \* number of requests and readings that failed

vars == <<logs, seen, batch, spool, pc, item, submitted, dropped, late, arrived, faults>>

Init ==
  /\ logs = [c \in Conversations |-> {}]
  /\ seen = {} /\ batch = {} /\ spool = <<>>
  /\ pc = "wait" /\ item = NoObservation
  /\ submitted = <<>> /\ dropped = {}
  /\ late = {} /\ arrived = <<>>
  /\ faults = 0

Items(s) == {s[i] : i \in DOMAIN s}

-----------------------------------------------------------------------------
(* Zeek.  "event" is a line of mailent.log that names a mail protocol,     *)
(* "ssl" comes with the end of the handshake, "conn" with that of the      *)
(* connection.  Two records the import will not take: "refused" is a       *)
(* second handshake, or a certificate that does not validate; "conflict"   *)
(* is a certificate that contradicts one logged before.                    *)

Kinds == {"event", "ssl", "refused", "conflict", "conn"}

LogRecord(c, kind) ==
  /\ kind \notin logs[c]
  /\ "conn" \notin logs[c]
  /\ kind = "refused" => "ssl" \in logs[c]
  /\ logs' = [logs EXCEPT ![c] = @ \cup {kind}]
  /\ UNCHANGED <<seen, batch, spool, pc, item, submitted, dropped, late, arrived, faults>>

ZeekStep(c) == \E kind \in Kinds : LogRecord(c, kind)

IsMail(c) == "event" \in logs[c] \/ (c \in Implicit /\ "ssl" \in logs[c])

\* Logs are only ever added to: once this is so, every later import fails.
Unimportable ==
  \E c \in Conversations : "conflict" \in logs[c] \/ (IsMail(c) /\ "refused" \in logs[c])

\* Mail evidence of a conversation without a flow record fails the whole import too.
Importable ==
  /\ ~Unimportable
  /\ \A c \in Conversations : IsMail(c) => logs[c] \cap {"ssl", "conn"} # {}

ObservationOf(c) == [of |-> c, by |-> IF "conn" \in logs[c] THEN "conn" ELSE "ssl"]

Normalized == IF Importable
              THEN {ObservationOf(c) : c \in {k \in Conversations : IsMail(k)}}
              ELSE {}

-----------------------------------------------------------------------------
(* The poll.                                                               *)

\* Mutant of Unseen: every poll submits everything again.
UnseenNever == Normalized
\* Mutant of Unseen: a conversation is looked at once.
UnseenConversation == {o \in Normalized : \A s \in seen : s.of # o.of}
Unseen == Normalized \ seen

Poll ==
  /\ pc = "wait"
  /\ batch' = Unseen
  /\ seen' = seen \cup Unseen
  /\ pc' = "submit"
  /\ UNCHANGED <<logs, spool, item, submitted, dropped, late, arrived, faults>>

\* A line Zeek has half written, or logs that cannot be read: the poll only drains.
PollUnread ==
  /\ pc = "wait"
  /\ faults < MaxFaults
  /\ faults' = faults + 1
  /\ batch' = {}
  /\ pc' = "submit"
  /\ UNCHANGED <<logs, seen, spool, item, submitted, dropped, late, arrived>>

\* Mutant of Enqueued: a full spool drops its newest observation.
EnqueuedOverNewest(o) ==
  IF Len(spool) >= Capacity
  THEN /\ spool' = [spool EXCEPT ![Len(spool)] = o]
       /\ dropped' = dropped \cup {spool[Len(spool)]}
  ELSE /\ spool' = Append(spool, o)
       /\ UNCHANGED dropped

\* The observation joins the spool; a full spool drops its oldest one.
Enqueued(o) ==
  IF Len(spool) >= Capacity
  THEN /\ spool' = Append(Tail(spool), o)
       /\ dropped' = dropped \cup {Head(spool)}
  ELSE /\ spool' = Append(spool, o)
       /\ UNCHANGED dropped

\* Mutant of MaySend: new observations are sent past a filled spool.
MaySendAlways == TRUE
MaySend == spool = <<>>

Submit(o) ==
  /\ pc = "submit"
  /\ o \in batch
  /\ batch' = batch \ {o}
  /\ submitted' = Append(submitted, o)
  /\ IF MaySend
     THEN pc' = "send" /\ item' = o /\ UNCHANGED <<spool, dropped>>
     ELSE Enqueued(o) /\ UNCHANGED <<pc, item>>
  /\ UNCHANGED <<logs, seen, late, arrived, faults>>

Submitted ==
  /\ pc = "submit"
  /\ batch = {}
  /\ pc' = "drain"
  /\ UNCHANGED <<logs, seen, batch, spool, item, submitted, dropped, late, arrived, faults>>

DrainNext ==
  /\ pc = "drain"
  /\ IF spool = <<>>
     THEN pc' = "wait" /\ UNCHANGED item
     ELSE pc' = "drain_send" /\ item' = Head(spool)
  /\ UNCHANGED <<logs, seen, batch, spool, submitted, dropped, late, arrived, faults>>

-----------------------------------------------------------------------------
(* A request to Core.                                                      *)

Store(o) == arrived' = IF o \in Items(arrived) THEN arrived ELSE Append(arrived, o)

Sending == pc \in {"send", "drain_send"}

SendSucceeds ==
  /\ Sending
  /\ Store(item)
  /\ item' = NoObservation
  /\ IF pc = "send"
     THEN pc' = "submit" /\ UNCHANGED spool
     ELSE pc' = "drain" /\ spool' = Tail(spool)
  /\ UNCHANGED <<logs, seen, batch, submitted, dropped, late, faults>>

\* Mutant of AfterFailure: the item is taken off the spool before it is sent.
AfterFailurePopped ==
  IF pc = "send"
  THEN pc' = "submit" /\ Enqueued(item)
  ELSE pc' = "wait" /\ spool' = Tail(spool) /\ UNCHANGED dropped

\* A failed first attempt goes to the spool; a failed drain waits for the next poll.
AfterFailure ==
  IF pc = "send"
  THEN pc' = "submit" /\ Enqueued(item)
  ELSE pc' = "wait" /\ UNCHANGED <<spool, dropped>>

\* The request was lost, only its answer was, or it is still on its way.
SendFails ==
  /\ Sending
  /\ faults < MaxFaults
  /\ faults' = faults + 1
  /\ \/ UNCHANGED <<arrived, late>>
     \/ Store(item) /\ UNCHANGED late
     \/ late' = late \cup {item} /\ UNCHANGED arrived
  /\ item' = NoObservation
  /\ AfterFailure
  /\ UNCHANGED <<logs, seen, batch, submitted>>

LateArrival(o) ==
  /\ o \in late
  /\ late' = late \ {o}
  /\ Store(o)
  /\ UNCHANGED <<logs, seen, batch, spool, pc, item, submitted, dropped, faults>>

\* Shutdown, the end of Zeek, or a heartbeat answered with 401 or 403: what
\* is spooled is not sent any more.
Stop ==
  /\ pc = "wait"
  /\ pc' = "stopped"
  /\ UNCHANGED <<logs, seen, batch, spool, item, submitted, dropped, late, arrived, faults>>

-----------------------------------------------------------------------------
SensorStep ==
  \/ Poll
  \/ PollUnread
  \/ \E o \in Observations : Submit(o)
  \/ Submitted
  \/ DrainNext
  \/ SendSucceeds
  \/ SendFails

Next ==
  \/ \E c \in Conversations : ZeekStep(c)
  \/ SensorStep
  \/ \E o \in Observations : LateArrival(o)
  \/ Stop

Spec == Init /\ [][Next]_vars

(* The task runs on, every connection ends some day, and Zeek logs it.     *)
Fairness ==
  /\ WF_vars(SensorStep)
  /\ \A c \in Conversations : WF_vars(LogRecord(c, "conn"))

FairSpec == Spec /\ Fairness

-----------------------------------------------------------------------------
(* The logs, the spool and the histories keep their shape, the spool stays *)
(* within its capacity, and no observation is processed twice (seen ids).  *)
TypeOK ==
  /\ logs \in [Conversations -> SUBSET Kinds]
  /\ seen \subseteq Observations /\ batch \subseteq seen
  /\ spool \in Seq(Observations) /\ Len(spool) <= Capacity
  /\ pc \in {"wait", "submit", "send", "drain", "drain_send", "stopped"}
  /\ item \in Observations \cup {NoObservation}
  /\ submitted \in Seq(Observations)
  /\ Cardinality(Items(submitted)) = Len(submitted)
  /\ dropped \subseteq Observations /\ late \subseteq Observations
  /\ arrived \in Seq(Observations)
  /\ faults \in Nat

Position(o) == CHOOSE i \in DOMAIN submitted : submitted[i] = o

(* Every observation processed is at Core, in the spool, being sent, or    *)
(* counted as dropped: lost requests and answers lose nothing silently     *)
(* (spool.rs submit and drain_pending; the counters of the heartbeat).     *)
Accounted ==
  Items(submitted) \subseteq Items(arrived) \cup Items(spool) \cup dropped \cup {item}

(* Core first stores observations in the order they were captured, except  *)
(* those the spool dropped, whatever requests fail, repeat or come late.   *)
InOrder ==
  \A i, j \in DOMAIN arrived :
    i < j /\ arrived[j] \notin dropped => Position(arrived[i]) < Position(arrived[j])

(* Overflow gives up the oldest observations: what waits in the spool is   *)
(* in order and younger than everything dropped.                           *)
OldestDropped ==
  /\ \A i, j \in DOMAIN spool : i < j => Position(spool[i]) < Position(spool[j])
  /\ \A o \in dropped, q \in Items(spool) : Position(o) < Position(q)

(* Every mail connection that ended is reported with its connection record *)
(* (or given up by a full spool), although polls fail while some other     *)
(* conversation has no flow record: unless the sensor is stopped first, or *)
(* a record the import will not take is logged, after which every import   *)
(* of the growing logs fails and is passed over (live.rs, poll_ticker).    *)
EndedIsReported ==
  \A c \in Conversations :
    IsMail(c) /\ "conn" \in logs[c] ~>
      \/ [of |-> c, by |-> "conn"] \in Items(arrived) \cup dropped
      \/ pc = "stopped"
      \/ Unimportable

=============================================================================
