-------------------------- MODULE LiveSensorProofs --------------------------
(***************************************************************************)
(* Proofs about LiveSensor for any conversations, spool and failures.      *)
(***************************************************************************)
EXTENDS LiveSensor, FiniteSetTheorems, TLAPS

-----------------------------------------------------------------------------
(* Sequences and what they hold.                                           *)

LEMMA ItemsEmpty == Items(<<>>) = {}
BY DEF Items

LEMMA ItemsAppend ==
  ASSUME NEW S, NEW s \in Seq(S), NEW o
  PROVE  Items(Append(s, o)) = Items(s) \cup {o}
<1>1. Len(Append(s, o)) = Len(s) + 1 /\ DOMAIN Append(s, o) = 1 .. Len(s) + 1
  OBVIOUS
<1>2. \A i \in 1 .. Len(s) : Append(s, o)[i] = s[i]
  OBVIOUS
<1>3. Append(s, o)[Len(s) + 1] = o
  OBVIOUS
<1>4. \A i \in 1 .. Len(s) + 1 : i \in 1 .. Len(s) \/ i = Len(s) + 1
  OBVIOUS
<1>5. Items(Append(s, o)) \subseteq Items(s) \cup {o}
  BY <1>1, <1>2, <1>3, <1>4 DEF Items
<1>6. Items(s) \cup {o} \subseteq Items(Append(s, o))
  BY <1>1, <1>2, <1>3 DEF Items
<1> QED
  BY <1>5, <1>6

LEMMA ItemsTail ==
  ASSUME NEW S, NEW s \in Seq(S), s # <<>>
  PROVE  Head(s) \in S /\ Tail(s) \in Seq(S) /\ Items(s) = {Head(s)} \cup Items(Tail(s))
<1>1. /\ Head(s) = s[1] /\ Head(s) \in S /\ Tail(s) \in Seq(S)
      /\ Len(s) \in Nat /\ Len(s) # 0 /\ Len(Tail(s)) = Len(s) - 1
  OBVIOUS
<1>2. \A i \in 1 .. Len(s) - 1 : Tail(s)[i] = s[i + 1]
  OBVIOUS
<1>3. Items(s) \subseteq {Head(s)} \cup Items(Tail(s))
  <2> SUFFICES ASSUME NEW i \in 1 .. Len(s), i # 1
               PROVE  \E j \in DOMAIN Tail(s) : s[i] = Tail(s)[j]
    BY <1>1 DEF Items
  <2>1. i - 1 \in DOMAIN Tail(s)
    BY <1>1
  <2>2. Tail(s)[i - 1] = s[i]
    BY <1>1, <1>2, <2>1
  <2> QED
    BY <2>1, <2>2
<1>4. {Head(s)} \cup Items(Tail(s)) \subseteq Items(s)
  <2>1. Head(s) \in Items(s)
    BY <1>1 DEF Items
  <2>2. ASSUME NEW j \in DOMAIN Tail(s)
        PROVE  Tail(s)[j] \in Items(s)
    <3>1. j + 1 \in DOMAIN s /\ Tail(s)[j] = s[j + 1]
      BY <1>1, <1>2
    <3> QED
      BY <3>1 DEF Items
  <2> QED
    BY <2>1, <2>2 DEF Items
<1> QED
  BY <1>1, <1>3, <1>4

LEMMA ItemsIn ==
  ASSUME NEW S, NEW s \in Seq(S)
  PROVE  Items(s) \subseteq S /\ (Items(s) = {} <=> s = <<>>)
BY DEF Items

(* The places of the observations handed to the spooler. *)
Injective(s) == \A i, j \in DOMAIN s : s[i] = s[j] => i = j

LEMMA PositionIs ==
  ASSUME submitted \in Seq(Observations), Injective(submitted), NEW i \in DOMAIN submitted
  PROVE  Position(submitted[i]) = i
BY DEF Position, Injective

LEMMA Positions ==
  ASSUME submitted \in Seq(Observations), Injective(submitted)
  PROVE  /\ \A o \in Items(submitted) : Position(o) \in 1 .. Len(submitted)
         /\ \A o, q \in Items(submitted) : Position(o) = Position(q) => o = q
BY PositionIs DEF Items
-----------------------------------------------------------------------------
(***************************************************************************)
(* The shape of the state.  The request under way holds an observation,    *)
(* and a drain sends the head of the spool; the spool is empty while a new *)
(* observation is sent.  Nothing is anywhere that was not handed to the    *)
(* spooler, and the new observations of a poll were not yet.               *)
(***************************************************************************)
Shape ==
  /\ TypeOK
  /\ IsFiniteSet(Items(submitted)) /\ Injective(submitted)
  /\ Items(submitted) \subseteq seen /\ batch \cap Items(submitted) = {}
  /\ Sending <=> item \in Observations
  /\ pc = "send" => spool = <<>>
  /\ pc = "drain_send" => spool # <<>> /\ item = Head(spool)
  /\ Items(spool) \cup Items(arrived) \cup dropped \cup late \cup {item}
       \subseteq Items(submitted) \cup {NoObservation}

LEMMA ShapeInit == Init => Shape
<1> SUFFICES ASSUME Init PROVE Shape
  OBVIOUS
<1>1. submitted = <<>> /\ spool = <<>> /\ arrived = <<>> /\ Len(<<>>) = 0 /\ DOMAIN <<>> = {}
  BY DEF Init
<1>2. Items(submitted) = {} /\ Items(spool) = {} /\ Items(arrived) = {}
  BY <1>1, ItemsEmpty
<1>3. IsFiniteSet({}) /\ Cardinality({}) = 0
  BY FS_EmptySet
<1>4. TypeOK
  <2>1. logs \in [Conversations -> SUBSET Kinds]
    BY DEF Init
  <2>2. submitted \in Seq(Observations) /\ arrived \in Seq(Observations)
          /\ spool \in Seq(Observations) /\ Len(spool) <= Capacity
    BY <1>1, SensorAssumption
  <2>3. Cardinality(Items(submitted)) = Len(submitted)
    BY <1>1, <1>2, <1>3
  <2> QED
    BY <2>1, <2>2, <2>3 DEF Init, TypeOK
<1>5. Injective(submitted)
  BY <1>1 DEF Injective
<1> QED
  BY <1>1, <1>2, <1>3, <1>4, <1>5, SentinelAssumption DEF Init, Shape, Sending

LEMMA NormalizedType == Normalized \subseteq Observations
BY DEF Normalized, ObservationOf, Observations

LEMMA StoreItems ==
  ASSUME arrived \in Seq(Observations), NEW o \in Observations, Store(o)
  PROVE  /\ arrived' \in Seq(Observations)
         /\ Items(arrived') = Items(arrived) \cup {o}
<1>1. CASE o \in Items(arrived)
  BY <1>1 DEF Store
<1>2. CASE o \notin Items(arrived)
  <2>1. arrived' = Append(arrived, o)
    BY <1>2 DEF Store
  <2>2. Items(Append(arrived, o)) = Items(arrived) \cup {o}
    BY ItemsAppend
  <2> QED
    BY <2>1, <2>2
<1> QED
  BY <1>1, <1>2

LEMMA EnqueuedItems ==
  ASSUME TypeOK, NEW o \in Observations, Enqueued(o)
  PROVE  /\ spool' \in Seq(Observations) /\ Len(spool') <= Capacity /\ spool' # <<>>
         /\ o \in Items(spool')
         /\ Items(spool') \subseteq Items(spool) \cup {o}
         /\ dropped \subseteq dropped'
         /\ Items(spool) \subseteq Items(spool') \cup dropped'
         /\ dropped' \subseteq dropped \cup Items(spool)
<1>0. spool \in Seq(Observations) /\ Len(spool) \in Nat /\ Len(spool) <= Capacity
        /\ Capacity \in Nat \ {0}
  BY SensorAssumption DEF TypeOK
<1>1. CASE Len(spool) >= Capacity
  <2>1. spool # <<>> /\ Len(spool) = Capacity
    BY <1>0, <1>1
  <2>2. /\ Head(spool) \in Observations /\ Tail(spool) \in Seq(Observations)
        /\ Items(spool) = {Head(spool)} \cup Items(Tail(spool))
    BY <1>0, <2>1, ItemsTail
  <2>3. spool' = Append(Tail(spool), o) /\ dropped' = dropped \cup {Head(spool)}
    BY <1>1 DEF Enqueued
  <2>4. Items(spool') = Items(Tail(spool)) \cup {o}
    BY <2>2, <2>3, ItemsAppend
  <2>5. spool' \in Seq(Observations) /\ Len(spool') = Capacity /\ spool' # <<>>
    BY <1>0, <2>1, <2>2, <2>3
  <2> QED
    BY <1>0, <2>2, <2>3, <2>4, <2>5
<1>2. CASE ~(Len(spool) >= Capacity)
  <2>1. spool' = Append(spool, o) /\ dropped' = dropped
    BY <1>2 DEF Enqueued
  <2>2. Items(spool') = Items(spool) \cup {o}
    BY <1>0, <2>1, ItemsAppend
  <2>3. spool' \in Seq(Observations) /\ Len(spool') = Len(spool) + 1 /\ spool' # <<>>
    BY <1>0, <2>1
  <2>4. Len(spool') <= Capacity
    BY <1>0, <1>2, <2>3
  <2> QED
    BY <2>1, <2>2, <2>3, <2>4
<1> QED
  BY <1>1, <1>2
(* Handing an observation to the spooler, whatever becomes of it next.     *)
LEMMA SubmittedGrows ==
  ASSUME Shape, NEW o \in batch, submitted' = Append(submitted, o)
  PROVE  /\ o \in Observations /\ o \in seen /\ o \notin Items(submitted)
         /\ submitted' \in Seq(Observations)
         /\ Items(submitted') = Items(submitted) \cup {o}
         /\ IsFiniteSet(Items(submitted'))
         /\ Cardinality(Items(submitted')) = Len(submitted')
         /\ Injective(submitted')
<1>1. o \in Observations /\ o \in seen /\ o \notin Items(submitted)
        /\ submitted \in Seq(Observations)
  BY DEF Shape, TypeOK
<1>2. submitted' \in Seq(Observations) /\ Len(submitted') = Len(submitted) + 1
  BY <1>1
<1>3. Items(submitted') = Items(submitted) \cup {o}
  BY <1>1, ItemsAppend
<1>4. IsFiniteSet(Items(submitted'))
        /\ Cardinality(Items(submitted')) = Cardinality(Items(submitted)) + 1
  BY <1>1, <1>3, FS_AddElement DEF Shape
<1>5. Injective(submitted')
  <2> SUFFICES ASSUME NEW i \in DOMAIN submitted', NEW j \in DOMAIN submitted',
                      submitted'[i] = submitted'[j]
               PROVE  i = j
    BY DEF Injective
  <2>1. \A k \in DOMAIN submitted' :
          \/ k \in DOMAIN submitted /\ submitted'[k] = submitted[k]
          \/ k = Len(submitted) + 1 /\ submitted'[k] = o
    BY <1>1
  <2>2. \A k \in DOMAIN submitted : submitted[k] # o
    BY <1>1 DEF Items
  <2> QED
    BY <2>1, <2>2 DEF Shape, Injective
<1> QED
  BY <1>1, <1>2, <1>3, <1>4, <1>5 DEF Shape, TypeOK

(* The shape is inductive. *)
LEMMA ShapeStep == Shape /\ [Next]_vars => Shape'
<1> SUFFICES ASSUME Shape, [Next]_vars PROVE Shape'
  OBVIOUS
<1>0. TypeOK
  BY DEF Shape
<1>1. ASSUME NEW c \in Conversations, NEW kind \in Kinds, LogRecord(c, kind)
      PROVE  Shape'
  <2>1. logs' \in [Conversations -> SUBSET Kinds]
    BY <1>0, <1>1 DEF LogRecord, TypeOK
  <2> QED
    BY <1>1, <2>1 DEF LogRecord, Shape, TypeOK, Sending
<1>2. CASE Poll
  <2>1. batch' = Unseen /\ seen' = seen \cup batch' /\ batch' \subseteq Observations
          /\ batch' \cap seen = {}
    BY <1>2, NormalizedType DEF Poll, Unseen
  <2> QED
    BY <1>2, <2>1 DEF Poll, Shape, TypeOK, Sending
<1>2a. CASE PollUnread
  BY <1>2a DEF PollUnread, Shape, TypeOK, Sending
<1>3. ASSUME NEW o \in Observations, Submit(o)
      PROVE  Shape'
  <2>1. /\ pc = "submit" /\ o \in batch /\ batch' = batch \ {o}
        /\ submitted' = Append(submitted, o)
        /\ UNCHANGED <<logs, seen, late, arrived, faults>>
    BY <1>3 DEF Submit
  <2>2. /\ o \in seen /\ o \notin Items(submitted)
        /\ submitted' \in Seq(Observations)
        /\ Items(submitted') = Items(submitted) \cup {o}
        /\ IsFiniteSet(Items(submitted'))
        /\ Cardinality(Items(submitted')) = Len(submitted')
        /\ Injective(submitted')
    BY <2>1, SubmittedGrows
  <2>3. item = NoObservation
    BY <1>0, <2>1 DEF Shape, TypeOK, Sending
  <2>4. CASE MaySend
    <3>1. pc' = "send" /\ item' = o /\ UNCHANGED <<spool, dropped>> /\ spool = <<>>
      BY <1>3, <2>4 DEF Submit, MaySend
    <3> QED
      BY <2>1, <2>2, <3>1 DEF Shape, TypeOK, Sending
  <2>5. CASE ~MaySend
    <3>1. Enqueued(o) /\ UNCHANGED <<pc, item>>
      BY <1>3, <2>5 DEF Submit
    <3>2. /\ spool' \in Seq(Observations) /\ Len(spool') <= Capacity
          /\ Items(spool') \subseteq Items(spool) \cup {o}
          /\ dropped' \subseteq dropped \cup Items(spool)
      BY <1>0, <3>1, EnqueuedItems
    <3>3. Items(spool) \subseteq Observations
      BY <1>0, ItemsIn DEF TypeOK
    <3> QED
      BY <2>1, <2>2, <2>3, <3>1, <3>2, <3>3, SentinelAssumption
      DEF Shape, TypeOK, Sending
  <2> QED
    BY <2>4, <2>5
<1>4. CASE Submitted
  BY <1>4 DEF Submitted, Shape, TypeOK, Sending
<1>5. CASE DrainNext
  <2>1. CASE spool = <<>>
    BY <1>5, <2>1 DEF DrainNext, Shape, TypeOK, Sending
  <2>2. CASE spool # <<>>
    <3>1. /\ pc = "drain" /\ pc' = "drain_send" /\ item' = Head(spool)
          /\ UNCHANGED <<logs, seen, batch, spool, submitted, dropped, late, arrived, faults>>
      BY <1>5, <2>2 DEF DrainNext
    <3>2. Head(spool) \in Observations /\ Head(spool) \in Items(spool)
      BY <1>0, <2>2, ItemsTail DEF TypeOK
    <3>3. Head(spool) \in Items(submitted)
      BY <3>2, SentinelAssumption DEF Shape
    <3> QED
      BY <2>2, <3>1, <3>2, <3>3 DEF Shape, TypeOK, Sending
  <2> QED
    BY <2>1, <2>2
<1>6. CASE SendSucceeds
  <2>1. /\ Sending /\ Store(item) /\ item' = NoObservation
        /\ UNCHANGED <<logs, seen, batch, submitted, dropped, late, faults>>
    BY <1>6 DEF SendSucceeds
  <2>2. item \in Observations /\ item \in Items(submitted)
    BY <2>1, SentinelAssumption DEF Shape
  <2>3. arrived' \in Seq(Observations) /\ Items(arrived') = Items(arrived) \cup {item}
    BY <1>0, <2>1, <2>2, StoreItems DEF TypeOK
  <2>4. CASE pc = "send"
    <3>1. pc' = "submit" /\ spool' = spool
      BY <1>6, <2>4 DEF SendSucceeds
    <3> QED
      BY <2>1, <2>2, <2>3, <3>1, SentinelAssumption DEF Shape, TypeOK, Sending
  <2>5. CASE pc # "send"
    <3>1. pc = "drain_send" /\ pc' = "drain" /\ spool' = Tail(spool) /\ spool # <<>>
      BY <1>6, <2>1, <2>5 DEF SendSucceeds, Sending, Shape
    <3>2. spool' \in Seq(Observations) /\ Items(spool') \subseteq Items(spool)
      BY <1>0, <3>1, ItemsTail DEF TypeOK
    <3>3. Len(spool') <= Capacity
      <4>1. spool \in Seq(Observations) /\ Len(spool) <= Capacity /\ Capacity \in Nat
        BY <1>0, SensorAssumption DEF TypeOK
      <4>2. Len(spool) \in Nat /\ Len(spool') = Len(spool) - 1
        BY <3>1, <4>1
      <4> QED
        BY <4>1, <4>2
    <3> QED
      BY <2>1, <2>2, <2>3, <3>1, <3>2, <3>3, SentinelAssumption
      DEF Shape, TypeOK, Sending
  <2> QED
    BY <2>4, <2>5
<1>7. CASE SendFails
  <2>1. /\ Sending /\ item' = NoObservation
        /\ UNCHANGED <<logs, seen, batch, submitted>>
    BY <1>7 DEF SendFails
  <2>2. item \in Observations /\ item \in Items(submitted)
    BY <2>1, SentinelAssumption DEF Shape
  <2>3. faults' \in Nat
    BY <1>0, <1>7 DEF SendFails, TypeOK
  <2>4. /\ arrived' \in Seq(Observations) /\ Items(arrived') \subseteq Items(arrived) \cup {item}
        /\ late' \subseteq late \cup {item}
    <3>1. CASE Store(item) /\ UNCHANGED late
      BY <1>0, <2>2, <3>1, StoreItems DEF TypeOK
    <3>2. CASE arrived' = arrived
      BY <1>0, <1>7, <3>2 DEF SendFails, TypeOK
    <3> QED
      BY <1>7, <3>1, <3>2 DEF SendFails
  <2>5. CASE pc = "send"
    <3>1. pc' = "submit" /\ Enqueued(item)
      BY <1>7, <2>5 DEF SendFails, AfterFailure
    <3>2. /\ spool' \in Seq(Observations) /\ Len(spool') <= Capacity
          /\ Items(spool') \subseteq Items(spool) \cup {item}
          /\ dropped' \subseteq dropped \cup Items(spool)
      BY <1>0, <2>2, <3>1, EnqueuedItems
    <3>3. Items(spool) \subseteq Observations
      BY <1>0, ItemsIn DEF TypeOK
    <3> QED
      BY <2>1, <2>2, <2>3, <2>4, <3>1, <3>2, <3>3, SentinelAssumption
      DEF Shape, TypeOK, Sending
  <2>6. CASE pc # "send"
    <3>1. pc' = "wait" /\ UNCHANGED <<spool, dropped>>
      BY <1>7, <2>6 DEF SendFails, AfterFailure
    <3> QED
      BY <2>1, <2>2, <2>3, <2>4, <3>1, SentinelAssumption
      DEF Shape, TypeOK, Sending
  <2> QED
    BY <2>5, <2>6
<1>8. ASSUME NEW o \in Observations, LateArrival(o)
      PROVE  Shape'
  <2>1. /\ o \in late /\ late' = late \ {o}
        /\ UNCHANGED <<logs, seen, batch, spool, pc, item, submitted, dropped, faults>>
    BY <1>8 DEF LateArrival
  <2>2. arrived' \in Seq(Observations) /\ Items(arrived') = Items(arrived) \cup {o}
    BY <1>0, <1>8, StoreItems DEF LateArrival, TypeOK
  <2> QED
    BY <2>1, <2>2 DEF Shape, TypeOK, Sending
<1>9. CASE Stop
  BY <1>9 DEF Stop, Shape, TypeOK, Sending
<1>10. CASE UNCHANGED vars
  BY <1>10 DEF vars, Shape, TypeOK, Sending
<1> QED
  BY <1>1, <1>2, <1>2a, <1>3, <1>4, <1>5, <1>6, <1>7, <1>8, <1>9, <1>10
  DEF Next, ZeekStep, SensorStep

LEMMA ShapeAlways == Spec => []Shape
BY ShapeInit, ShapeStep, PTL DEF Spec

(* The sensor's state keeps its shape, its spool stays within capacity and *)
(* no observation is handed to the spooler twice.                          *)
THEOREM TypeCorrect == Spec => []TypeOK
<1>1. Shape => TypeOK
  BY DEF Shape
<1> QED
  BY <1>1, ShapeAlways, PTL
-----------------------------------------------------------------------------
(***************************************************************************)
(* Order.  p stands for the places of the observations.                    *)
(***************************************************************************)
Increasing(p, s) == \A i, j \in DOMAIN s : i < j => p[s[i]] < p[s[j]]
Below(p, A, B)   == \A a \in A, b \in B : p[a] < p[b]

LEMMA IncreasingTail ==
  ASSUME NEW S, NEW s \in Seq(S), s # <<>>, NEW p, Increasing(p, s)
  PROVE  Increasing(p, Tail(s)) /\ Below(p, {Head(s)}, Items(Tail(s)))
<1>1. /\ Len(s) \in Nat /\ Len(s) # 0 /\ Head(s) = s[1] /\ DOMAIN s = 1 .. Len(s)
      /\ DOMAIN Tail(s) = 1 .. Len(s) - 1
  OBVIOUS
<1>2. \A i \in 1 .. Len(s) - 1 : Tail(s)[i] = s[i + 1] /\ i + 1 \in DOMAIN s
  OBVIOUS
<1>3. Increasing(p, Tail(s))
  <2> SUFFICES ASSUME NEW i \in 1 .. Len(s) - 1, NEW j \in 1 .. Len(s) - 1, i < j
               PROVE  p[s[i + 1]] < p[s[j + 1]]
    BY <1>1, <1>2 DEF Increasing
  <2>1. i + 1 < j + 1 /\ i + 1 \in DOMAIN s /\ j + 1 \in DOMAIN s
    BY <1>2
  <2> QED
    BY <2>1 DEF Increasing
<1>4. Below(p, {Head(s)}, Items(Tail(s)))
  <2> SUFFICES ASSUME NEW i \in 1 .. Len(s) - 1
               PROVE  p[s[1]] < p[s[i + 1]]
    BY <1>1, <1>2 DEF Below, Items
  <2>1. 1 \in DOMAIN s /\ i + 1 \in DOMAIN s /\ 1 < i + 1
    BY <1>1, <1>2
  <2> QED
    BY <2>1 DEF Increasing
<1> QED
  BY <1>3, <1>4

LEMMA IncreasingAppend ==
  ASSUME NEW S, NEW s \in Seq(S), NEW p, NEW o, Increasing(p, s), Below(p, Items(s), {o})
  PROVE  Increasing(p, Append(s, o))
<1>1. Len(s) \in Nat /\ DOMAIN s = 1 .. Len(s) /\ DOMAIN Append(s, o) = 1 .. Len(s) + 1
  OBVIOUS
<1>2. (\A i \in 1 .. Len(s) : Append(s, o)[i] = s[i]) /\ Append(s, o)[Len(s) + 1] = o
  OBVIOUS
<1> DEFINE t == Append(s, o)
<1> HIDE DEF t
<1> SUFFICES ASSUME NEW i \in 1 .. Len(s) + 1, NEW j \in 1 .. Len(s) + 1, i < j
             PROVE  p[t[i]] < p[t[j]]
  BY <1>1 DEF Increasing, t
<1>3. i \in DOMAIN s /\ t[i] = s[i] /\ s[i] \in Items(s)
  BY <1>1, <1>2 DEF t, Items
<1>4. CASE j = Len(s) + 1
  BY <1>2, <1>3, <1>4 DEF t, Below
<1>5. CASE j # Len(s) + 1
  <2>1. j \in DOMAIN s
    BY <1>1, <1>5
  <2>2. t[j] = s[j]
    BY <1>1, <1>2, <2>1 DEF t
  <2> QED
    BY <1>3, <2>1, <2>2 DEF Increasing
<1> QED
  BY <1>4, <1>5

(* The newest observation joins a spool that is in order. *)
LEMMA EnqueuedOrder ==
  ASSUME TypeOK, NEW o \in Observations, Enqueued(o),
         NEW p \in [Observations -> Int],
         Increasing(p, spool), Below(p, dropped, Items(spool)),
         Below(p, Items(spool) \cup dropped, {o})
  PROVE  Increasing(p, spool') /\ Below(p, dropped', Items(spool'))
<1>0. spool \in Seq(Observations) /\ Len(spool) \in Nat /\ Capacity \in Nat \ {0}
        /\ dropped \subseteq Observations
  BY SensorAssumption DEF TypeOK
<1>1. CASE Len(spool) >= Capacity
  <2>1. spool # <<>>
    BY <1>0, <1>1
  <2>2. /\ Tail(spool) \in Seq(Observations)
        /\ Items(spool) = {Head(spool)} \cup Items(Tail(spool))
    BY <1>0, <2>1, ItemsTail
  <2>3. spool' = Append(Tail(spool), o) /\ dropped' = dropped \cup {Head(spool)}
    BY <1>1 DEF Enqueued
  <2>4. Increasing(p, Tail(spool)) /\ Below(p, {Head(spool)}, Items(Tail(spool)))
    BY <1>0, <2>1, IncreasingTail
  <2>5. Items(spool') = Items(Tail(spool)) \cup {o}
    BY <2>2, <2>3, ItemsAppend
  <2>6. Below(p, dropped', Items(spool'))
    BY <2>2, <2>3, <2>4, <2>5 DEF Below
  <2>7. Increasing(p, spool')
    BY <2>2, <2>3, <2>4, IncreasingAppend DEF Below
  <2> QED
    BY <2>6, <2>7
<1>2. CASE ~(Len(spool) >= Capacity)
  <2>1. spool' = Append(spool, o) /\ dropped' = dropped
    BY <1>2 DEF Enqueued
  <2>2. Items(spool') = Items(spool) \cup {o}
    BY <1>0, <2>1, ItemsAppend
  <2>3. Below(p, dropped', Items(spool'))
    BY <2>1, <2>2 DEF Below
  <2>4. Increasing(p, spool')
    BY <1>0, <2>1, IncreasingAppend DEF Below
  <2> QED
    BY <2>3, <2>4
<1> QED
  BY <1>1, <1>2
(***************************************************************************)
(* What the order rests on.  p gives the observations handed to the        *)
(* spooler their places.  Nothing that was ever sent is younger than       *)
(* something in the spool, what may still arrive late is known otherwise,  *)
(* and what is sent at once is the newest of all.                          *)
(***************************************************************************)
Places    == [Observations -> Int]
Placed(p) == \A i \in DOMAIN submitted : p[submitted[i]] = i

Arrivals(p) ==
  \A i, j \in DOMAIN arrived :
    i < j /\ arrived[j] \notin dropped => p[arrived[i]] < p[arrived[j]]

SentFirst(p) == \A o \in Items(arrived) \cup late, q \in Items(spool) : p[o] <= p[q]
LateKnown    == late \subseteq dropped \cup Items(arrived) \cup Items(spool)
NewestSent(p) ==
  pc = "send" => Below(p, dropped \cup Items(arrived) \cup late, {item})

Ordered(p) ==
  /\ Increasing(p, spool) /\ Below(p, dropped, Items(spool))
  /\ Arrivals(p) /\ SentFirst(p) /\ LateKnown /\ NewestSent(p)

OrderInv == \A p \in Places : Placed(p) => Ordered(p)

LEMMA PlacedOnce ==
  ASSUME Shape, NEW p \in Places, Placed(p)
  PROVE  /\ \A o, q \in Items(submitted) : p[o] = p[q] => o = q
         /\ \A o \in Items(submitted) : p[o] \in 1 .. Len(submitted)
BY DEF Shape, TypeOK, Placed, Items

(* A first arrival keeps the order if nothing younger is there already. *)
LEMMA StoreOrder ==
  ASSUME Shape, NEW p \in Places, Placed(p), Arrivals(p),
         NEW o \in Observations, o \in Items(submitted), Store(o),
         dropped \subseteq dropped',
         o \in Items(arrived) \cup dropped' \/ \A a \in Items(arrived) : p[a] <= p[o]
  PROVE  Arrivals(p)'
<1>0. arrived \in Seq(Observations) /\ Items(arrived) \subseteq Items(submitted)
  BY ItemsIn, SentinelAssumption DEF Shape, TypeOK
<1>1. CASE o \in Items(arrived)
  BY <1>1 DEF Store, Arrivals
<1>2. CASE o \notin Items(arrived)
  <2>1. arrived' = Append(arrived, o)
    BY <1>2 DEF Store
  <2>2. /\ Len(arrived) \in Nat /\ DOMAIN arrived = 1 .. Len(arrived)
        /\ DOMAIN arrived' = 1 .. Len(arrived) + 1
        /\ \A i \in DOMAIN arrived : arrived'[i] = arrived[i]
        /\ arrived'[Len(arrived) + 1] = o
    BY <1>0, <2>1
  <2> SUFFICES ASSUME NEW i \in DOMAIN arrived', NEW j \in DOMAIN arrived',
                      i < j, arrived'[j] \notin dropped'
               PROVE  p[arrived'[i]] < p[arrived'[j]]
    BY DEF Arrivals
  <2>3. i \in DOMAIN arrived /\ arrived'[i] = arrived[i] /\ arrived[i] \in Items(arrived)
    BY <2>2 DEF Items
  <2>4. CASE j \in DOMAIN arrived
    BY <2>2, <2>3, <2>4 DEF Arrivals
  <2>5. CASE j \notin DOMAIN arrived
    <3>1. arrived'[j] = o
      BY <2>2, <2>5
    <3>2. p[arrived[i]] <= p[o]
      BY <1>2, <2>3, <3>1
    <3>3. p[arrived[i]] # p[o]
      BY <1>0, <1>2, <2>3, PlacedOnce
    <3>4. p[arrived[i]] \in Int /\ p[o] \in Int
      BY <1>0, <2>3 DEF Places, Shape, TypeOK
    <3> QED
      BY <2>3, <3>1, <3>2, <3>3, <3>4
  <2> QED
    BY <2>4, <2>5
<1> QED
  BY <1>1, <1>2

LEMMA OrderInit == Init => OrderInv
<1> SUFFICES ASSUME Init, NEW p \in Places PROVE Ordered(p)
  BY DEF OrderInv
<1>1. spool = <<>> /\ arrived = <<>> /\ DOMAIN <<>> = {} /\ Items(<<>>) = {}
        /\ dropped = {} /\ late = {} /\ pc = "wait"
  BY ItemsEmpty DEF Init
<1> QED
  BY <1>1 DEF Ordered, Increasing, Below, Arrivals, SentFirst, LateKnown, NewestSent
LEMMA PlacedBefore ==
  ASSUME Shape, [Next]_vars, NEW p, Placed(p)'
  PROVE  Placed(p)
<1>1. submitted' = submitted \/ \E o \in batch : submitted' = Append(submitted, o)
  BY DEF Next, ZeekStep, SensorStep, LogRecord, Poll, PollUnread, Submit, Submitted, DrainNext,
         SendSucceeds, SendFails, LateArrival, Stop, vars
<1>2. CASE submitted' = submitted
  BY <1>2 DEF Placed
<1>3. ASSUME NEW o \in batch, submitted' = Append(submitted, o)
      PROVE  Placed(p)
  <2>1. submitted \in Seq(Observations) /\ o \in Observations
    BY DEF Shape, TypeOK
  <2>2. \A i \in DOMAIN submitted : i \in DOMAIN submitted' /\ submitted'[i] = submitted[i]
    BY <1>3, <2>1
  <2> QED
    BY <2>2 DEF Placed
<1> QED
  BY <1>1, <1>2, <1>3

LEMMA OrderStep == Shape /\ OrderInv /\ [Next]_vars => OrderInv'
<1> SUFFICES ASSUME Shape, OrderInv, [Next]_vars, NEW p \in Places, Placed(p)'
             PROVE  Ordered(p)'
  BY DEF OrderInv
<1>1. Placed(p) /\ Ordered(p)
  BY PlacedBefore DEF OrderInv
<1>2. /\ TypeOK /\ spool \in Seq(Observations)
      /\ Items(spool) \cup Items(arrived) \cup dropped \cup late
           \subseteq Items(submitted) \cap Observations
  BY ItemsIn, SentinelAssumption DEF Shape, TypeOK
<1>3. ASSUME UNCHANGED <<spool, dropped, arrived, late>>,
             pc' # "send" \/ UNCHANGED <<pc, item>>
      PROVE  Ordered(p)'
  BY <1>1, <1>3 DEF Ordered, Increasing, Below, Arrivals, SentFirst, LateKnown, NewestSent
<1>4. ASSUME NEW c \in Conversations, ZeekStep(c)
      PROVE  Ordered(p)'
  BY <1>3, <1>4 DEF ZeekStep, LogRecord
<1>5. CASE Poll \/ PollUnread \/ Submitted \/ DrainNext \/ Stop \/ UNCHANGED vars
  BY <1>3, <1>5 DEF Poll, PollUnread, Submitted, DrainNext, Stop, vars
<1>6. ASSUME NEW o \in Observations, Submit(o)
      PROVE  Ordered(p)'
  <2>1. /\ pc = "submit" /\ o \in batch /\ submitted' = Append(submitted, o)
        /\ UNCHANGED <<late, arrived>>
    BY <1>6 DEF Submit
  <2>2. Below(p, Items(submitted), {o})
    <3>1. submitted \in Seq(Observations)
      BY <1>2 DEF TypeOK
    <3>2. Len(submitted) + 1 \in DOMAIN submitted' /\ submitted'[Len(submitted) + 1] = o
      BY <2>1, <3>1
    <3>3. p[o] = Len(submitted) + 1
      BY <3>2 DEF Placed
    <3>4. \A q \in Items(submitted) : p[q] \in 1 .. Len(submitted)
      BY <1>1, PlacedOnce
    <3> QED
      BY <3>1, <3>3, <3>4 DEF Below
  <2>3. Below(p, Items(spool) \cup Items(arrived) \cup dropped \cup late, {o})
    BY <1>2, <2>2 DEF Below
  <2>4. CASE MaySend
    <3>1. pc' = "send" /\ item' = o /\ UNCHANGED <<spool, dropped>>
      BY <1>6, <2>4 DEF Submit
    <3> QED
      BY <1>1, <2>1, <2>3, <3>1
      DEF Ordered, Increasing, Below, Arrivals, SentFirst, LateKnown, NewestSent
  <2>5. CASE ~MaySend
    <3>1. Enqueued(o) /\ UNCHANGED <<pc, item>>
      BY <1>6, <2>5 DEF Submit
    <3>2. /\ Items(spool') \subseteq Items(spool) \cup {o}
          /\ dropped \subseteq dropped'
          /\ Items(spool) \subseteq Items(spool') \cup dropped'
      BY <1>2, <3>1, EnqueuedItems
    <3>3. Increasing(p, spool') /\ Below(p, dropped', Items(spool'))
      BY <1>1, <1>2, <2>3, <3>1, EnqueuedOrder DEF Ordered, Below, Places
    <3>4. Arrivals(p)'
      BY <1>1, <2>1, <3>2 DEF Ordered, Arrivals
    <3>5. SentFirst(p)'
      <4> SUFFICES ASSUME NEW a \in Items(arrived) \cup late, NEW q \in Items(spool')
                   PROVE  p[a] <= p[q]
        BY <2>1 DEF SentFirst
      <4>1. CASE q \in Items(spool)
        BY <1>1, <4>1 DEF Ordered, SentFirst
      <4>2. CASE q = o
        <5>1. p[a] < p[o] /\ p[a] \in Int /\ p[o] \in Int
          BY <1>2, <2>3 DEF Below, Places
        <5> QED
          BY <4>2, <5>1
      <4> QED
        BY <3>2, <4>1, <4>2
    <3>6. LateKnown'
      BY <1>1, <2>1, <3>2 DEF Ordered, LateKnown
    <3>7. NewestSent(p)'
      BY <2>1, <3>1 DEF NewestSent
    <3> QED
      BY <3>3, <3>4, <3>5, <3>6, <3>7 DEF Ordered, Increasing, Below
  <2> QED
    BY <2>4, <2>5
<1>7. CASE SendSucceeds
  <2>1. /\ Sending /\ Store(item)
        /\ UNCHANGED <<submitted, dropped, late>>
    BY <1>7 DEF SendSucceeds
  <2>2. item \in Observations /\ item \in Items(submitted)
    BY <2>1, SentinelAssumption DEF Shape
  <2>3. Items(arrived') = Items(arrived) \cup {item}
    BY <1>2, <2>1, <2>2, StoreItems DEF TypeOK
  <2>4. CASE pc = "send"
    <3>1. pc' = "submit" /\ spool' = spool /\ spool = <<>> /\ Items(spool) = {}
      BY <1>7, <2>4, ItemsEmpty DEF SendSucceeds, Shape
    <3>2. \A a \in Items(arrived) : p[a] <= p[item]
      <4> SUFFICES ASSUME NEW a \in Items(arrived) PROVE p[a] <= p[item]
        OBVIOUS
      <4>1. p[a] < p[item] /\ p[a] \in Int /\ p[item] \in Int
        BY <1>1, <1>2, <2>2, <2>4 DEF Ordered, NewestSent, Below, Places
      <4> QED
        BY <4>1
    <3>3. Arrivals(p)'
      BY <1>1, <2>1, <2>2, <3>2, StoreOrder DEF Ordered
    <3> QED
      BY <1>1, <2>1, <2>3, <3>1, <3>3
      DEF Ordered, Increasing, Below, SentFirst, LateKnown, NewestSent
  <2>5. CASE pc # "send"
    <3>1. pc' = "drain" /\ spool' = Tail(spool) /\ spool # <<>> /\ item = Head(spool)
      BY <1>7, <2>1, <2>5 DEF SendSucceeds, Sending, Shape
    <3>2. Items(spool) = {item} \cup Items(spool')
      BY <1>2, <3>1, ItemsTail
    <3>3. Increasing(p, spool') /\ Below(p, {item}, Items(spool'))
      BY <1>1, <1>2, <3>1, IncreasingTail DEF Ordered
    <3>4. Below(p, dropped, Items(spool'))
      BY <1>1, <3>2 DEF Ordered, Below
    <3>5. Arrivals(p)'
      <4>1. \A a \in Items(arrived) : p[a] <= p[item]
        BY <1>1, <3>2 DEF Ordered, SentFirst
      <4> QED
        BY <1>1, <2>1, <2>2, <4>1, StoreOrder DEF Ordered
    <3>6. SentFirst(p)'
      <4> SUFFICES ASSUME NEW a \in Items(arrived) \cup {item} \cup late, NEW q \in Items(spool')
                   PROVE  p[a] <= p[q]
        BY <2>1, <2>3 DEF SentFirst
      <4>1. CASE a = item
        <5>1. p[item] < p[q] /\ p[item] \in Int /\ p[q] \in Int
          BY <1>2, <2>2, <3>2, <3>3 DEF Below, Places
        <5> QED
          BY <4>1, <5>1
      <4>2. CASE a # item
        BY <1>1, <3>2, <4>2 DEF Ordered, SentFirst
      <4> QED
        BY <4>1, <4>2
    <3>7. LateKnown'
      BY <1>1, <2>1, <2>3, <3>2 DEF Ordered, LateKnown
    <3> QED
      BY <2>1, <3>1, <3>3, <3>4, <3>5, <3>6, <3>7
      DEF Ordered, Increasing, Below, NewestSent
  <2> QED
    BY <2>4, <2>5
<1>8. CASE SendFails
  <2>1. Sending /\ UNCHANGED submitted /\ AfterFailure
    BY <1>8 DEF SendFails
  <2>2. item \in Observations /\ item \in Items(submitted)
    BY <2>1, SentinelAssumption DEF Shape
  <2>3. /\ arrived' = arrived \/ Store(item)
        /\ Items(arrived) \subseteq Items(arrived')
        /\ Items(arrived') \cup late' \subseteq Items(arrived) \cup late \cup {item}
        /\ late' \subseteq late \cup {item}
    <3>1. CASE Store(item) /\ UNCHANGED late
      BY <1>2, <2>2, <3>1, StoreItems DEF TypeOK
    <3>2. CASE arrived' = arrived
      BY <1>8, <3>2 DEF SendFails
    <3> QED
      BY <1>8, <3>1, <3>2 DEF SendFails
  <2>4. ASSUME dropped \subseteq dropped', \A a \in Items(arrived) : p[a] <= p[item]
        PROVE  Arrivals(p)'
    <3>1. CASE arrived' = arrived
      BY <1>1, <2>4, <3>1 DEF Ordered, Arrivals
    <3>2. CASE Store(item)
      BY <1>1, <2>2, <2>4, <3>2, StoreOrder DEF Ordered
    <3> QED
      BY <2>3, <3>1, <3>2
  <2>5. CASE pc = "send"
    <3>1. pc' = "submit" /\ Enqueued(item) /\ spool = <<>> /\ Items(spool) = {}
      BY <2>1, <2>5, ItemsEmpty DEF AfterFailure, Shape
    <3>2. Below(p, dropped \cup Items(arrived) \cup late, {item})
      BY <1>1, <2>5 DEF Ordered, NewestSent
    <3>3. /\ Items(spool') \subseteq {item} /\ item \in Items(spool')
          /\ dropped \subseteq dropped'
      BY <1>2, <2>2, <3>1, EnqueuedItems
    <3>4. Increasing(p, spool') /\ Below(p, dropped', Items(spool'))
      BY <1>1, <1>2, <2>2, <3>1, <3>2, EnqueuedOrder DEF Ordered, Below, Places
    <3>5. \A a \in Items(arrived) \cup late \cup {item} : p[a] <= p[item]
      <4> SUFFICES ASSUME NEW a \in Items(arrived) \cup late \cup {item} PROVE p[a] <= p[item]
        OBVIOUS
      <4>1. p[a] \in Int /\ p[item] \in Int /\ (a # item => p[a] < p[item])
        BY <1>2, <2>2, <3>2 DEF Below, Places
      <4> QED
        BY <4>1
    <3>6. Arrivals(p)'
      BY <2>4, <3>3, <3>5
    <3>7. SentFirst(p)'
      BY <2>3, <3>3, <3>5 DEF SentFirst
    <3>8. LateKnown'
      BY <1>1, <2>3, <3>1, <3>3 DEF Ordered, LateKnown
    <3> QED
      BY <3>1, <3>4, <3>6, <3>7, <3>8 DEF Ordered, Increasing, Below, NewestSent
  <2>6. CASE pc # "send"
    <3>1. /\ pc' = "wait" /\ UNCHANGED <<spool, dropped>>
          /\ spool # <<>> /\ item = Head(spool)
      BY <2>1, <2>6 DEF AfterFailure, Sending, Shape
    <3>2. Items(spool) = {item} \cup Items(Tail(spool))
      BY <1>2, <3>1, ItemsTail
    <3>3. \A q \in Items(spool) : p[item] <= p[q]
      <4> SUFFICES ASSUME NEW q \in Items(spool) PROVE p[item] <= p[q]
        OBVIOUS
      <4>1. Below(p, {item}, Items(Tail(spool)))
        BY <1>1, <1>2, <3>1, IncreasingTail DEF Ordered
      <4>2. p[q] \in Int /\ p[item] \in Int /\ (q # item => p[item] < p[q])
        BY <1>2, <2>2, <3>2, <4>1 DEF Below, Places
      <4> QED
        BY <4>2
    <3>4. Arrivals(p)'
      <4>1. \A a \in Items(arrived) : p[a] <= p[item]
        BY <1>1, <3>2 DEF Ordered, SentFirst
      <4> QED
        BY <2>4, <3>1, <4>1
    <3>5. SentFirst(p)'
      BY <1>1, <2>3, <3>1, <3>3 DEF Ordered, SentFirst
    <3>6. LateKnown'
      BY <1>1, <2>3, <3>1, <3>2 DEF Ordered, LateKnown
    <3> QED
      BY <1>1, <3>1, <3>4, <3>5, <3>6 DEF Ordered, Increasing, Below, NewestSent
  <2> QED
    BY <2>5, <2>6
<1>9. ASSUME NEW o \in Observations, LateArrival(o)
      PROVE  Ordered(p)'
  <2>1. /\ o \in late /\ late' = late \ {o} /\ Store(o)
        /\ UNCHANGED <<spool, pc, item, submitted, dropped>>
    BY <1>9 DEF LateArrival
  <2>2. Items(arrived') = Items(arrived) \cup {o}
    BY <1>2, <2>1, StoreItems DEF TypeOK
  <2>3. Items(arrived') \cup late' = Items(arrived) \cup late
    BY <2>1, <2>2
  <2>4. o \in Items(arrived) \cup dropped \/ \A a \in Items(arrived) : p[a] <= p[o]
    <3>1. CASE o \in Items(spool)
      BY <1>1, <3>1 DEF Ordered, SentFirst
    <3> QED
      BY <1>1, <2>1, <3>1 DEF Ordered, LateKnown
  <2>5. Arrivals(p)'
    BY <1>1, <1>2, <2>1, <2>4, StoreOrder DEF Ordered
  <2>6. SentFirst(p)' /\ LateKnown'
    <3>1. SentFirst(p)'
      <4> SUFFICES ASSUME NEW a \in Items(arrived') \cup late', NEW q \in Items(spool)
                   PROVE  p[a] <= p[q]
        BY <2>1 DEF SentFirst
      <4> QED
        BY <1>1, <2>3 DEF Ordered, SentFirst
    <3>2. LateKnown'
      BY <1>1, <2>1, <2>2 DEF Ordered, LateKnown
    <3> QED
      BY <3>1, <3>2
  <2>7. NewestSent(p)'
    BY <1>1, <2>1, <2>3 DEF Ordered, NewestSent, Below
  <2> QED
    BY <1>1, <2>1, <2>5, <2>6, <2>7 DEF Ordered, Increasing, Below
<1> QED
  BY <1>4, <1>5, <1>6, <1>7, <1>8, <1>9 DEF Next, SensorStep

LEMMA OrderAlways == Spec => [](Shape /\ OrderInv)
BY ShapeInit, ShapeStep, OrderInit, OrderStep, PTL DEF Spec

(* The positions of the model are such places. *)
LEMMA PositionsOrdered ==
  ASSUME Shape, OrderInv
  PROVE  \E p \in Places :
           /\ Ordered(p)
           /\ \A o \in Items(submitted) : p[o] = Position(o)
<1>1. submitted \in Seq(Observations) /\ Injective(submitted)
        /\ Items(submitted) \subseteq Observations
  BY ItemsIn DEF Shape, TypeOK
<1>2. \A o \in Items(submitted) : Position(o) \in Int
  BY <1>1, Positions
<1>3. PICK p \in Places : \A o \in Observations :
        p[o] = IF o \in Items(submitted) THEN Position(o) ELSE 0
  <2>1. [o \in Observations |-> IF o \in Items(submitted) THEN Position(o) ELSE 0] \in Places
    BY <1>2 DEF Places
  <2> QED
    BY <2>1
<1>4. \A o \in Items(submitted) : p[o] = Position(o)
  BY <1>1, <1>3
<1>5. Placed(p)
  <2> SUFFICES ASSUME NEW i \in DOMAIN submitted PROVE p[submitted[i]] = i
    BY DEF Placed
  <2>1. submitted[i] \in Items(submitted)
    BY DEF Items
  <2> QED
    BY <1>1, <1>4, <2>1, PositionIs
<1> QED
  BY <1>4, <1>5 DEF OrderInv

LEMMA OrderMeans == Shape /\ OrderInv => InOrder /\ OldestDropped
<1> SUFFICES ASSUME Shape, OrderInv PROVE InOrder /\ OldestDropped
  OBVIOUS
<1>1. PICK p \in Places : Ordered(p) /\ \A o \in Items(submitted) : p[o] = Position(o)
  BY PositionsOrdered
<1>2. Items(arrived) \cup Items(spool) \cup dropped \subseteq Items(submitted)
  BY ItemsIn, SentinelAssumption DEF Shape, TypeOK
<1>3. (\A i \in DOMAIN arrived : arrived[i] \in Items(arrived))
        /\ \A i \in DOMAIN spool : spool[i] \in Items(spool)
  BY DEF Items
<1>4. InOrder
  BY <1>1, <1>2, <1>3 DEF Ordered, Arrivals, InOrder
<1>5. OldestDropped
  BY <1>1, <1>2, <1>3 DEF Ordered, Increasing, Below, OldestDropped
<1> QED
  BY <1>4, <1>5

(* However requests fail, repeat or come late, Core first stores what the  *)
(* spool did not drop in the order it was captured.                        *)
THEOREM OrderKept == Spec => []InOrder
BY OrderAlways, OrderMeans, PTL

(* A full spool gives up its oldest observations, and it is in order.      *)
THEOREM OldestGivenUp == Spec => []OldestDropped
BY OrderAlways, OrderMeans, PTL
-----------------------------------------------------------------------------
(* Nothing the sensor processed goes missing.                              *)
LEMMA AccountedStep == Shape /\ Accounted /\ [Next]_vars => Accounted'
<1> SUFFICES ASSUME Shape, Accounted, [Next]_vars PROVE Accounted'
  OBVIOUS
<1>1. TypeOK /\ spool \in Seq(Observations) /\ arrived \in Seq(Observations)
      /\ submitted \in Seq(Observations)
      /\ Items(submitted) \subseteq Observations
  BY ItemsIn DEF Shape, TypeOK
<1>2. ASSUME UNCHANGED <<submitted, spool, dropped, item>>, Items(arrived) \subseteq Items(arrived')
      PROVE  Accounted'
  BY <1>2 DEF Accounted
<1>3. ASSUME NEW c \in Conversations, ZeekStep(c)
      PROVE  Accounted'
  BY <1>2, <1>3 DEF ZeekStep, LogRecord
<1>4. CASE Poll \/ PollUnread \/ Submitted \/ Stop \/ UNCHANGED vars
  BY <1>2, <1>4 DEF Poll, PollUnread, Submitted, Stop, vars
<1>5. ASSUME NEW o \in Observations, Submit(o)
      PROVE  Accounted'
  <2>1. /\ pc = "submit" /\ o \in batch /\ submitted' = Append(submitted, o)
        /\ UNCHANGED arrived
    BY <1>5 DEF Submit
  <2>2. Items(submitted') = Items(submitted) \cup {o}
    BY <1>1, <2>1, ItemsAppend
  <2>3. item \notin Items(submitted)
    BY <1>1, <2>1 DEF Shape, Sending
  <2>4. CASE MaySend
    BY <1>5, <2>1, <2>2, <2>3, <2>4 DEF Submit, Accounted
  <2>5. CASE ~MaySend
    <3>1. Enqueued(o)
      BY <1>5, <2>5 DEF Submit
    <3>2. o \in Items(spool') /\ dropped \subseteq dropped'
            /\ Items(spool) \subseteq Items(spool') \cup dropped'
      BY <1>1, <3>1, EnqueuedItems
    <3> QED
      BY <2>1, <2>2, <2>3, <3>2 DEF Accounted
  <2> QED
    BY <2>4, <2>5
<1>6. CASE DrainNext
  <2>1. item \notin Items(submitted)
    BY <1>1, <1>6 DEF DrainNext, Shape, Sending
  <2> QED
    BY <1>6, <2>1 DEF DrainNext, Accounted
<1>7. CASE SendSucceeds
  <2>1. Sending /\ Store(item) /\ UNCHANGED <<submitted, dropped>>
    BY <1>7 DEF SendSucceeds
  <2>2. Items(arrived') = Items(arrived) \cup {item}
    BY <1>1, <2>1, StoreItems DEF Shape
  <2>3. Items(spool) \subseteq Items(spool') \cup {item}
    <3>1. CASE pc = "send"
      BY <1>7, <3>1 DEF SendSucceeds
    <3>2. CASE pc # "send"
      <4>1. spool' = Tail(spool) /\ spool # <<>> /\ item = Head(spool)
        BY <1>7, <2>1, <3>2 DEF SendSucceeds, Sending, Shape
      <4> QED
        BY <1>1, <4>1, ItemsTail
    <3> QED
      BY <3>1, <3>2
  <2> QED
    BY <2>1, <2>2, <2>3 DEF Accounted
<1>8. CASE SendFails
  <2>1. Sending /\ UNCHANGED submitted /\ AfterFailure /\ item \in Observations
    BY <1>8 DEF SendFails, Shape
  <2>2. Items(arrived) \subseteq Items(arrived')
    BY <1>1, <1>8, <2>1, StoreItems DEF SendFails
  <2>3. /\ item \in Items(spool') /\ dropped \subseteq dropped'
        /\ Items(spool) \subseteq Items(spool') \cup dropped'
    <3>1. CASE pc = "send"
      BY <1>1, <2>1, <3>1, EnqueuedItems DEF AfterFailure
    <3>2. CASE pc # "send"
      <4>1. UNCHANGED <<spool, dropped>> /\ spool # <<>> /\ item = Head(spool)
        BY <2>1, <3>2 DEF AfterFailure, Sending, Shape
      <4> QED
        BY <1>1, <4>1, ItemsTail
    <3> QED
      BY <3>1, <3>2
  <2> QED
    BY <2>1, <2>2, <2>3 DEF Accounted
<1>9. ASSUME NEW o \in Observations, LateArrival(o)
      PROVE  Accounted'
  BY <1>1, <1>2, <1>9, StoreItems DEF LateArrival
<1> QED
  BY <1>3, <1>4, <1>5, <1>6, <1>7, <1>8, <1>9 DEF Next, SensorStep

(* Every observation handed to the spooler is stored, spooled, under way,  *)
(* or counted as dropped.                                                  *)
THEOREM NothingLost == Spec => []Accounted
<1>1. Init => Accounted
  <2>1. Items(<<>>) = {}
    BY ItemsEmpty
  <2> QED
    BY <2>1 DEF Init, Accounted
<1> QED
  BY <1>1, ShapeAlways, AccountedStep, PTL DEF Spec
=============================================================================
