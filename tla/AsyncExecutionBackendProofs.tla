-------------------- MODULE AsyncExecutionBackendProofs --------------------
(***************************************************************************)
(* The safety of AsyncExecutionBackend for every capacity, payload size    *)
(* and counter width. Two strengthenings carry it. Control: a worker past  *)
(* the stop request has an owner that waits in join, so no second stop()   *)
(* can come, and poll_once has exactly one caller. OwedIsQueued: what      *)
(* stop() found is still in the queue or in the hands of poll_once, so an  *)
(* empty queue seen by the worker itself means that nothing is owed.       *)
(***************************************************************************)
EXTENDS AsyncExecutionBackend, Arithmetic, SequenceTheorems

Control ==
    /\ running <=> worker \in {"test_stop", "test_empty", "poll", "leaving"}
    /\ worker \in {"test_empty", "leaving", "finished"} => stop_requested
    /\ stop_requested /\ joinable => owner = "joining"
    /\ owner = "joining" => joinable
    /\ owner \in {"poll", "drain"} <=> poll # "none" /\ worker = "none"
    /\ worker = "poll" <=> poll # "none" /\ joinable

OwedIsQueued == owed <= Len(queue) + Num(poll = "send")

IInv ==
    /\ TypeOK
    /\ Control
    /\ OwedIsQueued
    /\ DrainedOnStop
    /\ CountersReconcile

\* Both constructor arguments give an initial state of the invariant.
LEMMA InitIInv == Init => IInv
<1> SUFFICES ASSUME Init PROVE IInv
  OBVIOUS
<1> USE ParametersAssumption DEF Init
<1>1. TypeOK
  <2>1. queue \in Seq(BackendSubmitRequest) /\ Len(queue) = 0
    OBVIOUS
  <2>2. stats \in [Counter -> 0 .. CounterModulus - 1]
    OBVIOUS
  <2>3. stop_requested \in BOOLEAN /\ running \in BOOLEAN /\ accepted \in BOOLEAN
    OBVIOUS
  <2>4. owed \in 0 .. Capacity + 1
    OBVIOUS
  <2>5. refused \in [{"full", "invalid"} -> 0 .. CounterModulus - 1]
    OBVIOUS
  <2> QED
    BY <2>1, <2>2, <2>3, <2>4, <2>5 DEF TypeOK
<1>2. Control
  BY DEF Control, joinable
<1>3. OwedIsQueued
  BY DEF OwedIsQueued, Num
<1>4. DrainedOnStop
  BY DEF DrainedOnStop
<1>5. CountersReconcile
  BY DEF CountersReconcile, Congruent, Num, Counter
<1> QED
  BY <1>1, <1>2, <1>3, <1>4, <1>5 DEF IInv

\* A counter that is incremented keeps its width.
LEMMA IncrementedType ==
    ASSUME TypeOK, NEW c \in Counter
    PROVE  Incremented(c) \in [Counter -> 0 .. CounterModulus - 1]
<1>1. stats[c] \in Nat
  BY ParametersAssumption DEF TypeOK
<1>2. (stats[c] + 1) % CounterModulus \in 0 .. CounterModulus - 1
  BY <1>1, Division, ParametersAssumption
<1> QED
  BY <1>2 DEF Incremented, TypeOK

\* So does a count of refusals.
LEMMA RefusedType ==
    ASSUME TypeOK, NEW why \in {"full", "invalid"}
    PROVE  Refused(why) \in [{"full", "invalid"} -> 0 .. CounterModulus - 1]
<1>1. refused[why] \in Nat
  BY ParametersAssumption DEF TypeOK
<1>2. (refused[why] + 1) % CounterModulus \in 0 .. CounterModulus - 1
  BY <1>1, Division, ParametersAssumption
<1> QED
  BY <1>2 DEF Refused, TypeOK

\* Every step keeps the types.
LEMMA StepType == TypeOK /\ Control /\ [Next]_vars => TypeOK'
<1> SUFFICES ASSUME TypeOK, Control, [Next]_vars PROVE TypeOK'
  OBVIOUS
<1> USE ParametersAssumption
<1>0. /\ queue \in Seq(BackendSubmitRequest) /\ Len(queue) \in Nat /\ Len(queue) <= Capacity
      /\ owed \in Nat /\ owed <= Capacity + 1
  BY DEF TypeOK
<1>1. ASSUME NEW request \in BackendSubmitRequest, SubmitInvalid(request) PROVE TypeOK'
  <2>1. stats' \in [Counter -> 0 .. CounterModulus - 1]
    BY <1>1, IncrementedType DEF SubmitInvalid, Counter
  <2>2. accepted' \in BOOLEAN
    BY <1>1, Zenon DEF SubmitInvalid
  <2>3. refused' \in [{"full", "invalid"} -> 0 .. CounterModulus - 1]
    BY <1>1, RefusedType DEF SubmitInvalid
  <2> QED
    BY <1>1, <2>1, <2>2, <2>3 DEF TypeOK, SubmitInvalid
<1>2. ASSUME NEW request \in BackendSubmitRequest, SubmitPush(request) PROVE TypeOK'
  <2>0. /\ Append(queue, request) \in Seq(BackendSubmitRequest)
        /\ Len(Append(queue, request)) = Len(queue) + 1
    BY <1>0, <1>2, AppendProperties
  <2>1. queue' \in Seq(BackendSubmitRequest) /\ Len(queue') <= Capacity
    BY <1>0, <1>2, <2>0 DEF SubmitPush
  <2>2. submitter' \in {"queued", "full"}
    BY <1>2 DEF SubmitPush
  <2>3. refused' \in [{"full", "invalid"} -> 0 .. CounterModulus - 1]
    BY <1>2, RefusedType DEF SubmitPush, TypeOK
  <2> QED
    BY <1>2, <2>1, <2>2, <2>3 DEF TypeOK, SubmitPush
<1>3. CASE RecordQueued
  <2>1. stats' \in [Counter -> 0 .. CounterModulus - 1]
    BY <1>3, IncrementedType DEF RecordQueued, Counter
  <2>2. accepted' \in BOOLEAN
    BY <1>3, Zenon DEF RecordQueued, TypeOK
  <2> QED
    BY <1>3, <2>1, <2>2 DEF TypeOK, RecordQueued
<1>4. CASE RecordRingFull
  <2>1. stats' \in [Counter -> 0 .. CounterModulus - 1]
    BY <1>4, IncrementedType DEF RecordRingFull, Counter
  <2>2. accepted' \in BOOLEAN
    BY <1>4, Zenon DEF RecordRingFull, TypeOK
  <2> QED
    BY <1>4, <2>1, <2>2 DEF TypeOK, RecordRingFull
<1>5. CASE RecordRejected
  <2>1. stats' \in [Counter -> 0 .. CounterModulus - 1]
    BY <1>5, IncrementedType DEF RecordRejected, Counter
  <2>2. accepted' \in BOOLEAN
    BY <1>5, Zenon DEF RecordRejected, TypeOK
  <2> QED
    BY <1>5, <2>1, <2>2 DEF TypeOK, RecordRejected
<1>6. CASE SubmitterQuits
  BY <1>6 DEF TypeOK, SubmitterQuits
<1>7. CASE Start
  BY <1>7 DEF TypeOK, Start
<1>8. CASE Stop
  <2>1. owed' \in 0 .. Capacity + 1
    BY <1>0, <1>8 DEF Stop
  <2>2. stop_requested' \in BOOLEAN /\ owner' \in {"joining", "idle"}
    BY <1>8, Zenon DEF Stop
  <2> QED
    BY <1>8, <2>1, <2>2 DEF TypeOK, Stop
<1>9. CASE Join
  BY <1>9 DEF TypeOK, Join
<1>10. CASE ManualPoll
  BY <1>10 DEF TypeOK, ManualPoll
<1>11. CASE PollPop
  <2>1. CASE queue = <<>>
    BY <1>11, <2>1 DEF TypeOK, PollPop, Returned
  <2>2. CASE queue # <<>>
    <3>1. /\ queue' \in Seq(BackendSubmitRequest) /\ Len(queue') <= Capacity
          /\ item' \in BackendSubmitRequest
      BY <1>0, <1>11, <2>2, HeadTailProperties DEF PollPop
    <3> QED
      BY <1>11, <2>2, <3>1 DEF TypeOK, PollPop
  <2> QED
    BY <2>1, <2>2
<1>12. CASE PollSend
  <2>1. owed' \in 0 .. Capacity + 1
    BY <1>0, <1>12 DEF PollSend
  <2> QED
    BY <1>12, <2>1 DEF TypeOK, PollSend
<1>13. CASE PollRecord
  <2>1. stats' \in [Counter -> 0 .. CounterModulus - 1]
    BY <1>13, IncrementedType DEF PollRecord, Counter
  <2>2. /\ worker' \in {worker, "test_stop"} /\ owner' \in {owner, "idle"}
        /\ poll' \in {"none", "pop"}
    BY <1>13 DEF PollRecord, Returned
  <2> QED
    BY <1>13, <2>1, <2>2 DEF TypeOK, PollRecord
<1>14. CASE WorkerStarts
  BY <1>14 DEF TypeOK, WorkerStarts
<1>15. CASE WorkerTestStop
  BY <1>15 DEF TypeOK, WorkerTestStop
<1>16. CASE WorkerTestEmpty
  BY <1>16 DEF TypeOK, WorkerTestEmpty
<1>17. CASE WorkerLeaves
  BY <1>17 DEF TypeOK, WorkerLeaves
<1>18. CASE UNCHANGED vars
  BY <1>18 DEF TypeOK, vars
<1> QED
  BY <1>1, <1>2, <1>3, <1>4, <1>5, <1>6, <1>7, <1>8, <1>9, <1>10, <1>11, <1>12, <1>13, <1>14, <1>15, <1>16, <1>17, <1>18 DEF Next, Submitter, Owner, Poll, Worker

\* Every step keeps the threads in step with each other.
LEMMA StepControl == TypeOK /\ Control /\ [Next]_vars => Control'
<1> SUFFICES ASSUME TypeOK, Control, [Next]_vars PROVE Control'
  OBVIOUS
<1> USE DEF Control, joinable
<1>1. ASSUME NEW request \in BackendSubmitRequest, SubmitInvalid(request) PROVE Control'
  BY <1>1 DEF SubmitInvalid
<1>2. ASSUME NEW request \in BackendSubmitRequest, SubmitPush(request) PROVE Control'
  BY <1>2 DEF SubmitPush
<1>3. CASE RecordQueued
  BY <1>3 DEF RecordQueued
<1>4. CASE RecordRingFull
  BY <1>4 DEF RecordRingFull
<1>5. CASE RecordRejected
  BY <1>5 DEF RecordRejected
<1>6. CASE SubmitterQuits
  BY <1>6 DEF SubmitterQuits
<1>7. CASE Start
  BY <1>7 DEF Start
<1>8. CASE Stop
  BY <1>8 DEF Stop
<1>9. CASE Join
  BY <1>9 DEF Join
<1>10. CASE ManualPoll
  BY <1>10 DEF ManualPoll
<1>11. CASE PollPop
  BY <1>11 DEF PollPop, Returned
<1>12. CASE PollSend
  BY <1>12 DEF PollSend
<1>13. CASE PollRecord
  BY <1>13 DEF PollRecord, Returned
<1>14. CASE WorkerStarts
  BY <1>14 DEF WorkerStarts
<1>15. CASE WorkerTestStop
  BY <1>15 DEF WorkerTestStop
<1>16. CASE WorkerTestEmpty
  BY <1>16 DEF WorkerTestEmpty
<1>17. CASE WorkerLeaves
  BY <1>17 DEF WorkerLeaves
<1>18. CASE UNCHANGED vars
  BY <1>18 DEF vars
<1> QED
  BY <1>1, <1>2, <1>3, <1>4, <1>5, <1>6, <1>7, <1>8, <1>9, <1>10, <1>11, <1>12, <1>13, <1>14, <1>15, <1>16, <1>17, <1>18 DEF Next, Submitter, Owner, Poll, Worker

\* The queue and the owed requests are naturals the arithmetic below is about.
LEMMA Naturals ==
    ASSUME TypeOK
    PROVE  /\ Len(queue) \in Nat /\ owed \in Nat
           /\ \A c \in Counter : stats[c] \in Nat
           /\ refused["full"] \in Nat /\ refused["invalid"] \in Nat
           /\ CounterModulus \in Nat /\ CounterModulus > 0
  BY ParametersAssumption DEF TypeOK

\* What stop() found is still in the queue or in the hands of poll_once.
LEMMA StepOwed == IInv /\ [Next]_vars => OwedIsQueued' /\ DrainedOnStop'
<1> SUFFICES ASSUME IInv, [Next]_vars PROVE OwedIsQueued' /\ DrainedOnStop'
  OBVIOUS
<1> USE DEF OwedIsQueued, DrainedOnStop, Num
<1>0. /\ TypeOK /\ Control /\ OwedIsQueued /\ DrainedOnStop
      /\ Len(queue) \in Nat /\ owed \in Nat
  BY Naturals DEF IInv
<1>1. ASSUME NEW request \in BackendSubmitRequest, SubmitInvalid(request)
      PROVE  OwedIsQueued' /\ DrainedOnStop'
  BY <1>0, <1>1 DEF SubmitInvalid
<1>2. ASSUME NEW request \in BackendSubmitRequest, SubmitPush(request)
      PROVE  OwedIsQueued' /\ DrainedOnStop'
  <2>1. Len(Append(queue, request)) = Len(queue) + 1
    BY <1>0, <1>2, AppendProperties DEF TypeOK
  <2>2. Len(queue') \in Nat /\ Len(queue) <= Len(queue')
    BY <1>0, <1>2, <2>1 DEF SubmitPush
  <2> QED
    BY <1>0, <1>2, <2>2 DEF SubmitPush
<1>3. CASE RecordQueued
  BY <1>0, <1>3 DEF RecordQueued
<1>4. CASE RecordRingFull
  BY <1>0, <1>4 DEF RecordRingFull
<1>5. CASE RecordRejected
  BY <1>0, <1>5 DEF RecordRejected
<1>6. CASE SubmitterQuits
  BY <1>0, <1>6 DEF SubmitterQuits
<1>7. CASE Start
  BY <1>0, <1>7 DEF Start
<1>8. CASE Stop
  <2>1. worker \notin {"leaving", "finished"}
    BY <1>0, <1>8 DEF Stop, Control, joinable
  <2> QED
    BY <1>0, <1>8, <2>1 DEF Stop
<1>9. CASE Join
  BY <1>0, <1>9 DEF Join
<1>10. CASE ManualPoll
  <2>1. poll = "none"
    BY <1>0, <1>10 DEF ManualPoll, Control, joinable
  <2> QED
    BY <1>0, <1>10, <2>1 DEF ManualPoll
<1>11. CASE PollPop
  <2>1. CASE queue = <<>>
    BY <1>0, <1>11, <2>1 DEF PollPop, Returned
  <2>2. CASE queue # <<>>
    <3>1. Len(queue') = Len(queue) - 1
      BY <1>0, <1>11, <2>2, HeadTailProperties DEF PollPop, TypeOK
    <3>2. worker \notin {"leaving", "finished"}
      BY <1>0, <1>11 DEF PollPop, Control, joinable
    <3> QED
      BY <1>0, <1>11, <2>2, <3>1, <3>2 DEF PollPop
  <2> QED
    BY <2>1, <2>2
<1>12. CASE PollSend
  BY <1>0, <1>12 DEF PollSend
<1>13. CASE PollRecord
  BY <1>0, <1>13 DEF PollRecord, Returned
<1>14. CASE WorkerStarts
  BY <1>0, <1>14 DEF WorkerStarts, Control, joinable
<1>15. CASE WorkerTestStop
  BY <1>0, <1>15 DEF WorkerTestStop, Control, joinable
<1>16. CASE WorkerTestEmpty
  <2>1. poll = "none"
    BY <1>0, <1>16 DEF WorkerTestEmpty, Control, joinable
  <2>2. queue = <<>> => owed = 0
    BY <1>0, <2>1
  <2> QED
    BY <1>0, <1>16, <2>1, <2>2 DEF WorkerTestEmpty
<1>17. CASE WorkerLeaves
  BY <1>0, <1>17 DEF WorkerLeaves
<1>18. CASE UNCHANGED vars
  BY <1>0, <1>18 DEF vars
<1> QED
  BY <1>1, <1>2, <1>3, <1>4, <1>5, <1>6, <1>7, <1>8, <1>9, <1>10, <1>11, <1>12, <1>13, <1>14, <1>15, <1>16, <1>17, <1>18 DEF Next, Submitter, Owner, Poll, Worker

\* What the order thread has counted or is about to count, and what the worker
\* has.
Submitted == stats["submit_queued"] + Num(submitter = "queued")

Answered ==
    stats["backend_accepted"] + stats["backend_rejected"] + Len(queue)
      + Num(poll \in {"send", "backend_accepted", "backend_rejected"})

QueuedCounted == Congruent(Submitted, Answered)

\* The refusals that ring_full and submit_rejected count or are about to.
FullCounted == stats["ring_full"] + Num(submitter = "full")
RejectedCounted == stats["submit_rejected"] + Num(submitter \in {"full", "rejected"})

RefusalsCounted ==
    /\ Congruent(FullCounted, refused["full"])
    /\ Congruent(RejectedCounted, refused["full"] + refused["invalid"])

\* CountersReconcile is the two together.
LEMMA CountersSplit == CountersReconcile <=> QueuedCounted /\ RefusalsCounted
  BY DEF CountersReconcile, QueuedCounted, RefusalsCounted, Submitted, Answered,
         FullCounted, RejectedCounted

\* Every step keeps the counters of what was queued and answered congruent.
LEMMA StepQueued == IInv /\ [Next]_vars => QueuedCounted'
<1> SUFFICES ASSUME IInv, [Next]_vars PROVE QueuedCounted'
  OBVIOUS
<1> USE DEF Submitted, Answered, Num
<1>0. /\ TypeOK /\ Control
      /\ Submitted % CounterModulus = Answered % CounterModulus
  BY CountersSplit DEF IInv, QueuedCounted, Congruent
<1>a. /\ Len(queue) \in Nat
      /\ CounterModulus \in Nat /\ CounterModulus > 0
      /\ DOMAIN stats = Counter
  BY <1>0, Naturals DEF TypeOK
<1>c. /\ stats["submit_queued"] \in Nat
      /\ stats["backend_accepted"] \in Nat
      /\ stats["backend_rejected"] \in Nat
  BY <1>0, Naturals DEF Counter
<1>d. Submitted \in Nat /\ Answered \in Nat
  BY <1>a, <1>c
<1>b. ASSUME Submitted' = Submitted, Answered' = Answered
      PROVE  QueuedCounted'
  BY <1>0, <1>b DEF QueuedCounted, Congruent
<1>1. ASSUME NEW request \in BackendSubmitRequest, SubmitInvalid(request)
      PROVE  QueuedCounted'
  BY <1>a, <1>b, <1>1 DEF SubmitInvalid, Incremented, Counter
<1>2. ASSUME NEW request \in BackendSubmitRequest, SubmitPush(request)
      PROVE  QueuedCounted'
  <2>1. CASE Len(queue) < Capacity
    <3>1. Len(queue') = Len(queue) + 1
      BY <1>0, <1>2, <2>1, AppendProperties DEF SubmitPush, TypeOK
    <3>2. /\ submitter = "idle" /\ submitter' = "queued"
          /\ stats' = stats /\ poll' = poll
      BY <1>2, <2>1 DEF SubmitPush
    <3>3. Submitted' = Submitted + 1 /\ Answered' = Answered + 1
      <4>1. Submitted' = Submitted + 1
        BY <1>c, <3>2
      <4>2. Answered' = Answered + 1
        BY <1>a, <1>c, <3>1, <3>2
      <4> QED
        BY <4>1, <4>2
    <3>4. \A a, b \in Nat : a % CounterModulus = b % CounterModulus =>
            (a + 1) % CounterModulus = (b + 1) % CounterModulus
      <4> SUFFICES ASSUME NEW a \in Nat, NEW b \in Nat,
                          a % CounterModulus = b % CounterModulus
                   PROVE  (a + 1) % CounterModulus = (b + 1) % CounterModulus
        OBVIOUS
      <4>1. ((a % CounterModulus) + 1) % CounterModulus = (a + 1) % CounterModulus
        BY <1>a, ModAbsorbs
      <4>2. ((b % CounterModulus) + 1) % CounterModulus = (b + 1) % CounterModulus
        BY <1>a, ModAbsorbs
      <4> QED
        BY <4>1, <4>2
    <3>5. (Submitted + 1) % CounterModulus = (Answered + 1) % CounterModulus
      <4> HIDE DEF Submitted, Answered
      <4> QED
        BY <1>0, <1>d, <3>4
    <3> QED
      BY <3>3, <3>5 DEF QueuedCounted, Congruent
  <2>2. CASE ~(Len(queue) < Capacity)
    BY <1>b, <1>2, <2>2 DEF SubmitPush
  <2> QED
    BY <2>1, <2>2
<1>3. CASE RecordQueued
  <2> DEFINE n == stats["submit_queued"] + 1
  <2>1. n \in Nat /\ n % CounterModulus \in Nat /\ n + 0 = n
    BY <1>a, <1>c, Division
  <2>2. Submitted = n /\ Submitted' = (n % CounterModulus) + 0 /\ Answered' = Answered
    BY <1>a, <1>3, <2>1 DEF RecordQueued, Incremented, Counter
  <2>3. Submitted' % CounterModulus = Submitted % CounterModulus
    <3> HIDE DEF n, Submitted
    <3>1. ((n % CounterModulus) + 0) % CounterModulus = (n + 0) % CounterModulus
      BY <1>a, <2>1, ModAbsorbs
    <3> QED
      BY <2>1, <2>2, <3>1
  <2> QED
    BY <1>0, <2>2, <2>3 DEF QueuedCounted, Congruent
<1>4. CASE RecordRingFull
  BY <1>a, <1>b, <1>4 DEF RecordRingFull, Incremented, Counter
<1>5. CASE RecordRejected
  BY <1>a, <1>b, <1>5 DEF RecordRejected, Incremented, Counter
<1>6. CASE SubmitterQuits
  BY <1>b, <1>6 DEF SubmitterQuits
<1>7. CASE Start
  BY <1>b, <1>7 DEF Start
<1>8. CASE Stop
  BY <1>b, <1>8 DEF Stop
<1>9. CASE Join
  BY <1>b, <1>9 DEF Join
<1>10. CASE ManualPoll
  <2>1. poll = "none"
    BY <1>0, <1>10 DEF ManualPoll, Control, joinable
  <2> QED
    BY <1>b, <1>10, <2>1 DEF ManualPoll
<1>11. CASE PollPop
  <2>1. CASE queue = <<>>
    BY <1>b, <1>11, <2>1 DEF PollPop, Returned
  <2>2. CASE queue # <<>>
    <3>1. Len(queue') = Len(queue) - 1
      BY <1>0, <1>11, <2>2, HeadTailProperties DEF PollPop, TypeOK
    <3> QED
      BY <1>a, <1>b, <1>c, <1>11, <2>2, <3>1 DEF PollPop
  <2> QED
    BY <2>1, <2>2
<1>12. CASE PollSend
  BY <1>b, <1>12 DEF PollSend
<1>13. CASE PollRecord
  <2>1. CASE poll = "backend_accepted"
    <3> DEFINE n == stats["backend_accepted"] + 1
               rest == stats["backend_rejected"] + Len(queue)
    <3>1. n \in Nat /\ rest \in Nat /\ n % CounterModulus \in Nat
      BY <1>a, <1>c, Division
    <3>2. Submitted' = Submitted /\ Answered = n + rest
      BY <1>a, <1>c, <1>13, <2>1 DEF PollRecord, Incremented, Counter
    <3>3. Answered' = (n % CounterModulus) + rest
      <4> DEFINE w == n % CounterModulus
      <4>1. stats'["backend_accepted"] = w /\ stats'["backend_rejected"] = stats["backend_rejected"]
        BY <1>a, <1>13, <2>1 DEF PollRecord, Incremented, Counter
      <4>2. queue' = queue /\ poll' \in {"none", "pop"}
        BY <1>13 DEF PollRecord, Returned
      <4>3. w \in Nat
        BY <3>1
      <4> HIDE DEF w
      <4>4. Answered' = w + rest
        BY <1>a, <1>c, <4>1, <4>2, <4>3
      <4> QED
        BY <4>4 DEF w
    <3>4. Answered' % CounterModulus = Answered % CounterModulus
      <4> HIDE DEF n, rest, Answered
      <4>0. n \in Nat /\ rest \in Nat /\ CounterModulus \in Nat /\ CounterModulus > 0
        BY <1>a, <3>1
      <4>1. ((n % CounterModulus) + rest) % CounterModulus = (n + rest) % CounterModulus
        BY <4>0, ModAbsorbs, Zenon
      <4> QED
        BY <3>2, <3>3, <4>1
    <3> QED
      BY <1>0, <3>2, <3>4 DEF QueuedCounted, Congruent
  <2>2. CASE poll = "backend_rejected"
    <3> DEFINE n == stats["backend_rejected"] + 1
               rest == stats["backend_accepted"] + Len(queue)
    <3>1. n \in Nat /\ rest \in Nat /\ n % CounterModulus \in Nat
      BY <1>a, <1>c, Division
    <3>2. Submitted' = Submitted /\ Answered = n + rest
      BY <1>a, <1>c, <1>13, <2>2 DEF PollRecord, Incremented, Counter
    <3>3. Answered' = (n % CounterModulus) + rest
      <4> DEFINE w == n % CounterModulus
      <4>1. stats'["backend_rejected"] = w /\ stats'["backend_accepted"] = stats["backend_accepted"]
        BY <1>a, <1>13, <2>2 DEF PollRecord, Incremented, Counter
      <4>2. queue' = queue /\ poll' \in {"none", "pop"}
        BY <1>13 DEF PollRecord, Returned
      <4>3. w \in Nat
        BY <3>1
      <4> HIDE DEF w
      <4>4. Answered' = w + rest
        BY <1>a, <1>c, <4>1, <4>2, <4>3
      <4> QED
        BY <4>4 DEF w
    <3>4. Answered' % CounterModulus = Answered % CounterModulus
      <4> HIDE DEF n, rest, Answered
      <4>0. n \in Nat /\ rest \in Nat /\ CounterModulus \in Nat /\ CounterModulus > 0
        BY <1>a, <3>1
      <4>1. ((n % CounterModulus) + rest) % CounterModulus = (n + rest) % CounterModulus
        BY <4>0, ModAbsorbs, Zenon
      <4> QED
        BY <3>2, <3>3, <4>1
    <3> QED
      BY <1>0, <3>2, <3>4 DEF QueuedCounted, Congruent
  <2> QED
    BY <1>13, <2>1, <2>2 DEF PollRecord
<1>14. CASE WorkerStarts
  BY <1>b, <1>14 DEF WorkerStarts
<1>15. CASE WorkerTestStop
  <2>1. poll = "none"
    BY <1>0, <1>15 DEF WorkerTestStop, Control, joinable
  <2> QED
    BY <1>b, <1>15, <2>1 DEF WorkerTestStop
<1>16. CASE WorkerTestEmpty
  <2>1. poll = "none"
    BY <1>0, <1>16 DEF WorkerTestEmpty, Control, joinable
  <2> QED
    BY <1>b, <1>16, <2>1 DEF WorkerTestEmpty
<1>17. CASE WorkerLeaves
  BY <1>b, <1>17 DEF WorkerLeaves
<1>18. CASE UNCHANGED vars
  BY <1>b, <1>18 DEF vars
<1> QED
  BY <1>1, <1>2, <1>3, <1>4, <1>5, <1>6, <1>7, <1>8, <1>9, <1>10, <1>11, <1>12, <1>13, <1>14, <1>15, <1>16, <1>17, <1>18 DEF Next, Submitter, Owner, Poll, Worker

\* Congruence is kept by counting one more on both sides, and by wrapping.
LEMMA CongruentSum ==
    ASSUME CounterModulus \in Nat, CounterModulus > 0,
           NEW a \in Nat, NEW b \in Nat, Congruent(a, b)
    PROVE  Congruent(a + 1, b + 1)
<1>1. ((a % CounterModulus) + 1) % CounterModulus = (a + 1) % CounterModulus
  BY ModAbsorbs
<1>2. ((b % CounterModulus) + 1) % CounterModulus = (b + 1) % CounterModulus
  BY ModAbsorbs
<1> QED
  BY <1>1, <1>2 DEF Congruent

LEMMA CongruentWrap ==
    ASSUME CounterModulus \in Nat, CounterModulus > 0, NEW n \in Nat, NEW rest \in Nat
    PROVE  n % CounterModulus \in Nat /\ Congruent((n % CounterModulus) + rest, n + rest)
<1>1. n % CounterModulus \in Nat
  BY Division
<1>2. ((n % CounterModulus) + rest) % CounterModulus = (n + rest) % CounterModulus
  BY ModAbsorbs, Zenon
<1> QED
  BY <1>1, <1>2 DEF Congruent

\* Every step counts a refused submit once, and at a full queue in both counters.
LEMMA StepRefusals == IInv /\ [Next]_vars => RefusalsCounted'
<1> SUFFICES ASSUME IInv, [Next]_vars PROVE RefusalsCounted'
  OBVIOUS
<1> DEFINE sr == stats["submit_rejected"]
           rf == stats["ring_full"]
           full == refused["full"]
           invalid == refused["invalid"]
           w(n) == n % CounterModulus
<1>0. TypeOK /\ RefusalsCounted
  BY CountersSplit DEF IInv
<1>a. /\ CounterModulus \in Nat /\ CounterModulus > 0
      /\ DOMAIN stats = Counter /\ DOMAIN refused = {"full", "invalid"}
      /\ full \in Nat /\ invalid \in Nat /\ sr \in Nat /\ rf \in Nat
  <2>1. /\ CounterModulus \in Nat /\ CounterModulus > 0
        /\ full \in Nat /\ invalid \in Nat /\ sr \in Nat /\ rf \in Nat
    BY <1>0, Naturals DEF Counter
  <2> QED
    BY <1>0, <2>1 DEF TypeOK
<1>b. ASSUME FullCounted' = FullCounted, RejectedCounted' = RejectedCounted,
             refused' = refused
      PROVE  RefusalsCounted'
  BY <1>0, <1>b DEF RefusalsCounted, Congruent
<1>c. ASSUME NEW n \in Nat, NEW rest \in Nat
      PROVE  w(n) \in Nat /\ Congruent(w(n) + rest, n + rest)
  BY <1>a, CongruentWrap
<1>d. ASSUME NEW a \in Nat, NEW b \in Nat, Congruent(a, b)
      PROVE  Congruent(a + 1, b + 1)
  BY <1>a, <1>d, CongruentSum, Zenon
<1>e. 0 \in Nat /\ sr + 1 \in Nat /\ rf + 1 \in Nat /\ full + 1 \in Nat /\ invalid + 1 \in Nat
  BY <1>a
<1> HIDE DEF w
<1>1. ASSUME NEW request \in BackendSubmitRequest, SubmitInvalid(request)
      PROVE  RefusalsCounted'
  <2>1. /\ submitter = "idle" /\ submitter' = "idle"
        /\ stats'["submit_rejected"] = w(sr + 1) /\ stats'["ring_full"] = rf
        /\ refused'["full"] = full /\ refused'["invalid"] = w(invalid + 1)
    BY <1>a, <1>1 DEF SubmitInvalid, Incremented, Refused, Counter, w
  <2>2. Congruent(sr, full + invalid) /\ Congruent(rf, full)
    BY <1>0, <1>a, <2>1 DEF RefusalsCounted, FullCounted, RejectedCounted, Num
  <2>3. Congruent(sr + 1, (full + invalid) + 1)
    BY <1>a, <1>d, <2>2
  <2>4. Congruent(w(sr + 1) + 0, (sr + 1) + 0) /\ w(sr + 1) \in Nat
    BY <1>a, <1>c, <1>e
  <2>5. Congruent(w(invalid + 1) + full, (invalid + 1) + full) /\ w(invalid + 1) \in Nat
    BY <1>a, <1>c, <1>e
  <2>6. /\ (sr + 1) + 0 = sr + 1 /\ (invalid + 1) + full = (full + invalid) + 1
        /\ w(invalid + 1) + full = full + w(invalid + 1)
    BY <1>a, <2>5
  <2>7. FullCounted' = rf /\ RejectedCounted' = w(sr + 1) + 0
    BY <1>a, <2>1, <2>4 DEF FullCounted, RejectedCounted, Num
  <2>8. Congruent(w(sr + 1) + 0, full + w(invalid + 1))
    BY <2>3, <2>4, <2>5, <2>6 DEF Congruent
  <2> QED
    BY <2>1, <2>2, <2>7, <2>8 DEF RefusalsCounted, Congruent
<1>2. ASSUME NEW request \in BackendSubmitRequest, SubmitPush(request)
      PROVE  RefusalsCounted'
  <2>1. CASE Len(queue) < Capacity
    BY <1>b, <1>2, <2>1 DEF SubmitPush, FullCounted, RejectedCounted, Num
  <2>2. CASE ~(Len(queue) < Capacity)
    <3>1. /\ submitter = "idle" /\ submitter' = "full" /\ stats' = stats
          /\ refused'["full"] = w(full + 1) /\ refused'["invalid"] = invalid
      BY <1>a, <1>2, <2>2 DEF SubmitPush, Refused, w
    <3>2. Congruent(sr, full + invalid) /\ Congruent(rf, full)
      BY <1>0, <1>a, <3>1 DEF RefusalsCounted, FullCounted, RejectedCounted, Num
    <3>3. Congruent(sr + 1, (full + invalid) + 1) /\ Congruent(rf + 1, full + 1)
      BY <1>a, <1>d, <3>2
    <3>4. /\ Congruent(w(full + 1) + 0, (full + 1) + 0) /\ w(full + 1) \in Nat
          /\ Congruent(w(full + 1) + invalid, (full + 1) + invalid)
      BY <1>a, <1>c, <1>e
    <3>5. /\ (full + 1) + 0 = full + 1 /\ w(full + 1) + 0 = w(full + 1)
          /\ (full + 1) + invalid = (full + invalid) + 1
      BY <1>a, <3>4
    <3>6. FullCounted' = rf + 1 /\ RejectedCounted' = sr + 1
      BY <1>a, <3>1 DEF FullCounted, RejectedCounted, Num
    <3>7. Congruent(rf + 1, w(full + 1)) /\ Congruent(sr + 1, w(full + 1) + invalid)
      BY <3>3, <3>4, <3>5 DEF Congruent
    <3> QED
      BY <3>1, <3>6, <3>7 DEF RefusalsCounted, Congruent
  <2> QED
    BY <2>1, <2>2
<1>3. CASE RecordQueued
  BY <1>a, <1>b, <1>3 DEF RecordQueued, Incremented, Counter, FullCounted, RejectedCounted, Num
<1>4. CASE RecordRingFull
  <2>1. /\ submitter = "full" /\ submitter' = "rejected" /\ refused' = refused
        /\ stats'["ring_full"] = w(rf + 1) /\ stats'["submit_rejected"] = sr
    BY <1>a, <1>4 DEF RecordRingFull, Incremented, Counter, w
  <2>2. Congruent(w(rf + 1) + 0, (rf + 1) + 0) /\ w(rf + 1) \in Nat
    BY <1>a, <1>c, <1>e
  <2>3. (rf + 1) + 0 = rf + 1 /\ FullCounted = rf + 1 /\ FullCounted' = w(rf + 1) + 0
    BY <1>a, <2>1, <2>2 DEF FullCounted, Num
  <2>4. RejectedCounted' = RejectedCounted
    BY <2>1 DEF RejectedCounted, Num
  <2> QED
    BY <1>0, <2>1, <2>2, <2>3, <2>4 DEF RefusalsCounted, Congruent
<1>5. CASE RecordRejected
  <2>1. /\ submitter = "rejected" /\ submitter' = "idle" /\ refused' = refused
        /\ stats'["submit_rejected"] = w(sr + 1) /\ stats'["ring_full"] = rf
    BY <1>a, <1>5 DEF RecordRejected, Incremented, Counter, w
  <2>2. Congruent(w(sr + 1) + 0, (sr + 1) + 0) /\ w(sr + 1) \in Nat
    BY <1>a, <1>c, <1>e
  <2>3. /\ (sr + 1) + 0 = sr + 1 /\ RejectedCounted = sr + 1
        /\ RejectedCounted' = w(sr + 1) + 0
    BY <1>a, <2>1, <2>2 DEF RejectedCounted, Num
  <2>4. FullCounted' = FullCounted
    BY <2>1 DEF FullCounted, Num
  <2> QED
    BY <1>0, <2>1, <2>2, <2>3, <2>4 DEF RefusalsCounted, Congruent
<1>6. CASE SubmitterQuits
  BY <1>b, <1>6 DEF SubmitterQuits, FullCounted, RejectedCounted, Num
<1>7. CASE Owner
  BY <1>b, <1>7 DEF Owner, Start, Stop, Join, ManualPoll, FullCounted, RejectedCounted
<1>8. CASE PollPop \/ PollSend
  BY <1>b, <1>8 DEF PollPop, PollSend, FullCounted, RejectedCounted
<1>9. CASE PollRecord
  <2>1. /\ stats'["submit_rejected"] = sr /\ stats'["ring_full"] = rf
        /\ submitter' = submitter /\ refused' = refused
    BY <1>a, <1>9 DEF PollRecord, Incremented, Counter
  <2> QED
    BY <1>b, <2>1 DEF FullCounted, RejectedCounted
<1>10. CASE Worker
  BY <1>b, <1>10 DEF Worker, WorkerStarts, WorkerTestStop, WorkerTestEmpty, WorkerLeaves,
     FullCounted, RejectedCounted
<1>11. CASE UNCHANGED vars
  BY <1>b, <1>11 DEF vars, FullCounted, RejectedCounted
<1> QED
  BY <1>1, <1>2, <1>3, <1>4, <1>5, <1>6, <1>7, <1>8, <1>9, <1>10, <1>11 DEF Next, Submitter, Poll

-----------------------------------------------------------------------------
\* The inductive invariant holds in every behaviour.
THEOREM Invariant == Spec => []IInv
<1>1. IInv /\ [Next]_vars => IInv'
  <2>1. QueuedCounted' /\ RefusalsCounted' => CountersReconcile'
    BY DEF CountersReconcile, QueuedCounted, RefusalsCounted, Submitted, Answered,
           FullCounted, RejectedCounted
  <2> QED
    BY <2>1, StepType, StepControl, StepOwed, StepQueued, StepRefusals DEF IInv
<1> QED
  BY InitIInv, <1>1, PTL DEF Spec

\* Type correctness of the asynchronous backend: the queue never holds more
\* than its capacity.
THEOREM TypeCorrect == Spec => []TypeOK
<1>1. IInv => TypeOK
  BY DEF IInv
<1> QED
  BY <1>1, Invariant, PTL

\* stop() drains: a worker that leaves its loop owes nothing.
THEOREM StopDrains == Spec => []DrainedOnStop
<1>1. IInv => DrainedOnStop
  BY DEF IInv
<1> QED
  BY <1>1, Invariant, PTL

\* The five counters reconcile at every moment: queued with answered, ring_full
\* with the submits refused at a full queue, submit_rejected with all refused.
THEOREM CountersAgree == Spec => []CountersReconcile
<1>1. IInv => CountersReconcile
  BY DEF IInv
<1> QED
  BY <1>1, Invariant, PTL

\* running() and the stop request tell what the threads do, through every start()
\* and stop(): without a worker thread nothing runs and no poll_once of one is under
\* way, and a worker finds a stop request only while its owner waits in stop().
THEOREM FlagsTellTheTruth == Spec => []FlagsMatchThreads
<1>1. IInv => FlagsMatchThreads
  BY DEF IInv, Control, FlagsMatchThreads, joinable
<1> QED
  BY <1>1, Invariant, PTL

=============================================================================
