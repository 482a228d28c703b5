----------------------- MODULE AsyncExecutionBackend -----------------------
(***************************************************************************)
(* AsyncExecutionBackend over BackendSubmitQueue                           *)
(* (include/fgep/execution/): the order thread submits, a worker thread    *)
(* hands the requests to the wrapped backend, and the owning thread starts *)
(* and stops the worker, or polls by hand while there is none.             *)
(*                                                                         *)
(* The ring is the bounded queue that SpscRing implements, so a push and a *)
(* pop are one step each. A step is otherwise one access to state another  *)
(* thread reads: a counter, stop_requested_, running_, the queue.          *)
(* Thread creation, join and the wrapped backend's verdict are external.   *)
(***************************************************************************)
EXTENDS Naturals, Sequences

CONSTANTS
    Ref,             \* user_ref_num of the requests
    MaxPayloadSize,  \* template parameter of the queue
    Capacity,        \* template parameter of the queue
    CounterModulus   \* 2^64: CoreStats counters wrap

ASSUME ParametersAssumption ==
    /\ MaxPayloadSize \in Nat \ {0}
    /\ Capacity \in Nat \ {0, 1}
    /\ CounterModulus \in Nat \ {0, 1}

\* A payload that is empty, the shortest, the longest that fits, or too long.
PayloadSize == {0, 1, MaxPayloadSize, MaxPayloadSize + 1}

BackendSubmitRequest == [user_ref_num : Ref, payload_size : PayloadSize]

Counter == {"submit_queued", "submit_rejected", "ring_full",
            "backend_accepted", "backend_rejected"}

NoItem == [user_ref_num |-> 0, payload_size |-> 0]

VARIABLES
    queue,           \* queue_
    stats,           \* the counters of stats_ the backend touches
    stop_requested,  \* stop_requested_
    running,         \* running_
    submitter,       \* where the order thread is in submit
    accepted,        \* what its last submit returned
    worker,          \* where the worker thread is; "none" is not joinable
    owner,           \* where the owning thread is: idle, joining, poll, drain
    poll, item,      \* the poll_once in progress and the item it holds
    owed,            \* history: accepted before stop() and not yet handed over
    refused          \* history: submits refused, by why, modulo CounterModulus

vars == <<queue, stats, stop_requested, running, submitter, accepted, worker,
          owner, poll, item, owed, refused>>

Init ==
    /\ queue = <<>>
    /\ stats = [c \in Counter |-> 0]
    /\ stop_requested = FALSE
    /\ running = FALSE
    /\ submitter = "idle"
    /\ accepted = TRUE
    /\ worker \in {"none", "starting"}   \* constructor argument start_worker
    /\ owner = "idle"
    /\ poll = "none"
    /\ item = NoItem
    /\ owed = 0
    /\ refused = [why \in {"full", "invalid"} |-> 0]

Incremented(counter) ==
    [stats EXCEPT ![counter] = (@ + 1) % CounterModulus]

Refused(why) == [refused EXCEPT ![why] = (@ + 1) % CounterModulus]

-----------------------------------------------------------------------------
\* The order thread: submit, BackendSubmitQueue::push.

\* make_item accepts the payload.
Queueable(request) ==
    request.payload_size # 0 /\ request.payload_size <= MaxPayloadSize

SubmitInvalid(request) ==
    /\ submitter = "idle"
    /\ ~Queueable(request)
    /\ stats' = Incremented("submit_rejected")
    /\ accepted' = FALSE
    /\ refused' = Refused("invalid")
    /\ UNCHANGED <<queue, stop_requested, running, submitter, worker, owner,
                   poll, item, owed>>

\* Mutant of SubmitPush: off by one at a full queue.
SubmitPushBeyondCapacity(request) ==
    /\ submitter = "idle"
    /\ Queueable(request)
    /\ IF Len(queue) <= Capacity
       THEN queue' = Append(queue, request) /\ submitter' = "queued" /\ UNCHANGED refused
       ELSE submitter' = "full" /\ refused' = Refused("full") /\ UNCHANGED queue
    /\ UNCHANGED <<stats, stop_requested, running, accepted, worker, owner,
                   poll, item, owed>>

SubmitPush(request) ==
    /\ submitter = "idle"
    /\ Queueable(request)
    /\ IF Len(queue) < Capacity
       THEN queue' = Append(queue, request) /\ submitter' = "queued" /\ UNCHANGED refused
       ELSE submitter' = "full" /\ refused' = Refused("full") /\ UNCHANGED queue
    /\ UNCHANGED <<stats, stop_requested, running, accepted, worker, owner,
                   poll, item, owed>>

RecordQueued ==
    /\ submitter = "queued"
    /\ stats' = Incremented("submit_queued")
    /\ submitter' = "idle"
    /\ accepted' = TRUE
    /\ UNCHANGED <<queue, stop_requested, running, worker, owner, poll, item, owed, refused>>

RecordRingFull ==
    /\ submitter = "full"
    /\ stats' = Incremented("ring_full")
    /\ submitter' = "rejected"
    /\ UNCHANGED <<queue, stop_requested, running, accepted, worker, owner,
                   poll, item, owed, refused>>

\* Mutant of RecordRejected: a full queue counts as full, not as a rejection.
RecordRejectedNothing ==
    /\ submitter = "rejected"
    /\ submitter' = "idle"
    /\ accepted' = FALSE
    /\ UNCHANGED <<queue, stats, stop_requested, running, worker, owner, poll, item,
                   owed, refused>>

RecordRejected ==
    /\ submitter = "rejected"
    /\ stats' = Incremented("submit_rejected")
    /\ submitter' = "idle"
    /\ accepted' = FALSE
    /\ UNCHANGED <<queue, stop_requested, running, worker, owner, poll, item, owed, refused>>

\* The order thread leaves its loop.
SubmitterQuits ==
    /\ submitter = "idle"
    /\ submitter' = "gone"
    /\ UNCHANGED <<queue, stats, stop_requested, running, accepted, worker,
                   owner, poll, item, owed, refused>>

-----------------------------------------------------------------------------
\* The owning thread. Returning from poll_once is part of its last step.

joinable == worker # "none"

\* Mutant of Start: the stop request of the previous stop() is left standing.
StartWithOldRequest ==
    /\ owner = "idle"
    /\ ~joinable
    /\ worker' = "starting"
    /\ UNCHANGED <<queue, stats, stop_requested, running, submitter, accepted, owner,
                   poll, item, owed, refused>>

Start ==
    /\ owner = "idle"
    /\ ~joinable
    /\ stop_requested' = FALSE
    /\ worker' = "starting"
    /\ UNCHANGED <<queue, stats, running, submitter, accepted, owner, poll,
                   item, owed, refused>>

\* Mutant of Stop: the stop request is not published.
StopWithoutRequest ==
    /\ owner = "idle"
    /\ owner' = IF joinable THEN "joining" ELSE "idle"
    /\ UNCHANGED <<queue, stats, stop_requested, running, submitter, accepted,
                   worker, poll, item, owed, refused>>

\* stop, up to the join; the destructor's body. Nothing to join: it returns.
Stop ==
    /\ owner = "idle"
    /\ stop_requested' = TRUE
    /\ owner' = IF joinable THEN "joining" ELSE "idle"
    /\ owed' = IF joinable
               THEN Len(queue) + (IF poll = "send" THEN 1 ELSE 0)
               ELSE 0
    /\ UNCHANGED <<queue, stats, running, submitter, accepted, worker, poll, item,
                   refused>>

\* stop returns from worker_.join().
Join ==
    /\ owner = "joining"
    /\ worker = "finished"
    /\ worker' = "none"
    /\ owner' = "idle"
    /\ UNCHANGED <<queue, stats, stop_requested, running, submitter, accepted,
                   poll, item, owed, refused>>

\* poll_once or drain by hand, with no worker about: the queue has one consumer.
ManualPoll ==
    /\ owner = "idle"
    /\ ~joinable
    /\ owner' \in {"poll", "drain"}
    /\ poll' = "pop"
    /\ UNCHANGED <<queue, stats, stop_requested, running, submitter, accepted,
                   worker, item, owed, refused>>

-----------------------------------------------------------------------------
\* poll_once, by whichever thread consumes: pop, backend_->submit,
\* record_backend_result.

\* Where the caller goes on when poll_once returns whether it found an item:
\* the worker tests its loop condition, drain polls again after an item.
Returned(found) ==
    IF worker = "poll"
    THEN worker' = "test_stop" /\ poll' = "none" /\ UNCHANGED owner
    ELSE /\ UNCHANGED worker
         /\ IF owner = "drain" /\ found
            THEN poll' = "pop" /\ UNCHANGED owner
            ELSE poll' = "none" /\ owner' = "idle"

PollPop ==
    /\ poll = "pop"
    /\ IF queue = <<>>
       THEN Returned(FALSE) /\ UNCHANGED <<queue, item>>
       ELSE /\ item' = Head(queue)
            /\ queue' = Tail(queue)
            /\ poll' = "send"
            /\ UNCHANGED <<worker, owner>>
    /\ UNCHANGED <<stats, stop_requested, running, submitter, accepted, owed, refused>>

\* The wrapped backend takes the request; its verdict is recorded next.
PollSend ==
    /\ poll = "send"
    /\ poll' \in {"backend_accepted", "backend_rejected"}
    /\ item' = NoItem
    /\ owed' = IF owed = 0 THEN 0 ELSE owed - 1
    /\ UNCHANGED <<queue, stats, stop_requested, running, submitter, accepted,
                   worker, owner, refused>>

PollRecord ==
    /\ poll \in {"backend_accepted", "backend_rejected"}
    /\ stats' = Incremented(poll)
    /\ Returned(TRUE)
    /\ UNCHANGED <<queue, stop_requested, running, submitter, accepted, item, owed, refused>>

-----------------------------------------------------------------------------
\* The worker thread: worker_loop.

WorkerStarts ==
    /\ worker = "starting"
    /\ running' = TRUE
    /\ worker' = "test_stop"
    /\ UNCHANGED <<queue, stats, stop_requested, submitter, accepted, owner,
                   poll, item, owed, refused>>

\* Mutant of WorkerTestStop: the loop ends at the stop request.
WorkerTestStopOnly ==
    /\ worker = "test_stop"
    /\ IF stop_requested
       THEN worker' = "leaving" /\ UNCHANGED poll
       ELSE worker' = "poll" /\ poll' = "pop"
    /\ UNCHANGED <<queue, stats, stop_requested, running, submitter, accepted,
                   owner, item, owed, refused>>

\* Left operand of the loop condition.
WorkerTestStop ==
    /\ worker = "test_stop"
    /\ IF stop_requested
       THEN worker' = "test_empty" /\ UNCHANGED poll
       ELSE worker' = "poll" /\ poll' = "pop"
    /\ UNCHANGED <<queue, stats, stop_requested, running, submitter, accepted,
                   owner, item, owed, refused>>

\* Right operand, evaluated only after stop_requested_ was seen set.
WorkerTestEmpty ==
    /\ worker = "test_empty"
    /\ IF queue = <<>>
       THEN worker' = "leaving" /\ UNCHANGED poll
       ELSE worker' = "poll" /\ poll' = "pop"
    /\ UNCHANGED <<queue, stats, stop_requested, running, submitter, accepted,
                   owner, item, owed, refused>>

WorkerLeaves ==
    /\ worker = "leaving"
    /\ running' = FALSE
    /\ worker' = "finished"
    /\ UNCHANGED <<queue, stats, stop_requested, submitter, accepted, owner,
                   poll, item, owed, refused>>

-----------------------------------------------------------------------------
Submitter ==
    \/ \E request \in BackendSubmitRequest : SubmitInvalid(request) \/ SubmitPush(request)
    \/ RecordQueued
    \/ RecordRingFull
    \/ RecordRejected
    \/ SubmitterQuits

Owner == Start \/ Stop \/ Join \/ ManualPoll

Poll == PollPop \/ PollSend \/ PollRecord

Worker == WorkerStarts \/ WorkerTestStop \/ WorkerTestEmpty \/ WorkerLeaves

Next == Submitter \/ Owner \/ Poll \/ Worker

Spec == Init /\ [][Next]_vars

\* The scheduler runs the worker (and whoever polls), and join returns once the
\* worker has finished. Nothing makes the order thread submit or stop submitting.
Fairness == WF_vars(Poll) /\ WF_vars(Worker) /\ WF_vars(Join)

FairSpec == Spec /\ Fairness

-----------------------------------------------------------------------------
\* Type correctness.
TypeOK ==
    /\ queue \in Seq(BackendSubmitRequest) /\ Len(queue) <= Capacity
    /\ stats \in [Counter -> 0 .. CounterModulus - 1]
    /\ stop_requested \in BOOLEAN /\ running \in BOOLEAN /\ accepted \in BOOLEAN
    /\ submitter \in {"idle", "queued", "full", "rejected", "gone"}
    /\ worker \in {"none", "starting", "test_stop", "test_empty", "poll",
                   "leaving", "finished"}
    /\ owner \in {"idle", "joining", "poll", "drain"}
    /\ poll \in {"none", "pop", "send", "backend_accepted", "backend_rejected"}
    /\ item \in BackendSubmitRequest \cup {NoItem}
    /\ owed \in 0 .. Capacity + 1
    /\ refused \in [{"full", "invalid"} -> 0 .. CounterModulus - 1]

\* stop() drains: a worker that leaves worker_loop has handed over everything
\* that was in the queue when stop() was called, however submits, the stop
\* request and the worker's two tests interleave.
DrainedOnStop ==
    worker \in {"leaving", "finished"} => owed = 0

Num(condition) == IF condition THEN 1 ELSE 0

Congruent(a, b) == a % CounterModulus = b % CounterModulus

\* The five counters, each updated after the fact by one of two threads, account
\* for every submit exactly, up to the calls in progress and also when they wrap.
\* What was queued is what the backend answered, what it is being asked and what
\* is in the queue; ring_full counts the submits refused at a full queue, once
\* each; submit_rejected counts these and the invalid ones, once each.
CountersReconcile ==
    /\ Congruent(stats["submit_queued"] + Num(submitter = "queued"),
                 stats["backend_accepted"] + stats["backend_rejected"] + Len(queue)
                   + Num(poll \in {"send", "backend_accepted", "backend_rejected"}))
    /\ Congruent(stats["ring_full"] + Num(submitter = "full"), refused["full"])
    /\ Congruent(stats["submit_rejected"] + Num(submitter \in {"full", "rejected"}),
                 refused["full"] + refused["invalid"])

\* The two flags tell what the threads do, from one start() and stop() to the
\* next. Without a worker running() is false and no poll_once of one is under way.
\* A worker finds a stop request only while the owner waits for it in stop(), so
\* none left over from an earlier stop() ends a worker that start() has made; and
\* a worker leaves its loop only because of one.
FlagsMatchThreads ==
    /\ ~joinable => ~running /\ (poll = "none" \/ owner \in {"poll", "drain"})
    /\ joinable /\ stop_requested => owner = "joining"
    /\ worker \in {"leaving", "finished"} => stop_requested

WorkerInLoop == worker \in {"test_stop", "test_empty", "poll"}

\* A request the queue accepted while the worker is in its loop reaches the
\* backend, whether or not stop() comes in between.
AcceptedIsSent ==
    \A ref \in Ref :
        (WorkerInLoop /\ \E k \in 1 .. Len(queue) : queue[k].user_ref_num = ref)
            ~> (poll = "send" /\ item.user_ref_num = ref)

\* Once the order thread has stopped submitting, stop() returns.
StopReturns ==
    (owner = "joining" /\ submitter = "gone") ~> owner = "idle"

\* The shutdown sequence of docs/runtime_threading_model.md (196-205): after the
\* shutdown request is published the backend accepts no new work.
StopsAcceptingNewWork ==
    [][stop_requested => Len(queue') <= Len(queue)]_vars

=============================================================================
