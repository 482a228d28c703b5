---------------------------- MODULE Transports ----------------------------
(***************************************************************************)
(* The objects that own a way out of, or into, the process: the kernel UDP *)
(* backend, UdpSender and UdpReceiver (a socket each), the DPDK backend (a *)
(* port and a packet pool) and the AF_XDP backend (nothing yet), through   *)
(* construction, moves, close and destruction, with every system call that *)
(* can fail; and QueuedExecutionBackend, which feeds requests to one.      *)
(*                                                                         *)
(* Descriptors are reused, lowest first, as the kernel does, so that one   *)
(* closed twice or kept too long is somebody else's. The calls that give a *)
(* handle back are taken to succeed.                                       *)
(***************************************************************************)
EXTENDS Integers, Sequences, FiniteSetsExt

CONSTANTS
    Objects,          \* the variables of the program that hold a transport
    AvailablePorts,   \* rte_eth_dev_count_avail()
    MaxFds,           \* bound: descriptors of the process
    QueueCapacity,    \* template parameter of QueuedExecutionBackend
    MaxPayloadBytes,  \* likewise
    MaxRequests,      \* bound: requests queued
    Absent            \* no object, no result

NoFd == -1

SocketKinds == {"kernel_udp", "sender", "receiver"}

\* The technologies of make_execution_backend that are modelled here.
BackendKinds == {"kernel_udp", "afxdp", "dpdk"}

\* The fields of an object. valid is endpoint_valid_, configured_ or, for a
\* receiver, that the address to bind is valid; closed is manually_closed_, open
\* is open_, pool is mbuf_pool_ # nullptr.
Transport ==
    [kind : SocketKinds \cup BackendKinds, valid : BOOLEAN, fd : {NoFd} \cup 1 .. MaxFds,
     closed : BOOLEAN, open : BOOLEAN, pool : BOOLEAN, port : 0 .. AvailablePorts]

\* A drain_to in progress.
Drain == [to : Objects, left : Nat]

ASSUME TransportAssumption ==
    /\ AvailablePorts \in Nat
    /\ MaxFds \in Nat
    /\ QueueCapacity \in Nat
    /\ Absent \notin Transport \cup Drain

VARIABLES
    have_dpdk,   \* FGEP_HAVE_DPDK, fixed when the program is built
    objects,     \* each object's fields, Absent before and after its lifetime
    os,          \* descriptors in use and their kind, ports started, the pool, EAL
    queue,       \* QueuedExecutionBackend's queue
    draining,    \* drain_to in progress: its backend and how many it may still take
    result,      \* what the last submit or send returned, and whose it was
    dead,        \* history: objects that were closed or moved from
    queued,      \* history: requests the queue accepted, numbered from 1
    drained,     \* history: requests taken from the queue
    due,         \* history: requests that the drain_to in progress has yet to hand over
    wire         \* history: queued requests that a backend sent

vars == <<have_dpdk, objects, os, queue, draining, result, dead, queued, drained,
          due, wire>>
history == <<queued, drained, due, wire>>

Init ==
    /\ have_dpdk \in BOOLEAN
    /\ objects = [o \in Objects |-> Absent]
    /\ os = [fds |-> [fd \in {} |-> "none"], started |-> {}, pool |-> FALSE, eal |-> FALSE]
    /\ queue = <<>>
    /\ draining = Absent
    /\ result = Absent
    /\ dead = {}
    /\ queued = 0
    /\ drained = 0
    /\ due = 0
    /\ wire = <<>>

Live(o) == objects[o] # Absent

-----------------------------------------------------------------------------
\* An object before its constructor opens anything.
Unopened(kind, valid, port) ==
    [kind |-> kind, valid |-> valid, fd |-> NoFd, closed |-> FALSE,
     open |-> FALSE, pool |-> FALSE, port |-> port]

Pair(x, system) == [object |-> x, os |-> system]

FreeFds == 1 .. MaxFds \ DOMAIN os.fds

Opened(x, fd) ==
    Pair([x EXCEPT !.fd = fd],
         [os EXCEPT !.fds = [f \in DOMAIN @ \cup {fd} |-> IF f = fd THEN x.kind ELSE @[f]]])

close_socket(x, system) ==
    Pair([x EXCEPT !.fd = NoFd],
         [system EXCEPT !.fds = [f \in DOMAIN @ \ {x.fd} |-> @[f]]])

\* Mutant of open_socket: the descriptor of a failed bind() is not closed.
open_socket_leaks(x) ==
    LET opened == Opened(x, Min(FreeFds)) IN
    {Pair(x, os)} \cup
    (IF x.valid /\ FreeFds # {} THEN {opened} ELSE {}) \cup
    (IF x.valid /\ FreeFds # {} /\ x.kind = "receiver" THEN {Pair(x, opened.os)} ELSE {})

\* open_socket: socket() may fail, and so may a receiver's bind(), after which the
\* descriptor is closed again and not kept.
open_socket(x) ==
    LET opened == Opened(x, Min(FreeFds)) IN
    {Pair(x, os)} \cup
    (IF x.valid /\ FreeFds # {} THEN {opened} ELSE {}) \cup
    (IF x.valid /\ FreeFds # {} /\ x.kind = "receiver"
     THEN {close_socket(opened.object, opened.os)} ELSE {})

\* Mutant of cleanup: the fields still say that the port and the pool are there.
cleanup_keeps_fields(x, system) ==
    Pair(x, [system EXCEPT !.started = IF x.open THEN @ \ {x.port} ELSE @,
                           !.pool = IF x.pool THEN FALSE ELSE @])

cleanup(x, system) ==
    Pair([x EXCEPT !.open = FALSE, !.pool = FALSE],
         [system EXCEPT !.started = IF x.open THEN @ \ {x.port} ELSE @,
                        !.pool = IF x.pool THEN FALSE ELSE @])

\* initialize: it may stop, with nothing open, at the EAL, at the port, at the
\* pool, whose name is taken while another backend has one, and at configure_port,
\* after which the pool is freed. The EAL is initialized once and for all.
initialize(x) ==
    LET started == [os EXCEPT !.eal = TRUE]
        pooled == Pair([x EXCEPT !.pool = TRUE], [started EXCEPT !.pool = TRUE])
        open == Pair([pooled.object EXCEPT !.open = TRUE],
                     [pooled.os EXCEPT !.started = @ \cup {x.port}]) IN
    IF ~x.valid \/ ~have_dpdk THEN {Pair(x, os)}
    ELSE {Pair(x, started)}
           \cup (IF os.eal THEN {} ELSE {Pair(x, os)})
           \cup (IF x.port >= AvailablePorts \/ os.pool THEN {}
                 ELSE {cleanup(pooled.object, pooled.os), open})

\* What a constructor may leave.
Constructed(x) ==
    IF x.kind \in SocketKinds THEN open_socket(x)
    ELSE IF x.kind = "dpdk" THEN initialize(x)
    ELSE {Pair(x, os)}

\* What a destructor, and a move assignment to the object, do first.
Released(x, system) ==
    IF x.kind \in SocketKinds THEN close_socket(x, system)
    ELSE IF x.kind = "dpdk" THEN cleanup(x, system)
    ELSE Pair(x, system)

\* What a move leaves of its source.
MovedFrom(x) ==
    [x EXCEPT !.valid = FALSE, !.closed = x.kind \in SocketKinds,
              !.fd = NoFd, !.open = FALSE, !.pool = FALSE]

\* AfXdpExecutionBackend owns nothing and has no moves of its own.
Movable(o) == Live(o) /\ objects[o].kind # "afxdp"

Construct(o, kind, valid, port) ==
    /\ ~Live(o)
    /\ \E made \in Constructed(Unopened(kind, valid, port)) :
         objects' = [objects EXCEPT ![o] = made.object] /\ os' = made.os
    /\ result' = Absent
    /\ dead' = dead \ {o}
    /\ UNCHANGED <<have_dpdk, queue, draining, history>>

\* Who is closed or moved from once o holds what p held.
DeadAfterMove(o, p) == (IF p \in dead THEN dead \cup {o} ELSE dead \ {o}) \cup {p}

MoveConstruct(o, p) ==
    /\ ~Live(o) /\ Movable(p)
    /\ objects' = [objects EXCEPT ![o] = objects[p], ![p] = MovedFrom(objects[p])]
    /\ result' = Absent
    /\ dead' = DeadAfterMove(o, p)
    /\ UNCHANGED <<have_dpdk, os, queue, draining, history>>

MoveAssign(o, p) ==
    /\ o # p /\ Live(o) /\ Movable(p)
    /\ objects[o].kind = objects[p].kind
    /\ os' = Released(objects[o], os).os
    /\ objects' = [objects EXCEPT ![o] = objects[p], ![p] = MovedFrom(objects[p])]
    /\ result' = Absent
    /\ dead' = DeadAfterMove(o, p)
    /\ UNCHANGED <<have_dpdk, queue, draining, history>>

Close(o) ==
    /\ Live(o)
    /\ LET released == Released(objects[o], os) IN
       /\ objects' = [objects EXCEPT ![o] =
                        [released.object EXCEPT !.closed = objects[o].kind \in SocketKinds]]
       /\ os' = released.os
    /\ result' = Absent
    /\ dead' = dead \cup {o}
    /\ UNCHANGED <<have_dpdk, queue, draining, history>>

Destroy(o) ==
    /\ Live(o)
    /\ os' = Released(objects[o], os).os
    /\ objects' = [objects EXCEPT ![o] = Absent]
    /\ result' = Absent
    /\ dead' = dead \ {o}
    /\ UNCHANGED <<have_dpdk, queue, draining, history>>

-----------------------------------------------------------------------------
\* submit of a kernel UDP backend, and send of a UdpSender, which gives no reason.
kernel_udp_submit(x, payload_size, sent) ==
    IF payload_size = 0 THEN "empty_payload"
    ELSE IF ~x.valid THEN "invalid_endpoint"
    ELSE IF x.closed THEN "backend_closed"
    ELSE IF x.fd = NoFd THEN "socket_error"
    ELSE IF sent THEN "none" ELSE "send_failed"

\* Mutant of dpdk_submit: no test that the port is still open.
dpdk_submit_untested(x, payload_size, sent) ==
    IF payload_size = 0 THEN "empty_payload"
    ELSE IF ~x.valid THEN "invalid_endpoint"
    ELSE IF ~have_dpdk THEN "unsupported_backend"
    ELSE IF sent THEN "none" ELSE "send_failed"

dpdk_submit(x, payload_size, sent) ==
    IF payload_size = 0 THEN "empty_payload"
    ELSE IF ~x.valid THEN "invalid_endpoint"
    ELSE IF ~have_dpdk THEN "unsupported_backend"
    ELSE IF ~x.open \/ ~x.pool THEN "backend_closed"
    ELSE IF sent THEN "none" ELSE "send_failed"

afxdp_submit(x, payload_size) ==
    IF payload_size = 0 THEN "empty_payload"
    ELSE IF ~x.valid THEN "invalid_endpoint"
    ELSE "unsupported_backend"

\* The reject reason, "none" when the request is accepted. sent: the packet
\* was allocated, and sendto or rte_eth_tx_burst took all of it.
submit(x, payload_size, sent) ==
    IF x.kind = "dpdk" THEN dpdk_submit(x, payload_size, sent)
    ELSE IF x.kind = "afxdp" THEN afxdp_submit(x, payload_size)
    ELSE kernel_udp_submit(x, payload_size, sent)

\* receive of a receiver: "none" when a datagram was received.
receive(x, buffer_size, received) ==
    IF buffer_size = 0 \/ x.closed \/ x.fd = NoFd \/ ~received THEN "nothing" ELSE "none"

\* submit, send or receive by its owner.
Use(o, size, done) ==
    /\ Live(o)
    /\ result' = [from |-> o,
                  reason |-> IF objects[o].kind = "receiver"
                             THEN receive(objects[o], size, done)
                             ELSE submit(objects[o], size, done)]
    /\ UNCHANGED <<have_dpdk, objects, os, queue, draining, dead, history>>

\* submit_enter_order_to_backend and its two siblings, for a message that does
\* not encode: the backend is not called. One that encodes is Use.
EncodeReject(o) ==
    /\ Live(o) /\ objects[o].kind \in BackendKinds
    /\ result' = [from |-> o, reason |-> "encode_error"]
    /\ UNCHANGED <<have_dpdk, objects, os, queue, draining, dead, history>>

-----------------------------------------------------------------------------
\* QueuedExecutionBackend: one thread submits, another drains (the queue is an
\* SpscRing), so that requests come in while drain_to is under way.

\* submit, by what BackendSubmitQueue::push returns.
QueuedSubmit(payload_size) ==
    /\ queued < MaxRequests
    /\ result' = Absent
    /\ IF payload_size = 0 \/ payload_size > MaxPayloadBytes \/ Len(queue) = QueueCapacity
       THEN UNCHANGED <<queue, queued>>
       ELSE queue' = Append(queue, queued + 1) /\ queued' = queued + 1
    /\ UNCHANGED <<have_dpdk, objects, os, draining, dead, drained, due, wire>>

\* drain_to is called; drain_one_to is drain_to with one.
drain_to(o, max_submissions) ==
    /\ Live(o) /\ objects[o].kind \in BackendKinds
    /\ draining' = [to |-> o, left |-> max_submissions]
    /\ due' = Min({max_submissions, Len(queue)})
    /\ result' = Absent
    /\ UNCHANGED <<have_dpdk, objects, os, queue, dead, queued, drained, wire>>

\* Mutant of drain_one_to: drain_to stops at a request that the backend refuses.
drain_one_to_stops(sent) ==
    LET taken == submit(objects[draining.to], 1, sent) = "none" IN
    /\ draining.left > 0 /\ queue # <<>>
    /\ queue' = Tail(queue)
    /\ wire' = IF taken THEN Append(wire, Head(queue)) ELSE wire
    /\ drained' = drained + 1
    /\ draining' = IF taken THEN [draining EXCEPT !.left = @ - 1] ELSE Absent
    /\ due' = IF due > 0 THEN due - 1 ELSE 0
    /\ UNCHANGED <<have_dpdk, objects, os, result, dead, queued>>

\* A round of the loop that finds a request. What the backend answers is not looked
\* at: a request it refuses is gone, and the loop goes on.
drain_one_to(sent) ==
    /\ draining.left > 0 /\ queue # <<>>
    /\ queue' = Tail(queue)
    /\ wire' = IF submit(objects[draining.to], 1, sent) = "none"
               THEN Append(wire, Head(queue)) ELSE wire
    /\ drained' = drained + 1
    /\ draining' = [draining EXCEPT !.left = @ - 1]
    /\ due' = IF due > 0 THEN due - 1 ELSE 0
    /\ UNCHANGED <<have_dpdk, objects, os, result, dead, queued>>

\* The loop ends, at the limit or at an empty queue.
DrainReturns ==
    /\ draining.left = 0 \/ queue = <<>>
    /\ draining' = Absent
    /\ UNCHANGED <<have_dpdk, objects, os, queue, result, dead, history>>

\* What the thread that owns the transports may do between two drains.
OwnerStep ==
    \/ \E o \in Objects, valid \in BOOLEAN :
         \/ \E kind \in SocketKinds \cup {"afxdp"} : Construct(o, kind, valid, 0)
         \/ \E port \in 0 .. AvailablePorts : Construct(o, "dpdk", valid, port)
    \/ \E o, p \in Objects : MoveConstruct(o, p)
    \/ \E o, p \in Objects : MoveAssign(o, p)
    \/ \E o \in Objects : Close(o)
    \/ \E o \in Objects : Destroy(o)
    \/ \E o \in Objects, size \in {0, 1}, done \in BOOLEAN : Use(o, size, done)
    \/ \E o \in Objects : EncodeReject(o)
    \/ \E o \in Objects, n \in 1 .. QueueCapacity : drain_to(o, n)

Next ==
    \/ draining = Absent /\ OwnerStep
    \/ draining # Absent /\ \E sent \in BOOLEAN : drain_one_to(sent)
    \/ draining # Absent /\ DrainReturns
    \/ \E size \in {0, 1, MaxPayloadBytes + 1} : QueuedSubmit(size)

Spec == Init /\ [][Next]_vars

-----------------------------------------------------------------------------
Holding(fd) == {o \in Objects : Live(o) /\ objects[o].fd = fd}

\* Every descriptor in use belongs to exactly one object, of the kind it was
\* opened for, and an object holds no descriptor that was closed: none leaks and
\* none is closed twice, through moves, close, destruction and failing calls,
\* and though the kernel hands a closed number out again.
SocketsOwned ==
    /\ \A fd \in DOMAIN os.fds :
         \E o \in Objects : Holding(fd) = {o} /\ objects[o].kind = os.fds[fd]
    /\ \A o \in Objects : Live(o) => objects[o].fd \in DOMAIN os.fds \cup {NoFd}

Pooled == {o \in Objects : Live(o) /\ objects[o].pool}

\* The one packet pool exists exactly while one backend holds it, and a port runs
\* exactly while that backend is open on it, through every way initialize may
\* fail. As the pool's name is fixed, at most one DPDK backend is open, whatever
\* port it is on.
DpdkOwned ==
    /\ os.pool <=> Pooled # {}
    /\ \A o, p \in Pooled : o = p
    /\ os.started = {objects[o].port : o \in Pooled}
    /\ \A o \in Objects : Live(o) => objects[o].open = objects[o].pool

\* An object that was closed, or whose contents were moved away, never again
\* sends or receives, until it is constructed anew or given another's contents;
\* and one that does has a handle that the system knows.
NoUseAfterClose ==
    result # Absent /\ result.reason = "none" =>
        LET x == objects[result.from] IN
        /\ result.from \notin dead
        /\ IF x.kind = "dpdk" THEN x.port \in os.started /\ os.pool
           ELSE x.fd \in DOMAIN os.fds

\* Requests leave the queue in the order they were accepted in and are sent at most
\* once, none is lost between the queue and the backend, which may refuse it, and a
\* refused one holds up nobody: drain_to returns only when it has handed over as
\* many as it may, or all that were queued when it was called.
QueuedSentInOrder ==
    /\ Len(queue) + drained = queued
    /\ \A k \in DOMAIN wire : wire[k] <= drained
    /\ \A j, k \in DOMAIN wire : j < k => wire[j] < wire[k]
    /\ draining = Absent => due = 0

=============================================================================
