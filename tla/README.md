# A TLA+ model of the FPGA-gated execution platform

The platform turns a market-data feed into order books and sends orders, past a
risk check and a gate, to an execution backend. This directory holds TLA+
modules for its components, the TLC configurations that check them on small
instances, and TLAPS proofs of the properties that matter most, for every value
of the constants. Paths below are relative to the repository's root.

## 1. The system

| Part | Code | State | Operations that change it |
|---|---|---|---|
| SPSC ring | `include/fgep/core/spsc_ring.hpp` | slots, `head`/`tail`, a cached copy of each | `push` (order thread), `pop` (worker) |
| Submit queue, async backend | `include/fgep/execution/{backend_submit_queue,async_execution_backend}.hpp` | queue, `stop_requested_`, `running_`, counters, thread | `submit`, `start`, `stop`, `poll_once`, `drain`, the worker's loop |
| Order lifecycle | `src/execution/order_lifecycle.cpp` | live orders, highest reference number | `enter`, `replace`, `cancel`, `execute`, `clear` |
| Risk supervisor | `src/risk/risk_supervisor.cpp` | limits, halt, cancel-only, symbol switches | the setters; `check_*` read only |
| Simulated engine | `src/execution/simulated_execution_engine.cpp` | the two above | `submit_enter/replace/cancel`, `execute`, `clear` |
| Guardrails | `src/gate/guardrail_state.cpp` | like the risk supervisor's | the setters; `check` reads only |
| Guardrail control path | `src/gate/guardrail_control.cpp` | pending updates, next sequence, statistics | `push_*`, `enqueue`, `apply_next`, `apply_all`, `clear_pending`, `reset` |
| Gate, recording backend | `src/gate/permissive_gate.cpp`, `src/execution/execution_backend.cpp` | guardrails, submissions, open flag, capacity | `submit` and the setters |
| Order book | `src/book/symbol_order_book.cpp` | resting orders, price levels of two sides | one `apply` per ITCH message |
| Venue books, BBO | `src/book/`, `src/bbo/` | a book per instrument, a map of venues | `apply`, `add_venue`; the quotes read only |
| Instrument directory | `src/instrument/` | metadata per instrument, index by symbol | two `apply` |
| Generator | `src/gen/`, `apps/fgep_md_generator.cpp` | symbols, resting orders, counters, next sequence | `next_market_event`, `frame_data_packet`, the two loops |
| Replay | `src/moldudp64/`, `src/replay/` | replay statistics | decode and apply a packet |
| Transports | `src/execution/{kernel_udp,dpdk,afxdp}_backend.cpp`, `src/net/` | descriptor or port and pool, flags | construct, move, close, destroy, submit, send, receive |
| Queued and encoded submit | `queued_execution_backend.hpp`, `encoded_backend_submit.cpp` | queue | `submit`, `drain_one_to`, `drain_to` |
| Codecs | `src/itch/`, `src/ouch/`, `src/moldudp64/`, `include/fgep/wire/` | none | encode, decode |
| FPGA gate reference, runtime, telemetry, benchmarks | `src/hardware/`, `src/runtime/`, `src/telemetry/`, `src/bench/` | | not modelled, section 5 |

How they interact: the generator sends packets over UDP; the feed's decoder hands messages to the instrument directory
and the books; an order passes the gate (or, in the simulation, the risk
supervisor) and then a backend. The asynchronous backend puts a ring and a worker
thread between the order thread and the wrapped backend. The guardrails are
changed by the control path, directly or by a whole new state.

What is hard about it, and hard to test:

* two threads on a lock-free ring that decide on cached, stale indices which wrap;
* a worker that tests the stop flag and the queue in two steps, while `submit`,
  `start` and `stop` interleave with it; counters updated after the fact;
* unsigned quantities that must not pass zero, products that exceed 64 bits;
* reference numbers that must not be used twice in a session, whichever of
  `enter` and `replace` used them first;
* guardrail updates that come late, twice, out of order, or past the wrap;
* the same rules implemented twice, in another order of tests;
* two copies of the book, orders and levels, that must agree; a replace that
  erases before it adds;
* datagrams that are lost, repeated, reordered and cut, to a receiver that compares
  no sequence numbers, from a generator that starts again with the same ones;
* descriptors that are moved, closed and handed out again by the kernel;
* some twenty message layouts written out by hand twice, once per direction.

`PROJECT.json` lists every component and every hazard with the line where it bites.

## 2. The modules

| Module | Models |
|---|---|
| `BoundedFifo` | what a ring promises: a bounded FIFO queue, each call atomic between call and return |
| `SpscRing` | `push` and `pop`, a step per access to shared memory |
| `AsyncExecutionBackend` | order thread, worker and owner over the queue `BoundedFifo` promises |
| `OuchRules` | the ranges of OUCH numbers and the tests on them |
| `OrderLifecycle` | the lifecycle engine, with what a client can add up from its results |
| `RiskSupervisor`, `GuardrailState` | the two sets of rules, as operators on a record of fields |
| `SimulatedExecutionEngine` | `RiskSupervisor` composed with `OrderLifecycle` |
| `GuardrailControl` | the control path over `GuardrailState` |
| `PermissiveGate` | gate and recording backend over `GuardrailState`; `RiskSupervisor` as an instance to compare with |
| `MarketTypes` | integer types, keys and the messages as books and directory read them |
| `InstrumentDirectory`, `SymbolOrderBook` | the directory, one order book: operators on records |
| `VenueBooks` | a market: directory, venues and their books; routing of a message, quotes, BBO |
| `MarketBooks` | `VenueBooks` as a state machine |
| `ItchMessageBuilder` | the generator's messages, as operators on the builder's fields |
| `MoldUdp64` | framing and decoding of downstream packets |
| `Feed` | generator, network, decoder and applier composed over `VenueBooks` |
| `ByteIo`, `WireFields` | byte reads and writes; fields at offsets and what reading or writing a list of them does |
| `ItchMessages`, `OuchMessages`, `MoldUdp64Request` | the layouts, lengths and validity rules of each protocol |
| `WireCodec` | a message encoded, damaged on the way, decoded |
| `Transports` | every owner of a socket or a port, and the queued backend in front of them |
| `Arithmetic` | lemmas about remainders, least numbers and induction over a set of numbers that the proofs share |
| `...Proofs` | theorems and proofs about the module of that name |
| `MC...` | values of the constants that a `.cfg` cannot write, symmetry sets |

Names follow the code. A definition whose comment begins with "Mutant of" is the
named definition with a plausible fault; it is used nowhere in a specification,
and shows that a property can fail.

**SpscRing.** `ppc` and `cpc` say how far the `push` and the `pop` in progress
have come. Memory order is kept as far as the slots need it: a release store of
an index carries the slot accesses before it (`head_rel`, `tail_rel`), an acquire
load that reads it orders them before what follows (`p_sync`, `c_sync`). A slot
access that is not ordered after the other thread's last access to that slot is
a data race. The indices are 64-bit in the build and wrap at `IndexModulus` here.

**AsyncExecutionBackend.** A push or pop is one step, because the ring implements
`BoundedFifo`; otherwise a step is one access to something another thread reads.
`owed` is a history variable: what was in the queue, or in the worker's hands,
when `stop()` was called. `refused` is another: the submits refused so far, by cause,
against which `ring_full` and `submit_rejected` are checked. The flags are sequentially consistent here. In the C++
program "queued before `stop()`" has a meaning only for pushes that happen before
the call, such as those of the same thread or of one that has been joined, and
those pushes are visible to a worker that has read the flag; a push concurrent
with `stop()` counts as after it, as it may. `poll_once` and `drain` are taken by
the owner only while there is no worker: with a worker the ring would have two
consumers, which it does not support. Thread creation, join and the wrapped
backend's verdict are external.

**OrderLifecycle, RiskSupervisor, SimulatedExecutionEngine.** Of a message only
what decides or is computed with is kept; `well_formed` stands for the tests of
its text fields. `QuantityLimit` stands for every larger quantity, all of which
are refused alike. `used` and `open` are history: the numbers accepted, and the
open quantities a client computes from the results alone.

**GuardrailControl.** `Push` is `make_update` followed by `enqueue`; `Enqueue`
takes any sequence. `origin`, `cleared` and `wrapped` are history.

**PermissiveGate.** `submit` gets an order and an encoded request separately; the
model takes their kinds to agree, as the callers in the repository build them.

**SymbolOrderBook, VenueBooks, MarketBooks.** `levels["buy"]` is `bids_`,
`levels["sell"]` is `asks_`, as functions on the prices present. Messages that take
the same path are one set: both kinds of add; executions and cancels. A book is
created at the first message for a listed instrument, also when it then refuses it.

**Feed.** One action is one round of a loop of `main`, one delivery or one loss. A
send may fail. The network is a set of datagrams, each delivered any number of
times, in any order, whole or cut by a short buffer, or lost. `Restart` starts the
generator from nothing while the receiver goes on. `fgep_md_generator` sends one
message per packet; the framer takes any batch, and so does the model
(`BatchSizes`). The session name is in every packet and compared nowhere, so it is
left out; the end-of-session packet comes from a venue, not from the framer, and is
external. Time stamps are modulo a day in the code, hence always valid; the price of a
sell is an unsigned sum that wraps at the width of a price, and where it wraps to zero
the encoder refuses the message (`Encodable`), so that a batch can fail half way. `assigned`, `log` and
`offered` are history.

**Codecs.** A layout is a sequence of fields with name, kind, offset and width, one
for the encoder and one for the decoder of each type, because the code has two
functions. Integers are sequences of byte digits, so that they keep their width and
64 bits fit TLC. The validity rules of both sides are predicates on the message.

**Transports.** An object is the record of its class's fields. The kernel gives out
the lowest free descriptor, so a number closed too often or kept too long shows up
in another object. Every call that opens something may fail, `bind` after the receiver
has its descriptor included; those that give it back are taken to succeed. `have_dpdk` covers both builds. AF_XDP owns nothing yet.
`drain_to` is a step per round of its loop, and the other thread's `submit` comes in
between. `dead`, `queued`, `drained`, `due` and `wire` are history; `due` is how many
requests a `drain_to` in progress still has to hand over. One move constructor stands for
those of all classes: they transfer the same fields.

## 3. The runs

| Run | Question | Bounds | Distinct states |
|---|---|---|---|
| `ring` | Is the ring free of data races and a bounded FIFO queue, and is what is published popped? | 2 slots, 2 items, indices mod 6 | 7 210 |
| `async` | Does `stop()` drain and return, does every counter count what it says, do the flags match the threads after a restart, is what is accepted sent? | 2 slots, 2 requests of every kind of size, counters mod 3 | 295 326 |
| `async_shutdown` | Does shutdown stop accepting work, as documented? **No** | as `async` | violation |
| `cancel_size` | Is a cancel's quantity the new size, as documented? **No** | 3 references | violation |
| `engine` | Do live orders stay sound, do the results tell the whole story, is a reference used once, do only checked orders open, does a halt freeze the rest? | 2 references, 2 symbols, products past the width | 20 816 |
| `guardrail_control` | Is every update accounted for, is an own update never stale, do guardrails never go back? | sequences mod 5, 2 pending, counters mod 3 | 1 889 928 |
| `gate` | Does anything leak past the gate, and does it agree with the risk supervisor? | 2 symbols, 2 pairs of limits, products past the width | 22 464 |
| `market` | Do levels, index, books and directory agree, is the BBO the best, does a refused message lose nothing? | 3 instruments on 2 venues, 2 symbols, 3 orders at once | 32 146 |
| `codec` | Does decoding invert encoding, byte for byte, and does a refused encode write nothing? | 17 message types, boundary values of every field, one damaged byte | 29 990 |
| `feed` | Do numbers name messages and have no hole, do framed packets decode, are shares conserved, do the counters add up? | 2 symbols, 4 events, batches to 4, 2 datagrams under way, 4 packets, 1 restart | 1 086 323 |
| `generated` | Can the book apply what the generator sends? **No** | the application's own configuration, 14 events | violation |
| `transports` | Has every handle one owner, is nothing used after close, does the queue send in order and once, and does a refused request hold up nobody? | 2 objects, 2 descriptors, 2 ports, 3 requests | 496 830 |

*Why these bounds.* Two slots let the ring be empty, partly full and full;
six index values are the smallest multiple of the capacity that separates them
and lets every index wrap at every fill level. Counters modulo 3 wrap within
a run. Two references are an order and its replacement;
quantities up to 3 contain 0, a part, all that is left, and a refused
value. `NotionalMax` of 3 or 4 is smaller than the largest product, so overflow
happens. Sequences modulo 5 with two pending leave room for late, duplicate,
early and wrapped sequences at once; `SomeChange` keeps one setter of each
shape, and the `gate` run exercises every setter. In `market`, two instruments of
one venue and one of another let a symbol be quoted twice by a venue and by two
venues, and ties in price happen with and without ties in size; a third order moves
levels while two share one. In `feed`, five sequence numbers wrap within a run, a
batch of three messages is the count that means end of session and one of four is
too many, and the small market makes cancels of less than an order has, all of
it, and more. Four packets are a listing, an add, its cancel and one of them again;
one symbol's second sell wraps to the price zero, at any place of a batch. Heartbeats
and the end of the session are sent only while nothing else is under way and the
receiver has seen none (`Idle`): they carry no message and change no book. In `transports`, two objects are a source and a target of a move,
and two descriptors are used up; three requests pass through a queue of two, so that
one comes in while a drain is under way. Symbols and objects are interchangeable, hence the
symmetry sets; no run with a temporal leads-to uses symmetry.

*Deadlock* is checked in the runs of components that must go on; not in `codec`,
whose behaviours end when a message has been decoded, nor in `feed` and
`generated`, whose generator ends.

*Fairness.* `ring`: weak fairness of `Pop`, as `worker_loop` calls it for ever. `async`: weak
fairness of `Poll`, `Worker` and `Join`, that is, the operating system runs the
worker and `join` returns once it has finished. Nothing is assumed of the order
thread or of when `stop()` is called; `StopReturns` therefore speaks of an order
thread that has ceased, since one that keeps the queue filled keeps the worker.

*The three violations.*

* `docs/runtime_threading_model.md:196-205` asks a shutdown to "stop accepting new
  work" after the request. `submit` does not look at `stop_requested_`: work is
  accepted after it, and what is pushed after the worker's last test stays in the
  queue though `submit` returned accepted, until the next `start` or `drain`.
* `include/fgep/core/order_event.hpp:282` calls the cancel quantity "the new
  intended total order size"; `order_lifecycle.cpp:196` subtracts it.
* `tests/test_itch_message_builder.cpp:95-97` says that the builder "cancels a real
  previously-added order reference number once one exists", and `README.md:11` that
  generator and feed handler work "end to end". `itch_message_builder.cpp:274` cancels a number of shares that is drawn without
  regard to the order it cancels; the book refuses to take more than is left. With
  the application's configuration the 14th event cancels 114 shares of an order of
  101, and the receiver counts a failed message though nothing was lost.

*What the feed run does not say.* The applier has no defence against repetition: an
add that arrives again after its order was cancelled rests again, and a restarted
generator's orders meet those of the run before. The properties say what still holds
then: numbers name messages, nothing of a damaged packet is applied, and shares are
those of the messages accepted.

## 4. The proofs

TLAPS checks every theorem below from the named assumptions on the constants
(`CapacityAssumption`, `ParametersAssumption`, `OuchAssumption`, ...), which say no
more than the code's types and static assertions.

* **`SpscRingProofs`**: `TypeCorrect`, `DataRaceFree`, `SlotsExclusive`,
  `RingImplementsFifo`. The inductive invariant says that, read around the ring,
  the indices stand in the order cached tail, tail, cached head, head, and span at
  most `Capacity`: a cached index is old but safe. With it goes what a call past its
  test knows. That a slot belongs to one index in that span is the arithmetic of
  `Arithmetic`, and needs that the capacity divides the index modulus: the
  power of two the class asserts.
* **`AsyncExecutionBackendProofs`**: `TypeCorrect`, `StopDrains`, `CountersAgree`,
  `FlagsTellTheTruth`. The strengthening relates the program counters (`Control`: who
  polls, when `running_` and `stop_requested_` are set) and bounds what is owed by
  what is still in the queue or in hand (`OwedIsQueued`), so that an empty queue
  seen after the stop request owes nothing. `CountersAgree` holds for every
  width the counters wrap at: one part relates what was queued to what was sent or is
  in hand (`StepQueued`), the other `ring_full` and `submit_rejected` to the refused
  submits, but for the one whose counters are still to be stepped (`StepRefusals`).
* **`OrderLifecycleProofs`**: `TypeCorrect`, `OrdersStaySound`, `ResultsReconcile`,
  `RefsOpenOnce`. The three invariants need each other and `UsedAreStale`: the
  highest reference number covers every number accepted, so all are refused.
* **`SimulatedExecutionEngineProofs`**: `EngineImplementsLifecycle` (the engine's
  steps are lifecycle steps or stutters, so the lifecycle's theorems carry over),
  `EngineTypeCorrect`, `OpenedOrdersChecked`, `HaltFreezes`. `OpenedOrdersChecked`
  rests on `CommonCheck`: behind the test for overflow the notional is the exact product.
* **`PermissiveGateProofs`**: `GateTypeCorrect`, `GateMatchesRisk`, `NothingLeaks`.

* **`GuardrailControlProofs`**: `ControlTypeCorrect`, `AllUpdatesCounted`,
  `PushesNeverStale`, `NeverRollsBack`, from `ControlAssumption` and
  `ChangeAssumption` (a change carries what its setter takes). The strengthening is
  `Numbered`: until it wraps, `next_sequence_` is past every update applied and
  pending. `apply_all` is a loop over the queue: `RunExists` shows that its recursive
  function has a value, `LoopInvariant` what holds after k updates (`LoopStep` for one
  more, `ApplyAllStep` for all), both by the set induction of `Arithmetic`.
* **`TransportsProofs`**: `EverySocketOwned`, `OneDpdkOwner`, `ClosedStaysClosed`,
  `QueueInOrder`, for any number of objects, descriptors and ports and every capacity
  (`TransportAssumption`). The invariant
  `Owned` matches descriptors, port and pool with the objects that hold them; to it
  comes that whoever was closed or moved from holds nothing. Every operation is made of
  four steps that keep it: releasing what an object holds, changing one that holds
  nothing, moving, constructing. A move assignment is a release and a move.
  `QueueInOrder` rests on `QueueInv`: the queue holds the requests that follow those
  drained, and what a `drain_to` in progress owes is in the queue and within its limit.

Only model-checked: the liveness properties (`PublishedIsPopped`, `AcceptedIsSent`,
`StopReturns`), which need fairness and `ENABLED`; the books, the
feed and the codecs, whose properties are about filtered sequences, sums and best
elements over sets of orders, and byte strings: what such an operator computes for
every input is an induction over data that the provers' libraries do not support.

## 5. Not modelled

* *FPGA gate reference* (`src/hardware/`): a reference for hardware that is not in the
  repository. Nothing constructs it, not even a test, so there is no traffic and no
  neighbour to model it against.
* *Gate in front of the asynchronous backend*: nothing in the repository puts one
  behind the other. Where they were, a halt would not recall what is queued.
* *Two consumers of the ring*: `poll_once` and `drain` are public, and the ring does
  not support them while a worker runs. The model leaves such calls out.
* *No-heap guard, runtime phase*: a depth counter per thread, read by a replaced
  `operator new` that aborts; nothing is shared, and the allocator is external.
* *Latency summary, pipeline telemetry*: statistics of a finished sample in floating
  point, which TLC does not have.
* *Benchmarks, report writers, CSV fixtures, core value types*: timing, text and
  declarations, without state whose correctness a model would settle.
* Within the modelled parts: telemetry counters of the network backends, kernel
  time stamps of received packets, the generator's pacing and command line.
