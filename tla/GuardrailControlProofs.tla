----------------------- MODULE GuardrailControlProofs -----------------------
(***************************************************************************)
(* Proofs about the control path, for every set of changes, every width of *)
(* the sequences and of the counters, and any number of pending updates.   *)
(* apply_all is a loop over the queue: LoopInvariant is proved by          *)
(* induction over the updates it has dealt with.                           *)
(***************************************************************************)
EXTENDS GuardrailControl, Arithmetic, SequenceTheorems

Stats ==
    [staged : 0 .. CounterModulus - 1, applied : 0 .. CounterModulus - 1,
     dropped_stale : 0 .. CounterModulus - 1, last_applied_sequence : Sequence]

\* Every setter keeps the type of the guardrails.
LEMMA ChangedType ==
    ASSUME NEW s \in GuardrailStates, NEW change \in Change
    PROVE  Changed(s, change) \in GuardrailStates
<1>1. CASE change.kind = "set_global_halt" /\ change.value \in BOOLEAN
  BY <1>1 DEF Changed, set_global_halted, GuardrailStates
<1>2. CASE change.kind = "set_cancel_only" /\ change.value \in BOOLEAN
  BY <1>2 DEF Changed, set_cancel_only, GuardrailStates
<1>3. CASE change.kind = "set_default_symbol_enabled" /\ change.value \in BOOLEAN
  BY <1>3 DEF Changed, set_default_symbol_enabled, GuardrailStates
<1>4. CASE change.kind = "set_limits" /\ change.value \in GuardrailLimits
  BY <1>4 DEF Changed, set_limits, GuardrailStates
<1>5. CASE change.kind \in {"enable_symbol", "disable_symbol"} /\ change.value \in Symbol
  <2> DEFINE on == s.enabled_symbols
             off == s.disabled_symbols
             symbol == change.value
  <2>1. /\ on \cup {symbol} \in SUBSET Symbol /\ off \ {symbol} \in SUBSET Symbol
        /\ off \cup {symbol} \in SUBSET Symbol /\ on \ {symbol} \in SUBSET Symbol
    BY <1>5 DEF GuardrailStates
  <2>2. enable_symbol(s, symbol) \in GuardrailStates
    BY <2>1 DEF enable_symbol, GuardrailStates
  <2>3. disable_symbol(s, symbol) \in GuardrailStates
    BY <2>1 DEF disable_symbol, GuardrailStates
  <2>4. \/ Changed(s, change) = enable_symbol(s, symbol)
        \/ Changed(s, change) = disable_symbol(s, symbol)
    BY <1>5 DEF Changed
  <2> QED
    BY <2>2, <2>3, <2>4
<1>6. CASE change.kind = "clear_symbol_overrides"
  BY <1>6 DEF Changed, clear_symbol_overrides, GuardrailStates
<1> QED
  BY <1>1, <1>2, <1>3, <1>4, <1>5, <1>6, ChangeAssumption

\* apply_update counts the update once, as applied or as dropped, moves the last
\* applied sequence only forward, and changes the guardrails only with it.
LEMMA AppliedStep ==
    ASSUME NEW s \in GuardrailStates, NEW t \in Stats, NEW update \in GuardrailUpdate,
           NEW pair, pair = Applied(<<s, t>>, update)
    PROVE  /\ pair = <<pair[1], pair[2]>>
           /\ pair[1] \in GuardrailStates
           /\ pair[2] \in Stats
           /\ pair[2].staged = t.staged
           /\ \/ /\ pair[2].applied = Bump(t.applied)
                 /\ pair[2].dropped_stale = t.dropped_stale
              \/ /\ pair[2].applied = t.applied
                 /\ pair[2].dropped_stale = Bump(t.dropped_stale)
           /\ \/ pair[1] = s /\ pair[2].last_applied_sequence = t.last_applied_sequence
              \/ /\ pair[2].last_applied_sequence = update.sequence
                 /\ update.sequence > t.last_applied_sequence
<1>1. Bump(t.applied) \in 0 .. CounterModulus - 1
      /\ Bump(t.dropped_stale) \in 0 .. CounterModulus - 1
  BY ControlAssumption, Division DEF Stats, Bump
<1>2. update.sequence \in Nat /\ t.last_applied_sequence \in Nat
  BY ControlAssumption DEF GuardrailUpdate, Stats, Sequence
<1>3. CASE IsStale(update, t.last_applied_sequence)
  <2>1. pair = <<s, [t EXCEPT !.dropped_stale = Bump(@)]>>
    BY <1>3 DEF Applied
  <2> QED
    BY <1>1, <2>1 DEF Stats
<1>4. CASE ~IsStale(update, t.last_applied_sequence)
  <2>1. pair = <<Changed(s, update.change),
                 [t EXCEPT !.applied = Bump(@), !.last_applied_sequence = update.sequence]>>
    BY <1>4 DEF Applied
  <2>2. update.sequence > t.last_applied_sequence
    BY <1>2, <1>4 DEF IsStale
  <2>3. Changed(s, update.change) \in GuardrailStates
    BY ChangedType DEF GuardrailUpdate
  <2>4. [t EXCEPT !.applied = Bump(@), !.last_applied_sequence = update.sequence] \in Stats
    BY <1>1 DEF Stats, GuardrailUpdate
  <2>5. pair[1] = Changed(s, update.change) /\
        pair[2] = [t EXCEPT !.applied = Bump(@), !.last_applied_sequence = update.sequence]
    BY <2>1
  <2>6. /\ pair[2].staged = t.staged
        /\ pair[2].applied = Bump(t.applied)
        /\ pair[2].dropped_stale = t.dropped_stale
        /\ pair[2].last_applied_sequence = update.sequence
    BY <2>5 DEF Stats
  <2> QED
    BY <2>1, <2>2, <2>3, <2>4, <2>5, <2>6
<1> QED
  BY <1>3, <1>4

-----------------------------------------------------------------------------
\* f[k] is what the first k updates make of a pair <<state, stats>>.
IsRun(f, first, updates, n) ==
    f = [k \in 0 .. n |-> IF k = 0 THEN first ELSE Applied(f[k - 1], updates[k])]

\* The loop of apply_all has a value, however long the queue.
LEMMA RunExists ==
    ASSUME NEW first, NEW updates, NEW n \in Nat
    PROVE  \E f : IsRun(f, first, updates, n)
<1> DEFINE S == {m \in Nat : \E f : IsRun(f, first, updates, m)}
<1>1. 0 \in S
  <2> DEFINE f == [k \in 0 .. 0 |-> first]
  <2>1. IsRun(f, first, updates, 0)
    BY DEF IsRun
  <2> QED
    BY <2>1
<1>2. ASSUME NEW m \in Nat, m \in S
      PROVE  m + 1 \in S
  <2>1. PICK f : IsRun(f, first, updates, m)
    BY <1>2
  <2> DEFINE new == Applied(f[m], updates[m + 1])
             g == [k \in 0 .. m + 1 |-> IF k = m + 1 THEN new ELSE f[k]]
             step == [k \in 0 .. m + 1 |->
                        IF k = 0 THEN first ELSE Applied(g[k - 1], updates[k])]
  <2>2. ASSUME NEW k \in 0 .. m + 1
        PROVE  g[k] = IF k = 0 THEN first ELSE Applied(g[k - 1], updates[k])
    <3>1. CASE k = m + 1
      <4>1. g[k] = new /\ g[k - 1] = f[m]
        BY <3>1
      <4> QED
        BY <3>1, <4>1
    <3>2. CASE k \in 0 .. m
      <4>1. g[k] = f[k]
        BY <3>2
      <4>2. k # 0 => g[k - 1] = f[k - 1]
        BY <3>2
      <4>3. f[k] = IF k = 0 THEN first ELSE Applied(f[k - 1], updates[k])
        BY <2>1, <3>2 DEF IsRun
      <4> QED
        BY <4>1, <4>2, <4>3
    <3> QED
      BY <3>1, <3>2
  <2>3. g = step
    <3> HIDE DEF new
    <3>1. \A k \in 0 .. m + 1 : g[k] = step[k]
      BY <2>2
    <3> QED
      BY <3>1
  <2>4. IsRun(g, first, updates, m + 1)
    BY <2>3 DEF IsRun
  <2> QED
    BY <2>4
<1> HIDE DEF S
<1>3. Nat \subseteq S
  BY <1>1, <1>2, SetInduction
<1> QED
  BY <1>3 DEF S

\* What holds of <<state, stats>> when apply_all has dealt with k updates.
LoopInvariant(pair, k) ==
    /\ pair = <<pair[1], pair[2]>>
    /\ pair[1] \in GuardrailStates
    /\ pair[2] \in Stats
    /\ pair[2].staged = stats.staged
    /\ stats.staged = (pair[2].applied + pair[2].dropped_stale + cleared
                         + (Len(pending) - k)) % CounterModulus
    /\ \/ /\ pair[1] = state
          /\ pair[2].last_applied_sequence = stats.last_applied_sequence
       \/ /\ pair[2].last_applied_sequence > stats.last_applied_sequence
          /\ \E j \in 1 .. Len(pending) : pair[2].last_applied_sequence = pending[j].sequence

\* A number may wrap before or after another is added.
WrapsOnce(a, b) == ((a % CounterModulus) + b) % CounterModulus = (a + b) % CounterModulus

\* Counters of any size wrap once.
LEMMA CountersWrapOnce ==
    ASSUME NEW a \in Nat, NEW b \in Nat
    PROVE  WrapsOnce(a, b)
<1>1. CounterModulus \in Nat /\ CounterModulus > 0
  BY ControlAssumption
<1> QED
  BY <1>1, ModAbsorbs, Zenon DEF WrapsOnce

\* A counter that goes up by one may wrap before or after the rest is added.
LEMMA BumpAbsorbs ==
    ASSUME NEW a \in Nat, NEW rest \in Nat
    PROVE  (Bump(a) + rest) % CounterModulus = (a + 1 + rest) % CounterModulus
<1>1. a + 1 \in Nat
  OBVIOUS
<1>2. WrapsOnce(a + 1, rest)
  BY <1>1, CountersWrapOnce, Zenon
<1> QED
  BY <1>2, Zenon DEF WrapsOnce, Bump

\* One of two counters goes up by one and another number down by one: the sum
\* stays, after wrapping.
SumKept(a, b, c, n) ==
    /\ (Bump(a) + b + c + (n - 1)) % CounterModulus = (a + b + c + n) % CounterModulus
    /\ (a + Bump(b) + c + (n - 1)) % CounterModulus = (a + b + c + n) % CounterModulus

\* A step of apply_update moves one update from the pending ones to a counter.
LEMMA CountMoves ==
    ASSUME NEW a \in Nat, NEW b \in Nat, NEW c \in Nat, NEW n \in Nat, n > 0
    PROVE  SumKept(a, b, c, n)
<1> DEFINE d == b + c + (n - 1)
           e == a + c + (n - 1)
<1>1. d \in Nat /\ e \in Nat
  OBVIOUS
<1>2. a + 1 + d = a + b + c + n /\ b + 1 + e = a + b + c + n
  OBVIOUS
<1>3. Bump(a) \in Nat /\ Bump(b) \in Nat
  BY ControlAssumption, Division DEF Bump
<1>4. /\ Bump(a) + b + c + (n - 1) = Bump(a) + d
      /\ a + Bump(b) + c + (n - 1) = Bump(b) + e
  BY <1>3
<1> HIDE DEF d, e
<1>5. (Bump(a) + d) % CounterModulus = (a + 1 + d) % CounterModulus
  BY <1>1, BumpAbsorbs, Zenon
<1>6. (Bump(b) + e) % CounterModulus = (b + 1 + e) % CounterModulus
  BY <1>1, BumpAbsorbs, Zenon
<1>7. (Bump(a) + b + c + (n - 1)) % CounterModulus = (a + b + c + n) % CounterModulus
  BY <1>2, <1>4, <1>5, Zenon
<1>8. (a + Bump(b) + c + (n - 1)) % CounterModulus = (a + b + c + n) % CounterModulus
  BY <1>2, <1>4, <1>6, Zenon
<1> QED
  BY <1>7, <1>8, Zenon DEF SumKept

\* One more update keeps the loop invariant.
LEMMA LoopStep ==
    ASSUME ControlTypeOK, NEW k \in 1 .. Len(pending), NEW pair,
           LoopInvariant(pair, k - 1)
    PROVE  LoopInvariant(Applied(pair, pending[k]), k)
<1> DEFINE s == pair[1]
           t == pair[2]
           next == Applied(pair, pending[k])
           u == next[2]
<1>1. pending[k] \in GuardrailUpdate
  BY DEF ControlTypeOK
<1>2. /\ pair = <<s, t>> /\ s \in GuardrailStates /\ t \in Stats
      /\ t.staged = stats.staged
  BY DEF LoopInvariant
<1>3. /\ next = <<next[1], u>> /\ next[1] \in GuardrailStates /\ u \in Stats
      /\ u.staged = t.staged
      /\ \/ u.applied = Bump(t.applied) /\ u.dropped_stale = t.dropped_stale
         \/ u.applied = t.applied /\ u.dropped_stale = Bump(t.dropped_stale)
      /\ \/ next[1] = s /\ u.last_applied_sequence = t.last_applied_sequence
         \/ /\ u.last_applied_sequence = pending[k].sequence
            /\ pending[k].sequence > t.last_applied_sequence
  BY <1>1, <1>2, AppliedStep
<1> HIDE DEF s, t, u, next
<1>4. /\ t.applied \in Nat /\ t.dropped_stale \in Nat /\ cleared \in Nat
      /\ u.applied \in Nat /\ u.dropped_stale \in Nat
      /\ t.last_applied_sequence \in Nat /\ u.last_applied_sequence \in Nat
      /\ stats.last_applied_sequence \in Nat
      /\ Len(pending) \in Nat
  BY <1>2, <1>3, ControlAssumption DEF Stats, ControlTypeOK, Sequence
<1> DEFINE n == Len(pending) - (k - 1)
<1>5. /\ stats.staged = (t.applied + t.dropped_stale + cleared + n) % CounterModulus
      /\ n \in Nat /\ n > 0 /\ Len(pending) - k = n - 1
  <2>1. stats.staged = (t.applied + t.dropped_stale + cleared + n) % CounterModulus
    BY Zenon DEF LoopInvariant, t
  <2>2. n \in Nat /\ n > 0 /\ Len(pending) - k = n - 1
    BY <1>4
  <2> QED
    BY <2>1, <2>2
<1>6. \/ /\ s = state
         /\ t.last_applied_sequence = stats.last_applied_sequence
      \/ /\ t.last_applied_sequence > stats.last_applied_sequence
         /\ \E j \in 1 .. Len(pending) : t.last_applied_sequence = pending[j].sequence
  BY DEF LoopInvariant, s, t
<1> HIDE DEF n
<1>7. stats.staged = (u.applied + u.dropped_stale + cleared + (n - 1)) % CounterModulus
  <2>1. SumKept(t.applied, t.dropped_stale, cleared, n)
    BY <1>4, <1>5, CountMoves, Zenon
  <2>2. CASE u.applied = Bump(t.applied) /\ u.dropped_stale = t.dropped_stale
    BY <1>5, <2>1, <2>2, Zenon DEF SumKept
  <2>3. CASE u.applied = t.applied /\ u.dropped_stale = Bump(t.dropped_stale)
    BY <1>5, <2>1, <2>3, Zenon DEF SumKept
  <2> QED
    BY <1>3, <2>2, <2>3
<1>8. \/ /\ next[1] = state
         /\ u.last_applied_sequence = stats.last_applied_sequence
      \/ /\ u.last_applied_sequence > stats.last_applied_sequence
         /\ \E j \in 1 .. Len(pending) : u.last_applied_sequence = pending[j].sequence
  <2>1. CASE next[1] = s /\ u.last_applied_sequence = t.last_applied_sequence
    BY <1>6, <2>1
  <2>2. CASE /\ u.last_applied_sequence = pending[k].sequence
             /\ pending[k].sequence > t.last_applied_sequence
    BY <1>4, <1>6, <2>2
  <2> QED
    BY <1>3, <2>1, <2>2
<1>9. LoopInvariant(next, k)
  BY <1>2, <1>3, <1>5, <1>7, <1>8 DEF LoopInvariant, u
<1> QED
  BY <1>9 DEF next

\* apply_all leaves the state and the statistics its loop ends with.
LEMMA ApplyAllStep ==
    ASSUME ControlTypeOK, UpdatesAccountedFor, ApplyAll
    PROVE  LoopInvariant(<<state', stats'>>, Len(pending))
<1> DEFINE n == Len(pending)
           f == CHOOSE f : IsRun(f, <<state, stats>>, pending, n)
<1>1. n \in Nat
  BY DEF ControlTypeOK
<1>2. IsRun(f, <<state, stats>>, pending, n)
  BY <1>1, RunExists
<1>3. state' = f[n][1] /\ stats' = f[n][2]
  BY DEF ApplyAll, IsRun
<1> HIDE DEF f
<1>4. /\ f[0] = <<state, stats>>
      /\ \A k \in 1 .. n : f[k] = Applied(f[k - 1], pending[k])
  <2> DEFINE step(k) == IF k = 0 THEN <<state, stats>> ELSE Applied(f[k - 1], pending[k])
  <2>1. f = [k \in 0 .. n |-> step(k)]
    BY <1>2, Zenon DEF IsRun
  <2> HIDE DEF step
  <2>2. \A k \in 0 .. n : f[k] = step(k)
    BY <2>1
  <2>3. f[0] = step(0) /\ \A k \in 1 .. n : f[k] = step(k)
    BY <1>1, <2>2
  <2>4. step(0) = <<state, stats>>
    BY DEF step
  <2>5. \A k \in 1 .. n : step(k) = Applied(f[k - 1], pending[k])
    BY <1>1 DEF step
  <2> QED
    BY <2>3, <2>4, <2>5, Zenon
<1> DEFINE S == {k \in Nat : k <= n => LoopInvariant(f[k], k)}
<1>5. 0 \in S
  <2>1. Len(pending) - 0 = Len(pending)
    BY <1>1
  <2> DEFINE first == <<state, stats>>
  <2>2. first[1] = state /\ first[2] = stats
    OBVIOUS
  <2>3. state \in GuardrailStates /\ stats \in Stats
    BY DEF ControlTypeOK, Stats
  <2> HIDE DEF first
  <2>4. stats.staged = (first[2].applied + first[2].dropped_stale + cleared
                          + (Len(pending) - 0)) % CounterModulus
    BY <2>1, <2>2, Zenon DEF UpdatesAccountedFor
  <2>5. first = <<first[1], first[2]>>
    BY <2>2 DEF first
  <2>6. LoopInvariant(first, 0)
    BY <2>2, <2>3, <2>4, <2>5, Zenon DEF LoopInvariant
  <2> QED
    BY <1>4, <2>6 DEF first
<1>6. \A k \in Nat : k \in S => k + 1 \in S
  <2> SUFFICES ASSUME NEW k \in Nat, k \in S, k + 1 <= n
               PROVE  LoopInvariant(f[k + 1], k + 1)
    OBVIOUS
  <2>1. LoopInvariant(f[k], k)
    BY <1>1
  <2> DEFINE m == k + 1
  <2>2. m \in 1 .. Len(pending) /\ k = m - 1
    BY <1>1
  <2>3. f[m] = Applied(f[m - 1], pending[m])
    BY <1>4, <2>2
  <2> HIDE DEF m
  <2>4. LoopInvariant(f[m - 1], m - 1)
    BY <2>1, <2>2
  <2>5. LoopInvariant(Applied(f[m - 1], pending[m]), m)
    BY <2>2, <2>4, LoopStep
  <2> QED
    BY <2>3, <2>5 DEF m
<1> HIDE DEF S
<1>7. Nat \subseteq S
  BY <1>5, <1>6, SetInduction
<1>8. LoopInvariant(f[n], n)
  BY <1>1, <1>7 DEF S
<1>9. f[n] = <<f[n][1], f[n][2]>>
  BY <1>8, Zenon DEF LoopInvariant
<1>10. f[n] = <<state', stats'>>
  BY <1>3, <1>9
<1> QED
  BY <1>8, <1>10

-----------------------------------------------------------------------------
\* Until next_sequence_ wraps, it is past every update applied and pending.
Numbered ==
    ~wrapped => /\ stats.last_applied_sequence < next_sequence
                /\ \A k \in 1 .. Len(pending) : pending[k].sequence < next_sequence

\* The inductive invariant.
ControlInv == ControlTypeOK /\ UpdatesAccountedFor /\ Numbered /\ PushedNeverStale

\* The invariant holds at the start.
LEMMA ControlInitial == ControlInit => ControlInv
<1> SUFFICES ASSUME ControlInit PROVE ControlInv
  OBVIOUS
<1>1. ControlTypeOK
  <2>1. state \in GuardrailStates
    BY ControlAssumption DEF ControlInit, InitialGuardrail, GuardrailStates
  <2>2. 0 \in 0 .. CounterModulus - 1 /\ 0 \in Sequence /\ 1 \in Sequence
    BY ControlAssumption DEF Sequence
  <2>3. pending \in Seq(GuardrailUpdate) /\ Len(pending) <= MaxPending
    BY ControlAssumption DEF ControlInit
  <2> QED
    BY <2>1, <2>2, <2>3 DEF ControlInit, ControlTypeOK, InitialStats
<1>2. UpdatesAccountedFor
  <2>1. 0 % CounterModulus = 0
    BY ControlAssumption
  <2> QED
    BY <2>1 DEF ControlInit, UpdatesAccountedFor, InitialStats
<1>3. Numbered /\ PushedNeverStale
  BY DEF ControlInit, Numbered, PushedNeverStale, InitialStats
<1> QED
  BY <1>1, <1>2, <1>3 DEF ControlInv

\* The updates of a queue have natural sequences.
LEMMA SequencesNat ==
    ASSUME NEW q \in Seq(GuardrailUpdate)
    PROVE  \A k \in 1 .. Len(q) : q[k].sequence \in Nat
<1>1. \A u \in GuardrailUpdate : u.sequence \in Nat
  BY ControlAssumption DEF GuardrailUpdate, Sequence
<1>2. \A k \in 1 .. Len(q) : q[k] \in GuardrailUpdate
  OBVIOUS
<1> QED
  BY <1>1, <1>2

\* enqueue and the push_... functions: either the update's number is the next
\* one, or it comes from elsewhere.
LEMMA StageKeeps ==
    ASSUME ControlInv, NEW update \in GuardrailUpdate, NEW next \in Sequence,
           Stage(update, next),
           \/ update.sequence = next_sequence /\ next = After(next_sequence)
           \/ update.origin = "enqueue" /\ next = next_sequence
    PROVE  ControlInv'
<1> DEFINE p == Append(pending, update)
           seq == update.sequence
<1>1. /\ pending \in Seq(GuardrailUpdate) /\ Len(pending) \in Nat /\ stats \in Stats
      /\ next_sequence \in Nat /\ seq \in Nat /\ next \in Nat
      /\ seq < SequenceModulus /\ next_sequence < SequenceModulus
      /\ stats.last_applied_sequence \in Nat
      /\ stats.applied \in Nat /\ stats.dropped_stale \in Nat /\ stats.staged \in Nat
      /\ cleared \in Nat
      /\ SequenceModulus \in Nat /\ SequenceModulus > 1
      /\ CounterModulus \in Nat /\ CounterModulus > 1
  BY ControlAssumption DEF ControlInv, ControlTypeOK, Stats, Sequence, GuardrailUpdate
<1>2. /\ pending' = p /\ stats' = [stats EXCEPT !.staged = Bump(@)]
      /\ next_sequence' = NextSequence(next, seq)
      /\ wrapped' = (wrapped \/ After(seq) = 0)
      /\ state' = state /\ cleared' = cleared
      /\ Len(pending) < MaxPending
  BY DEF Stage
<1>3. /\ p \in Seq(GuardrailUpdate) /\ Len(p) = Len(pending) + 1
      /\ \A k \in 1 .. Len(pending) : p[k] = pending[k]
      /\ p[Len(pending) + 1] = update
  BY <1>1, AppendProperties
<1>4. After(seq) \in Sequence /\ (After(seq) # 0 => After(seq) = seq + 1)
  <2> DEFINE x == seq + 1
  <2>1. x \in Nat /\ (x < SequenceModulus \/ x = SequenceModulus)
    BY <1>1
  <2>2. x \in 0 .. SequenceModulus - 1 => x = SequenceModulus * 0 + x
    BY <1>1
  <2>3. x = SequenceModulus => x = SequenceModulus * 1 + 0 /\ 0 \in 0 .. SequenceModulus - 1
    BY <1>1
  <2> HIDE DEF x
  <2>4. x < SequenceModulus => x % SequenceModulus = x
    BY <1>1, <2>1, <2>2, RemainderUnique
  <2>5. x = SequenceModulus => x % SequenceModulus = 0
    BY <1>1, <2>1, <2>3, RemainderUnique
  <2> QED
    BY <1>1, <2>1, <2>4, <2>5 DEF After, Sequence, x
<1>5. stats' \in Stats /\ stats'.last_applied_sequence = stats.last_applied_sequence
      /\ stats'.applied = stats.applied /\ stats'.dropped_stale = stats.dropped_stale
      /\ stats'.staged = Bump(stats.staged)
  <2>1. Bump(stats.staged) \in 0 .. CounterModulus - 1
    BY <1>1, Division DEF Bump
  <2> QED
    BY <1>1, <1>2, <2>1 DEF Stats
<1> HIDE DEF p, seq
<1>6. ControlTypeOK'
  <2>1. next_sequence' \in Sequence
    BY <1>2, <1>4 DEF NextSequence
  <2>2. wrapped' \in BOOLEAN
    BY <1>2 DEF ControlInv, ControlTypeOK
  <2>3. state' \in GuardrailStates /\ cleared' \in 0 .. CounterModulus - 1
    BY <1>2 DEF ControlInv, ControlTypeOK
  <2>4. pending' \in Seq(GuardrailUpdate) /\ Len(pending') <= MaxPending
    BY <1>1, <1>2, <1>3, ControlAssumption
  <2> QED
    BY <1>5, <2>1, <2>2, <2>3, <2>4 DEF ControlTypeOK, Stats
<1>7. UpdatesAccountedFor'
  <2> DEFINE sum == stats.applied + stats.dropped_stale + cleared + Len(pending)
  <2>1. stats.staged = sum % CounterModulus
    BY Zenon DEF ControlInv, UpdatesAccountedFor
  <2>2. sum \in Nat /\ 1 \in Nat
    BY <1>1
  <2>3. stats.applied + stats.dropped_stale + cleared + (Len(pending) + 1) = sum + 1
    BY <1>1
  <2> HIDE DEF sum
  <2>4. WrapsOnce(sum, 1)
    BY <2>2, CountersWrapOnce, Zenon
  <2>5. stats'.staged = (sum + 1) % CounterModulus
    BY <1>5, <2>1, <2>4, Zenon DEF Bump, WrapsOnce
  <2> QED
    BY <1>2, <1>3, <1>5, <2>3, <2>5, Zenon DEF UpdatesAccountedFor
<1>8. ASSUME ~wrapped'
      PROVE  /\ stats.last_applied_sequence < next_sequence
             /\ \A k \in 1 .. Len(pending) : pending[k].sequence < next_sequence
             /\ next_sequence <= next_sequence' /\ seq < next_sequence'
  <2>1. ~wrapped /\ After(seq) = seq + 1
    BY <1>2, <1>4, <1>8, Zenon
  <2>2. /\ stats.last_applied_sequence < next_sequence
        /\ \A k \in 1 .. Len(pending) : pending[k].sequence < next_sequence
    BY <2>1 DEF ControlInv, Numbered
  <2>3. next_sequence <= next_sequence' /\ seq < next_sequence'
    BY <1>1, <1>2, <2>1 DEF NextSequence, seq
  <2> QED
    BY <2>2, <2>3
<1>9. \A k \in 1 .. Len(pending) : pending[k].sequence \in Nat
  BY <1>1, SequencesNat
<1>10. next_sequence' \in Nat
  BY <1>6, ControlAssumption DEF ControlTypeOK, Sequence
<1>11. Numbered'
  <2> SUFFICES ASSUME ~wrapped'
               PROVE  /\ stats'.last_applied_sequence < next_sequence'
                      /\ \A k \in 1 .. Len(p) : p[k].sequence < next_sequence'
    BY <1>2 DEF Numbered
  <2>1. stats'.last_applied_sequence < next_sequence'
    BY <1>1, <1>5, <1>8, <1>10
  <2>2. ASSUME NEW k \in 1 .. Len(p) PROVE p[k].sequence < next_sequence'
    <3>1. CASE k = Len(pending) + 1
      BY <1>3, <1>8, <3>1 DEF seq
    <3>2. CASE k \in 1 .. Len(pending)
      <4>1. pending[k].sequence < next_sequence /\ next_sequence <= next_sequence'
        BY <1>8, <3>2
      <4>2. pending[k].sequence < next_sequence'
        BY <1>1, <1>9, <1>10, <3>2, <4>1
      <4> QED
        BY <1>3, <3>2, <4>2
    <3> QED
      BY <1>1, <1>3, <3>1, <3>2
  <2> QED
    BY <2>1, <2>2
<1>12. PushedNeverStale'
  <2> SUFFICES ASSUME ~wrapped', NEW k \in 1 .. Len(p), p[k].origin = "push"
               PROVE  /\ p[k].sequence > stats.last_applied_sequence
                      /\ \A j \in 1 .. k - 1 : p[j].sequence < p[k].sequence
    <3>1. \A k \in 1 .. Len(p) : p[k].sequence \in Nat
      BY <1>3, SequencesNat
    <3>2. \A k \in 1 .. Len(p) : p[k].sequence > stats.last_applied_sequence
                                   => ~IsStale(p[k], stats.last_applied_sequence)
      BY <1>1, <3>1 DEF IsStale
    <3> QED
      BY <1>2, <1>5, <3>2, Zenon DEF PushedNeverStale
  <2>1. CASE k = Len(pending) + 1
    <3>1. update.origin = "push" /\ update.sequence = next_sequence
      BY <1>3, <2>1
    <3>2. p[k].sequence = next_sequence /\ \A j \in 1 .. k - 1 : p[j] = pending[j]
      BY <1>1, <1>3, <2>1, <3>1
    <3>3. \A j \in 1 .. k - 1 : pending[j].sequence < next_sequence
      BY <1>1, <1>8, <2>1
    <3>4. next_sequence > stats.last_applied_sequence
      BY <1>1, <1>8
    <3> QED
      BY <3>2, <3>3, <3>4
  <2>2. CASE k \in 1 .. Len(pending)
    <3>1. ~wrapped
      BY <1>2
    <3>2. /\ ~IsStale(pending[k], stats.last_applied_sequence)
          /\ \A j \in 1 .. k - 1 : pending[j].sequence < pending[k].sequence
      BY <1>3, <2>2, <3>1 DEF ControlInv, PushedNeverStale
    <3>3. pending[k].sequence > stats.last_applied_sequence
      BY <1>1, <1>9, <2>2, <3>2 DEF IsStale
    <3>4. p[k] = pending[k] /\ \A j \in 1 .. k - 1 : p[j] = pending[j]
      BY <1>1, <1>3, <2>2
    <3> QED
      BY <3>2, <3>3, <3>4
  <2> QED
    BY <1>1, <1>3, <2>1, <2>2
<1> QED
  BY <1>6, <1>7, <1>11, <1>12 DEF ControlInv

\* apply_next.
LEMMA ApplyNextKeeps ==
    ASSUME ControlInv, ApplyNext
    PROVE  /\ ControlInv'
           /\ state' # state => stats'.last_applied_sequence > stats.last_applied_sequence
<1> DEFINE head == Head(pending)
           p == Tail(pending)
           last == stats.last_applied_sequence
           n == Len(pending)
<1>1. /\ pending \in Seq(GuardrailUpdate) /\ pending # <<>> /\ n \in Nat
      /\ stats \in Stats /\ state \in GuardrailStates
      /\ n <= MaxPending /\ MaxPending \in Nat
      /\ next_sequence \in Nat /\ last \in Nat
      /\ stats.applied \in Nat /\ stats.dropped_stale \in Nat /\ cleared \in Nat
  BY ControlAssumption DEF ControlInv, ControlTypeOK, Stats, Sequence, ApplyNext
<1>2. /\ head = pending[1] /\ head \in GuardrailUpdate /\ n > 0
      /\ p \in Seq(GuardrailUpdate) /\ Len(p) = n - 1
      /\ \A k \in 1 .. n - 1 : p[k] = pending[k + 1]
  BY <1>1
<1>3. pending' = p /\ next_sequence' = next_sequence /\ cleared' = cleared
      /\ wrapped' = wrapped
  BY DEF ApplyNext
<1>4. PICK pair : /\ pair = Applied(<<state, stats>>, head)
                  /\ state' = pair[1] /\ stats' = pair[2]
  BY DEF ApplyNext
<1> HIDE DEF head, p
<1>5. /\ state' \in GuardrailStates /\ stats' \in Stats
      /\ stats'.staged = stats.staged
      /\ \/ stats'.applied = Bump(stats.applied) /\ stats'.dropped_stale = stats.dropped_stale
         \/ stats'.applied = stats.applied /\ stats'.dropped_stale = Bump(stats.dropped_stale)
      /\ \/ state' = state /\ stats'.last_applied_sequence = last
         \/ stats'.last_applied_sequence = head.sequence /\ head.sequence > last
  <2>1. /\ pair[1] \in GuardrailStates /\ pair[2] \in Stats
        /\ pair[2].staged = stats.staged
        /\ \/ /\ pair[2].applied = Bump(stats.applied)
              /\ pair[2].dropped_stale = stats.dropped_stale
           \/ /\ pair[2].applied = stats.applied
              /\ pair[2].dropped_stale = Bump(stats.dropped_stale)
        /\ \/ /\ pair[1] = state
              /\ pair[2].last_applied_sequence = stats.last_applied_sequence
           \/ /\ pair[2].last_applied_sequence = head.sequence
              /\ head.sequence > stats.last_applied_sequence
    <3>1. /\ state \in GuardrailStates /\ stats \in Stats /\ head \in GuardrailUpdate
          /\ pair = Applied(<<state, stats>>, head)
      BY <1>1, <1>2, <1>4, Zenon
    <3> QED
      BY <3>1, AppliedStep
  <2> QED
    BY <1>4, <2>1, Zenon
<1>6. ControlTypeOK'
  <2>1. Len(p) <= MaxPending
    BY <1>1, <1>2
  <2> QED
    BY <1>2, <1>3, <1>5, <2>1 DEF ControlInv, ControlTypeOK, Stats
<1>7. UpdatesAccountedFor'
  <2>1. SumKept(stats.applied, stats.dropped_stale, cleared, n)
    BY <1>1, <1>2, CountMoves
  <2>2. stats.staged = (stats.applied + stats.dropped_stale + cleared + n) % CounterModulus
    BY Zenon DEF ControlInv, UpdatesAccountedFor
  <2>3. stats.staged = (stats'.applied + stats'.dropped_stale + cleared + (n - 1))
                         % CounterModulus
    <3>1. CASE stats'.applied = Bump(stats.applied)
               /\ stats'.dropped_stale = stats.dropped_stale
      BY <2>1, <2>2, <3>1, Zenon DEF SumKept
    <3>2. CASE stats'.applied = stats.applied
               /\ stats'.dropped_stale = Bump(stats.dropped_stale)
      BY <2>1, <2>2, <3>2, Zenon DEF SumKept
    <3> QED
      BY <1>5, <3>1, <3>2
  <2> QED
    BY <1>2, <1>3, <1>5, <2>3, Zenon DEF UpdatesAccountedFor
<1>8. /\ \A k \in 1 .. n : pending[k].sequence \in Nat
      /\ stats'.last_applied_sequence \in Nat
      /\ head.sequence = pending[1].sequence
  <2>1. stats'.last_applied_sequence \in Nat
    BY <1>5, ControlAssumption DEF Stats, Sequence
  <2> QED
    BY <1>1, <1>2, <2>1, SequencesNat
<1>9. Numbered'
  <2> SUFFICES ASSUME ~wrapped
               PROVE  /\ stats'.last_applied_sequence < next_sequence
                      /\ \A k \in 1 .. Len(p) : p[k].sequence < next_sequence
    BY <1>3 DEF Numbered
  <2>1. last < next_sequence /\ \A k \in 1 .. n : pending[k].sequence < next_sequence
    BY DEF ControlInv, Numbered
  <2>2. stats'.last_applied_sequence < next_sequence
    BY <1>1, <1>2, <1>5, <1>8, <2>1
  <2>3. \A k \in 1 .. n - 1 : p[k] = pending[k + 1] /\ k + 1 \in 1 .. n
    BY <1>1, <1>2
  <2> QED
    BY <1>2, <2>1, <2>2, <2>3
<1>10. PushedNeverStale'
  <2> SUFFICES ASSUME ~wrapped, NEW k \in 1 .. Len(p), p[k].origin = "push"
               PROVE  /\ p[k].sequence > stats'.last_applied_sequence
                      /\ \A j \in 1 .. k - 1 : p[j].sequence < p[k].sequence
    <3>1. \A k \in 1 .. Len(p) : p[k].sequence \in Nat
      BY <1>2, SequencesNat
    <3>2. \A k \in 1 .. Len(p) : p[k].sequence > stats'.last_applied_sequence
                                   => ~IsStale(p[k], stats'.last_applied_sequence)
      BY <1>8, <3>1 DEF IsStale
    <3> QED
      BY <1>3, <3>2, Zenon DEF PushedNeverStale
  <2> DEFINE m == k + 1
  <2>0. k \in 1 .. n - 1
    BY <1>2
  <2>1. m \in 2 .. n /\ p[k] = pending[m] /\ 1 \in 1 .. m - 1
    BY <1>1, <1>2, <2>0
  <2>2. ASSUME NEW j \in 1 .. k - 1
        PROVE  j + 1 \in 1 .. m - 1 /\ p[j] = pending[j + 1]
    <3>1. j \in 1 .. n - 1 /\ j + 1 \in 1 .. m - 1
      BY <1>1, <2>0
    <3> QED
      BY <1>2, <3>1
  <2> HIDE DEF m
  <2>3. /\ ~IsStale(pending[m], last)
        /\ \A j \in 1 .. m - 1 : pending[j].sequence < pending[m].sequence
    <3>1. m \in 1 .. n
      BY <1>1, <2>1
    <3> QED
      BY <2>1, <3>1 DEF ControlInv, PushedNeverStale
  <2>4. pending[m].sequence \in Nat
    BY <1>1, <1>8, <2>1
  <2>5. pending[m].sequence > stats'.last_applied_sequence
    <3>1. pending[m].sequence > last
      BY <1>1, <2>3, <2>4 DEF IsStale
    <3>2. pending[m].sequence > head.sequence
      BY <1>1, <1>2, <1>8, <2>1, <2>3, <2>4
    <3> QED
      BY <1>5, <3>1, <3>2
  <2> QED
    BY <2>1, <2>2, <2>3, <2>5
<1>11. state' # state => stats'.last_applied_sequence > last
  BY <1>5
<1> QED
  BY <1>6, <1>7, <1>9, <1>10, <1>11 DEF ControlInv

\* apply_all.
LEMMA ApplyAllKeeps ==
    ASSUME ControlInv, ApplyAll
    PROVE  /\ ControlInv'
           /\ state' # state => stats'.last_applied_sequence > stats.last_applied_sequence
<1> DEFINE pair == <<state', stats'>>
           n == Len(pending)
<1>1. LoopInvariant(pair, n)
  BY ApplyAllStep DEF ControlInv
<1>2. pair[1] = state' /\ pair[2] = stats'
  OBVIOUS
<1> HIDE DEF pair
<1>3. /\ state' \in GuardrailStates /\ stats' \in Stats /\ stats'.staged = stats.staged
      /\ stats.staged = (stats'.applied + stats'.dropped_stale + cleared + (n - n))
                          % CounterModulus
      /\ \/ /\ state' = state
            /\ stats'.last_applied_sequence = stats.last_applied_sequence
         \/ /\ stats'.last_applied_sequence > stats.last_applied_sequence
            /\ \E j \in 1 .. n : stats'.last_applied_sequence = pending[j].sequence
  BY <1>1, <1>2, Zenon DEF LoopInvariant
<1>4. pending' = <<>> /\ next_sequence' = next_sequence /\ cleared' = cleared
      /\ wrapped' = wrapped
  BY DEF ApplyAll
<1>5. n \in Nat /\ n - n = 0 /\ Len(<<>>) = 0
  BY DEF ControlInv, ControlTypeOK
<1>6. ControlTypeOK'
  <2>1. <<>> \in Seq(GuardrailUpdate) /\ 0 <= MaxPending
    BY ControlAssumption
  <2> QED
    BY <1>3, <1>4, <1>5, <2>1 DEF ControlInv, ControlTypeOK, Stats
<1>7. UpdatesAccountedFor'
  BY <1>3, <1>4, <1>5, Zenon DEF UpdatesAccountedFor
<1>8. Numbered'
  BY <1>3, <1>4, <1>5 DEF ControlInv, Numbered
<1>9. PushedNeverStale'
  BY <1>4, <1>5 DEF PushedNeverStale
<1> QED
  BY <1>3, <1>6, <1>7, <1>8, <1>9 DEF ControlInv

\* clear_pending.
LEMMA ClearPendingKeeps ==
    ASSUME ControlInv, ClearPending
    PROVE  ControlInv'
<1> DEFINE a == stats.applied + stats.dropped_stale
           n == Len(pending)
           x == cleared + n
<1>1. /\ stats.applied \in Nat /\ stats.dropped_stale \in Nat /\ cleared \in Nat
      /\ n \in Nat /\ CounterModulus \in Nat /\ CounterModulus > 0
  BY ControlAssumption DEF ControlInv, ControlTypeOK
<1>2. /\ pending' = <<>> /\ cleared' = x % CounterModulus /\ state' = state
      /\ next_sequence' = next_sequence /\ stats' = stats /\ wrapped' = wrapped
      /\ Len(<<>>) = 0
  BY DEF ClearPending
<1>3. x \in Nat /\ a \in Nat /\ (a + cleared) + n = x + a
  BY <1>1
<1>4. stats.staged = ((a + cleared) + n) % CounterModulus
  BY Zenon DEF ControlInv, UpdatesAccountedFor
<1> HIDE DEF x
<1>5. x % CounterModulus \in 0 .. CounterModulus - 1
  BY <1>1, <1>3, Division
<1>6. ((a + (x % CounterModulus)) + 0) = (x % CounterModulus) + a
  BY <1>1, <1>5
<1> HIDE DEF a
<1>7. WrapsOnce(x, a)
  BY <1>3, CountersWrapOnce, Zenon
<1>8. stats.staged = ((a + (x % CounterModulus)) + 0) % CounterModulus
  BY <1>3, <1>4, <1>6, <1>7, Zenon DEF WrapsOnce
<1>9. UpdatesAccountedFor'
  BY <1>2, <1>8, Zenon DEF UpdatesAccountedFor, a
<1>10. ControlTypeOK'
  <2>1. <<>> \in Seq(GuardrailUpdate) /\ 0 <= MaxPending
    BY ControlAssumption
  <2> QED
    BY <1>2, <1>5, <2>1 DEF ControlInv, ControlTypeOK
<1>11. Numbered' /\ PushedNeverStale'
  BY <1>2 DEF ControlInv, Numbered, PushedNeverStale
<1> QED
  BY <1>9, <1>10, <1>11 DEF ControlInv

\* reset: as at the start, but for the guardrails.
LEMMA ResetKeeps ==
    ASSUME ControlInv, Reset
    PROVE  ControlInv'
<1>1. ControlTypeOK'
  <2>1. 0 \in 0 .. CounterModulus - 1 /\ 0 \in Sequence /\ 1 \in Sequence
    BY ControlAssumption DEF Sequence
  <2>2. pending' \in Seq(GuardrailUpdate) /\ Len(pending') <= MaxPending
    BY ControlAssumption DEF Reset
  <2> QED
    BY <2>1, <2>2 DEF Reset, ControlInv, ControlTypeOK, InitialStats
<1>2. UpdatesAccountedFor'
  <2>1. 0 % CounterModulus = 0
    BY ControlAssumption
  <2> QED
    BY <2>1 DEF Reset, UpdatesAccountedFor, InitialStats
<1>3. Numbered' /\ PushedNeverStale'
  BY DEF Reset, Numbered, PushedNeverStale, InitialStats
<1> QED
  BY <1>1, <1>2, <1>3 DEF ControlInv

\* Every step keeps the invariant, and changes the guardrails only for newer
\* updates.
LEMMA ControlStep ==
    ASSUME ControlInv, [ControlNext]_cvars
    PROVE  /\ ControlInv'
           /\ state' # state => stats'.last_applied_sequence > stats.last_applied_sequence
<1>1. ASSUME NEW change \in Change, Push(change)
      PROVE  ControlInv' /\ state' = state
  <2> DEFINE update == [sequence |-> next_sequence, change |-> change, origin |-> "push"]
  <2>1. update \in GuardrailUpdate
    BY DEF ControlInv, ControlTypeOK, GuardrailUpdate
  <2>2. update.sequence = next_sequence
    OBVIOUS
  <2>3. After(next_sequence) \in Sequence
    BY ControlAssumption, Division DEF ControlInv, ControlTypeOK, Sequence, After
  <2>4. Stage(update, After(next_sequence))
    BY <1>1 DEF Push
  <2> HIDE DEF update
  <2> QED
    BY <2>1, <2>2, <2>3, <2>4, StageKeeps DEF Stage
<1>2. ASSUME NEW sequence \in Sequence, NEW change \in Change, Enqueue(sequence, change)
      PROVE  ControlInv' /\ state' = state
  <2> DEFINE update == [sequence |-> sequence, change |-> change, origin |-> "enqueue"]
  <2>1. update \in GuardrailUpdate /\ update.origin = "enqueue"
    BY DEF GuardrailUpdate
  <2>2. next_sequence \in Sequence
    BY DEF ControlInv, ControlTypeOK
  <2>3. Stage(update, next_sequence)
    BY <1>2 DEF Enqueue
  <2> HIDE DEF update
  <2> QED
    BY <2>1, <2>2, <2>3, StageKeeps DEF Stage
<1>3. CASE ApplyNext
  BY <1>3, ApplyNextKeeps
<1>4. CASE ApplyAll
  BY <1>4, ApplyAllKeeps
<1>5. CASE ClearPending
  BY <1>5, ClearPendingKeeps DEF ClearPending
<1>6. CASE Reset
  BY <1>6, ResetKeeps DEF Reset
<1>7. CASE UNCHANGED cvars
  BY <1>7, Zenon DEF cvars, ControlInv, ControlTypeOK, UpdatesAccountedFor, Numbered,
                     PushedNeverStale
<1> QED
  BY <1>1, <1>2, <1>3, <1>4, <1>5, <1>6, <1>7 DEF ControlNext

\* The inductive invariant is one.
THEOREM ControlInvariant == ControlSpec => []ControlInv
<1>1. ControlInv /\ [ControlNext]_cvars => ControlInv'
  BY ControlStep
<1> QED
  BY <1>1, ControlInitial, PTL DEF ControlSpec

\* Type correctness of the GuardrailControlPath, for every queue length and
\* every width of the sequences and counters.
THEOREM ControlTypeCorrect == ControlSpec => []ControlTypeOK
<1>1. ControlInv => ControlTypeOK
  BY DEF ControlInv
<1> QED
  BY <1>1, ControlInvariant, PTL

\* staged = applied + dropped_stale + cleared + pending, whatever is staged,
\* applied one by one or all at once, or cleared, and when the counters wrap.
THEOREM AllUpdatesCounted == ControlSpec => []UpdatesAccountedFor
<1>1. ControlInv => UpdatesAccountedFor
  BY DEF ControlInv
<1> QED
  BY <1>1, ControlInvariant, PTL

\* An update numbered by make_update is never dropped as stale, until the
\* sequence wraps.
THEOREM PushesNeverStale == ControlSpec => []PushedNeverStale
<1>1. ControlInv => PushedNeverStale
  BY DEF ControlInv
<1> QED
  BY <1>1, ControlInvariant, PTL

\* The guardrails change only for updates newer than all applied before.
THEOREM NeverRollsBack == ControlSpec => NoRollback
<1>1. ControlInv /\ [ControlNext]_cvars
        => [state' # state =>
              stats'.last_applied_sequence > stats.last_applied_sequence]_cvars
  BY ControlStep
<1> QED
  BY <1>1, ControlInvariant, PTL DEF ControlSpec, NoRollback

=============================================================================
