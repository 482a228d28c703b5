-------------------------- MODULE GuardrailControl --------------------------
(***************************************************************************)
(* GuardrailControlPath (src/gate/guardrail_control.cpp): updates of a     *)
(* GuardrailState, staged in a queue and applied later. The push_...       *)
(* functions number their updates themselves; enqueue takes an update      *)
(* numbered elsewhere, which may be late, early or a duplicate.            *)
(***************************************************************************)
EXTENDS GuardrailState, Sequences

CONSTANTS
    Change,           \* the changes an operator makes: [kind, value]
    InitialLimits,    \* the limits at the start
    SequenceModulus,  \* 2^64: update sequences wrap
    CounterModulus,   \* 2^64: statistics wrap
    MaxPending        \* bound: updates pending at once

ASSUME ControlAssumption ==
    /\ SequenceModulus \in Nat \ {0, 1}
    /\ CounterModulus \in Nat \ {0, 1}
    /\ MaxPending \in Nat
    /\ InitialLimits \in GuardrailLimits

\* The value of a change has the type that the setter of its kind takes.
ASSUME ChangeAssumption ==
    \A change \in Change :
        \/ /\ change.kind \in {"set_global_halt", "set_cancel_only",
                               "set_default_symbol_enabled"}
           /\ change.value \in BOOLEAN
        \/ change.kind = "set_limits" /\ change.value \in GuardrailLimits
        \/ change.kind \in {"enable_symbol", "disable_symbol"} /\ change.value \in Symbol
        \/ change.kind = "clear_symbol_overrides"

Sequence == 0 .. SequenceModulus - 1

\* origin is history: "push" was numbered by make_update, "enqueue" elsewhere.
GuardrailUpdate ==
    [sequence : Sequence, change : Change, origin : {"push", "enqueue"}]

VARIABLES
    state,           \* the GuardrailState the updates are applied to
    pending,         \* pending_
    next_sequence,   \* next_sequence_
    stats,           \* stats_
    cleared,         \* history: updates discarded by clear_pending
    wrapped          \* history: next_sequence has wrapped

cvars == <<state, pending, next_sequence, stats, cleared, wrapped>>

InitialStats ==
    [staged |-> 0, applied |-> 0, dropped_stale |-> 0, last_applied_sequence |-> 0]

ControlInit ==
    /\ state = InitialGuardrail(InitialLimits)
    /\ pending = <<>>
    /\ next_sequence = 1
    /\ stats = InitialStats
    /\ cleared = 0
    /\ wrapped = FALSE

-----------------------------------------------------------------------------
Bump(counter) == (counter + 1) % CounterModulus

\* Mutant of After: the sequence does not wrap.
AfterNoWrap(sequence) == sequence + 1

After(sequence) == (sequence + 1) % SequenceModulus

\* Mutant of NextSequence: enqueue does not advance next_sequence_.
NextSequenceKept(next, sequence) == next

\* next_sequence_ once an update is staged: past every sequence seen.
NextSequence(next, sequence) == IF sequence >= next THEN After(sequence) ELSE next

\* enqueue, with next_sequence_ as make_update or the last call left it.
Stage(update, next) ==
    /\ Len(pending) < MaxPending
    /\ pending' = Append(pending, update)
    /\ stats' = [stats EXCEPT !.staged = Bump(@)]
    /\ next_sequence' = NextSequence(next, update.sequence)
    /\ wrapped' = (wrapped \/ After(update.sequence) = 0)
    /\ UNCHANGED <<state, cleared>>

\* push_set_global_halt ... push_clear_symbol_overrides: make_update, enqueue.
Push(change) ==
    Stage([sequence |-> next_sequence, change |-> change, origin |-> "push"],
          After(next_sequence))

Enqueue(sequence, change) ==
    Stage([sequence |-> sequence, change |-> change, origin |-> "enqueue"],
          next_sequence)

\* The setter that a kind of update calls.
Changed(s, change) ==
    CASE change.kind = "set_global_halt" -> set_global_halted(s, change.value)
      [] change.kind = "set_cancel_only" -> set_cancel_only(s, change.value)
      [] change.kind = "set_default_symbol_enabled" ->
           set_default_symbol_enabled(s, change.value)
      [] change.kind = "set_limits" -> set_limits(s, change.value)
      [] change.kind = "enable_symbol" -> enable_symbol(s, change.value)
      [] change.kind = "disable_symbol" -> disable_symbol(s, change.value)
      [] change.kind = "clear_symbol_overrides" -> clear_symbol_overrides(s)

\* Mutant of IsStale: a duplicate is not stale.
IsStaleUnlessDuplicate(update, last) == update.sequence < last

IsStale(update, last) == update.sequence <= last

\* Mutant of Applied: stale updates are not counted.
AppliedUncounted(pair, update) ==
    LET s == pair[1]
        t == pair[2] IN
    IF IsStale(update, t.last_applied_sequence)
    THEN pair
    ELSE <<Changed(s, update.change),
           [t EXCEPT !.applied = Bump(@), !.last_applied_sequence = update.sequence]>>

\* apply_update, as a function of the pair <<state, stats>>.
Applied(pair, update) ==
    LET s == pair[1]
        t == pair[2] IN
    IF IsStale(update, t.last_applied_sequence)
    THEN <<s, [t EXCEPT !.dropped_stale = Bump(@)]>>
    ELSE <<Changed(s, update.change),
           [t EXCEPT !.applied = Bump(@), !.last_applied_sequence = update.sequence]>>

ApplyNext ==
    /\ pending # <<>>
    /\ LET after == Applied(<<state, stats>>, Head(pending)) IN
       state' = after[1] /\ stats' = after[2]
    /\ pending' = Tail(pending)
    /\ UNCHANGED <<next_sequence, cleared, wrapped>>

ApplyAll ==
    /\ LET after[k \in 0 .. Len(pending)] ==
             IF k = 0 THEN <<state, stats>> ELSE Applied(after[k - 1], pending[k])
           last == after[Len(pending)] IN
       state' = last[1] /\ stats' = last[2]
    /\ pending' = <<>>
    /\ UNCHANGED <<next_sequence, cleared, wrapped>>

ClearPending ==
    /\ pending' = <<>>
    /\ cleared' = (cleared + Len(pending)) % CounterModulus
    /\ UNCHANGED <<state, next_sequence, stats, wrapped>>

\* reset forgets which updates were applied; the GuardrailState stays.
Reset ==
    /\ next_sequence' = 1
    /\ stats' = InitialStats
    /\ pending' = <<>>
    /\ cleared' = 0
    /\ wrapped' = FALSE
    /\ UNCHANGED state

ControlNext ==
    \/ \E change \in Change : Push(change)
    \/ \E sequence \in Sequence, change \in Change : Enqueue(sequence, change)
    \/ ApplyNext
    \/ ApplyAll
    \/ ClearPending
    \/ Reset

ControlSpec == ControlInit /\ [][ControlNext]_cvars

-----------------------------------------------------------------------------
\* Type correctness.
ControlTypeOK ==
    /\ state \in GuardrailStates
    /\ pending \in Seq(GuardrailUpdate) /\ Len(pending) <= MaxPending
    /\ next_sequence \in Sequence
    /\ stats \in [staged : 0 .. CounterModulus - 1, applied : 0 .. CounterModulus - 1,
                  dropped_stale : 0 .. CounterModulus - 1,
                  last_applied_sequence : Sequence]
    /\ cleared \in 0 .. CounterModulus - 1
    /\ wrapped \in BOOLEAN

\* The statistics account for every update staged since the last reset: it was
\* applied, dropped as stale, cleared, or is still pending.
UpdatesAccountedFor ==
    stats.staged = (stats.applied + stats.dropped_stale + cleared + Len(pending))
                     % CounterModulus

\* An update that a push_... function numbered is never dropped as stale: not
\* behind the updates staged before it, whatever sequences enqueue brought in,
\* and not after clear_pending or reset. Only a wrapped sequence can undo this.
PushedNeverStale ==
    ~wrapped =>
        \A k \in 1 .. Len(pending) : pending[k].origin = "push" =>
            /\ ~IsStale(pending[k], stats.last_applied_sequence)
            /\ \A j \in 1 .. k - 1 : pending[j].sequence < pending[k].sequence

\* The guardrails never go back: a step that changes them applies updates newer
\* than every update applied since the last reset.
NoRollback ==
    [][state' # state =>
         stats'.last_applied_sequence > stats.last_applied_sequence]_cvars

=============================================================================
