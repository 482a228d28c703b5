--------------------- MODULE MCSimulatedExecutionEngine ---------------------
EXTENDS SimulatedExecutionEngine, TLC

\* A tight pair of limits, and one whose notional limit is the largest there is.
MCLimits ==
    {[max_order_quantity |-> 1, max_order_notional |-> 1],
     [max_order_quantity |-> 2, max_order_notional |-> NotionalMax]}

Symmetry == Permutations(Symbol)

=============================================================================
