---------------------------- MODULE MCTransports ----------------------------
EXTENDS Transports, TLC

\* The objects are interchangeable.
Symmetry == Permutations(Objects)

=============================================================================
