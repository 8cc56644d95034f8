------------------------------ MODULE MCReactor ------------------------------
EXTENDS Reactor, TLC

\* Operations of the same protocol are interchangeable.
OpSymmetry == Permutations(TlsOps) \cup Permutations(Ops \ TlsOps)
=============================================================================
