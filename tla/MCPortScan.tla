----------------------------- MODULE MCPortScan -----------------------------
EXTENDS PortScan, TLC

PortSymmetry == Permutations(Ports)
=============================================================================
