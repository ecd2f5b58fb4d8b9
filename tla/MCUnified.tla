------------------------------ MODULE MCUnified ------------------------------
EXTENDS Unified
\* Client threads are alike; the writer thread is not one of them.
ClientSymmetry == Permutations(Clients)
=============================================================================
