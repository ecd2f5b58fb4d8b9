---------------------------- MODULE MCTapeVolume ----------------------------
EXTENDS TapeVolume

\* The data partition is close to its end after two data records and their
\* indexes; the index partition has no warnings.
MCWarn == [p \in Parts |-> IF p = 1 THEN 18 ELSE 0]
MCPWarn == [p \in Parts |-> IF p = 1 THEN 14 ELSE 0]
=============================================================================
