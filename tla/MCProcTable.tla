----------------------------- MODULE MCProcTable -----------------------------
EXTENDS ProcTable, TLC

CONSTANTS c1, c2

Symmetric == Permutations(CPU)
=============================================================================
