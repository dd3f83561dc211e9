--------------------------- MODULE MCScriptRuntime ---------------------------
EXTENDS ScriptRuntime, TLC
CONSTANTS s1, s2, n1, n2, n3
Addresses == Permutations(Nodes)
=============================================================================
