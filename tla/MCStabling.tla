------------------------------ MODULE MCStabling ------------------------------
EXTENDS Stabling, TLC

\* Connections, keys and tasks are interchangeable.
PoolSymmetry == Permutations(Task) \cup Permutations(Dest) \cup Permutations(Key)
===============================================================================
