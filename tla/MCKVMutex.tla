----------------------------- MODULE MCKVMutex -----------------------------
EXTENDS KVMutex, TLC, FiniteSets
\* Every client is a goroutine of one process; or each has its own.
CONSTANT OneProcess
OneProcessForAll == [c \in Client |-> OneProcess]
ClientsAreProcesses == [c \in Client |-> c]
Symmetry == Permutations(Client)
=============================================================================
