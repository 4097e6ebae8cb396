----------------------------- MODULE MCKeyMutex -----------------------------
(* Instances of KeyMutex for TLC.  A goroutine refers to at most two        *)
(* mutexes, so two per goroutine, less one, always leave one fresh for the  *)
(* goroutine that is about to allocate.                                     *)
EXTENDS KeyMutex, TLC

Symmetry == Permutations(Process) \cup Permutations(Mutex)
=============================================================================
