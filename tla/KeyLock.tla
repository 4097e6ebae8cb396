------------------------------ MODULE KeyLock ------------------------------
(***************************************************************************)
(* What a mutex per key promises: every key has at most one holder, and a  *)
(* key changes hands only through being free.  system.KeyMutex implements  *)
(* it (module KeyMutex); the function type dispatcher relies on it.        *)
(***************************************************************************)
CONSTANTS Process, Key, None

VARIABLE holder     \* the process that holds each key, or None

Init == holder = [k \in Key |-> None]

Acquire(p, k) ==
    /\ holder[k] = None
    /\ holder' = [holder EXCEPT ![k] = p]

Release(p, k) ==
    /\ holder[k] = p
    /\ holder' = [holder EXCEPT ![k] = None]

Next == \E p \in Process, k \in Key : Acquire(p, k) \/ Release(p, k)

Spec == Init /\ [][Next]_holder
=============================================================================
