------------------------------ MODULE KeyMutex ------------------------------
(***************************************************************************)
(* system.KeyMutex (statefun/system/system.go): a mutex per key made of a  *)
(* sync.Map from keys to *sync.Mutex.  A locker stores a mutex of its own  *)
(* that is not locked yet, locks whichever mutex the map holds, and starts *)
(* again when that one is not its own.  An unlocker removes the map entry  *)
(* and unlocks the mutex it found there.                                   *)
(*                                                                         *)
(* Mutex is the heap: Lock takes a fresh address on every attempt, and an  *)
(* address is free again only when no goroutine and no map entry refers to *)
(* it, because a waiter may still be blocked on a mutex long after the     *)
(* goroutine that stored it is gone.                                       *)
(***************************************************************************)
EXTENDS Naturals

CONSTANTS Process, Key, Mutex, None

ASSUME NoneIsNew == None \notin Process \cup Key \cup Mutex

VARIABLES
    m,          \* the sync.Map: the mutex stored for a key, or None
    locked,     \* the mutexes that are locked
    pc,         \* where each goroutine is
    key,        \* the key it works on
    own,        \* the mutex allocated by its current call of Lock
    mm          \* the mutex it loaded from the map

vars == <<m, locked, pc, key, own, mm>>

Location == {"idle", "load", "lock", "retry", "critical",
             "delete", "unlock", "panic"}

Init ==
    /\ m = [k \in Key |-> None]
    /\ locked = {}
    /\ pc = [p \in Process |-> "idle"]
    /\ key = [p \in Process |-> None]
    /\ own = [p \in Process |-> None]
    /\ mm = [p \in Process |-> None]

Goto(p, l) == pc' = [pc EXCEPT ![p] = l]

\* Addresses that nothing refers to.
Fresh == {f \in Mutex : /\ \A k \in Key : m[k] # f
                        /\ \A q \in Process : own[q] # f /\ mm[q] # f}

-----------------------------------------------------------------------------
(* Lock *)

Lock(p, k) ==
    /\ pc[p] = "idle"
    /\ key' = [key EXCEPT ![p] = k]
    /\ Goto(p, "load")
    /\ UNCHANGED <<m, locked, own, mm>>

\* Mutant: the map entry of another goroutine is overwritten.
StoreAlways(p) ==
    /\ pc[p] = "load"
    /\ \E f \in Fresh :
        /\ own' = [own EXCEPT ![p] = f]
        /\ m' = [m EXCEPT ![key[p]] = f]
        /\ mm' = [mm EXCEPT ![p] = f]
        /\ locked' = locked \ {f}
    /\ Goto(p, "lock")
    /\ UNCHANGED key

\* m := sync.Mutex{}; m_, _ := s.m.LoadOrStore(key, &m)
LoadOrStore(p) ==
    /\ pc[p] = "load"
    /\ \E f \in Fresh :
        /\ own' = [own EXCEPT ![p] = f]
        /\ locked' = locked \ {f}
        /\ \/ /\ m[key[p]] = None
              /\ m' = [m EXCEPT ![key[p]] = f]
              /\ mm' = [mm EXCEPT ![p] = f]
           \/ /\ m[key[p]] # None
              /\ mm' = [mm EXCEPT ![p] = m[key[p]]]
              /\ UNCHANGED m
    /\ Goto(p, "lock")
    /\ UNCHANGED key

\* Mutant: the key is held whichever mutex was locked.
LockAnyMutex(p) ==
    /\ pc[p] = "lock"
    /\ mm[p] \notin locked
    /\ locked' = locked \cup {mm[p]}
    /\ Goto(p, "critical")
    /\ UNCHANGED <<m, key, own, mm>>

\* mm.Lock() returns; the call is over if the mutex is the caller's own.
LockMutex(p) ==
    /\ pc[p] = "lock"
    /\ mm[p] \notin locked
    /\ locked' = locked \cup {mm[p]}
    /\ \/ mm[p] = own[p] /\ Goto(p, "critical")
       \/ mm[p] # own[p] /\ Goto(p, "retry")
    /\ UNCHANGED <<m, key, own, mm>>

\* Mutant: the mutex of another goroutine stays locked.
RetryLocked(p) ==
    /\ pc[p] = "retry"
    /\ own' = [own EXCEPT ![p] = None]
    /\ mm' = [mm EXCEPT ![p] = None]
    /\ Goto(p, "load")
    /\ UNCHANGED <<m, locked, key>>

\* mm.Unlock(); s.Lock(key)
Retry(p) ==
    /\ pc[p] = "retry"
    /\ locked' = locked \ {mm[p]}
    /\ own' = [own EXCEPT ![p] = None]
    /\ mm' = [mm EXCEPT ![p] = None]
    /\ Goto(p, "load")
    /\ UNCHANGED <<m, key>>

-----------------------------------------------------------------------------
(* Unlock *)

UnlockLoad(p) ==
    /\ pc[p] = "critical"
    /\ \/ /\ m[key[p]] = None           \* panic: unlock of unlocked mutex
          /\ Goto(p, "panic")
          /\ UNCHANGED mm
       \/ /\ m[key[p]] # None
          /\ mm' = [mm EXCEPT ![p] = m[key[p]]]
          /\ Goto(p, "delete")
    /\ UNCHANGED <<m, locked, key, own>>

UnlockDelete(p) ==
    /\ pc[p] = "delete"
    /\ m' = [m EXCEPT ![key[p]] = None]
    /\ Goto(p, "unlock")
    /\ UNCHANGED <<locked, key, own, mm>>

\* l_.Unlock(), which is fatal on a mutex that is not locked
UnlockMutex(p) ==
    /\ pc[p] = "unlock"
    /\ \/ /\ mm[p] \notin locked
          /\ Goto(p, "panic")
          /\ UNCHANGED <<locked, key, own, mm>>
       \/ /\ mm[p] \in locked
          /\ locked' = locked \ {mm[p]}
          /\ key' = [key EXCEPT ![p] = None]
          /\ own' = [own EXCEPT ![p] = None]
          /\ mm' = [mm EXCEPT ![p] = None]
          /\ Goto(p, "idle")
    /\ UNCHANGED m

-----------------------------------------------------------------------------
Next ==
    \E p \in Process :
        \/ \E k \in Key : Lock(p, k)
        \/ LoadOrStore(p)
        \/ LockMutex(p)
        \/ Retry(p)
        \/ UnlockLoad(p)
        \/ UnlockDelete(p)
        \/ UnlockMutex(p)

Spec == Init /\ [][Next]_vars

(***************************************************************************)
(* A goroutine inside the code keeps running and a critical section ends   *)
(* (those of sendMsg and gc do not block).  LockMutex is strongly fair: a  *)
(* sync.Mutex whose waiter starves for 1 ms is handed to that waiter.      *)
(***************************************************************************)
Fairness ==
    \A p \in Process :
        /\ WF_vars(LoadOrStore(p))
        /\ SF_vars(LockMutex(p))
        /\ WF_vars(Retry(p))
        /\ WF_vars(UnlockLoad(p))
        /\ WF_vars(UnlockDelete(p))
        /\ WF_vars(UnlockMutex(p))

FairSpec == Spec /\ Fairness

-----------------------------------------------------------------------------
TypeOK ==
    /\ m \in [Key -> Mutex \cup {None}]
    /\ locked \in SUBSET Mutex
    /\ pc \in [Process -> Location]
    /\ key \in [Process -> Key \cup {None}]
    /\ own \in [Process -> Mutex \cup {None}]
    /\ mm \in [Process -> Mutex \cup {None}]

\* p is between the return of Lock(k) and the removal of the map entry.
Holds(p, k) == key[p] = k /\ pc[p] \in {"critical", "delete"}

\* Two goroutines never hold one key at the same time, although a waiter may
\* lock the mutex of a goroutine that has not locked it itself, and a stale
\* mutex may be locked after its map entry has been replaced.
MutualExclusion ==
    \A p, q \in Process : \A k \in Key :
        Holds(p, k) /\ Holds(q, k) => p = q

\* Unlock never panics for the goroutine that holds the key: its entry is
\* still in the map, and the mutex it finds there is locked.
NoPanic == \A p \in Process : pc[p] # "panic"

\* Every entry of the map belongs to a goroutine that is going to remove it;
\* an entry without one would block its key forever.
EntryHasOwner ==
    \A k \in Key : m[k] # None =>
        \E p \in Process : /\ key[p] = k
                           /\ own[p] = m[k] /\ mm[p] = m[k]
                           /\ pc[p] \in {"lock", "critical", "delete"}

Wants(p, k) == key[p] = k /\ pc[p] \in {"load", "lock", "retry"}

\* While somebody wants a key, somebody gets it: the lockers that find each
\* other's mutexes and start again never do so forever.  (No goroutine in
\* particular is promised the key.)
LockProgress ==
    \A k \in Key : (\E p \in Process : Wants(p, k))
                       ~> (\E p \in Process : Holds(p, k))

-----------------------------------------------------------------------------
(* KeyMutex implements KeyLock: a key is taken when Lock returns and free  *)
(* when Unlock has removed the map entry, before it unlocks the mutex.     *)

HolderOf(k) == IF \E p \in Process : Holds(p, k)
               THEN CHOOSE p \in Process : Holds(p, k)
               ELSE None

KL == INSTANCE KeyLock WITH holder <- [k \in Key |-> HolderOf(k)]

ImplementsKeyLock == KL!Spec

-----------------------------------------------------------------------------
(* The inductive invariant behind the proofs of KeyMutexProofs. *)

\* The goroutine that stored the entry of its key.
OwnsEntry(p) ==
    /\ key[p] \in Key
    /\ own[p] \in Mutex
    /\ mm[p] = own[p]
    /\ m[key[p]] = own[p]

\* What each location says about the goroutine that is there.
AtLocation(p) ==
    /\ pc[p] \in {"idle", "load"} => own[p] = None /\ mm[p] = None
    /\ pc[p] \in {"load", "lock", "retry"} => key[p] \in Key
    /\ pc[p] \in {"lock", "retry"} => own[p] \in Mutex /\ mm[p] \in Mutex
    /\ pc[p] = "lock" /\ mm[p] = own[p] => OwnsEntry(p)
    /\ pc[p] = "retry" => mm[p] # own[p]
    /\ pc[p] \in {"critical", "delete"} => OwnsEntry(p)
    /\ pc[p] = "unlock" => own[p] \in Mutex /\ mm[p] = own[p]

\* The goroutines that have locked the mutex they loaded.
HasLocked(p) == pc[p] \in {"critical", "delete", "unlock", "retry"}

LockedByOne ==
    /\ \A p \in Process : HasLocked(p) => mm[p] \in locked
    /\ \A p, q \in Process :
           HasLocked(p) /\ HasLocked(q) /\ mm[p] = mm[q] => p = q

OwnIsPrivate ==
    \A p, q \in Process : own[p] = own[q] /\ own[p] # None => p = q

IInv ==
    /\ TypeOK
    /\ \A p \in Process : AtLocation(p)
    /\ LockedByOne
    /\ OwnIsPrivate
    /\ EntryHasOwner
    /\ NoPanic
=============================================================================
