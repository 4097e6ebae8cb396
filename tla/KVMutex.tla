------------------------------ MODULE KVMutex ------------------------------
(***************************************************************************)
(* The distributed mutex of statefun/kv_mutices.go: a key of a NATS        *)
(* key/value bucket that holds the time it was locked at, or 0.            *)
(* KeyMutexLock takes a free mutex by a compare-and-set on the revision it *)
(* read, and a missing or expired one by an unconditional write;           *)
(* KeyMutexLockUpdate renews it and KeyMutexUnlock writes 0, both by a     *)
(* compare-and-set on the revision they have just read, which need not be  *)
(* the one the lock was taken with.                                        *)
(*                                                                         *)
(* One key is modelled.  The bucket is external: Get, Put and Update are   *)
(* what the code expects of nats.KeyValue.  Revisions are only compared    *)
(* for equality, so a write takes the least one that nobody remembers.     *)
(***************************************************************************)
EXTENDS Naturals

CONSTANTS
    Client,         \* goroutines that lock the key
    Process,        \* operating system processes, which may crash
    ProcessOf,      \* the process of a client
    Rev,            \* revisions of the bucket, numbers
    None,
    EntryExists,    \* whether the key is known to exist
    Lifetime,       \* kvMutexLifeTimeSec
    MaxTime,        \* bound: the last instant of the clock
    Failures        \* what may fail: "call", "watch", "crash"

ASSUME NoneIsNew == None \notin Client \cup Rev
ASSUME ProcessOfType == ProcessOf \in [Client -> Process]
ASSUME ConstantTypes ==
    /\ Lifetime \in Nat
    /\ MaxTime \in Nat \ {0}
    /\ Rev \subseteq Nat
    /\ EntryExists \in BOOLEAN
    /\ Failures \subseteq {"call", "watch", "crash"}

VARIABLES
    kv,             \* the entry of the key: revision and lock time, or None
    clock,
    pc,
    entry,          \* the entry a client read last
    now,            \* the time a client read last; of a holder, its lock time
    reset,          \* mutexResetLockNeeded
    errorOnLocked,  \* argument of KeyMutexLock
    rev,            \* the revision returned by KeyMutexLock or KeyMutexLockUpdate
    kwWatchMutex    \* of each process: who holds it, or None

vars == <<kv, clock, pc, entry, now, reset, errorOnLocked, rev, kwWatchMutex>>

Time == 0 .. MaxTime
Entry == [rev : Rev, time : Time]
ASSUME NoneIsNoEntry == None \notin Entry
Location == {"idle", "get", "put", "update", "wait", "watch", "held",
             "renewGet", "renewUpdate", "unlockGet", "unlockUpdate"}

Init ==
    /\ \/ ~EntryExists /\ kv = None
       \/ /\ kv \in [rev : Rev, time : {0, 1}]     \* free, or locked elsewhere
          /\ \A r \in Rev : kv.rev <= r
    /\ clock = 1
    /\ pc = [c \in Client |-> "idle"]
    /\ entry = [c \in Client |-> None]
    /\ now = [c \in Client |-> 0]
    /\ reset = [c \in Client |-> FALSE]
    /\ errorOnLocked = [c \in Client |-> FALSE]
    /\ rev = [c \in Client |-> None]
    /\ kwWatchMutex = [p \in Process |-> None]

Goto(c, l) == pc' = [pc EXCEPT ![c] = l]

\* The lock of e is too old at time t.
Expired(e, t) == e.time + Lifetime < t

\* Revisions that no entry, past or present, is remembered with.
FreshRev == {r \in Rev : /\ kv # None => kv.rev # r
                         /\ \A c \in Client : /\ rev[c] # r
                                              /\ entry[c] # None => entry[c].rev # r}

\* The bucket stores time t under revision r.
Put(t, r) ==
    /\ r \in FreshRev
    /\ \A s \in FreshRev : r <= s
    /\ kv' = [rev |-> r, time |-> t]

\* Mutant: the write does not compare revisions.
PutDone(e, t, r) == Put(t, r)

\* The compare-and-set of kv.Update succeeds, or finds another revision.
UpdateDone(e, t, r) == kv.rev = e.rev /\ Put(t, r)
WrongRevision(e) == kv.rev # e.rev

\* The client gives up the call and forgets what it read.
Return(c) ==
    /\ Goto(c, "idle")
    /\ entry' = [entry EXCEPT ![c] = None]
    /\ now' = [now EXCEPT ![c] = 0]
    /\ rev' = [rev EXCEPT ![c] = None]
    /\ reset' = [reset EXCEPT ![c] = FALSE]
    /\ errorOnLocked' = [errorOnLocked EXCEPT ![c] = FALSE]

-----------------------------------------------------------------------------
(* KeyMutexLock *)

LockCall(c, e) ==
    /\ pc[c] = "idle"
    /\ Goto(c, "get")
    /\ errorOnLocked' = [errorOnLocked EXCEPT ![c] = e]
    /\ UNCHANGED <<kv, clock, entry, now, reset, rev, kwWatchMutex>>

\* Each round of the loop reads the time and the entry; the next one forgets
\* them.  The key is missing, or the round before found it expired.
LockReset(c) ==
    /\ pc[c] = "get"
    /\ kv = None \/ reset[c]
    /\ now' = [now EXCEPT ![c] = clock]
    /\ reset' = [reset EXCEPT ![c] = TRUE]
    /\ Goto(c, "put")
    /\ UNCHANGED <<kv, clock, entry, errorOnLocked, rev, kwWatchMutex>>

\* The mutex is free.
LockFree(c) ==
    /\ pc[c] = "get"
    /\ kv # None /\ ~reset[c]
    /\ kv.time = 0
    /\ entry' = [entry EXCEPT ![c] = kv]
    /\ now' = [now EXCEPT ![c] = clock]
    /\ Goto(c, "update")
    /\ UNCHANGED <<kv, clock, reset, errorOnLocked, rev, kwWatchMutex>>

\* Mutant: the age of the lock is not looked at.
LockTakenForever(c) ==
    /\ pc[c] = "get"
    /\ kv # None /\ ~reset[c]
    /\ kv.time # 0
    /\ \/ errorOnLocked[c] /\ Return(c)
       \/ /\ ~errorOnLocked[c]
          /\ Goto(c, "wait")
          /\ UNCHANGED <<entry, now, reset, rev, errorOnLocked>>
    /\ UNCHANGED <<kv, clock, kwWatchMutex>>

\* The mutex is locked: too old, or a reason to fail or to wait.
LockTaken(c) ==
    /\ pc[c] = "get"
    /\ kv # None /\ ~reset[c]
    /\ kv.time # 0
    /\ \/ /\ Expired(kv, clock)
          /\ reset' = [reset EXCEPT ![c] = TRUE]
          /\ UNCHANGED <<pc, entry, now, rev, errorOnLocked>>
       \/ /\ ~Expired(kv, clock)
          /\ errorOnLocked[c]               \* mutexLockedError
          /\ Return(c)
       \/ /\ ~Expired(kv, clock)
          /\ ~errorOnLocked[c]
          /\ Goto(c, "wait")
          /\ UNCHANGED <<entry, now, reset, rev, errorOnLocked>>
    /\ UNCHANGED <<kv, clock, kwWatchMutex>>

\* KeyMutexLock returns the revision of its write.
Locked(c, r) ==
    /\ rev' = [rev EXCEPT ![c] = r]
    /\ entry' = [entry EXCEPT ![c] = None]
    /\ reset' = [reset EXCEPT ![c] = FALSE]
    /\ errorOnLocked' = [errorOnLocked EXCEPT ![c] = FALSE]
    /\ Goto(c, "held")
    /\ UNCHANGED now

\* mutexResetLock
LockPut(c) ==
    /\ pc[c] = "put"
    /\ \E r \in Rev : Put(now[c], r) /\ Locked(c, r)
    /\ UNCHANGED <<clock, kwWatchMutex>>

\* mutexMereLock
LockUpdate(c) ==
    /\ pc[c] = "update"
    /\ \/ \E r \in Rev : UpdateDone(entry[c], now[c], r) /\ Locked(c, r)
       \/ /\ WrongRevision(entry[c])        \* somebody else was faster
          /\ Goto(c, "get")
          /\ entry' = [entry EXCEPT ![c] = None]
          /\ now' = [now EXCEPT ![c] = 0]
          /\ UNCHANGED <<kv, reset, errorOnLocked, rev>>
    /\ UNCHANGED <<clock, kwWatchMutex>>

-----------------------------------------------------------------------------
(* mutexWaitForUnlock *)

\* getKeyWatch locks the mutex of the process and opens a watch.
WatchOpen(c) ==
    /\ pc[c] = "wait"
    /\ kwWatchMutex[ProcessOf[c]] = None
    /\ kwWatchMutex' = [kwWatchMutex EXCEPT ![ProcessOf[c]] = c]
    /\ Goto(c, "watch")
    /\ UNCHANGED <<kv, clock, entry, now, reset, errorOnLocked, rev>>

\* Mutant: only a lock that is too old ends the wait.
WatchReadOld(c) ==
    /\ pc[c] = "watch"
    /\ Goto(c, IF kv # None /\ kv.time # 0 /\ Expired(kv, clock)
               THEN "get" ELSE "wait")
    /\ kwWatchMutex' = [kwWatchMutex EXCEPT ![ProcessOf[c]] = None]
    /\ UNCHANGED <<kv, clock, entry, now, reset, errorOnLocked, rev>>

\* Mutant: the wait ends without unlocking kwWatchMutex.
WatchReadLocked(c) ==
    /\ pc[c] = "watch"
    /\ \/ /\ kv # None /\ (kv.time = 0 \/ Expired(kv, clock))
          /\ Goto(c, "get")
          /\ UNCHANGED kwWatchMutex
       \/ /\ kv # None => kv.time # 0 /\ ~Expired(kv, clock)
          /\ Goto(c, "wait")
          /\ kwWatchMutex' = [kwWatchMutex EXCEPT ![ProcessOf[c]] = None]
    /\ UNCHANGED <<kv, clock, entry, now, reset, errorOnLocked, rev>>

\* The first update is the present entry: the wait is over if it is free or
\* expired, otherwise a new watch is opened.
WatchRead(c) ==
    /\ pc[c] = "watch"
    /\ Goto(c, IF kv # None /\ (kv.time = 0 \/ Expired(kv, clock))
               THEN "get" ELSE "wait")
    /\ kwWatchMutex' = [kwWatchMutex EXCEPT ![ProcessOf[c]] = None]
    /\ UNCHANGED <<kv, clock, entry, now, reset, errorOnLocked, rev>>

\* kv.Watch fails: it is tried again, with the mutex still locked.
WatchError(c) ==
    /\ "watch" \in Failures
    /\ pc[c] = "watch"
    /\ Goto(c, "wait")
    /\ UNCHANGED <<kv, clock, entry, now, reset, errorOnLocked, rev, kwWatchMutex>>

-----------------------------------------------------------------------------
(* KeyMutexLockUpdate and KeyMutexUnlock, called by the client that locked *)

Call(c, l) ==
    /\ pc[c] = "held"
    /\ Goto(c, l)
    /\ UNCHANGED <<kv, clock, entry, now, reset, errorOnLocked, rev, kwWatchMutex>>

RenewCall(c) == Call(c, "renewGet")
UnlockCall(c) == Call(c, "unlockGet")

\* A revision other than the client's own is only logged; a mutex that is
\* unlocked is an error, after which the client goes on as before.
RenewGet(c) ==
    /\ pc[c] = "renewGet"
    /\ \/ /\ kv.time # 0
          /\ entry' = [entry EXCEPT ![c] = kv]
          /\ Goto(c, "renewUpdate")
       \/ /\ kv.time = 0
          /\ Goto(c, "held")
          /\ UNCHANGED entry
    /\ UNCHANGED <<kv, clock, now, reset, errorOnLocked, rev, kwWatchMutex>>

RenewUpdate(c) ==
    /\ pc[c] = "renewUpdate"
    /\ \/ /\ \E r \in Rev : /\ UpdateDone(entry[c], clock, r)
                            /\ rev' = [rev EXCEPT ![c] = r]
          /\ now' = [now EXCEPT ![c] = clock]
       \/ /\ WrongRevision(entry[c])
          /\ UNCHANGED <<kv, rev, now>>
    /\ entry' = [entry EXCEPT ![c] = None]
    /\ Goto(c, "held")
    /\ UNCHANGED <<clock, reset, errorOnLocked, kwWatchMutex>>

UnlockGet(c) ==
    /\ pc[c] = "unlockGet"
    /\ \/ /\ kv.time # 0
          /\ entry' = [entry EXCEPT ![c] = kv]
          /\ Goto(c, "unlockUpdate")
          /\ UNCHANGED <<now, reset, errorOnLocked, rev>>
       \/ /\ kv.time = 0
          /\ Return(c)
    /\ UNCHANGED <<kv, clock, kwWatchMutex>>

UnlockUpdate(c) ==
    /\ pc[c] = "unlockUpdate"
    /\ \/ \E r \in Rev : UpdateDone(entry[c], 0, r)
       \/ WrongRevision(entry[c]) /\ UNCHANGED kv
    /\ Return(c)
    /\ UNCHANGED <<clock, kwWatchMutex>>

-----------------------------------------------------------------------------
(* Failures *)

\* The bucket answers with an error, though it may have done the write.  A
\* lock or an unlock returns; a renewal is tried again later.
CallFails(c) ==
    /\ "call" \in Failures
    /\ \/ /\ pc[c] \in {"get", "unlockGet"}
          /\ Return(c)
          /\ UNCHANGED kv
       \/ /\ pc[c] = "put"
          /\ Return(c)
          /\ UNCHANGED kv \/ \E r \in Rev : Put(now[c], r)
       \/ /\ pc[c] \in {"update", "unlockUpdate"}
          /\ Return(c)
          /\ \/ UNCHANGED kv
             \/ \E r \in Rev :
                   UpdateDone(entry[c], IF pc[c] = "update" THEN now[c] ELSE 0, r)
       \/ /\ pc[c] \in {"renewGet", "renewUpdate"}
          /\ Goto(c, "held")
          /\ entry' = [entry EXCEPT ![c] = None]
          /\ \/ UNCHANGED kv
             \/ /\ pc[c] = "renewUpdate"
                /\ \E r \in Rev : UpdateDone(entry[c], clock, r)
          /\ UNCHANGED <<now, reset, errorOnLocked, rev>>
    /\ UNCHANGED <<clock, kwWatchMutex>>

\* A process dies with what its clients hold, and is started again.
Crash(p) ==
    LET Lost(f, v) == [c \in Client |-> IF ProcessOf[c] = p THEN v ELSE f[c]]
    IN  /\ "crash" \in Failures
        /\ \E c \in Client : ProcessOf[c] = p /\ pc[c] # "idle"
        /\ pc' = Lost(pc, "idle")
        /\ entry' = Lost(entry, None)
        /\ now' = Lost(now, 0)
        /\ reset' = Lost(reset, FALSE)
        /\ errorOnLocked' = Lost(errorOnLocked, FALSE)
        /\ rev' = Lost(rev, None)
        /\ kwWatchMutex' = [kwWatchMutex EXCEPT ![p] = None]
        /\ UNCHANGED <<kv, clock>>

Tick ==
    /\ clock < MaxTime
    /\ clock' = clock + 1
    /\ UNCHANGED <<kv, pc, entry, now, reset, errorOnLocked, rev, kwWatchMutex>>

-----------------------------------------------------------------------------
LockStep(c) == LockReset(c) \/ LockFree(c) \/ LockTaken(c) \/ LockPut(c) \/ LockUpdate(c)
WaitStep(c) == WatchOpen(c) \/ WatchRead(c) \/ WatchError(c)
HolderStep(c) == RenewGet(c) \/ RenewUpdate(c) \/ UnlockGet(c) \/ UnlockUpdate(c)

Next ==
    \/ \E c \in Client :
        \/ \E e \in BOOLEAN : LockCall(c, e)
        \/ LockStep(c)
        \/ WaitStep(c)
        \/ RenewCall(c)
        \/ UnlockCall(c)
        \/ HolderStep(c)
        \/ CallFails(c)
    \/ \E p \in Process : Crash(p)
    \/ Tick

Spec == Init /\ [][Next]_vars

(***************************************************************************)
(* Time passes and a call that is under way goes on.  A watch is opened    *)
(* fairly even if other goroutines of the process keep taking              *)
(* kwWatchMutex: sync.Mutex hands itself to a waiter that starves.         *)
(***************************************************************************)
Fairness ==
    /\ \A c \in Client :
        /\ WF_vars(LockStep(c))
        /\ SF_vars(WatchOpen(c))
        /\ WF_vars(WatchRead(c))
        /\ WF_vars(HolderStep(c))
    /\ WF_vars(Tick)

FairSpec == Spec /\ Fairness

-----------------------------------------------------------------------------
TypeOK ==
    /\ kv \in Entry \cup {None}
    /\ clock \in 1 .. MaxTime
    /\ pc \in [Client -> Location]
    /\ entry \in [Client -> Entry \cup {None}]
    /\ now \in [Client -> Time]
    /\ reset \in [Client -> BOOLEAN]
    /\ errorOnLocked \in [Client -> BOOLEAN]
    /\ rev \in [Client -> Rev \cup {None}]
    /\ kwWatchMutex \in [Process -> Client \cup {None}]

\* c has locked the mutex and not started to unlock it.
Holds(c) == pc[c] \in {"held", "renewGet", "renewUpdate"}

\* ... and its lock is not too old.
HoldsInTime(c) == Holds(c) /\ now[c] + Lifetime >= clock

\* Two clients never hold the mutex at the same time.
MutualExclusion ==
    \A c, d \in Client : HoldsInTime(c) /\ HoldsInTime(d) => c = d

Waits(c) == pc[c] \in {"wait", "watch"}
Locking(c) == Waits(c) \/ pc[c] \in {"get", "put", "update"}
Free == kv = None \/ kv.time = 0

\* A free mutex that clients try to lock is locked: neither the waiters nor
\* the clients that lose the compare-and-set to each other miss it.
FreeIsTaken ==
    (Free /\ \E c \in Client : Locking(c))
        ~> (~Free \/ \A c \in Client : ~Locking(c))

\* A waiter sees that the mutex is free, or that it is taken again.
WaiterSeesRelease ==
    \A c \in Client : (Waits(c) /\ Free) ~> (~Waits(c) \/ ~Free)

LockedAt(t) == kv # None /\ kv.time = t

\* A lock that is never renewed, because its holder crashed, keeps nobody
\* waiting for longer than its lifetime.
DeadLockIsTakenOver ==
    \A c \in Client : \A t \in 1 .. MaxTime :
        (Locking(c) /\ LockedAt(t) /\ t + Lifetime < MaxTime)
            ~> (~Locking(c) \/ ~LockedAt(t))

-----------------------------------------------------------------------------
(* When the mutex excludes, and the inductive invariant behind that.        *)

\* From the return of KeyMutexLock to that of KeyMutexUnlock.
Owner(c) == Holds(c) \/ pc[c] \in {"unlockGet", "unlockUpdate"}

\* Who is about to write without a compare-and-set, as the key was missing or
\* its lock too old, is alone: nobody else has the mutex, is about to write in
\* that way, or has read a free mutex that is still the entry.
LonelyTakeover ==
    \A c, d \in Client :
        pc[c] = "put" /\ d # c => /\ ~Owner(d) /\ pc[d] # "put"
                                  /\ pc[d] = "update" => entry[d] # kv

\* An entry that was read is there, and is the present one if its revision is.
RevisionNamesEntry ==
    \A c \in Client : entry[c] # None => kv # None /\ (entry[c].rev = kv.rev => entry[c] = kv)

\* Clients about to lock know a time, and have read a free mutex or are about
\* to write anyway.
LockHasTime ==
    \A c \in Client : /\ pc[c] = "put" => now[c] # 0
                      /\ pc[c] = "update" => entry[c] # None /\ entry[c].time = 0 /\ now[c] # 0

\* Clients about to renew or to unlock have read some entry.
UpdateOfEntry ==
    \A c \in Client : pc[c] \in {"renewUpdate", "unlockUpdate"} => entry[c] # None

OneOwner ==
    /\ \A c \in Client : Owner(c) => kv # None /\ kv.time # 0
    /\ \A c, d \in Client : Owner(c) /\ Owner(d) => c = d

IInv ==
    /\ TypeOK
    /\ RevisionNamesEntry
    /\ LockHasTime
    /\ UpdateOfEntry
    /\ OneOwner
=============================================================================
