---------------------------- MODULE MutexProofs ----------------------------
(***************************************************************************)
(* The two mutexes.                                                        *)
(*                                                                         *)
(* Keyed (system.KeyMutex): mutual exclusion, the absence of panics, and   *)
(* the refinement of KeyLock, for any number of goroutines, keys and       *)
(* mutexes.                                                                *)
(*                                                                         *)
(* Distributed (kv_mutices.go), module KVMutex as D: its types, and mutual *)
(* exclusion as long as whoever writes without a compare-and-set is alone  *)
(* with it, for any number of clients, processes, crashes, failing calls   *)
(* and lifetimes that pass, on a key that exists or not.  Without the      *)
(* condition TLC finds counterexamples: two clients that create the key or *)
(* take over a lock together, or a holder that is late and comes back.     *)
(* The other hypothesis, Bucket, is what KVMutex assumes of its constants. *)
(***************************************************************************)
EXTENDS KeyMutex, TLAPS

\* The distributed mutex: its processes are the machines, its variables and
\* its other constants have the names they have in KVMutex.
CONSTANTS Client, Machine, ProcessOf, Rev, EntryExists, Lifetime, MaxTime,
          Failures
VARIABLES kv, clock, dpc, entry, now, reset, errorOnLocked, rev, kwWatchMutex
D == INSTANCE KVMutex WITH pc <- dpc, Process <- Machine

\* What KVMutex assumes of its constants.
Bucket ==
    D!NoneIsNew /\ D!ProcessOfType /\ D!ConstantTypes /\ D!NoneIsNoEntry

-----------------------------------------------------------------------------
(* The keyed mutex.  Its invariant holds initially and every step          *)
(* preserves it: a lemma for each action, and in it a step for each        *)
(* conjunct.                                                               *)

LEMMA InitInvariant == Init => IInv
  BY NoneIsNew DEF Init, IInv, TypeOK, AtLocation, LockedByOne, HasLocked,
                   OwnIsPrivate, EntryHasOwner, NoPanic, Location

LEMMA LockStep ==
    ASSUME IInv, NEW p \in Process, NEW k \in Key, Lock(p, k)
    PROVE  IInv'
  <1> USE NoneIsNew DEF Lock, Goto, Location
  <1>1. TypeOK'
    BY DEF IInv, TypeOK, AtLocation, OwnsEntry
  <1>2. ASSUME NEW q \in Process PROVE AtLocation(q)'
    BY DEF IInv, TypeOK, AtLocation, OwnsEntry, OwnIsPrivate
  <1>3. LockedByOne'
    BY DEF IInv, TypeOK, AtLocation, OwnsEntry, LockedByOne, HasLocked, OwnIsPrivate
  <1>4. OwnIsPrivate'
    BY DEF IInv, TypeOK, AtLocation, OwnIsPrivate
  <1>5. EntryHasOwner'
    BY DEF IInv, TypeOK, AtLocation, OwnsEntry, EntryHasOwner
  <1>6. NoPanic'
    BY DEF IInv, TypeOK, AtLocation, OwnsEntry, NoPanic, LockedByOne, HasLocked
  <1>7. QED
    BY <1>1, <1>2, <1>3, <1>4, <1>5, <1>6 DEF IInv

LEMMA LoadOrStoreStep ==
    ASSUME IInv, NEW p \in Process, LoadOrStore(p)
    PROVE  IInv'
  <1> USE NoneIsNew DEF LoadOrStore, Fresh, Goto, Location
  <1>1. TypeOK'
    BY DEF IInv, TypeOK, AtLocation, OwnsEntry
  <1>2. ASSUME NEW q \in Process PROVE AtLocation(q)'
    BY DEF IInv, TypeOK, AtLocation, OwnsEntry, OwnIsPrivate
  <1>3. LockedByOne'
    BY DEF IInv, TypeOK, AtLocation, OwnsEntry, LockedByOne, HasLocked, OwnIsPrivate
  <1>4. OwnIsPrivate'
    BY DEF IInv, TypeOK, AtLocation, OwnIsPrivate
  <1>5. EntryHasOwner'
    BY DEF IInv, TypeOK, AtLocation, OwnsEntry, EntryHasOwner
  <1>6. NoPanic'
    BY DEF IInv, TypeOK, AtLocation, OwnsEntry, NoPanic, LockedByOne, HasLocked
  <1>7. QED
    BY <1>1, <1>2, <1>3, <1>4, <1>5, <1>6 DEF IInv

LEMMA LockMutexStep ==
    ASSUME IInv, NEW p \in Process, LockMutex(p)
    PROVE  IInv'
  <1> USE NoneIsNew DEF LockMutex, Goto, Location
  <1>1. TypeOK'
    BY DEF IInv, TypeOK, AtLocation, OwnsEntry
  <1>2. ASSUME NEW q \in Process PROVE AtLocation(q)'
    BY DEF IInv, TypeOK, AtLocation, OwnsEntry, OwnIsPrivate
  <1>3. LockedByOne'
    BY DEF IInv, TypeOK, AtLocation, OwnsEntry, LockedByOne, HasLocked, OwnIsPrivate
  <1>4. OwnIsPrivate'
    BY DEF IInv, TypeOK, AtLocation, OwnIsPrivate
  <1>5. EntryHasOwner'
    BY DEF IInv, TypeOK, AtLocation, OwnsEntry, EntryHasOwner
  <1>6. NoPanic'
    BY DEF IInv, TypeOK, AtLocation, OwnsEntry, NoPanic, LockedByOne, HasLocked
  <1>7. QED
    BY <1>1, <1>2, <1>3, <1>4, <1>5, <1>6 DEF IInv

LEMMA RetryStep ==
    ASSUME IInv, NEW p \in Process, Retry(p)
    PROVE  IInv'
  <1> USE NoneIsNew DEF Retry, Goto, Location
  <1>1. TypeOK'
    BY DEF IInv, TypeOK, AtLocation, OwnsEntry
  <1>2. ASSUME NEW q \in Process PROVE AtLocation(q)'
    BY DEF IInv, TypeOK, AtLocation, OwnsEntry, OwnIsPrivate
  <1>3. LockedByOne'
    BY DEF IInv, TypeOK, AtLocation, OwnsEntry, LockedByOne, HasLocked, OwnIsPrivate
  <1>4. OwnIsPrivate'
    BY DEF IInv, TypeOK, AtLocation, OwnIsPrivate
  <1>5. EntryHasOwner'
    BY DEF IInv, TypeOK, AtLocation, OwnsEntry, EntryHasOwner
  <1>6. NoPanic'
    BY DEF IInv, TypeOK, AtLocation, OwnsEntry, NoPanic, LockedByOne, HasLocked
  <1>7. QED
    BY <1>1, <1>2, <1>3, <1>4, <1>5, <1>6 DEF IInv

LEMMA UnlockLoadStep ==
    ASSUME IInv, NEW p \in Process, UnlockLoad(p)
    PROVE  IInv'
  <1> USE NoneIsNew DEF UnlockLoad, Goto, Location
  <1>1. TypeOK'
    BY DEF IInv, TypeOK, AtLocation, OwnsEntry
  <1>2. ASSUME NEW q \in Process PROVE AtLocation(q)'
    BY DEF IInv, TypeOK, AtLocation, OwnsEntry, OwnIsPrivate
  <1>3. LockedByOne'
    BY DEF IInv, TypeOK, AtLocation, OwnsEntry, LockedByOne, HasLocked, OwnIsPrivate
  <1>4. OwnIsPrivate'
    BY DEF IInv, TypeOK, AtLocation, OwnIsPrivate
  <1>5. EntryHasOwner'
    BY DEF IInv, TypeOK, AtLocation, OwnsEntry, EntryHasOwner
  <1>6. NoPanic'
    BY DEF IInv, TypeOK, AtLocation, OwnsEntry, NoPanic, LockedByOne, HasLocked
  <1>7. QED
    BY <1>1, <1>2, <1>3, <1>4, <1>5, <1>6 DEF IInv

LEMMA UnlockDeleteStep ==
    ASSUME IInv, NEW p \in Process, UnlockDelete(p)
    PROVE  IInv'
  <1> USE NoneIsNew DEF UnlockDelete, Goto, Location
  <1>1. TypeOK'
    BY DEF IInv, TypeOK, AtLocation, OwnsEntry
  <1>2. ASSUME NEW q \in Process PROVE AtLocation(q)'
    BY DEF IInv, TypeOK, AtLocation, OwnsEntry, OwnIsPrivate
  <1>3. LockedByOne'
    BY DEF IInv, TypeOK, AtLocation, OwnsEntry, LockedByOne, HasLocked, OwnIsPrivate
  <1>4. OwnIsPrivate'
    BY DEF IInv, TypeOK, AtLocation, OwnIsPrivate
  <1>5. EntryHasOwner'
    BY DEF IInv, TypeOK, AtLocation, OwnsEntry, EntryHasOwner
  <1>6. NoPanic'
    BY DEF IInv, TypeOK, AtLocation, OwnsEntry, NoPanic, LockedByOne, HasLocked
  <1>7. QED
    BY <1>1, <1>2, <1>3, <1>4, <1>5, <1>6 DEF IInv

LEMMA UnlockMutexStep ==
    ASSUME IInv, NEW p \in Process, UnlockMutex(p)
    PROVE  IInv'
  <1> USE NoneIsNew DEF UnlockMutex, Goto, Location
  <1>1. TypeOK'
    BY DEF IInv, TypeOK, AtLocation, OwnsEntry
  <1>2. ASSUME NEW q \in Process PROVE AtLocation(q)'
    BY DEF IInv, TypeOK, AtLocation, OwnsEntry, OwnIsPrivate
  <1>3. LockedByOne'
    BY DEF IInv, TypeOK, AtLocation, OwnsEntry, LockedByOne, HasLocked, OwnIsPrivate
  <1>4. OwnIsPrivate'
    BY DEF IInv, TypeOK, AtLocation, OwnIsPrivate
  <1>5. EntryHasOwner'
    BY DEF IInv, TypeOK, AtLocation, OwnsEntry, EntryHasOwner
  <1>6. NoPanic'
    BY DEF IInv, TypeOK, AtLocation, OwnsEntry, NoPanic, LockedByOne, HasLocked
  <1>7. QED
    BY <1>1, <1>2, <1>3, <1>4, <1>5, <1>6 DEF IInv

THEOREM Invariance == Spec => []IInv
  <1>1. IInv /\ [Next]_vars => IInv'
    <2> SUFFICES ASSUME IInv, [Next]_vars PROVE IInv'
      OBVIOUS
    <2>1. CASE Next
      BY <2>1, LockStep, LoadOrStoreStep, LockMutexStep, RetryStep,
         UnlockLoadStep, UnlockDeleteStep, UnlockMutexStep DEF Next
    <2>2. CASE UNCHANGED vars
      BY <2>2 DEF vars, IInv, TypeOK, AtLocation, OwnsEntry, LockedByOne,
                  HasLocked, OwnIsPrivate, EntryHasOwner, NoPanic
    <2>3. QED
      BY <2>1, <2>2
  <1>2. QED
    BY InitInvariant, <1>1, PTL DEF Spec

-----------------------------------------------------------------------------
(* What the invariant gives. *)

LEMMA InvariantExcludes == IInv => MutualExclusion
  BY NoneIsNew DEF IInv, AtLocation, OwnsEntry, OwnIsPrivate, MutualExclusion, Holds,
         TypeOK

\* The variables always have their types.
THEOREM TypeCorrect == Spec => []TypeOK
  BY Invariance, PTL DEF IInv

\* At most one goroutine is between Lock and Unlock of a key.
THEOREM MutexExcludes == Spec => []MutualExclusion
  BY Invariance, InvariantExcludes, PTL

\* Unlock panics neither on a missing entry nor on an unlocked mutex.
THEOREM UnlockNeverPanics == Spec => []NoPanic
  BY Invariance, PTL DEF IInv

\* No entry of the map is left behind without a goroutine to remove it.
THEOREM NoOrphanEntry == Spec => []EntryHasOwner
  BY Invariance, PTL DEF IInv

-----------------------------------------------------------------------------
(* Refinement: a step of KeyMutex takes a key, gives it back, or leaves    *)
(* every holder as it is.                                                  *)

HolderKnown ==
    \A k \in Key :
        /\ \A p \in Process : Holds(p, k) => HolderOf(k) = p
        /\ (\A p \in Process : ~Holds(p, k)) => HolderOf(k) = None

LEMMA HolderIsUnique == MutualExclusion => HolderKnown
  BY DEF MutualExclusion, HolderKnown, HolderOf

LEMMA InitRefines == Init => KL!Init
  <1> SUFFICES ASSUME Init, NEW k \in Key PROVE HolderOf(k) = None
    BY DEF KL!Init
  <1> QED
    BY DEF Init, HolderOf, Holds

LEMMA StepRefines == IInv /\ IInv' /\ [Next]_vars
                        => [KL!Next]_[k \in Key |-> HolderOf(k)]
  <1> DEFINE H == [k \in Key |-> HolderOf(k)]
  <1> SUFFICES ASSUME IInv, IInv', [Next]_vars PROVE [KL!Next]_H
    OBVIOUS
  <1>1. HolderKnown /\ HolderKnown'
    BY InvariantExcludes, HolderIsUnique, PTL
  <1>2. ASSUME \A q \in Process, k \in Key : Holds(q, k)' = Holds(q, k)
        PROVE  H' = H
    <2> SUFFICES ASSUME NEW k \in Key PROVE HolderOf(k)' = HolderOf(k)
      OBVIOUS
    <2> QED
      BY <1>1, <1>2 DEF HolderKnown
  <1>3. ASSUME NEW p \in Process, NEW k \in Key, Lock(p, k)
        PROVE  [KL!Next]_H
    BY <1>2, <1>3 DEF Lock, Goto, Holds, IInv, TypeOK
  <1>4. ASSUME NEW p \in Process, LoadOrStore(p) PROVE [KL!Next]_H
    BY <1>2, <1>4 DEF LoadOrStore, Goto, Holds, IInv, TypeOK
  <1>5. ASSUME NEW p \in Process, LockMutex(p) PROVE [KL!Next]_H
    <2>1. CASE mm[p] = own[p]
      <3>1. key[p] \in Key /\ pc[p] = "lock" /\ Holds(p, key[p])'
        BY <1>5, <2>1 DEF LockMutex, Goto, Holds, IInv, TypeOK, AtLocation
      <3>2. \A q \in Process, k \in Key :
               Holds(q, k)' = (Holds(q, k) \/ (q = p /\ k = key[p]))
        BY <1>5, <2>1, <3>1 DEF LockMutex, Goto, Holds, IInv, TypeOK
      <3>3. \A q \in Process : ~Holds(q, key[p])
        BY <1>1, <3>1, <3>2 DEF HolderKnown, Holds
      <3>4. KL!Acquire(p, key[p])
        BY <1>1, <3>1, <3>2, <3>3 DEF KL!Acquire, HolderKnown
      <3>5. QED
        BY <3>1, <3>4 DEF KL!Next
    <2>2. CASE mm[p] # own[p]
      BY <1>2, <1>5, <2>2 DEF LockMutex, Goto, Holds, IInv, TypeOK
    <2>3. QED
      BY <2>1, <2>2
  <1>6. ASSUME NEW p \in Process, Retry(p) PROVE [KL!Next]_H
    BY <1>2, <1>6 DEF Retry, Goto, Holds, IInv, TypeOK
  <1>7. ASSUME NEW p \in Process, UnlockLoad(p) PROVE [KL!Next]_H
    BY <1>2, <1>7 DEF UnlockLoad, Goto, Holds, IInv, TypeOK, NoPanic
  <1>8. ASSUME NEW p \in Process, UnlockDelete(p) PROVE [KL!Next]_H
    <2>1. key[p] \in Key /\ Holds(p, key[p])
      BY <1>8 DEF UnlockDelete, Holds, IInv, AtLocation, OwnsEntry
    <2>2. \A q \in Process, k \in Key :
             Holds(q, k)' = (Holds(q, k) /\ ~(q = p /\ k = key[p]))
      BY <1>8, <2>1 DEF UnlockDelete, Goto, Holds, IInv, TypeOK
    <2>3. \A q \in Process : Holds(q, key[p]) => q = p
      BY <1>1, <2>1 DEF HolderKnown
    <2>4. KL!Release(p, key[p])
      BY <1>1, <2>1, <2>2, <2>3 DEF KL!Release, HolderKnown
    <2>5. QED
      BY <2>1, <2>4 DEF KL!Next
  <1>9. ASSUME NEW p \in Process, UnlockMutex(p) PROVE [KL!Next]_H
    BY <1>2, <1>9 DEF UnlockMutex, Goto, Holds, IInv, TypeOK, NoPanic
  <1>10. CASE UNCHANGED vars
    BY <1>2, <1>10 DEF vars, Holds
  <1>11. QED
    BY <1>3, <1>4, <1>5, <1>6, <1>7, <1>8, <1>9, <1>10 DEF Next

\* system.KeyMutex implements a mutex per key.
THEOREM Refinement == Spec => ImplementsKeyLock
  BY InitRefines, StepRefines, Invariance, PTL
     DEF Spec, ImplementsKeyLock, KL!Spec

-----------------------------------------------------------------------------
(* The distributed mutex: facts about the helpers of its actions.          *)

\* A client that gives up a call forgets it.
LEMMA ReturnType ==
    ASSUME Bucket, D!TypeOK, NEW c \in Client, D!Return(c)
    PROVE  /\ dpc' \in [Client -> D!Location]
           /\ entry' \in [Client -> D!Entry \cup {None}]
           /\ now' \in [Client -> D!Time]
           /\ reset' \in [Client -> BOOLEAN]
           /\ errorOnLocked' \in [Client -> BOOLEAN]
           /\ rev' \in [Client -> Rev \cup {None}]
  BY Bucket DEF Bucket, D!TypeOK, D!Return, D!Goto, D!Location, D!Time

\* A write stores an entry.
LEMMA PutType ==
    ASSUME NEW t \in D!Time, NEW r \in Rev, D!Put(t, r)
    PROVE  kv' \in D!Entry
  BY DEF D!Put, D!Entry

\* A client goes to a location.
LEMMA GotoType ==
    ASSUME D!TypeOK, NEW c \in Client, NEW l \in D!Location, D!Goto(c, l)
    PROVE  dpc' \in [Client -> D!Location]
  BY DEF D!TypeOK, D!Goto

-----------------------------------------------------------------------------
(* Its state stays well typed.                                             *)

LEMMA LockCallType ==
    ASSUME Bucket, D!TypeOK, NEW c \in Client, NEW e \in BOOLEAN, D!LockCall(c, e)
    PROVE  D!TypeOK'
  BY DEF Bucket, D!LockCall, D!Goto, D!TypeOK, D!Time, D!Entry, D!Location

LEMMA LockResetType ==
    ASSUME Bucket, D!TypeOK, NEW c \in Client, D!LockReset(c)
    PROVE  D!TypeOK'
  BY DEF Bucket, D!LockReset, D!Goto, D!TypeOK, D!Time, D!Entry, D!Location

LEMMA LockFreeType ==
    ASSUME Bucket, D!TypeOK, NEW c \in Client, D!LockFree(c)
    PROVE  D!TypeOK'
  BY DEF Bucket, D!LockFree, D!Goto, D!TypeOK, D!Time, D!Entry, D!Location

LEMMA LockTakenType ==
    ASSUME Bucket, D!TypeOK, NEW c \in Client, D!LockTaken(c)
    PROVE  D!TypeOK'
  <1> USE DEF Bucket, D!LockTaken, D!Return, D!Goto, D!TypeOK, D!Time
  <1>1. CASE D!Return(c)
    BY <1>1, ReturnType
  <1>2. CASE ~D!Return(c)
    BY <1>2 DEF D!Location
  <1>3. QED
    BY <1>1, <1>2

LEMMA LockPutType ==
    ASSUME Bucket, D!TypeOK, NEW c \in Client, D!LockPut(c)
    PROVE  D!TypeOK'
  <1> USE DEF Bucket, D!LockPut, D!Locked, D!Goto, D!TypeOK, D!Time
  <1>1. PICK r \in Rev : D!Put(now[c], r) /\ D!Locked(c, r)
    OBVIOUS
  <1>2. kv' \in D!Entry
    BY <1>1, PutType
  <1>3. dpc' \in [Client -> D!Location]
    BY <1>1, GotoType DEF D!Location
  <1>4. QED
    BY <1>1, <1>2, <1>3

LEMMA LockUpdateType ==
    ASSUME Bucket, D!TypeOK, NEW c \in Client, D!LockUpdate(c)
    PROVE  D!TypeOK'
  <1> USE DEF Bucket, D!LockUpdate, D!Locked, D!UpdateDone, D!WrongRevision, D!Goto,
     D!TypeOK, D!Time
  <1>1. CASE D!WrongRevision(entry[c]) /\ UNCHANGED kv /\ D!Goto(c, "get")
    BY <1>1 DEF D!Location
  <1>2. ASSUME NEW r \in Rev, D!UpdateDone(entry[c], now[c], r), D!Locked(c, r)
        PROVE  D!TypeOK'
    <2>1. kv' \in D!Entry
      BY <1>2, PutType
    <2>2. dpc' \in [Client -> D!Location]
      BY <1>2, GotoType DEF D!Location
    <2>3. QED
      BY <1>2, <2>1, <2>2
  <1>3. QED
    BY <1>1, <1>2

LEMMA WatchOpenType ==
    ASSUME Bucket, D!TypeOK, NEW c \in Client, D!WatchOpen(c)
    PROVE  D!TypeOK'
  BY DEF Bucket, D!WatchOpen, D!Goto, D!TypeOK, D!Time, D!Entry, D!Location

LEMMA WatchReadType ==
    ASSUME Bucket, D!TypeOK, NEW c \in Client, D!WatchRead(c)
    PROVE  D!TypeOK'
  BY DEF Bucket, D!WatchRead, D!Goto, D!TypeOK, D!Time, D!Entry, D!Location

LEMMA WatchErrorType ==
    ASSUME Bucket, D!TypeOK, NEW c \in Client, D!WatchError(c)
    PROVE  D!TypeOK'
  BY DEF Bucket, D!WatchError, D!Goto, D!TypeOK, D!Time, D!Entry, D!Location

LEMMA CallType ==
    ASSUME Bucket, D!TypeOK, NEW c \in Client, NEW l \in {"renewGet", "unlockGet"},
           D!Call(c, l)
    PROVE  D!TypeOK'
  BY DEF Bucket, D!Call, D!Goto, D!TypeOK, D!Time, D!Entry, D!Location

LEMMA RenewGetType ==
    ASSUME Bucket, D!TypeOK, NEW c \in Client, D!RenewGet(c)
    PROVE  D!TypeOK'
  BY DEF Bucket, D!RenewGet, D!Goto, D!TypeOK, D!Time, D!Entry, D!Location

LEMMA RenewUpdateType ==
    ASSUME Bucket, D!TypeOK, NEW c \in Client, D!RenewUpdate(c)
    PROVE  D!TypeOK'
  BY DEF Bucket, D!RenewUpdate, D!UpdateDone, D!WrongRevision, D!Put, D!FreshRev,
     D!Goto, D!TypeOK, D!Time, D!Entry, D!Location

LEMMA UnlockGetType ==
    ASSUME Bucket, D!TypeOK, NEW c \in Client, D!UnlockGet(c)
    PROVE  D!TypeOK'
  <1> USE DEF Bucket, D!UnlockGet, D!Return, D!Goto, D!TypeOK, D!Time
  <1>1. CASE D!Return(c)
    BY <1>1, ReturnType
  <1>2. CASE ~D!Return(c)
    BY <1>2 DEF D!Location
  <1>3. QED
    BY <1>1, <1>2

LEMMA UnlockUpdateType ==
    ASSUME Bucket, D!TypeOK, NEW c \in Client, D!UnlockUpdate(c)
    PROVE  D!TypeOK'
  <1> USE DEF Bucket, D!UnlockUpdate, D!UpdateDone, D!WrongRevision, D!Return,
     D!Goto, D!TypeOK, D!Time
  <1>1. kv' \in D!Entry \cup {None}
    BY PutType
  <1>2. QED
    BY <1>1, ReturnType

LEMMA CallFailsType ==
    ASSUME Bucket, D!TypeOK, NEW c \in Client, D!CallFails(c)
    PROVE  D!TypeOK'
  <1> USE DEF Bucket, D!CallFails, D!UpdateDone, D!Return, D!Goto, D!TypeOK, D!Time
  <1>1. kv' \in D!Entry \cup {None}
    BY PutType
  <1>2. CASE D!Return(c)
    BY <1>1, <1>2, ReturnType
  <1>3. CASE ~D!Return(c)
    BY <1>1, <1>3 DEF D!Location
  <1>4. QED
    BY <1>2, <1>3

LEMMA CrashType ==
    ASSUME Bucket, D!TypeOK, NEW p \in Machine, D!Crash(p)
    PROVE  D!TypeOK'
  <1> USE DEF Bucket, D!Crash, D!TypeOK, D!Time
  <1>1. /\ kv' \in D!Entry \cup {None}
        /\ clock' \in 1 .. MaxTime
    OBVIOUS
  <1>2. /\ dpc' \in [Client -> D!Location]
        /\ reset' \in [Client -> BOOLEAN]
        /\ errorOnLocked' \in [Client -> BOOLEAN]
    BY DEF D!Location
  <1>3. /\ entry' \in [Client -> D!Entry \cup {None}]
        /\ rev' \in [Client -> Rev \cup {None}]
    OBVIOUS
  <1>4. now' \in [Client -> D!Time]
    OBVIOUS
  <1>5. kwWatchMutex' \in [Machine -> Client \cup {None}]
    OBVIOUS
  <1>6. QED
    BY <1>1, <1>2, <1>3, <1>4, <1>5

LEMMA DistributedType ==
    ASSUME Bucket, D!TypeOK, [D!Next]_(D!vars)
    PROVE  D!TypeOK'
  <1>1. CASE UNCHANGED D!vars
    BY <1>1 DEF D!vars, D!TypeOK
  <1>2. ASSUME NEW c \in Client, NEW e \in BOOLEAN, D!LockCall(c, e) PROVE D!TypeOK'
    BY <1>2, LockCallType
  <1>3. ASSUME NEW c \in Client, D!LockStep(c) PROVE D!TypeOK'
    BY <1>3, LockResetType, LockFreeType, LockTakenType, LockPutType, LockUpdateType
       DEF D!LockStep
  <1>4. ASSUME NEW c \in Client, D!WaitStep(c) PROVE D!TypeOK'
    BY <1>4, WatchOpenType, WatchReadType, WatchErrorType DEF D!WaitStep
  <1>5. ASSUME NEW c \in Client, D!RenewCall(c) \/ D!UnlockCall(c) PROVE D!TypeOK'
    BY <1>5, CallType DEF D!RenewCall, D!UnlockCall
  <1>6. ASSUME NEW c \in Client, D!HolderStep(c) PROVE D!TypeOK'
    BY <1>6, RenewGetType, RenewUpdateType, UnlockGetType, UnlockUpdateType
       DEF D!HolderStep
  <1>7. ASSUME NEW c \in Client, D!CallFails(c) PROVE D!TypeOK'
    BY <1>7, CallFailsType
  <1>8. ASSUME NEW p \in Machine, D!Crash(p) PROVE D!TypeOK'
    BY <1>8, CrashType
  <1>9. CASE D!Tick
    BY <1>9, Bucket DEF Bucket, D!Tick, D!TypeOK
  <1>10. QED
    BY <1>1, <1>2, <1>3, <1>4, <1>5, <1>6, <1>7, <1>8, <1>9 DEF D!Next

\* The state of the distributed mutex and of its clients stays well typed,
\* whatever fails and however often its lock expires (kv_mutices.go).
THEOREM DistributedTypeCorrect ==
    ASSUME Bucket
    PROVE  D!Spec => []D!TypeOK
  <1>1. D!Init => D!TypeOK
    BY DEF Bucket, D!Init, D!TypeOK, D!Entry, D!Time, D!Location
  <1>2. D!TypeOK /\ [D!Next]_(D!vars) => D!TypeOK'
    BY DistributedType
  <1>3. QED
    BY <1>1, <1>2, PTL DEF D!Spec

-----------------------------------------------------------------------------
(* Its invariant holds initially, and every step preserves it that starts  *)
(* where a takeover is undisturbed.                                        *)

LEMMA DistributedInit ==
    ASSUME Bucket
    PROVE  D!Init => D!IInv
  BY DEF Bucket, D!Init, D!IInv, D!TypeOK, D!RevisionNamesEntry, D!LockHasTime,
     D!UpdateOfEntry, D!OneOwner, D!Owner, D!Holds, D!Entry, D!Time, D!Location

LEMMA LockCallStep ==
    ASSUME Bucket, D!IInv, NEW c \in Client, NEW e \in BOOLEAN, D!LockCall(c, e)
    PROVE  D!IInv'
  <1> USE DEF Bucket, D!LockCall, D!Goto, D!IInv, D!TypeOK, D!Time, D!Entry
  <1>1. D!TypeOK'
    BY LockCallType
  <1>2. D!RevisionNamesEntry'
    BY DEF D!RevisionNamesEntry
  <1>3. D!LockHasTime'
    BY DEF D!LockHasTime
  <1>4. D!UpdateOfEntry'
    BY DEF D!UpdateOfEntry
  <1>5. D!OneOwner'
    BY DEF D!RevisionNamesEntry, D!LockHasTime, D!UpdateOfEntry, D!OneOwner, D!Owner,
       D!Holds
  <1>6. QED
    BY <1>1, <1>2, <1>3, <1>4, <1>5

LEMMA LockResetStep ==
    ASSUME Bucket, D!IInv, NEW c \in Client, D!LockReset(c)
    PROVE  D!IInv'
  <1> USE DEF Bucket, D!LockReset, D!Goto, D!IInv, D!TypeOK, D!Time, D!Entry
  <1>1. D!TypeOK'
    BY LockResetType
  <1>2. D!RevisionNamesEntry'
    BY DEF D!RevisionNamesEntry
  <1>3. D!LockHasTime'
    BY DEF D!LockHasTime
  <1>4. D!UpdateOfEntry'
    BY DEF D!UpdateOfEntry
  <1>5. D!OneOwner'
    BY DEF D!RevisionNamesEntry, D!LockHasTime, D!UpdateOfEntry, D!OneOwner, D!Owner,
       D!Holds
  <1>6. QED
    BY <1>1, <1>2, <1>3, <1>4, <1>5

LEMMA LockFreeStep ==
    ASSUME Bucket, D!IInv, NEW c \in Client, D!LockFree(c)
    PROVE  D!IInv'
  <1> USE DEF Bucket, D!LockFree, D!Goto, D!IInv, D!TypeOK, D!Time, D!Entry
  <1>1. D!TypeOK'
    BY LockFreeType
  <1>2. D!RevisionNamesEntry'
    BY DEF D!RevisionNamesEntry
  <1>3. D!LockHasTime'
    BY DEF D!LockHasTime
  <1>4. D!UpdateOfEntry'
    BY DEF D!UpdateOfEntry
  <1>5. D!OneOwner'
    BY DEF D!RevisionNamesEntry, D!LockHasTime, D!UpdateOfEntry, D!OneOwner, D!Owner,
       D!Holds
  <1>6. QED
    BY <1>1, <1>2, <1>3, <1>4, <1>5

LEMMA LockTakenStep ==
    ASSUME Bucket, D!IInv, NEW c \in Client, D!LockTaken(c)
    PROVE  D!IInv'
  <1> USE DEF Bucket, D!LockTaken, D!Return, D!Goto, D!IInv, D!TypeOK, D!Time,
     D!Entry
  <1>1. D!TypeOK'
    BY LockTakenType
  <1>2. D!RevisionNamesEntry'
    BY DEF D!RevisionNamesEntry
  <1>3. D!LockHasTime'
    BY DEF D!LockHasTime
  <1>4. D!UpdateOfEntry'
    BY DEF D!UpdateOfEntry
  <1>5. D!OneOwner'
    BY DEF D!RevisionNamesEntry, D!LockHasTime, D!UpdateOfEntry, D!OneOwner, D!Owner,
       D!Holds
  <1>6. QED
    BY <1>1, <1>2, <1>3, <1>4, <1>5

LEMMA LockPutStep ==
    ASSUME Bucket, D!IInv, D!LonelyTakeover, NEW c \in Client, D!LockPut(c)
    PROVE  D!IInv'
  <1> USE DEF Bucket, D!LockPut, D!Locked, D!Put, D!FreshRev, D!Goto, D!IInv,
     D!TypeOK, D!Time, D!Entry
  <1>1. D!TypeOK'
    BY LockPutType
  <1>2. D!RevisionNamesEntry'
    BY DEF D!RevisionNamesEntry
  <1>3. D!LockHasTime'
    BY DEF D!LockHasTime
  <1>4. D!UpdateOfEntry'
    BY DEF D!UpdateOfEntry
  <1>5. D!OneOwner'
    BY DEF D!RevisionNamesEntry, D!LockHasTime, D!UpdateOfEntry, D!OneOwner, D!Owner,
       D!Holds, D!LonelyTakeover
  <1>6. QED
    BY <1>1, <1>2, <1>3, <1>4, <1>5

LEMMA LockUpdateStep ==
    ASSUME Bucket, D!IInv, NEW c \in Client, D!LockUpdate(c)
    PROVE  D!IInv'
  <1> USE DEF Bucket, D!LockUpdate, D!Locked, D!UpdateDone, D!WrongRevision, D!Put,
     D!FreshRev, D!Goto, D!IInv, D!TypeOK, D!Time, D!Entry
  <1>1. D!TypeOK'
    BY LockUpdateType
  <1>2. D!RevisionNamesEntry'
    BY DEF D!RevisionNamesEntry
  <1>3. D!LockHasTime'
    BY DEF D!LockHasTime
  <1>4. D!UpdateOfEntry'
    BY DEF D!UpdateOfEntry
  <1>5. D!OneOwner'
    BY DEF D!RevisionNamesEntry, D!LockHasTime, D!UpdateOfEntry, D!OneOwner, D!Owner,
       D!Holds
  <1>6. QED
    BY <1>1, <1>2, <1>3, <1>4, <1>5

LEMMA WatchOpenStep ==
    ASSUME Bucket, D!IInv, NEW c \in Client, D!WatchOpen(c)
    PROVE  D!IInv'
  <1> USE DEF Bucket, D!WatchOpen, D!Goto, D!IInv, D!TypeOK, D!Time, D!Entry
  <1>1. D!TypeOK'
    BY WatchOpenType
  <1>2. D!RevisionNamesEntry'
    BY DEF D!RevisionNamesEntry
  <1>3. D!LockHasTime'
    BY DEF D!LockHasTime
  <1>4. D!UpdateOfEntry'
    BY DEF D!UpdateOfEntry
  <1>5. D!OneOwner'
    BY DEF D!RevisionNamesEntry, D!LockHasTime, D!UpdateOfEntry, D!OneOwner, D!Owner,
       D!Holds
  <1>6. QED
    BY <1>1, <1>2, <1>3, <1>4, <1>5

LEMMA WatchReadStep ==
    ASSUME Bucket, D!IInv, NEW c \in Client, D!WatchRead(c)
    PROVE  D!IInv'
  <1> USE DEF Bucket, D!WatchRead, D!Goto, D!IInv, D!TypeOK, D!Time, D!Entry
  <1>1. D!TypeOK'
    BY WatchReadType
  <1>2. D!RevisionNamesEntry'
    BY DEF D!RevisionNamesEntry
  <1>3. D!LockHasTime'
    BY DEF D!LockHasTime
  <1>4. D!UpdateOfEntry'
    BY DEF D!UpdateOfEntry
  <1>5. D!OneOwner'
    BY DEF D!RevisionNamesEntry, D!LockHasTime, D!UpdateOfEntry, D!OneOwner, D!Owner,
       D!Holds
  <1>6. QED
    BY <1>1, <1>2, <1>3, <1>4, <1>5

LEMMA WatchErrorStep ==
    ASSUME Bucket, D!IInv, NEW c \in Client, D!WatchError(c)
    PROVE  D!IInv'
  <1> USE DEF Bucket, D!WatchError, D!Goto, D!IInv, D!TypeOK, D!Time, D!Entry
  <1>1. D!TypeOK'
    BY WatchErrorType
  <1>2. D!RevisionNamesEntry'
    BY DEF D!RevisionNamesEntry
  <1>3. D!LockHasTime'
    BY DEF D!LockHasTime
  <1>4. D!UpdateOfEntry'
    BY DEF D!UpdateOfEntry
  <1>5. D!OneOwner'
    BY DEF D!RevisionNamesEntry, D!LockHasTime, D!UpdateOfEntry, D!OneOwner, D!Owner,
       D!Holds
  <1>6. QED
    BY <1>1, <1>2, <1>3, <1>4, <1>5

LEMMA CallStep ==
    ASSUME Bucket, D!IInv, NEW c \in Client, NEW l \in {"renewGet", "unlockGet"},
           D!Call(c, l)
    PROVE  D!IInv'
  <1> USE DEF Bucket, D!Call, D!Goto, D!IInv, D!TypeOK, D!Time, D!Entry
  <1>1. D!TypeOK'
    BY CallType
  <1>2. D!RevisionNamesEntry'
    BY DEF D!RevisionNamesEntry
  <1>3. D!LockHasTime'
    BY DEF D!LockHasTime
  <1>4. D!UpdateOfEntry'
    BY DEF D!UpdateOfEntry
  <1>5. D!OneOwner'
    BY DEF D!RevisionNamesEntry, D!LockHasTime, D!UpdateOfEntry, D!OneOwner, D!Owner,
       D!Holds
  <1>6. QED
    BY <1>1, <1>2, <1>3, <1>4, <1>5

LEMMA RenewGetStep ==
    ASSUME Bucket, D!IInv, NEW c \in Client, D!RenewGet(c)
    PROVE  D!IInv'
  <1> USE DEF Bucket, D!RenewGet, D!Goto, D!IInv, D!TypeOK, D!Time, D!Entry
  <1>1. D!TypeOK'
    BY RenewGetType
  <1>2. D!RevisionNamesEntry'
    BY DEF D!RevisionNamesEntry
  <1>3. D!LockHasTime'
    BY DEF D!LockHasTime
  <1>4. D!UpdateOfEntry'
    BY DEF D!UpdateOfEntry, D!OneOwner, D!Owner, D!Holds
  <1>5. D!OneOwner'
    BY DEF D!RevisionNamesEntry, D!LockHasTime, D!UpdateOfEntry, D!OneOwner, D!Owner,
       D!Holds
  <1>6. QED
    BY <1>1, <1>2, <1>3, <1>4, <1>5

LEMMA RenewUpdateStep ==
    ASSUME Bucket, D!IInv, NEW c \in Client, D!RenewUpdate(c)
    PROVE  D!IInv'
  <1> USE DEF Bucket, D!RenewUpdate, D!UpdateDone, D!WrongRevision, D!Put,
     D!FreshRev, D!Goto, D!IInv, D!TypeOK, D!Time, D!Entry
  <1>1. D!TypeOK'
    BY RenewUpdateType
  <1>2. D!RevisionNamesEntry'
    BY DEF D!RevisionNamesEntry
  <1>3. D!LockHasTime'
    BY DEF D!LockHasTime
  <1>4. D!UpdateOfEntry'
    BY DEF D!UpdateOfEntry
  <1>5. D!OneOwner'
    BY DEF D!RevisionNamesEntry, D!LockHasTime, D!UpdateOfEntry, D!OneOwner, D!Owner,
       D!Holds
  <1>6. QED
    BY <1>1, <1>2, <1>3, <1>4, <1>5

LEMMA UnlockGetStep ==
    ASSUME Bucket, D!IInv, NEW c \in Client, D!UnlockGet(c)
    PROVE  D!IInv'
  <1> USE DEF Bucket, D!UnlockGet, D!Return, D!Goto, D!IInv, D!TypeOK, D!Time,
     D!Entry
  <1>1. D!TypeOK'
    BY UnlockGetType
  <1>2. D!RevisionNamesEntry'
    BY DEF D!RevisionNamesEntry
  <1>3. D!LockHasTime'
    BY DEF D!LockHasTime
  <1>4. D!UpdateOfEntry'
    BY DEF D!UpdateOfEntry, D!OneOwner, D!Owner
  <1>5. D!OneOwner'
    BY DEF D!RevisionNamesEntry, D!LockHasTime, D!UpdateOfEntry, D!OneOwner, D!Owner,
       D!Holds
  <1>6. QED
    BY <1>1, <1>2, <1>3, <1>4, <1>5

LEMMA UnlockUpdateStep ==
    ASSUME Bucket, D!IInv, NEW c \in Client, D!UnlockUpdate(c)
    PROVE  D!IInv'
  <1> USE DEF Bucket, D!UnlockUpdate, D!UpdateDone, D!WrongRevision, D!Put,
     D!FreshRev, D!Return, D!Goto, D!IInv, D!TypeOK, D!Time, D!Entry
  <1>1. D!TypeOK'
    BY UnlockUpdateType
  <1>2. D!RevisionNamesEntry'
    BY DEF D!RevisionNamesEntry
  <1>3. D!LockHasTime'
    BY DEF D!LockHasTime
  <1>4. D!UpdateOfEntry'
    BY DEF D!UpdateOfEntry
  <1>5. D!OneOwner'
    BY DEF D!RevisionNamesEntry, D!LockHasTime, D!UpdateOfEntry, D!OneOwner, D!Owner,
       D!Holds
  <1>6. QED
    BY <1>1, <1>2, <1>3, <1>4, <1>5

LEMMA CallFailsStep ==
    ASSUME Bucket, D!IInv, NEW c \in Client, D!CallFails(c)
    PROVE  D!IInv'
  <1> USE DEF Bucket, D!CallFails, D!UpdateDone, D!Put, D!FreshRev, D!Return,
     D!Goto, D!IInv, D!TypeOK, D!Time, D!Entry
  <1>1. D!TypeOK'
    BY CallFailsType
  <1>2. D!RevisionNamesEntry'
    BY DEF D!RevisionNamesEntry
  <1>3. D!LockHasTime'
    BY DEF D!LockHasTime
  <1>4. D!UpdateOfEntry'
    BY DEF D!UpdateOfEntry
  <1>5. D!OneOwner'
    BY DEF D!RevisionNamesEntry, D!LockHasTime, D!UpdateOfEntry, D!OneOwner, D!Owner,
       D!Holds
  <1>6. QED
    BY <1>1, <1>2, <1>3, <1>4, <1>5

LEMMA CrashStep ==
    ASSUME Bucket, D!IInv, NEW p \in Machine, D!Crash(p)
    PROVE  D!IInv'
  <1> USE DEF Bucket, D!Crash, D!IInv, D!TypeOK, D!Time, D!Entry
  <1>1. D!TypeOK'
    BY CrashType
  <1>2. D!RevisionNamesEntry'
    BY DEF D!RevisionNamesEntry
  <1>3. D!LockHasTime'
    BY DEF D!LockHasTime
  <1>4. D!UpdateOfEntry'
    BY DEF D!UpdateOfEntry
  <1>5. D!OneOwner'
    BY DEF D!RevisionNamesEntry, D!LockHasTime, D!UpdateOfEntry, D!OneOwner, D!Owner,
       D!Holds
  <1>6. QED
    BY <1>1, <1>2, <1>3, <1>4, <1>5

LEMMA TickStep ==
    ASSUME Bucket, D!IInv, D!Tick
    PROVE  D!IInv'
  BY DEF Bucket, D!Tick, D!IInv, D!TypeOK, D!RevisionNamesEntry, D!LockHasTime,
     D!UpdateOfEntry, D!OneOwner, D!Owner, D!Holds

LEMMA DistributedInvariance ==
    ASSUME Bucket, D!IInv, D!LonelyTakeover, [D!Next]_(D!vars)
    PROVE  D!IInv'
  <1>1. CASE UNCHANGED D!vars
    BY <1>1 DEF D!vars, D!IInv, D!TypeOK, D!RevisionNamesEntry, D!LockHasTime,
       D!UpdateOfEntry, D!OneOwner, D!Owner, D!Holds
  <1>2. ASSUME NEW c \in Client, NEW e \in BOOLEAN, D!LockCall(c, e) PROVE D!IInv'
    BY <1>2, LockCallStep
  <1>3. ASSUME NEW c \in Client, D!LockStep(c) PROVE D!IInv'
    BY <1>3, LockResetStep, LockFreeStep, LockTakenStep, LockPutStep, LockUpdateStep
       DEF D!LockStep
  <1>4. ASSUME NEW c \in Client, D!WaitStep(c) PROVE D!IInv'
    BY <1>4, WatchOpenStep, WatchReadStep, WatchErrorStep DEF D!WaitStep
  <1>5. ASSUME NEW c \in Client, D!RenewCall(c) \/ D!UnlockCall(c) PROVE D!IInv'
    BY <1>5, CallStep DEF D!RenewCall, D!UnlockCall
  <1>6. ASSUME NEW c \in Client, D!HolderStep(c) PROVE D!IInv'
    BY <1>6, RenewGetStep, RenewUpdateStep, UnlockGetStep, UnlockUpdateStep
       DEF D!HolderStep
  <1>7. ASSUME NEW c \in Client, D!CallFails(c) PROVE D!IInv'
    BY <1>7, CallFailsStep
  <1>8. ASSUME NEW p \in Machine, D!Crash(p) PROVE D!IInv'
    BY <1>8, CrashStep
  <1>9. CASE D!Tick
    BY <1>9, TickStep
  <1>10. QED
    BY <1>1, <1>2, <1>3, <1>4, <1>5, <1>6, <1>7, <1>8, <1>9 DEF D!Next

-----------------------------------------------------------------------------
LEMMA DistributedExcludes == D!IInv => D!MutualExclusion
  BY DEF D!IInv, D!OneOwner, D!Owner, D!MutualExclusion, D!HoldsInTime

\* Two clients never hold the mutex at the same time, however often locks expire
\* and are taken over, as long as nobody else has the mutex or is about to write
\* when a client writes without comparing revisions (mutexResetLock of
\* kv_mutices.go): a missing key has one creator, and the lock of a client that
\* has gone one successor.
THEOREM CompareAndSetExcludes ==
    ASSUME Bucket
    PROVE  D!Spec /\ []D!LonelyTakeover => []D!MutualExclusion
  <1>1. D!Init => D!IInv
    BY DistributedInit
  <1>2. D!IInv /\ D!LonelyTakeover /\ [D!Next]_(D!vars) => D!IInv'
    BY DistributedInvariance
  <1>3. D!IInv => D!MutualExclusion
    BY DistributedExcludes
  <1>4. QED
    BY <1>1, <1>2, <1>3, PTL DEF D!Spec
=============================================================================
