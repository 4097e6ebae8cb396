----------------------------- MODULE CacheSync -----------------------------
(***************************************************************************)
(* The cache of statefun/cache/cache.go and how it stays in step with the  *)
(* key/value bucket.  Clients set, delete and read values of the tree of   *)
(* StoreValues; the lazy writer goes round the tree, puts what waits for   *)
(* it into the bucket and collects garbage; the update handler receives    *)
(* every write to the bucket, its own process's and those of others,       *)
(* confirms the first and takes over the second when they are newer.       *)
(*                                                                         *)
(* One key, a child of the root, in the cache of one process.  A value is  *)
(* identified with the time it was set at, which the code reads from the   *)
(* clock once per call; other processes write to the bucket with times of  *)
(* their own.  The bucket and its watch are external.                      *)
(***************************************************************************)
EXTENDS Naturals, Sequences

CONSTANTS
    Client,         \* goroutines that use the key
    Handler,        \* the goroutine storeUpdatesHandler
    StoreValue,     \* nodes of the tree
    None,
    MaxTime,        \* bound: the last instant of the clock
    MaxUpdates,     \* bound: entries of the watch not yet received
    Events          \* what else may happen: "other", "fail", "restart"

ASSUME HandlerIsNoClient == Handler \notin Client
ASSUME NoneIsNoValue == None \notin StoreValue
ASSUME BoundTypes == MaxTime \in Nat /\ MaxUpdates \in Nat \ {0, 1}

VARIABLES
    child,          \* the StoreValue of the key in the root's store, or None
    value,          \* the StoreValues
    pc,
    target,         \* the StoreValue a goroutine has loaded, or None
    arg,            \* what a goroutine is storing, or has received
    lazyPc,         \* of the lazy writer
    lazyValue,      \* csvChild, later currentStoreValue
    batch,          \* finalBytes, None for nil
    kv,             \* the entry of the key in the bucket, or None
    updates,        \* entries of the watch; None ends the replay
    lastIsCurrent,  \* the message GetLastMsg returned is still in the bucket
    inited,         \* NewCacheStore has returned
    clock,
    written,        \* history: every entry the bucket ever had
    own             \* history: the time of the lazy writer's last record

cache == <<child, value>>
lazy == <<lazyPc, lazyValue, batch>>
bucket == <<kv, updates, lastIsCurrent, written>>
vars == <<child, value, pc, target, arg, lazy, bucket, inited, clock, own>>

Goroutine == Client \cup {Handler}
Time == 0 .. MaxTime
\* A record has a time and the append flag; time 0 stands for an empty value.
Record == [time : Time, exists : BOOLEAN, own : BOOLEAN]
Node == [time : Time, exists : BOOLEAN, needed : BOOLEAN, synced : BOOLEAN,
         purge : {0, 1, 2}]
Argument == [time : Time, exists : BOOLEAN, needed : BOOLEAN]
Location == {"idle", "setLoad", "setPut", "setStore", "setAbsent", "deleteLoad",
             "deleteCheck", "deletePut", "getKV", "compare", "confirmLoad",
             "confirm", "complete", "erase", "eraseDelete"}

Blank == [time |-> 0, exists |-> FALSE, needed |-> FALSE, synced |-> TRUE, purge |-> 0]
NoArg == [time |-> 0, exists |-> FALSE, needed |-> FALSE]
EmptyRecord == [time |-> 0, exists |-> FALSE, own |-> TRUE]

Init ==
    /\ child = None
    /\ value = [n \in StoreValue |-> Blank]
    /\ pc = [g \in Goroutine |-> "idle"]
    /\ target = [g \in Goroutine |-> None]
    /\ arg = [g \in Goroutine |-> NoArg]
    /\ lazyPc = "idle" /\ lazyValue = None /\ batch = None
    /\ kv = None
    /\ updates = <<None>>
    /\ lastIsCurrent = FALSE
    /\ inited = FALSE
    /\ clock = 0
    /\ written = {}
    /\ own = 0

\* The root's mutex, which Range keeps for the whole visit of the key.
RootFree == lazyPc \notin {"recheck", "put", "clear"}

\* A StoreValue that nothing refers to.  Bound: three are enough for one client.
Unused == {n \in StoreValue : /\ n # child /\ n # lazyValue
                              /\ \A g \in Goroutine : target[g] # n}
NewValue == CHOOSE n \in Unused : TRUE

PurgeReady(n) == [n EXCEPT !.purge = IF n.purge = 0 THEN 1 ELSE n.purge]
PurgeConfirm(n) ==
    [n EXCEPT !.purge = IF ~n.needed /\ n.synced /\ n.purge = 1 THEN 2 ELSE n.purge]

Goto(g, l) == pc' = [pc EXCEPT ![g] = l]
Return(g) ==
    /\ Goto(g, "idle")
    /\ target' = [target EXCEPT ![g] = None]
    /\ arg' = [arg EXCEPT ![g] = NoArg]

\* The bucket takes an entry, and the watch will deliver it.
Store(e) ==
    /\ Len(updates) < MaxUpdates
    /\ kv' = e
    /\ updates' = Append(updates, e)
    /\ written' = written \cup {e}
    /\ lastIsCurrent' = FALSE

-----------------------------------------------------------------------------
(* SetValue, SetValueIfDoesNotExist, DeleteValue and GetValue *)

\* A call reads the clock before anything else.
Call(c, l) ==
    /\ inited
    /\ pc[c] = "idle"
    /\ clock < MaxTime
    /\ clock' = clock + 1
    /\ arg' = [arg EXCEPT ![c] = [time |-> clock + 1, exists |-> TRUE, needed |-> TRUE]]
    /\ Goto(c, l)
    /\ UNCHANGED <<cache, target, lazy, bucket, inited, own>>

SetCall(c) == Call(c, "setLoad") \/ Call(c, "setAbsent")
DeleteCall(c) == Call(c, "deleteLoad")

SetLoad(g) ==
    /\ pc[g] = "setLoad"
    /\ RootFree
    /\ target' = [target EXCEPT ![g] = child]
    /\ Goto(g, IF child = None THEN "setStore" ELSE "setPut")
    /\ UNCHANGED <<cache, arg, lazy, bucket, inited, clock, own>>

\* Mutant: a record of the bucket is to be written back to it.
PutBack(a) == [time |-> a.time, exists |-> TRUE, needed |-> TRUE,
               synced |-> FALSE, purge |-> 0]

\* What Put writes, and what a new StoreValue is.
Put(a) == [time |-> a.time, exists |-> TRUE, needed |-> a.needed,
           synced |-> ~a.needed, purge |-> 0]

SetPut(g) ==
    /\ pc[g] = "setPut"
    /\ value' = [value EXCEPT ![target[g]] = Put(arg[g])]
    /\ Return(g)
    /\ UNCHANGED <<child, lazy, bucket, inited, clock, own>>

StoreChild(g) ==
    /\ Unused # {}
    /\ child' = NewValue
    /\ value' = [value EXCEPT ![NewValue] = Put(arg[g])]

SetStore(g) ==
    /\ pc[g] = "setStore"
    /\ RootFree
    /\ StoreChild(g)
    /\ Return(g)
    /\ UNCHANGED <<lazy, bucket, inited, clock, own>>

\* SetValueIfDoesNotExist keeps the root's mutex from the load to the store.
SetAbsent(c) ==
    /\ pc[c] = "setAbsent"
    /\ RootFree
    /\ \/ child = None /\ StoreChild(c)
       \/ /\ child # None /\ ~value[child].exists
          /\ value' = [value EXCEPT ![child] = Put(arg[c])]
          /\ UNCHANGED child
       \/ child # None /\ value[child].exists /\ UNCHANGED cache
    /\ Return(c)
    /\ UNCHANGED <<lazy, bucket, inited, clock, own>>

DeleteLoad(c) ==
    /\ pc[c] = "deleteLoad"
    /\ RootFree
    /\ \/ child = None /\ Return(c)
       \/ /\ child # None
          /\ target' = [target EXCEPT ![c] = child]
          /\ Goto(c, "deleteCheck")
          /\ UNCHANGED arg
    /\ UNCHANGED <<cache, lazy, bucket, inited, clock, own>>

\* valueExists is read without the lock.
DeleteCheck(c) ==
    /\ pc[c] = "deleteCheck"
    /\ \/ ~value[target[c]].exists /\ Return(c)
       \/ value[target[c]].exists /\ Goto(c, "deletePut") /\ UNCHANGED <<target, arg>>
    /\ UNCHANGED <<cache, lazy, bucket, inited, clock, own>>

\* The StoreValue stays in the tree as a tombstone.
DeletePut(c) ==
    /\ pc[c] = "deletePut"
    /\ value' = [value EXCEPT ![target[c]] =
           [time |-> arg[c].time, exists |-> FALSE, needed |-> TRUE,
            synced |-> FALSE, purge |-> 1]]
    /\ Return(c)
    /\ UNCHANGED <<child, lazy, bucket, inited, clock, own>>

\* A read that finds the key in the cache changes nothing; a miss goes to the
\* bucket and stores what it finds there.
GetCall(c) ==
    /\ inited
    /\ pc[c] = "idle"
    /\ RootFree
    /\ child = None
    /\ Goto(c, "getKV")
    /\ UNCHANGED <<cache, target, arg, lazy, bucket, inited, clock, own>>

InKV == kv # None /\ kv.exists

GetFromKV(c) ==
    /\ pc[c] = "getKV"
    /\ kv # EmptyRecord
    /\ \/ ~InKV /\ Return(c)
       \/ /\ InKV
          /\ arg' = [arg EXCEPT ![c] = [time |-> kv.time, exists |-> TRUE, needed |-> FALSE]]
          /\ Goto(c, "setLoad")
          /\ UNCHANGED target
    /\ UNCHANGED <<cache, lazy, bucket, inited, clock, own>>

-----------------------------------------------------------------------------
(* kvLazyWriter and collectGarbage *)

\* LRU: the threshold depends on the other keys of the tree.
EvictOrNot(n) ==
    IF n.time > 0 /\ ~n.needed /\ n.purge = 0
    THEN {n, PurgeConfirm(PurgeReady(n))}
    ELSE {n}

LazyRead ==
    /\ lazyPc = "idle"
    /\ child # None
    /\ lazyPc' = "recheck"
    /\ lazyValue' = child
    /\ batch' = IF value[child].needed
                THEN [time |-> value[child].time, exists |-> value[child].exists, own |-> TRUE]
                ELSE None
    /\ \E n \in EvictOrNot(value[child]) : value' = [value EXCEPT ![child] = n]
    /\ UNCHANGED <<child, pc, target, arg, bucket, inited, clock, own>>

\* Mutant: only values that exist are put.
RecheckExisting ==
    /\ lazyPc = "recheck"
    /\ lazyPc' = IF value[lazyValue].needed /\ value[lazyValue].exists
                 THEN "put" ELSE "collect"
    /\ UNCHANGED <<cache, pc, target, arg, lazyValue, batch, bucket, inited, clock, own>>

\* syncNeeded is read again, without the lock.
LazyRecheck ==
    /\ lazyPc = "recheck"
    /\ lazyPc' = IF value[lazyValue].needed THEN "put" ELSE "collect"
    /\ UNCHANGED <<cache, pc, target, arg, lazyValue, batch, bucket, inited, clock, own>>

\* The key became needed after batch was made: the bytes put are nil.
Bytes == IF batch = None THEN EmptyRecord ELSE batch

LazyStore ==
    /\ Store(Bytes)
    /\ own' = IF batch = None THEN own ELSE batch.time

LazyPut ==
    /\ lazyPc = "put"
    /\ LazyStore
    /\ lazyPc' = "clear"
    /\ UNCHANGED <<cache, pc, target, arg, lazyValue, batch, inited, clock>>

\* kv.Put returns an error; the bucket may have taken the entry.
LazyPutFails ==
    /\ "fail" \in Events
    /\ lazyPc = "put"
    /\ LazyStore \/ UNCHANGED <<bucket, own>>
    /\ lazyPc' = "collect"
    /\ UNCHANGED <<cache, pc, target, arg, lazyValue, batch, inited, clock>>

\* Mutant: the time is not compared.
ClearAlways ==
    /\ lazyPc = "clear"
    /\ value' = [value EXCEPT ![lazyValue].needed = FALSE]
    /\ lazyPc' = "collect"
    /\ UNCHANGED <<child, pc, target, arg, lazyValue, batch, bucket, inited, clock, own>>

\* valueUpdateTime is 0 when nothing was needed at the read.
LazyClear ==
    /\ lazyPc = "clear"
    /\ value' = [value EXCEPT ![lazyValue].needed =
           value[lazyValue].needed /\ Bytes.time # value[lazyValue].time]
    /\ lazyPc' = "collect"
    /\ UNCHANGED <<child, pc, target, arg, lazyValue, batch, bucket, inited, clock, own>>

\* A deleted value is ready to be purged.
Collected(n) ==
    IF ~n.exists /\ n.synced THEN PurgeConfirm(PurgeReady(n)) ELSE n

CanBeDeleted(n) == n.purge = 2 /\ ~n.needed /\ n.synced

LazyDone == lazyPc' = "idle" /\ lazyValue' = None /\ batch' = None

CollectCheck ==
    /\ lazyPc = "collect"
    /\ value' = [value EXCEPT ![lazyValue] = Collected(@)]
    /\ \/ /\ CanBeDeleted(Collected(value[lazyValue]))
          /\ lazyPc' = "detach"
          /\ UNCHANGED <<lazyValue, batch>>
       \/ ~CanBeDeleted(Collected(value[lazyValue])) /\ LazyDone
    /\ UNCHANGED <<child, pc, target, arg, bucket, inited, clock, own>>

\* The StoreValue is unlocked in between, and deleted by its key.
CollectDetach ==
    /\ lazyPc = "detach"
    /\ child' = None
    /\ LazyDone
    /\ UNCHANGED <<value, pc, target, arg, bucket, inited, clock, own>>

-----------------------------------------------------------------------------
(* storeUpdatesHandler *)

Receive == pc[Handler] = "idle" /\ updates # <<>> /\ updates' = Tail(updates)

\* The replay of the bucket is over.
ReceiveEnd ==
    /\ Receive
    /\ Head(updates) = None
    /\ inited' = TRUE
    /\ UNCHANGED <<cache, pc, target, arg, lazy, kv, lastIsCurrent, written, clock, own>>

\* An entry with a time; GetValueUpdateTime loads the StoreValue.
ReceiveRecord ==
    /\ Receive
    /\ Head(updates) # None /\ Head(updates).time > 0
    /\ RootFree
    /\ target' = [target EXCEPT ![Handler] = child]
    /\ arg' = [arg EXCEPT ![Handler] = [time |-> Head(updates).time,
                                        exists |-> Head(updates).exists,
                                        needed |-> FALSE]]
    /\ Goto(Handler, "compare")
    /\ UNCHANGED <<cache, lazy, kv, lastIsCurrent, written, inited, clock, own>>

\* An entry without bytes.
ReceiveEmpty ==
    /\ Receive
    /\ Head(updates) = EmptyRecord
    /\ RootFree
    /\ target' = [target EXCEPT ![Handler] = child]
    /\ Goto(Handler, IF child = None THEN "idle" ELSE "complete")
    /\ UNCHANGED <<cache, arg, lazy, kv, lastIsCurrent, written, inited, clock, own>>

\* GetValueUpdateTime: a value that does not exist has no time.
CachedTime == IF target[Handler] = None \/ ~value[target[Handler]].exists
              THEN 0 ELSE value[target[Handler]].time

\* Mutant: older entries are taken over.
CompareSwapped ==
    /\ pc[Handler] = "compare"
    /\ \/ /\ arg[Handler].time < CachedTime
          /\ Goto(Handler, IF arg[Handler].exists THEN "setLoad" ELSE "erase")
          /\ target' = [target EXCEPT ![Handler] = None]
          /\ UNCHANGED arg
       \/ /\ arg[Handler].time = CachedTime
          /\ Goto(Handler, "confirmLoad")
          /\ target' = [target EXCEPT ![Handler] = None]
          /\ UNCHANGED arg
       \/ arg[Handler].time > CachedTime /\ Return(Handler)
    /\ UNCHANGED <<cache, lazy, bucket, inited, clock, own>>

\* Newer entries are taken over; newer deletions are erased from the bucket.
\* A deletion never has the time of a value that exists.
Compare ==
    /\ pc[Handler] = "compare"
    /\ \/ /\ arg[Handler].time > CachedTime
          /\ Goto(Handler, IF arg[Handler].exists THEN "setLoad" ELSE "erase")
          /\ target' = [target EXCEPT ![Handler] = None]
          /\ UNCHANGED arg
       \/ /\ arg[Handler].time = CachedTime
          /\ Goto(Handler, "confirmLoad")
          /\ target' = [target EXCEPT ![Handler] = None]
          /\ UNCHANGED arg
       \/ arg[Handler].time < CachedTime /\ Return(Handler)
    /\ UNCHANGED <<cache, lazy, bucket, inited, clock, own>>

\* getLastKeyCacheStoreValue looks the key up again.
ConfirmLoad ==
    /\ pc[Handler] = "confirmLoad"
    /\ RootFree
    /\ \/ child = None /\ Return(Handler)
       \/ /\ child # None
          /\ target' = [target EXCEPT ![Handler] = child]
          /\ Goto(Handler, "confirm")
          /\ UNCHANGED arg
    /\ UNCHANGED <<cache, lazy, bucket, inited, clock, own>>

Confirm ==
    /\ pc[Handler] = "confirm"
    /\ value' = [value EXCEPT ![target[Handler]] = PurgeConfirm([@ EXCEPT !.synced = TRUE])]
    /\ Return(Handler)
    /\ UNCHANGED <<child, lazy, bucket, inited, clock, own>>

Complete ==
    /\ pc[Handler] = "complete"
    /\ value' = [value EXCEPT ![target[Handler]] =
           PurgeConfirm(PurgeReady([@ EXCEPT !.synced = TRUE]))]
    /\ Return(Handler)
    /\ UNCHANGED <<child, lazy, bucket, inited, clock, own>>

\* DeleteKeyValueValue: the last message of the key is looked up, and then
\* erased if it is still in the bucket.
EraseRead ==
    /\ pc[Handler] = "erase"
    /\ \/ kv = None /\ Return(Handler) /\ UNCHANGED lastIsCurrent
       \/ /\ kv # None
          /\ lastIsCurrent' = TRUE
          /\ Goto(Handler, "eraseDelete")
          /\ UNCHANGED <<target, arg>>
    /\ UNCHANGED <<cache, lazy, kv, updates, written, inited, clock, own>>

EraseDelete ==
    /\ pc[Handler] = "eraseDelete"
    /\ kv' = IF lastIsCurrent THEN None ELSE kv
    /\ lastIsCurrent' = FALSE
    /\ Return(Handler)
    /\ UNCHANGED <<cache, lazy, updates, written, inited, clock, own>>

-----------------------------------------------------------------------------
(* The bucket and the other processes *)

\* Another process sets or deletes the key.
OtherWrites ==
    /\ "other" \in Events
    /\ clock < MaxTime
    /\ clock' = clock + 1
    /\ \E e \in BOOLEAN : Store([time |-> clock + 1, exists |-> e, own |-> FALSE])
    /\ UNCHANGED <<cache, pc, target, arg, lazy, inited, own>>

\* The bucket keeps one message of a key: one that was replaced or erased
\* before its delivery is never delivered.
Superseded ==
    /\ updates # <<>> /\ Head(updates) # None
    /\ kv = None \/ \E i \in 2 .. Len(updates) : updates[i] # None
    /\ updates' = Tail(updates)
    /\ UNCHANGED <<cache, pc, target, arg, lazy, kv, lastIsCurrent, written, inited, clock, own>>

\* The process starts again with an empty cache and the replay of the bucket.
StartAgain ==
    /\ child' = None
    /\ value' = [n \in StoreValue |-> Blank]
    /\ pc' = [g \in Goroutine |-> "idle"]
    /\ target' = [g \in Goroutine |-> None]
    /\ arg' = [g \in Goroutine |-> NoArg]
    /\ lazyPc' = "idle" /\ lazyValue' = None /\ batch' = None
    /\ updates' = IF kv = None THEN <<None>> ELSE <<kv, None>>
    /\ lastIsCurrent' = FALSE
    /\ inited' = FALSE
    /\ UNCHANGED <<kv, clock, written, own>>

Restart == "restart" \in Events /\ StartAgain

\* GetValue slices the first nine bytes off an entry that has none: a panic.
GetPanics(c) == pc[c] = "getKV" /\ kv = EmptyRecord /\ StartAgain

-----------------------------------------------------------------------------
ClientStep(c) ==
    \/ SetCall(c) \/ SetLoad(c) \/ SetPut(c) \/ SetStore(c) \/ SetAbsent(c)
    \/ DeleteCall(c) \/ DeleteLoad(c) \/ DeleteCheck(c) \/ DeletePut(c)
    \/ GetCall(c) \/ GetFromKV(c) \/ GetPanics(c)

LazyStep ==
    \/ LazyRead \/ LazyRecheck \/ LazyPut \/ LazyPutFails \/ LazyClear
    \/ CollectCheck \/ CollectDetach

HandlerStep ==
    \/ ReceiveEnd \/ ReceiveRecord \/ ReceiveEmpty \/ Compare
    \/ SetLoad(Handler) \/ SetPut(Handler) \/ SetStore(Handler)
    \/ ConfirmLoad \/ Confirm \/ Complete \/ EraseRead \/ EraseDelete

Next ==
    \/ \E c \in Client : ClientStep(c)
    \/ LazyStep \/ HandlerStep
    \/ OtherWrites \/ Superseded \/ Restart

Spec == Init /\ [][Next]_vars

\* The two goroutines of the cache never stop, the root's mutex is fair, and
\* kv.Put does not fail for ever.
FairSpec == Spec /\ WF_vars(LazyStep) /\ SF_vars(LazyPut) /\ SF_vars(HandlerStep)

-----------------------------------------------------------------------------
(* Properties *)

TypeOK ==
    /\ child \in StoreValue \cup {None}
    /\ value \in [StoreValue -> Node]
    /\ pc \in [Goroutine -> Location]
    /\ target \in [Goroutine -> StoreValue \cup {None}]
    /\ arg \in [Goroutine -> Argument]
    /\ lazyPc \in {"idle", "recheck", "put", "clear", "collect", "detach"}
    /\ lazyValue \in StoreValue \cup {None}
    /\ batch \in Record \cup {None}
    /\ kv \in Record \cup {None}
    /\ updates \in Seq(Record \cup {None})
    /\ lastIsCurrent \in BOOLEAN /\ inited \in BOOLEAN
    /\ clock \in Time /\ own \in Time
    /\ written \subseteq Record

\* A value that does not wait for the lazy writer has been in the bucket with
\* its time and flag: the writer never takes a later value for the one it put.
UnneededIsWritten ==
    child # None /\ value[child].time > 0 /\ ~value[child].needed =>
        \E w \in written : w.time = value[child].time /\ w.exists = value[child].exists

\* The parts of an inductive strengthening of UnneededIsWritten.
Recorded(t, e) == \E w \in written : w.time = t /\ w.exists = e

ValuesRecorded ==
    \A n \in StoreValue : value[n].time > 0 /\ ~value[n].needed =>
        Recorded(value[n].time, value[n].exists)
ArgsRecorded ==
    \A g \in Goroutine : arg[g].time > 0 /\ ~arg[g].needed =>
        Recorded(arg[g].time, arg[g].exists)
\* What is stored exists, and what is deleted is the client's own.
ArgsFit ==
    \A g \in Goroutine :
        /\ pc[g] \in {"setLoad", "setPut", "setStore", "setAbsent"} => arg[g].exists
        /\ pc[g] \in {"deleteLoad", "deleteCheck", "deletePut"} => arg[g].needed
BucketRecorded ==
    /\ kv # None => kv \in written
    /\ \A i \in 1 .. Len(updates) : updates[i] # None => updates[i] \in written
TimesPassed ==
    /\ \A n \in StoreValue : value[n].time <= clock
    /\ \A g \in Goroutine : arg[g].time <= clock
    /\ \A w \in written : w.time <= clock
    /\ batch # None => batch.time <= clock
\* A time that a client has read is its own until it stores it.
ArgsFresh ==
    \A c \in Goroutine : arg[c].needed =>
        /\ arg[c].time > 0
        /\ \A n \in StoreValue : value[n].time # arg[c].time
        /\ \A g \in Goroutine \ {c} : arg[g].time # arg[c].time
        /\ \A w \in written : w.time # arg[c].time
        /\ batch # None => batch.time # arg[c].time
NeededHasTime == \A n \in StoreValue : value[n].needed => value[n].time > 0
\* What the writer puts is what the value still is, or the value has another time.
BatchMatches ==
    batch # None /\ value[lazyValue].needed /\ value[lazyValue].time = batch.time =>
        value[lazyValue].exists = batch.exists
ClearRecorded == lazyPc = "clear" => Bytes \in written
Loaded ==
    /\ lazyPc # "idle" => lazyValue \in StoreValue
    /\ batch # None => lazyValue \in StoreValue
    /\ \A g \in Goroutine :
          pc[g] \in {"setPut", "deleteCheck", "deletePut", "confirm", "complete"} =>
              target[g] \in StoreValue

IInv ==
    /\ TypeOK /\ ValuesRecorded /\ ArgsRecorded /\ ArgsFit /\ BucketRecorded
    /\ TimesPassed /\ ArgsFresh /\ NeededHasTime /\ BatchMatches /\ ClearRecorded
    /\ Loaded

Quiet == lazyPc = "idle" /\ updates = <<>> /\ \A g \in Goroutine : pc[g] = "idle"

\* When nothing is under way, no other process wrote and nothing was deleted,
\* a value that waits for nobody is the one in the bucket.
QuietAgrees ==
    Quiet /\ child # None /\ ~value[child].needed
          /\ (\A w \in written : w.own /\ w.exists) =>
        kv # None /\ kv.time = value[child].time

\* The records the lazy writer puts never go back in time, whatever fails:
\* with one client, who reads the clock before it stores.
OwnWritesMoveForward == [][own' >= own]_own

\* Whatever waits for the lazy writer reaches the bucket, unless the key is
\* changed or leaves the cache first.
NeededIsWritten ==
    \A t \in Time : \A e \in BOOLEAN :
        LET Needed == child # None /\ value[child].needed
                      /\ value[child].time = t /\ value[child].exists = e
        IN  Needed ~> \/ ~Needed
                      \/ \E w \in written : w.time = t /\ w.exists = e
=============================================================================
