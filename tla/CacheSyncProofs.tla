-------------------------- MODULE CacheSyncProofs --------------------------
(***************************************************************************)
(* Proofs about CacheSync.                                                 *)
(*                                                                         *)
(* For any number of clients: the type invariant, and that a value which   *)
(* does not wait for the lazy writer has been in the bucket.  The          *)
(* argument: a time belongs to the call that read it until it is stored,   *)
(* so the record the writer puts and the value it finds afterwards are the *)
(* same whenever their times are.                                          *)
(*                                                                         *)
(* For one client, who reads the clock before it stores: the writer's      *)
(* records never go back in time; and while nothing is deleted and nobody  *)
(* else writes, the cache agrees with the bucket whenever all is quiet.    *)
(* The argument: the bucket then has the last record, the watch ends with  *)
(* it, and a value behind it is one the handler is about to replace.       *)
(***************************************************************************)
EXTENDS CacheSync, TLAPS

\* m and n differ at most in what garbage collection looks at.
Same(m, n) == m.time = n.time /\ m.exists = n.exists /\ m.needed = n.needed

\* The operations on a StoreValue keep its type, and garbage collection keeps
\* its time, its existence and whether it is needed.
LEMMA NodeOperators ==
    /\ \A n \in Node : PurgeReady(n) \in Node /\ Same(PurgeReady(n), n)
    /\ \A n \in Node : PurgeConfirm(n) \in Node /\ Same(PurgeConfirm(n), n)
    /\ \A n \in Node : Collected(n) \in Node /\ Same(Collected(n), n)
    /\ \A n \in Node : \A m \in EvictOrNot(n) : m \in Node /\ Same(m, n)
    /\ \A n \in Node : [n EXCEPT !.synced = TRUE] \in Node /\ Same([n EXCEPT !.synced = TRUE], n)
    /\ \A a \in Argument : Put(a) \in Node
    /\ NoArg \in Argument /\ Blank \in Node /\ EmptyRecord \in Record
<1> USE BoundTypes
<1>1. \A n \in Node : PurgeReady(n) \in Node /\ Same(PurgeReady(n), n)
  BY DEF Node, PurgeReady, Same
<1>2. \A n \in Node : PurgeConfirm(n) \in Node /\ Same(PurgeConfirm(n), n)
  BY DEF Node, PurgeConfirm, Same
<1>3. \A n \in Node : Collected(n) \in Node /\ Same(Collected(n), n)
  BY <1>1, <1>2 DEF Collected, Same
<1>4. \A n \in Node : \A m \in EvictOrNot(n) : m \in Node /\ Same(m, n)
  BY <1>1, <1>2 DEF EvictOrNot, Same
<1>5. \A n \in Node : [n EXCEPT !.synced = TRUE] \in Node /\ Same([n EXCEPT !.synced = TRUE], n)
  BY DEF Node, Same
<1>6. \A a \in Argument : Put(a) \in Node
  BY DEF Argument, Node, Put
<1>7. NoArg \in Argument /\ Blank \in Node /\ EmptyRecord \in Record
  BY DEF NoArg, Argument, Blank, Node, EmptyRecord, Record, Time
<1> QED BY <1>1, <1>2, <1>3, <1>4, <1>5, <1>6, <1>7

\* Sequences of S stay such.
LEMMA SequenceType ==
    ASSUME NEW S, NEW e \in S
    PROVE  /\ <<e>> \in Seq(S)
           /\ \A f \in S : <<f, e>> \in Seq(S)
           /\ \A s \in Seq(S) : Append(s, e) \in Seq(S)
  OBVIOUS

\* The type invariant is kept by every step; the StoreValues that goroutines
\* write to are the ones they have loaded.
LEMMA TypeStep == TypeOK /\ Loaded /\ Next => TypeOK'
<1> SUFFICES ASSUME TypeOK, Loaded, Next PROVE TypeOK'
  OBVIOUS
<1> USE NodeOperators, BoundTypes DEF TypeOK
<1>new. Unused # {} => NewValue \in StoreValue
  BY DEF NewValue, Unused
<1>ret. \A g \in Goroutine : Return(g) =>
            /\ pc' \in [Goroutine -> Location]
            /\ target' \in [Goroutine -> StoreValue \cup {None}]
            /\ arg' \in [Goroutine -> Argument]
  BY DEF Return, Goto, Location
<1>put. \A g \in Goroutine : Put(arg[g]) \in Node
  BY DEF Put
<1>store. \A e \in Record : Store(e) =>
            /\ kv' \in Record \cup {None}
            /\ updates' \in Seq(Record \cup {None})
            /\ lastIsCurrent' \in BOOLEAN
            /\ written' \subseteq Record
  <2> SUFFICES ASSUME NEW e \in Record, Store(e)
               PROVE  /\ kv' \in Record \cup {None}
                      /\ updates' \in Seq(Record \cup {None})
                      /\ lastIsCurrent' \in BOOLEAN
                      /\ written' \subseteq Record
    OBVIOUS
  <2>1. Append(updates, e) \in Seq(Record \cup {None})
    BY SequenceType
  <2> QED BY <2>1 DEF Store
<1>again. StartAgain => TypeOK'
  <2> SUFFICES ASSUME StartAgain PROVE TypeOK'
    OBVIOUS
  <2>1. <<None>> \in Seq(Record \cup {None}) /\ <<kv, None>> \in Seq(Record \cup {None})
    BY SequenceType
  <2> QED BY <2>1 DEF StartAgain, Location
<1>1. ASSUME NEW c \in Client, ClientStep(c) PROVE TypeOK'
  <2> c \in Goroutine
    BY DEF Goroutine
  <2>1. ASSUME NEW l \in Location, Call(c, l) PROVE TypeOK'
    <3>1. clock' \in Time /\ [time |-> clock + 1, exists |-> TRUE, needed |-> TRUE] \in Argument
      BY <2>1 DEF Call, Time, Argument
    <3> QED BY <2>1, <3>1 DEF Call, Goto, cache, lazy, bucket
  <2>2. CASE SetCall(c) \/ DeleteCall(c)
    BY <2>1, <2>2 DEF SetCall, DeleteCall, Location
  <2>3. CASE SetLoad(c)
    BY <2>3 DEF SetLoad, Goto, Location, cache, lazy, bucket
  <2>4. CASE SetPut(c)
    BY <2>4, <1>ret, <1>put DEF SetPut, lazy, bucket
  <2>5. CASE SetStore(c)
    BY <2>5, <1>ret, <1>put, <1>new DEF SetStore, StoreChild, lazy, bucket
  <2>6. CASE SetAbsent(c)
    BY <2>6, <1>ret, <1>put, <1>new DEF SetAbsent, StoreChild, lazy, bucket, cache
  <2>7. CASE DeleteLoad(c)
    BY <2>7, <1>ret DEF DeleteLoad, Goto, Location, cache, lazy, bucket
  <2>8. CASE DeleteCheck(c)
    BY <2>8, <1>ret DEF DeleteCheck, Goto, Location, cache, lazy, bucket
  <2>9. CASE DeletePut(c)
    <3>1. [time |-> arg[c].time, exists |-> FALSE, needed |-> TRUE,
            synced |-> FALSE, purge |-> 1] \in Node
      BY DEF Node, Argument
    <3> QED BY <2>9, <3>1, <1>ret DEF DeletePut, lazy, bucket
  <2>10. CASE GetCall(c)
    BY <2>10 DEF GetCall, Goto, Location, cache, lazy, bucket
  <2>11. CASE GetFromKV(c)
    <3>1. InKV => [time |-> kv.time, exists |-> TRUE, needed |-> FALSE] \in Argument
      BY DEF InKV, Argument, Record
    <3>2. CASE InKV
      BY <2>11, <3>1, <3>2, <1>ret DEF GetFromKV, Goto, Location, cache, lazy, bucket
    <3>3. CASE ~InKV
      BY <2>11, <3>3, <1>ret DEF GetFromKV, cache, lazy, bucket
    <3> QED BY <3>2, <3>3
  <2>12. CASE GetPanics(c)
    BY <2>12, <1>again DEF GetPanics
  <2> QED BY <1>1, <2>2, <2>3, <2>4, <2>5, <2>6, <2>7, <2>8, <2>9, <2>10, <2>11, <2>12 DEF ClientStep
<1>2. CASE LazyStep
  <2>bytes. Bytes \in Record
    BY DEF Bytes
  <2>stored. LazyStore => own' \in Time
    BY DEF LazyStore, Record
  <2>1. CASE LazyRead
    <3>1. \A n \in Node : [time |-> n.time, exists |-> n.exists, own |-> TRUE] \in Record
      BY DEF Node, Record
    <3>2. batch' \in Record \cup {None}
      BY <2>1, <3>1 DEF LazyRead
    <3>3. value' \in [StoreValue -> Node]
      BY <2>1 DEF LazyRead
    <3> QED BY <2>1, <3>2, <3>3 DEF LazyRead, bucket
  <2>2. CASE LazyRecheck
    BY <2>2 DEF LazyRecheck, cache, bucket
  <2>3. CASE LazyPut
    BY <2>3, <2>bytes, <2>stored, <1>store DEF LazyPut, LazyStore, cache
  <2>4. CASE LazyPutFails
    BY <2>4, <2>bytes, <2>stored, <1>store DEF LazyPutFails, LazyStore, cache, bucket
  <2>5. CASE LazyClear
    <3>1. \A n \in Node : \A b \in BOOLEAN : [n EXCEPT !.needed = b] \in Node
      BY DEF Node
    <3>2. PICK b \in BOOLEAN : value' = [value EXCEPT ![lazyValue].needed = b]
      BY <2>5 DEF LazyClear
    <3>3. value[lazyValue] \in Node
      BY <2>5 DEF LazyClear, Loaded
    <3>4. value' \in [StoreValue -> Node]
      BY <3>1, <3>2, <3>3
    <3> QED BY <2>5, <3>4 DEF LazyClear, bucket
  <2>6. CASE CollectCheck
    BY <2>6 DEF CollectCheck, LazyDone, Loaded, bucket
  <2>7. CASE CollectDetach
    BY <2>7 DEF CollectDetach, LazyDone, bucket
  <2> QED BY <1>2, <2>1, <2>2, <2>3, <2>4, <2>5, <2>6, <2>7 DEF LazyStep
<1>3. CASE HandlerStep
  <2> Handler \in Goroutine
    BY DEF Goroutine
  <2>tail. Receive => updates' \in Seq(Record \cup {None})
    BY DEF Receive
  <2>1. CASE ReceiveEnd
    BY <2>1, <2>tail DEF ReceiveEnd, cache, lazy
  <2>2. CASE ReceiveRecord
    <3>1. [time |-> Head(updates).time, exists |-> Head(updates).exists, needed |-> FALSE] \in Argument
      BY <2>2 DEF ReceiveRecord, Receive, Record, Argument
    <3> QED BY <2>2, <2>tail, <3>1 DEF ReceiveRecord, Goto, Location, cache, lazy
  <2>3. CASE ReceiveEmpty
    BY <2>3, <2>tail DEF ReceiveEmpty, Goto, Location, cache, lazy
  <2>4. CASE Compare
    BY <2>4, <1>ret DEF Compare, Goto, Location, cache, lazy, bucket
  <2>5. CASE SetLoad(Handler)
    BY <2>5 DEF SetLoad, Goto, Location, cache, lazy, bucket
  <2>6. CASE SetPut(Handler)
    BY <2>6, <1>ret, <1>put DEF SetPut, lazy, bucket
  <2>7. CASE SetStore(Handler)
    BY <2>7, <1>ret, <1>put, <1>new DEF SetStore, StoreChild, lazy, bucket
  <2>8. CASE ConfirmLoad
    BY <2>8, <1>ret DEF ConfirmLoad, Goto, Location, cache, lazy, bucket
  <2>9. CASE Confirm
    BY <2>9, <1>ret DEF Confirm, Loaded, lazy, bucket
  <2>10. CASE Complete
    BY <2>10, <1>ret DEF Complete, Loaded, lazy, bucket
  <2>11. CASE EraseRead
    BY <2>11, <1>ret DEF EraseRead, Goto, Location, cache, lazy
  <2>12. CASE EraseDelete
    BY <2>12, <1>ret DEF EraseDelete, cache, lazy
  <2> QED BY <1>3, <2>1, <2>2, <2>3, <2>4, <2>5, <2>6, <2>7, <2>8, <2>9, <2>10, <2>11, <2>12 DEF HandlerStep
<1>4. CASE OtherWrites
  <2>1. clock' \in Time /\ \A e \in BOOLEAN : [time |-> clock + 1, exists |-> e, own |-> FALSE] \in Record
    BY <1>4 DEF OtherWrites, Time, Record
  <2> QED BY <1>4, <2>1, <1>store DEF OtherWrites, cache, lazy
<1>5. CASE Superseded
  BY <1>5 DEF Superseded, cache, lazy
<1>6. CASE Restart
  BY <1>6, <1>again DEF Restart
<1> QED BY <1>1, <1>2, <1>3, <1>4, <1>5, <1>6 DEF Next

-----------------------------------------------------------------------------
(* The recorded times *)

Data == ValuesRecorded /\ ArgsRecorded /\ TimesPassed /\ ArgsFresh /\ NeededHasTime

\* A step that writes no record, reads no time and stores no value.
LEMMA DataKept ==
    ASSUME IInv, TypeOK',
           \A n \in StoreValue : Same(value'[n], value[n]),
           \A g \in Goroutine : arg'[g] = arg[g] \/ arg'[g] = NoArg,
           written' = written, clock' = clock, batch' = batch \/ batch' = None
    PROVE  Data'
<1> USE DEF IInv, Same
<1>1. ValuesRecorded'
  BY DEF ValuesRecorded, Recorded
<1>2. ArgsRecorded'
  BY DEF ArgsRecorded, Recorded, NoArg
<1>3. TimesPassed'
  <2>1. NoArg.time <= clock
    BY BoundTypes DEF NoArg, TypeOK, Time
  <2>2. \A n \in StoreValue : value'[n].time <= clock'
    BY DEF TimesPassed
  <2>3. \A h \in Goroutine : arg'[h].time <= clock'
    BY <2>1 DEF TimesPassed
  <2> QED BY <2>2, <2>3 DEF TimesPassed
<1>4. ArgsFresh'
  BY DEF ArgsFresh, NoArg
<1>5. NeededHasTime'
  BY DEF NeededHasTime
<1> QED BY <1>1, <1>2, <1>3, <1>4, <1>5 DEF Data

\* A step that takes a record of the bucket as its argument.
LEMMA DataTaken ==
    ASSUME IInv, TypeOK', NEW g \in Goroutine, NEW a \in Argument,
           ~a.needed, \E w \in written : w.time = a.time /\ w.exists = a.exists,
           arg' = [arg EXCEPT ![g] = a],
           UNCHANGED <<value, written, clock, batch>>
    PROVE  Data'
<1> USE DEF IInv
<1>1. ValuesRecorded'
  BY DEF ValuesRecorded, Recorded
<1>2. ArgsRecorded'
  BY DEF ArgsRecorded, Recorded, TypeOK
<1>3. TimesPassed'
  BY DEF TimesPassed, TypeOK
<1>4. ArgsFresh'
  BY DEF ArgsFresh, TypeOK
<1>5. NeededHasTime'
  BY DEF NeededHasTime
<1> QED BY <1>1, <1>2, <1>3, <1>4, <1>5 DEF Data

\* A goroutine stores its argument in a StoreValue and returns.
LEMMA DataStored ==
    ASSUME IInv, TypeOK', NEW g \in Goroutine, NEW n \in StoreValue, NEW v \in Node,
           v.time = arg[g].time, v.needed = arg[g].needed,
           ~v.needed => v.exists = arg[g].exists,
           value' = [value EXCEPT ![n] = v],
           arg' = [arg EXCEPT ![g] = NoArg],
           UNCHANGED <<written, clock, batch, lazyValue>>
    PROVE  Data' /\ BatchMatches'
<1> USE DEF IInv
<1>0. \A m \in StoreValue : value'[m] = IF m = n THEN v ELSE value[m]
  BY DEF TypeOK
<1>00. \A h \in Goroutine : arg'[h] = IF h = g THEN NoArg ELSE arg[h]
  BY DEF TypeOK
<1>1. ValuesRecorded'
  BY <1>0 DEF ValuesRecorded, ArgsRecorded, Recorded
<1>2. ArgsRecorded'
  <2>1. NoArg.time = 0
    BY DEF NoArg
  <2>2. \A h \in Goroutine : arg'[h].time > 0 => arg'[h] = arg[h]
    BY <1>00, <2>1
  <2> QED BY <2>2 DEF ArgsRecorded, Recorded
<1>3. TimesPassed'
  BY <1>0, <1>00 DEF TimesPassed, NoArg, TypeOK, Time
<1>4. ArgsFresh'
  BY <1>0, <1>00 DEF ArgsFresh, NoArg
<1>5. NeededHasTime'
  BY <1>0 DEF NeededHasTime, ArgsFresh
<1>6. BatchMatches'
  BY <1>0 DEF BatchMatches, ArgsFresh, Loaded
<1> QED BY <1>1, <1>2, <1>3, <1>4, <1>5, <1>6 DEF Data

\* The bucket takes a record nobody still has to store the value of.
LEMMA DataWritten ==
    ASSUME IInv, TypeOK', NEW e \in Record, Store(e),
           \A c \in Goroutine : arg[c].needed => arg[c].time # e.time,
           clock' \in Nat, clock' >= clock, e.time <= clock',
           UNCHANGED <<value, arg, batch>>
    PROVE  Data' /\ BucketRecorded'
<1> USE DEF IInv
<1>1. written' = written \cup {e}
  BY DEF Store
<1>2. ValuesRecorded'
  BY <1>1 DEF ValuesRecorded, Recorded
<1>3. ArgsRecorded'
  BY <1>1 DEF ArgsRecorded, Recorded
<1>4. TimesPassed'
  BY <1>1 DEF TimesPassed, TypeOK, Time, Node, Argument, Record
<1>5. ArgsFresh'
  BY <1>1 DEF ArgsFresh
<1>6. NeededHasTime'
  BY DEF NeededHasTime
<1>7. BucketRecorded'
  <2>1. \A i \in 1 .. Len(updates') : updates'[i] = e \/ (i \in 1 .. Len(updates) /\ updates'[i] = updates[i])
    BY DEF Store, TypeOK
  <2> QED BY <2>1, <1>1 DEF BucketRecorded, Store
<1> QED BY <1>2, <1>3, <1>4, <1>5, <1>6, <1>7 DEF Data

-----------------------------------------------------------------------------
(* Every step keeps IInv. *)

\* Where a goroutine is when it holds a StoreValue, and what it is storing.
Located ==
    \A g \in Goroutine :
        pc[g] \in {"setPut", "deleteCheck", "deletePut", "confirm", "complete"} =>
            target[g] \in StoreValue

\* What is left of the watch after the handler received its first entry.
LEMMA UpdatesKept ==
    ASSUME TypeOK, updates' = updates \/ (updates # <<>> /\ updates' = Tail(updates))
    PROVE  \A i \in 1 .. Len(updates') : \E j \in 1 .. Len(updates) : updates'[i] = updates[j]
BY DEF TypeOK

\* A step of a client or the handler that writes no record and stores no value.
LEMMA Kept ==
    ASSUME IInv, TypeOK',
           \A n \in StoreValue : Same(value'[n], value[n]),
           \A g \in Goroutine : arg'[g] = arg[g] \/ arg'[g] = NoArg,
           UNCHANGED <<lazy, written, clock>>, kv' = kv \/ kv' = None,
           updates' = updates \/ (updates # <<>> /\ updates' = Tail(updates)),
           ArgsFit', Located'
    PROVE  IInv'
<1> USE DEF IInv
<1>1. Data'
  BY DataKept DEF lazy
<1>2. BucketRecorded'
  BY UpdatesKept DEF BucketRecorded
<1>3. BatchMatches' /\ ClearRecorded'
  BY DEF BatchMatches, ClearRecorded, Bytes, lazy, Same, Loaded
<1>4. Loaded'
  BY DEF Loaded, Located, lazy
<1> QED BY <1>1, <1>2, <1>3, <1>4 DEF Data

\* The same for a step that stores the argument of a goroutine.
LEMMA Stored ==
    ASSUME IInv, TypeOK', NEW g \in Goroutine, NEW n \in StoreValue, NEW v \in Node,
           v.time = arg[g].time, v.needed = arg[g].needed,
           ~v.needed => v.exists = arg[g].exists,
           value' = [value EXCEPT ![n] = v],
           Return(g), UNCHANGED <<lazy, bucket, clock>>
    PROVE  IInv'
<1> USE DEF IInv
<1>1. Data' /\ BatchMatches'
  BY DataStored DEF Return, lazy, bucket
<1>2. BucketRecorded' /\ ClearRecorded'
  BY DEF BucketRecorded, ClearRecorded, Bytes, lazy, bucket
<1>3. \A h \in Goroutine :
          /\ pc'[h] = IF h = g THEN "idle" ELSE pc[h]
          /\ h # g => target'[h] = target[h] /\ arg'[h] = arg[h]
  BY DEF Return, Goto, TypeOK
<1>4. ArgsFit'
  BY <1>3 DEF ArgsFit
<1>5. Loaded'
  BY <1>3 DEF Loaded, lazy
<1> QED BY <1>1, <1>2, <1>4, <1>5 DEF Data

\* A goroutine that returns stores and holds nothing.
LEMMA Returned ==
    ASSUME IInv, NEW g \in Goroutine, Return(g)
    PROVE  /\ ArgsFit' /\ Located'
           /\ \A h \in Goroutine : arg'[h] = arg[h] \/ arg'[h] = NoArg
<1>1. \A h \in Goroutine :
          /\ pc'[h] = IF h = g THEN "idle" ELSE pc[h]
          /\ h # g => target'[h] = target[h] /\ arg'[h] = arg[h]
          /\ h = g => arg'[h] = NoArg
  BY DEF Return, Goto, IInv, TypeOK
<1> QED BY <1>1 DEF ArgsFit, Located, Loaded, IInv

\* A goroutine that goes on to another place, with what is needed there.
LEMMA Moved ==
    ASSUME IInv, NEW g \in Goroutine, NEW l \in Location, Goto(g, l),
           arg' = arg, NEW t, target' = [target EXCEPT ![g] = t],
           l \in {"setLoad", "setPut", "setStore", "setAbsent"} => arg[g].exists,
           l \in {"deleteLoad", "deleteCheck", "deletePut"} => arg[g].needed,
           l \in {"setPut", "deleteCheck", "deletePut", "confirm", "complete"} =>
               t \in StoreValue
    PROVE  /\ ArgsFit' /\ Located'
           /\ \A h \in Goroutine : arg'[h] = arg[h] \/ arg'[h] = NoArg
<1>1. \A h \in Goroutine :
          /\ pc'[h] = IF h = g THEN l ELSE pc[h]
          /\ target'[h] = IF h = g THEN t ELSE target[h]
  BY DEF Goto, IInv, TypeOK
<1> QED BY <1>1 DEF ArgsFit, Located, Loaded, IInv

\* A goroutine keeps what it has loaded when it does not say otherwise.
LEMMA TargetKept ==
    ASSUME TypeOK, NEW g \in Goroutine, target' = target
    PROVE  target' = [target EXCEPT ![g] = target[g]]
BY DEF TypeOK

-----------------------------------------------------------------------------
(* The actions *)

LEMMA AgainStep ==
    ASSUME IInv, TypeOK', StartAgain
    PROVE  IInv'
<1> USE BoundTypes DEF IInv
<1>1. \A n \in StoreValue : value'[n].time = 0 /\ ~value'[n].needed
  BY DEF StartAgain, Blank
<1>2. \A g \in Goroutine : arg'[g].time = 0 /\ ~arg'[g].needed /\ pc'[g] = "idle"
  BY DEF StartAgain, NoArg
<1>3. clock' = clock /\ written' = written /\ batch' = None /\ lazyPc' = "idle" /\ kv' = kv
  BY DEF StartAgain
<1>4. ValuesRecorded' /\ NeededHasTime'
  BY <1>1 DEF ValuesRecorded, NeededHasTime
<1>5. ArgsRecorded' /\ ArgsFresh' /\ ArgsFit'
  BY <1>2 DEF ArgsRecorded, ArgsFresh, ArgsFit
<1>6. TimesPassed'
  <2>1. 0 <= clock
    BY DEF TypeOK, Time
  <2> QED BY <1>1, <1>2, <1>3, <2>1 DEF TimesPassed
<1>7. BatchMatches' /\ ClearRecorded' /\ Loaded'
  BY <1>2, <1>3 DEF BatchMatches, ClearRecorded, Loaded
<1>8. BucketRecorded'
  BY <1>3 DEF BucketRecorded, StartAgain
<1> QED BY <1>4, <1>5, <1>6, <1>7, <1>8

\* A call takes a time that nobody has.
LEMMA CallStep ==
    ASSUME IInv, TypeOK', NEW c \in Client,
           NEW l \in {"setLoad", "setAbsent", "deleteLoad"}, Call(c, l)
    PROVE  IInv'
<1> USE DEF IInv
<1> DEFINE a == [time |-> clock + 1, exists |-> TRUE, needed |-> TRUE]
<1>1. /\ c \in Goroutine /\ clock \in Nat /\ clock' = clock + 1
      /\ a.time = clock + 1 /\ a.needed /\ a.exists
      /\ UNCHANGED <<value, lazyPc, lazyValue, batch, kv, updates, written, target>>
  BY DEF Call, Goroutine, TypeOK, Time, cache, lazy, bucket
<1>2. \A h \in Goroutine : /\ arg'[h] = IF h = c THEN a ELSE arg[h]
                           /\ pc'[h] = IF h = c THEN l ELSE pc[h]
  BY <1>1 DEF Call, Goto, TypeOK
<1> HIDE DEF a
<1>3. /\ \A n \in StoreValue : value[n].time \in Nat /\ value[n].time <= clock
      /\ \A h \in Goroutine : arg[h].time \in Nat /\ arg[h].time <= clock
      /\ \A w \in written : w.time \in Nat /\ w.time <= clock
      /\ batch # None => batch.time \in Nat /\ batch.time <= clock
  BY DEF TypeOK, Node, Argument, Record, Time, TimesPassed
<1>4. ValuesRecorded' /\ NeededHasTime'
  BY <1>1 DEF ValuesRecorded, NeededHasTime, Recorded
<1>5. ArgsRecorded'
  BY <1>1, <1>2 DEF ArgsRecorded, Recorded
<1>6. TimesPassed'
  BY <1>1, <1>2, <1>3 DEF TimesPassed
<1>7. ArgsFresh'
  <2>1. ASSUME NEW h \in Goroutine, arg'[h].needed, h # c
        PROVE  /\ arg'[h].time > 0
               /\ \A n \in StoreValue : value'[n].time # arg'[h].time
               /\ \A g \in Goroutine \ {h} : arg'[g].time # arg'[h].time
               /\ \A w \in written' : w.time # arg'[h].time
               /\ batch' # None => batch'.time # arg'[h].time
    BY <2>1, <1>1, <1>2, <1>3 DEF ArgsFresh
  <2>2. /\ arg'[c].time > 0
        /\ \A n \in StoreValue : value'[n].time # arg'[c].time
        /\ \A g \in Goroutine \ {c} : arg'[g].time # arg'[c].time
        /\ \A w \in written' : w.time # arg'[c].time
        /\ batch' # None => batch'.time # arg'[c].time
    BY <1>1, <1>2, <1>3
  <2> QED BY <2>1, <2>2 DEF ArgsFresh
<1>8. BucketRecorded' /\ BatchMatches' /\ ClearRecorded'
  BY <1>1 DEF BucketRecorded, BatchMatches, ClearRecorded, Bytes
<1>9. ArgsFit' /\ Loaded'
  BY <1>1, <1>2 DEF ArgsFit, Loaded
<1> QED BY <1>4, <1>5, <1>6, <1>7, <1>8, <1>9

\* A record of the bucket becomes the argument of a goroutine.
LEMMA TakenStep ==
    ASSUME IInv, TypeOK', NEW g \in Goroutine, NEW w \in written,
           NEW l \in {"setLoad", "compare"}, Goto(g, l), l = "setLoad" => w.exists,
           arg' = [arg EXCEPT ![g] = [time |-> w.time, exists |-> w.exists, needed |-> FALSE]],
           NEW t, target' = [target EXCEPT ![g] = t],
           UNCHANGED <<cache, lazy, kv, written, clock>>,
           updates' = updates \/ (updates # <<>> /\ updates' = Tail(updates))
    PROVE  IInv'
<1> USE DEF IInv
<1> DEFINE a == [time |-> w.time, exists |-> w.exists, needed |-> FALSE]
<1>1. a \in Argument /\ ~a.needed /\ a.time = w.time /\ a.exists = w.exists
  BY DEF TypeOK, Record, Argument
<1>2. arg' = [arg EXCEPT ![g] = a]
  OBVIOUS
<1> HIDE DEF a
<1>3. Data'
  BY <1>1, <1>2, DataTaken DEF cache, lazy
<1>4. \A h \in Goroutine : /\ pc'[h] = IF h = g THEN l ELSE pc[h]
                           /\ arg'[h] = IF h = g THEN a ELSE arg[h]
                           /\ h # g => target'[h] = target[h]
  BY <1>2 DEF Goto, TypeOK
<1>5. ArgsFit' /\ Loaded'
  BY <1>1, <1>4 DEF ArgsFit, Loaded, lazy
<1>6. BucketRecorded'
  BY UpdatesKept DEF BucketRecorded
<1>7. BatchMatches' /\ ClearRecorded'
  BY DEF BatchMatches, ClearRecorded, Bytes, cache, lazy
<1> QED BY <1>3, <1>5, <1>6, <1>7 DEF Data

\* The steps of SetValue, of a client or of the handler.
LEMMA SetStep ==
    ASSUME IInv, TypeOK', NEW g \in Goroutine, SetLoad(g) \/ SetPut(g) \/ SetStore(g)
    PROVE  IInv'
<1> USE DEF IInv
<1>1. CASE SetLoad(g)
  <2>1. ArgsFit' /\ Located' /\ \A h \in Goroutine : arg'[h] = arg[h] \/ arg'[h] = NoArg
    <3>1. arg[g].exists
      BY <1>1 DEF SetLoad, ArgsFit
    <3>2. CASE child = None
      BY <1>1, <3>1, <3>2, Moved DEF SetLoad, Location
    <3>3. CASE child # None
      BY <1>1, <3>1, <3>3, Moved DEF SetLoad, Location, TypeOK
    <3> QED BY <3>2, <3>3
  <2> QED BY <1>1, <2>1, Kept DEF SetLoad, Same, cache, bucket
<1>2. CASE SetPut(g)
  <2>1. Put(arg[g]) \in Node /\ target[g] \in StoreValue /\ arg[g].exists
    BY <1>2, NodeOperators DEF SetPut, TypeOK, Loaded, ArgsFit
  <2> QED BY <1>2, <2>1, Stored DEF SetPut, Put
<1>3. CASE SetStore(g)
  <2>1. Put(arg[g]) \in Node /\ NewValue \in StoreValue /\ arg[g].exists
    BY <1>3, NodeOperators DEF SetStore, StoreChild, TypeOK, ArgsFit, NewValue, Unused
  <2> QED BY <1>3, <2>1, Stored DEF SetStore, StoreChild, Put
<1> QED BY <1>1, <1>2, <1>3

-----------------------------------------------------------------------------
(* The clients, the lazy writer, the handler and the bucket *)

LEMMA ClientStepKeeps ==
    ASSUME IInv, TypeOK', NEW c \in Client, ClientStep(c)
    PROVE  IInv'
<1> USE DEF IInv
<1>c. c \in Goroutine
  BY DEF Goroutine
<1>1. CASE SetCall(c) \/ DeleteCall(c)
  BY <1>1, CallStep DEF SetCall, DeleteCall
<1>2. CASE SetLoad(c) \/ SetPut(c) \/ SetStore(c)
  BY <1>2, <1>c, SetStep
<1>3. CASE SetAbsent(c)
  <2>1. Put(arg[c]) \in Node /\ arg[c].exists
    BY <1>3, <1>c, NodeOperators DEF SetAbsent, TypeOK, ArgsFit
  <2>2. CASE child = None /\ StoreChild(c)
    <3>1. NewValue \in StoreValue
      BY <2>2 DEF StoreChild, NewValue, Unused
    <3> QED BY <1>3, <1>c, <2>1, <2>2, <3>1, Stored DEF SetAbsent, StoreChild, Put
  <2>3. CASE child # None /\ value' = [value EXCEPT ![child] = Put(arg[c])]
    BY <1>3, <1>c, <2>1, <2>3, Stored DEF SetAbsent, Put, TypeOK
  <2>4. CASE UNCHANGED cache
    BY <1>3, <1>c, <2>4, Returned, Kept DEF SetAbsent, Same, cache, bucket
  <2> QED BY <1>3, <2>2, <2>3, <2>4 DEF SetAbsent
<1>4. CASE DeleteLoad(c)
  <2>1. ArgsFit' /\ Located' /\ \A h \in Goroutine : arg'[h] = arg[h] \/ arg'[h] = NoArg
    <3>1. CASE child = None /\ Return(c)
      BY <3>1, <1>c, Returned
    <3>2. CASE child # None /\ target' = [target EXCEPT ![c] = child]
               /\ Goto(c, "deleteCheck") /\ UNCHANGED arg
      BY <1>4, <3>2, <1>c, Moved DEF DeleteLoad, ArgsFit, Location, TypeOK
    <3> QED BY <1>4, <3>1, <3>2 DEF DeleteLoad
  <2> QED BY <1>4, <2>1, Kept DEF DeleteLoad, Same, cache, bucket
<1>5. CASE DeleteCheck(c)
  <2>1. ArgsFit' /\ Located' /\ \A h \in Goroutine : arg'[h] = arg[h] \/ arg'[h] = NoArg
    <3>1. CASE Return(c)
      BY <3>1, <1>c, Returned
    <3>2. CASE Goto(c, "deletePut") /\ UNCHANGED <<target, arg>>
      <4>1. target[c] \in StoreValue /\ arg[c].needed
        BY <1>5, <1>c DEF DeleteCheck, Loaded, ArgsFit
      <4> QED BY <3>2, <4>1, <1>c, Moved, TargetKept DEF Location
    <3> QED BY <1>5, <3>1, <3>2 DEF DeleteCheck
  <2> QED BY <1>5, <2>1, Kept DEF DeleteCheck, Same, cache, bucket
<1>6. CASE DeletePut(c)
  <2> DEFINE v == [time |-> arg[c].time, exists |-> FALSE, needed |-> TRUE,
                   synced |-> FALSE, purge |-> 1]
  <2>1. v \in Node /\ v.time = arg[c].time /\ v.needed
    BY <1>c DEF TypeOK, Node, Argument
  <2>2. arg[c].needed /\ target[c] \in StoreValue
    BY <1>6, <1>c DEF DeletePut, Loaded, ArgsFit
  <2>3. value' = [value EXCEPT ![target[c]] = v] /\ Return(c) /\ UNCHANGED <<lazy, bucket, clock>>
    BY <1>6 DEF DeletePut
  <2>4. v.needed = arg[c].needed
    BY <2>1, <2>2 DEF TypeOK, Argument
  <2> HIDE DEF v
  <2> QED BY <1>c, <2>1, <2>2, <2>3, <2>4, Stored
<1>7. CASE GetCall(c)
  <2>1. ArgsFit' /\ Located' /\ \A h \in Goroutine : arg'[h] = arg[h] \/ arg'[h] = NoArg
    BY <1>7, <1>c, Moved, TargetKept DEF GetCall, Location
  <2> QED BY <1>7, <2>1, Kept DEF GetCall, Same, cache, bucket
<1>8. CASE GetFromKV(c)
  <2>1. CASE ~InKV
    BY <1>8, <2>1, <1>c, Returned, Kept DEF GetFromKV, Same, cache, bucket
  <2>2. CASE InKV
    <3>1. kv \in written /\ kv.exists
      BY <2>2 DEF InKV, BucketRecorded
    <3>2. kv.exists = TRUE
      BY <3>1 DEF TypeOK, Record
    <3>3. arg' = [arg EXCEPT ![c] = [time |-> kv.time, exists |-> kv.exists, needed |-> FALSE]]
      BY <1>8, <2>2, <3>2 DEF GetFromKV
    <3> QED BY <1>8, <2>2, <1>c, <3>1, <3>3, TakenStep, TargetKept DEF GetFromKV, bucket
  <2> QED BY <2>1, <2>2
<1>9. CASE GetPanics(c)
  BY <1>9, AgainStep DEF GetPanics
<1> QED BY <1>1, <1>2, <1>3, <1>4, <1>5, <1>6, <1>7, <1>8, <1>9 DEF ClientStep

-----------------------------------------------------------------------------
(* The lazy writer *)

\* The writer moves on, and may forget what it put.
LEMMA LazyKept ==
    ASSUME IInv, TypeOK', \A n \in StoreValue : Same(value'[n], value[n]),
           UNCHANGED <<pc, target, arg, bucket, clock>>,
           lazyPc' # "clear", lazyPc' # "idle" => lazyValue' \in StoreValue,
           \/ UNCHANGED <<lazyValue, batch>>
           \/ batch' = None
    PROVE  IInv'
<1> USE DEF IInv
<1>1. Data'
  BY DataKept DEF bucket
<1>2. BucketRecorded' /\ ArgsFit' /\ ClearRecorded'
  BY DEF BucketRecorded, ArgsFit, ClearRecorded, bucket
<1>3. BatchMatches'
  BY DEF BatchMatches, Same, Loaded
<1>4. Loaded'
  BY DEF Loaded
<1> QED BY <1>1, <1>2, <1>3, <1>4 DEF Data

\* The record the writer puts is nobody's argument.
LEMMA LazyWritten ==
    ASSUME IInv, TypeOK', LazyStore,
           UNCHANGED <<value, pc, target, arg, lazyValue, batch, clock>>, lazyPc' # "idle",
           lazyPc = "put"
    PROVE  IInv'
<1> USE DEF IInv
<1>1. Bytes \in Record /\ Store(Bytes)
  BY NodeOperators DEF Bytes, LazyStore, TypeOK
<1>2. \A c \in Goroutine : arg[c].needed => arg[c].time # Bytes.time
  BY DEF ArgsFresh, Bytes, EmptyRecord
<1>3. clock \in Nat /\ Bytes.time <= clock
  <2>1. clock \in Nat
    BY BoundTypes DEF TypeOK, Time
  <2> QED BY <2>1 DEF TimesPassed, Bytes, EmptyRecord
<1>4. Data' /\ BucketRecorded'
  BY <1>1, <1>2, <1>3, DataWritten
<1>5. BatchMatches' /\ ArgsFit' /\ Loaded'
  BY DEF BatchMatches, ArgsFit, Loaded
<1>6. ClearRecorded'
  BY <1>1 DEF ClearRecorded, Store, Bytes
<1> QED BY <1>4, <1>5, <1>6 DEF Data

LEMMA LazyStepKeeps ==
    ASSUME IInv, TypeOK', LazyStep
    PROVE  IInv'
<1> USE DEF IInv
<1>1. CASE LazyRead
  <2>1. PICK n \in EvictOrNot(value[child]) : value' = [value EXCEPT ![child] = n]
    BY <1>1 DEF LazyRead
  <2>2. child \in StoreValue /\ value[child] \in Node
    BY <1>1 DEF LazyRead, TypeOK
  <2>3. Same(n, value[child])
    BY <2>1, <2>2, NodeOperators
  <2>4. \A m \in StoreValue : Same(value'[m], value[m])
    BY <2>1, <2>2, <2>3 DEF Same, TypeOK
  <2>5. CASE ~value[child].needed
    <3>1. batch' = None
      BY <1>1, <2>5 DEF LazyRead
    <3> QED BY <1>1, <2>2, <2>4, <3>1, LazyKept DEF LazyRead
  <2>6. CASE value[child].needed
    <3>1. value' = value
      BY <2>1, <2>2, <2>6 DEF EvictOrNot, TypeOK
    <3>2. /\ batch'.time = value[child].time /\ batch'.exists = value[child].exists
          /\ lazyValue' = child /\ lazyPc' = "recheck"
          /\ UNCHANGED <<pc, target, arg, kv, updates, written, clock>>
      BY <1>1, <2>6 DEF LazyRead, bucket
    <3>3. ValuesRecorded' /\ ArgsRecorded' /\ NeededHasTime' /\ BucketRecorded' /\ ArgsFit'
      BY <3>1, <3>2 DEF ValuesRecorded, ArgsRecorded, NeededHasTime, BucketRecorded, Recorded,
                        ArgsFit
    <3>4. TimesPassed'
      BY <2>2, <3>1, <3>2 DEF TimesPassed
    <3>5. ArgsFresh'
      BY <2>2, <3>1, <3>2 DEF ArgsFresh
    <3>6. BatchMatches' /\ ClearRecorded'
      BY <3>1, <3>2 DEF BatchMatches, ClearRecorded
    <3>7. Loaded'
      BY <2>2, <3>2 DEF Loaded
    <3> QED BY <3>3, <3>4, <3>5, <3>6, <3>7
  <2> QED BY <2>5, <2>6
<1>2. CASE LazyRecheck
  BY <1>2, LazyKept DEF LazyRecheck, Loaded, Same, cache
<1>3. CASE LazyPut
  BY <1>3, LazyWritten DEF LazyPut, cache
<1>4. CASE LazyPutFails
  <2>1. CASE LazyStore
    BY <1>4, <2>1, LazyWritten DEF LazyPutFails, cache
  <2>2. CASE UNCHANGED <<bucket, own>>
    BY <1>4, <2>2, LazyKept DEF LazyPutFails, Loaded, Same, cache
  <2> QED BY <1>4, <2>1, <2>2 DEF LazyPutFails
<1>5. CASE LazyClear
  <2> DEFINE n == value[lazyValue]
             b == n.needed /\ Bytes.time # n.time
  <2>1. lazyValue \in StoreValue /\ n \in Node
    BY <1>5 DEF LazyClear, Loaded, TypeOK
  <2>2. \A m \in StoreValue : m # lazyValue => value'[m] = value[m]
    BY <1>5, <2>1 DEF LazyClear, TypeOK
  <2>3. /\ value'[lazyValue].time = n.time /\ value'[lazyValue].exists = n.exists
        /\ value'[lazyValue].needed = b
    BY <1>5, <2>1 DEF LazyClear, TypeOK, Node
  <2>4. UNCHANGED <<pc, target, arg, lazyValue, batch, kv, updates, written, clock>>
        /\ lazyPc' = "collect"
    BY <1>5 DEF LazyClear, bucket
  <2>5. n.needed /\ ~b => Recorded(n.time, n.exists)
    <3>1. SUFFICES ASSUME n.needed, Bytes.time = n.time PROVE Recorded(n.time, n.exists)
      OBVIOUS
    <3>2. n.time > 0
      BY <2>1, <3>1 DEF NeededHasTime
    <3>3. batch # None /\ Bytes = batch
      BY <3>1, <3>2 DEF Bytes, EmptyRecord
    <3>4. batch.exists = n.exists /\ Bytes \in written
      BY <1>5, <3>1, <3>3 DEF BatchMatches, ClearRecorded, LazyClear
    <3> QED BY <3>1, <3>3, <3>4 DEF Recorded
  <2> HIDE DEF n, b
  <2>n. n = value[lazyValue] /\ (b => n.needed)
    BY DEF n, b
  <2>6. ValuesRecorded'
    <3>1. \A t, e : Recorded(t, e) => Recorded(t, e)'
      BY <2>4 DEF Recorded
    <3> QED BY <2>1, <2>2, <2>3, <2>4, <2>5, <2>n, <3>1 DEF ValuesRecorded, Recorded
  <2>7. ArgsRecorded' /\ BucketRecorded' /\ ArgsFit' /\ Loaded' /\ ClearRecorded'
    BY <2>1, <2>4 DEF ArgsRecorded, BucketRecorded, ArgsFit, Recorded, Loaded, ClearRecorded
  <2>8. TimesPassed' /\ NeededHasTime'
    BY <2>1, <2>2, <2>3, <2>4, <2>n DEF TimesPassed, NeededHasTime
  <2>9. ArgsFresh'
    BY <2>1, <2>2, <2>3, <2>4, <2>n DEF ArgsFresh
  <2>10. BatchMatches'
    BY <2>1, <2>3, <2>4, <2>n DEF BatchMatches
  <2> QED BY <2>6, <2>7, <2>8, <2>9, <2>10
<1>6. CASE CollectCheck
  <2>1. lazyValue \in StoreValue
    BY <1>6 DEF CollectCheck, Loaded
  <2>2. \A m \in StoreValue : Same(value'[m], value[m])
    BY <1>6, <2>1, NodeOperators DEF CollectCheck, Same, TypeOK
  <2> QED BY <1>6, <2>1, <2>2, LazyKept DEF CollectCheck, LazyDone
<1>7. CASE CollectDetach
  BY <1>7, LazyKept DEF CollectDetach, LazyDone, Same
<1> QED BY <1>1, <1>2, <1>3, <1>4, <1>5, <1>6, <1>7 DEF LazyStep

-----------------------------------------------------------------------------
(* The update handler and the bucket *)

\* What the handler confirms keeps its time, its existence and its need.
LEMMA ConfirmedIsSame ==
    ASSUME IInv, Confirm \/ Complete
    PROVE  \A n \in StoreValue : Same(value'[n], value[n])
<1> DEFINE v == value[target[Handler]]
           s == [v EXCEPT !.synced = TRUE]
<1>0. target[Handler] \in StoreValue
  BY DEF Confirm, Complete, IInv, Loaded, Goroutine
<1>1. v \in Node /\ s \in Node /\ Same(s, v)
  BY <1>0, NodeOperators DEF IInv, TypeOK
<1>2. /\ PurgeReady(s) \in Node /\ Same(PurgeConfirm(s), v)
      /\ Same(PurgeConfirm(PurgeReady(s)), v)
  <2> HIDE DEF v, s
  <2>1. PurgeReady(s) \in Node /\ Same(PurgeReady(s), s) /\ Same(PurgeConfirm(s), s)
    BY <1>1, NodeOperators
  <2>2. Same(PurgeConfirm(PurgeReady(s)), PurgeReady(s))
    BY <2>1, NodeOperators
  <2> QED BY <1>1, <2>1, <2>2 DEF Same
<1>3. \/ value' = [value EXCEPT ![target[Handler]] = PurgeConfirm(s)]
      \/ value' = [value EXCEPT ![target[Handler]] = PurgeConfirm(PurgeReady(s))]
  BY DEF Confirm, Complete
<1> HIDE DEF s
<1> QED BY <1>0, <1>2, <1>3 DEF Same, IInv, TypeOK

LEMMA HandlerStepKeeps ==
    ASSUME IInv, TypeOK', HandlerStep
    PROVE  IInv'
<1> USE DEF IInv
<1>h. Handler \in Goroutine
  BY DEF Goroutine
<1>0. updates # <<>> /\ Head(updates) # None => Head(updates) \in written
  <2>1. updates # <<>> => 1 \in 1 .. Len(updates) /\ Head(updates) = updates[1]
    BY DEF TypeOK
  <2> QED BY <2>1 DEF BucketRecorded
<1>1. CASE ReceiveEnd
  <2>1. ArgsFit' /\ Located'
    BY <1>1 DEF ReceiveEnd, ArgsFit, Located, Loaded
  <2> QED BY <1>1, <2>1, Kept DEF ReceiveEnd, Receive, Same, cache
<1>2. CASE ReceiveRecord
  <2> DEFINE w == Head(updates)
  <2>1. w \in written
    BY <1>0, <1>2 DEF ReceiveRecord, Receive
  <2> QED BY <1>2, <1>h, <2>1, TakenStep DEF ReceiveRecord, Receive
<1>3. CASE ReceiveEmpty
  <2>1. CASE child = None
    <3>1. ArgsFit' /\ Located' /\ \A h \in Goroutine : arg'[h] = arg[h] \/ arg'[h] = NoArg
      BY <1>3, <2>1, <1>h, Moved DEF ReceiveEmpty, Location
    <3> QED BY <1>3, <3>1, Kept DEF ReceiveEmpty, Receive, Same, cache
  <2>2. CASE child # None
    <3>1. ArgsFit' /\ Located' /\ \A h \in Goroutine : arg'[h] = arg[h] \/ arg'[h] = NoArg
      BY <1>3, <2>2, <1>h, Moved DEF ReceiveEmpty, Location, TypeOK
    <3> QED BY <1>3, <3>1, Kept DEF ReceiveEmpty, Receive, Same, cache
  <2> QED BY <2>1, <2>2
<1>4. CASE Compare
  <2>1. ArgsFit' /\ Located' /\ \A h \in Goroutine : arg'[h] = arg[h] \/ arg'[h] = NoArg
    <3>1. CASE Return(Handler)
      BY <3>1, <1>h, Returned
    <3>2. ASSUME NEW l \in {"setLoad", "erase", "confirmLoad"}, Goto(Handler, l),
                 l = "setLoad" => arg[Handler].exists,
                 target' = [target EXCEPT ![Handler] = None], UNCHANGED arg
          PROVE  ArgsFit' /\ Located' /\ \A h \in Goroutine : arg'[h] = arg[h] \/ arg'[h] = NoArg
      BY <3>2, <1>h, Moved DEF Location
    <3> QED BY <1>4, <3>1, <3>2 DEF Compare
  <2> QED BY <1>4, <2>1, Kept DEF Compare, Same, cache, bucket
<1>5. CASE SetLoad(Handler) \/ SetPut(Handler) \/ SetStore(Handler)
  BY <1>5, <1>h, SetStep
<1>6. CASE ConfirmLoad
  <2>1. ArgsFit' /\ Located' /\ \A h \in Goroutine : arg'[h] = arg[h] \/ arg'[h] = NoArg
    <3>1. CASE Return(Handler)
      BY <3>1, <1>h, Returned
    <3>2. CASE child # None /\ target' = [target EXCEPT ![Handler] = child]
               /\ Goto(Handler, "confirm") /\ UNCHANGED arg
      BY <3>2, <1>h, Moved DEF Location, TypeOK
    <3> QED BY <1>6, <3>1, <3>2 DEF ConfirmLoad
  <2> QED BY <1>6, <2>1, Kept DEF ConfirmLoad, Same, cache, bucket
<1>7. CASE Confirm \/ Complete
  <2>1. target[Handler] \in StoreValue /\ Return(Handler)
    BY <1>7, <1>h DEF Confirm, Complete, Loaded
  <2>2. \A n \in StoreValue : Same(value'[n], value[n])
    BY <1>7, ConfirmedIsSame
  <2> QED BY <1>7, <2>1, <2>2, <1>h, Returned, Kept DEF Confirm, Complete, bucket
<1>8. CASE EraseRead
  <2>1. ArgsFit' /\ Located' /\ \A h \in Goroutine : arg'[h] = arg[h] \/ arg'[h] = NoArg
    <3>1. CASE Return(Handler)
      BY <3>1, <1>h, Returned
    <3>2. CASE Goto(Handler, "eraseDelete") /\ UNCHANGED <<target, arg>>
      BY <3>2, <1>h, Moved, TargetKept DEF Location
    <3> QED BY <1>8, <3>1, <3>2 DEF EraseRead
  <2> QED BY <1>8, <2>1, Kept DEF EraseRead, Same, cache
<1>9. CASE EraseDelete
  BY <1>9, <1>h, Returned, Kept DEF EraseDelete, Same, cache
<1> QED BY <1>1, <1>2, <1>3, <1>4, <1>5, <1>6, <1>7, <1>8, <1>9 DEF HandlerStep

LEMMA OtherStepKeeps ==
    ASSUME IInv, TypeOK', OtherWrites \/ Superseded \/ Restart
    PROVE  IInv'
<1> USE DEF IInv
<1>1. CASE OtherWrites
  <2>1. PICK b \in BOOLEAN : Store([time |-> clock + 1, exists |-> b, own |-> FALSE])
    BY <1>1 DEF OtherWrites
  <2> DEFINE e == [time |-> clock + 1, exists |-> b, own |-> FALSE]
  <2>2. clock \in Nat /\ clock' = clock + 1 /\ clock + 1 \in Time
    BY <1>1, BoundTypes DEF OtherWrites, TypeOK, Time
  <2>3. e \in Record /\ e.time = clock + 1 /\ Store(e)
    BY <2>1, <2>2 DEF Record
  <2> HIDE DEF e
  <2>4. \A c \in Goroutine : arg[c].needed => arg[c].time # e.time
    <3>1. \A c \in Goroutine : arg[c].time <= clock /\ arg[c].time \in Nat
      BY BoundTypes DEF TimesPassed, TypeOK, Argument, Time
    <3> QED BY <2>2, <2>3, <3>1
  <2>5. UNCHANGED <<value, pc, target, arg, lazyPc, lazyValue, batch>>
    BY <1>1 DEF OtherWrites, cache, lazy
  <2>6. Data' /\ BucketRecorded'
    BY <2>2, <2>3, <2>4, <2>5, DataWritten
  <2>7. ArgsFit' /\ BatchMatches' /\ Loaded'
    BY <2>5 DEF ArgsFit, BatchMatches, Loaded
  <2>8. ClearRecorded'
    BY <2>3, <2>5 DEF ClearRecorded, Bytes, Store
  <2> QED BY <2>6, <2>7, <2>8 DEF Data
<1>2. CASE Superseded
  <2>1. ArgsFit' /\ Located'
    BY <1>2 DEF Superseded, ArgsFit, Located, Loaded
  <2> QED BY <1>2, <2>1, Kept DEF Superseded, Same, cache
<1>3. CASE Restart
  BY <1>3, AgainStep DEF Restart
<1> QED BY <1>1, <1>2, <1>3

-----------------------------------------------------------------------------
(* The theorems *)

\* The inductive invariant holds in every reachable state.
LEMMA Inductive == Spec => []IInv
<1>1. Init => IInv
  <2>1. Init => TypeOK
    <3>1. Init => updates \in Seq(Record \cup {None})
      BY SequenceType DEF Init
    <3>2. 0 \in Time
      BY BoundTypes DEF Time
    <3>3. NoArg \in Argument /\ Blank \in Node
      BY NodeOperators
    <3> QED BY <3>1, <3>2, <3>3 DEF Init, TypeOK, Location
  <2>2. Init => ValuesRecorded /\ ArgsRecorded /\ ArgsFit /\ NeededHasTime /\ ArgsFresh
    BY DEF Init, ValuesRecorded, ArgsRecorded, ArgsFit, NeededHasTime, ArgsFresh, Blank, NoArg
  <2>3. Init => TimesPassed /\ BucketRecorded /\ BatchMatches /\ ClearRecorded /\ Loaded
    BY DEF Init, TimesPassed, BucketRecorded, BatchMatches, ClearRecorded, Loaded, Blank, NoArg
  <2> QED BY <2>1, <2>2, <2>3 DEF IInv
<1>2. IInv /\ [Next]_vars => IInv'
  <2>1. IInv /\ UNCHANGED vars => IInv'
    BY DEF IInv, vars, cache, lazy, bucket, TypeOK, ValuesRecorded, ArgsRecorded, ArgsFit,
           BucketRecorded, TimesPassed, ArgsFresh, NeededHasTime, BatchMatches, ClearRecorded,
           Loaded, Recorded, Bytes
  <2>2. ASSUME IInv, Next PROVE IInv'
    <3>1. TypeOK'
      BY <2>2, TypeStep DEF IInv
    <3> QED BY <2>2, <3>1, ClientStepKeeps, LazyStepKeeps, HandlerStepKeeps, OtherStepKeeps DEF Next
  <2> QED BY <2>1, <2>2
<1> QED BY <1>1, <1>2, PTL DEF Spec

\* The state of the cache, of its goroutines and of the bucket stays well typed.
THEOREM TypeCorrect == Spec => []TypeOK
<1>1. IInv => TypeOK
  BY DEF IInv
<1> QED BY <1>1, Inductive, PTL

\* A value of the cache that does not wait for the lazy writer has been in the
\* bucket, with its time and flag: for any number of clients, in spite of
\* failing puts, restarts and other processes.
THEOREM NothingIsTakenForWritten == Spec => []UnneededIsWritten
<1>1. IInv => UnneededIsWritten
  BY DEF IInv, TypeOK, ValuesRecorded, Recorded, UnneededIsWritten
<1> QED BY <1>1, Inductive, PTL

-----------------------------------------------------------------------------
(* One client: its records reach the bucket in the order of its calls      *)

OneClient == \A c, d \in Client : c = d

OwnIsPast == own <= clock

\* A call under way is later than whatever was put or waits to be put.
CallIsLatest ==
    \A c \in Client : arg[c].needed =>
        /\ own < arg[c].time
        /\ batch # None => batch.time < arg[c].time
        /\ \A n \in StoreValue : value[n].needed => value[n].time < arg[c].time

HandlerNeedsNothing == ~arg[Handler].needed

BatchIsNext == batch # None => own <= batch.time

ChildIsNext ==
    child # None /\ value[child].needed =>
        /\ own <= value[child].time
        /\ batch # None => batch.time <= value[child].time

InOrder ==
    OwnIsPast /\ CallIsLatest /\ HandlerNeedsNothing /\ BatchIsNext /\ ChildIsNext

\* Steps after which nothing is needed that was not needed before.
LEMMA OrderKept ==
    ASSUME IInv, InOrder,
           \A n \in StoreValue :
               value'[n].needed => value[n].needed /\ value'[n].time = value[n].time,
           child' # None /\ value'[child'].needed => child' = child,
           \A g \in Goroutine : arg'[g].needed => arg'[g] = arg[g],
           batch' = batch \/ batch' = None, own' = own, clock' \in Nat, clock' >= clock
    PROVE  InOrder' /\ own' >= own
<1> USE DEF InOrder
<1>1. own \in Nat /\ clock \in Nat /\ child \in StoreValue \cup {None} /\ Handler \in Goroutine
      /\ \A c \in Client : c \in Goroutine
  BY BoundTypes DEF IInv, TypeOK, Time, Goroutine
<1>2. OwnIsPast'
  BY <1>1 DEF OwnIsPast
<1>3. CallIsLatest'
  BY <1>1 DEF CallIsLatest
<1>4. HandlerNeedsNothing'
  BY <1>1 DEF HandlerNeedsNothing
<1>5. BatchIsNext'
  BY DEF BatchIsNext
<1>6. ChildIsNext'
  BY <1>1 DEF ChildIsNext
<1> QED BY <1>1, <1>2, <1>3, <1>4, <1>5, <1>6

\* The client stores what it has read the clock for.
LEMMA OrderStored ==
    ASSUME IInv, InOrder, OneClient, NEW c \in Client, arg[c].needed,
           NEW n \in StoreValue, NEW v \in Node, v.time = arg[c].time,
           value' = [value EXCEPT ![n] = v],
           child' = child \/ child' = n, Return(c),
           UNCHANGED <<batch, own, clock>>
    PROVE  InOrder' /\ own' >= own
<1> USE DEF InOrder
<1>1. own \in Nat /\ clock \in Nat /\ child \in StoreValue \cup {None} /\ c \in Goroutine
      /\ Handler \in Goroutine /\ c # Handler
  BY BoundTypes, HandlerIsNoClient DEF IInv, TypeOK, Time, Goroutine
<1>2. \A m \in StoreValue : value'[m] = IF m = n THEN v ELSE value[m]
  BY DEF IInv, TypeOK
<1>3. ~arg'[c].needed /\ arg'[Handler] = arg[Handler]
  BY <1>1 DEF Return, IInv, TypeOK, NoArg
<1>4. OwnIsPast' /\ BatchIsNext'
  BY DEF OwnIsPast, BatchIsNext
<1>5. CallIsLatest'
  BY <1>3 DEF CallIsLatest, OneClient
<1>6. HandlerNeedsNothing'
  BY <1>3 DEF HandlerNeedsNothing
<1>7. ChildIsNext'
  <2>1. /\ own < v.time /\ (batch # None => batch.time < v.time)
        /\ v.time \in Nat /\ (batch # None => batch.time \in Nat)
    BY <1>1 DEF CallIsLatest, IInv, TypeOK, Argument, Record, Time
  <2> QED BY <1>1, <1>2, <2>1 DEF ChildIsNext
<1> QED BY <1>1, <1>4, <1>5, <1>6, <1>7

LEMMA AgainInOrder ==
    ASSUME IInv, InOrder, StartAgain PROVE InOrder' /\ own' >= own
<1>1. /\ \A n \in StoreValue : ~value'[n].needed
      /\ \A g \in Goroutine : ~arg'[g].needed
      /\ child' = None /\ batch' = None /\ UNCHANGED <<own, clock>>
  BY DEF StartAgain, Blank, NoArg
<1>2. clock \in Nat
  BY BoundTypes DEF IInv, TypeOK, Time
<1> QED BY <1>1, <1>2, OrderKept

LEMMA ClientOrder ==
    ASSUME IInv, TypeOK', InOrder, OneClient, NEW c \in Client, ClientStep(c)
    PROVE  InOrder' /\ own' >= own
<1>1. /\ c \in Goroutine /\ clock \in Nat /\ own \in Nat /\ child \in StoreValue \cup {None}
      /\ pc[c] \in {"setPut", "deleteCheck", "deletePut"} => target[c] \in StoreValue
      /\ pc[c] = "deletePut" => arg[c].needed
      /\ pc[c] \in {"setPut", "setStore", "setAbsent"} => Put(arg[c]) \in Node
  BY BoundTypes, NodeOperators DEF IInv, TypeOK, Goroutine, Time, Loaded, ArgsFit
<1>2. ASSUME Return(c), UNCHANGED <<cache, batch, own, clock>> PROVE InOrder' /\ own' >= own
  <2>1. \A g \in Goroutine : arg'[g].needed => arg'[g] = arg[g]
    BY <1>1, <1>2 DEF Return, IInv, TypeOK, NoArg
  <2> QED BY <1>1, <1>2, <2>1, OrderKept DEF cache
<1>3. ASSUME UNCHANGED <<cache, arg, batch, own, clock>> PROVE InOrder' /\ own' >= own
  BY <1>1, <1>3, OrderKept DEF cache
<1>4. ASSUME NEW n \in StoreValue, Put(arg[c]) \in Node, value' = [value EXCEPT ![n] = Put(arg[c])],
             child' = child \/ child' = n, Return(c), UNCHANGED <<batch, own, clock>>
      PROVE  InOrder' /\ own' >= own
  <2>1. Put(arg[c]).time = arg[c].time /\ Put(arg[c]).needed = arg[c].needed
    BY DEF Put
  <2>2. CASE arg[c].needed
    BY <1>4, <2>1, <2>2, OrderStored
  <2>3. CASE ~arg[c].needed
    <3>1. \A m \in StoreValue : value'[m] = IF m = n THEN Put(arg[c]) ELSE value[m]
      BY <1>4 DEF IInv, TypeOK
    <3>2. \A g \in Goroutine : arg'[g].needed => arg'[g] = arg[g]
      BY <1>1, <1>4 DEF Return, IInv, TypeOK, NoArg
    <3> QED BY <1>1, <1>4, <2>1, <2>3, <3>1, <3>2, OrderKept
  <2> QED BY <2>2, <2>3
<1>5. CASE SetCall(c) \/ DeleteCall(c)
  <2>1. PICK l \in {"setLoad", "setAbsent", "deleteLoad"} : Call(c, l)
    BY <1>5 DEF SetCall, DeleteCall
  <2>2. /\ clock' = clock + 1 /\ UNCHANGED <<child, value, batch, own>>
        /\ \A g \in Goroutine :
              arg'[g] = IF g = c THEN [time |-> clock + 1, exists |-> TRUE, needed |-> TRUE] ELSE arg[g]
    BY <1>1, <2>1 DEF Call, cache, lazy, IInv, TypeOK
  <2>3. arg'[c].time = clock + 1 /\ Handler \in Goroutine /\ Handler # c
    BY <1>1, <2>2, HandlerIsNoClient DEF Goroutine
  <2>4. /\ own <= clock /\ (batch # None => batch.time <= clock /\ batch.time \in Nat)
        /\ \A n \in StoreValue : value[n].time <= clock /\ value[n].time \in Nat
    BY DEF InOrder, OwnIsPast, IInv, TimesPassed, TypeOK, Record, Node, Time
  <2>5. CallIsLatest'
    BY <1>1, <2>2, <2>3, <2>4 DEF CallIsLatest, OneClient
  <2>6. OwnIsPast' /\ HandlerNeedsNothing' /\ BatchIsNext' /\ ChildIsNext'
    BY <1>1, <2>2, <2>3 DEF InOrder, OwnIsPast, HandlerNeedsNothing, BatchIsNext, ChildIsNext
  <2> QED BY <1>1, <2>2, <2>5, <2>6 DEF InOrder
<1>6. CASE SetLoad(c)
  BY <1>3, <1>6 DEF SetLoad, lazy
<1>7. CASE SetPut(c)
  BY <1>1, <1>4, <1>7 DEF SetPut, lazy
<1>8. CASE SetStore(c)
  <2>1. NewValue \in StoreValue
    BY <1>8 DEF SetStore, StoreChild, NewValue, Unused
  <2> QED BY <1>1, <1>4, <1>8, <2>1 DEF SetStore, StoreChild, lazy
<1>9. CASE SetAbsent(c)
  <2>1. CASE child = None /\ StoreChild(c)
    <3>1. NewValue \in StoreValue
      BY <2>1 DEF StoreChild, NewValue, Unused
    <3> QED BY <1>1, <1>4, <1>9, <2>1, <3>1 DEF SetAbsent, StoreChild, lazy
  <2>2. CASE child # None /\ value' = [value EXCEPT ![child] = Put(arg[c])] /\ UNCHANGED child
    BY <1>1, <1>4, <1>9, <2>2 DEF SetAbsent, lazy
  <2>3. CASE UNCHANGED cache
    BY <1>2, <1>9, <2>3 DEF SetAbsent, lazy
  <2> QED BY <1>9, <2>1, <2>2, <2>3 DEF SetAbsent
<1>10. CASE DeleteLoad(c) \/ DeleteCheck(c)
  BY <1>2, <1>3, <1>10 DEF DeleteLoad, DeleteCheck, lazy
<1>11. CASE DeletePut(c)
  <2> DEFINE v == [time |-> arg[c].time, exists |-> FALSE, needed |-> TRUE,
                   synced |-> FALSE, purge |-> 1]
  <2>1. v \in Node /\ v.time = arg[c].time
    BY <1>1 DEF Node, IInv, TypeOK, Argument
  <2>2. /\ value' = [value EXCEPT ![target[c]] = v] /\ child' = child /\ Return(c)
        /\ target[c] \in StoreValue /\ arg[c].needed /\ UNCHANGED <<batch, own, clock>>
    BY <1>1, <1>11 DEF DeletePut, lazy
  <2> HIDE DEF v
  <2> QED BY <2>1, <2>2, OrderStored
<1>12. CASE GetCall(c)
  BY <1>3, <1>12 DEF GetCall, lazy
<1>13. CASE GetFromKV(c)
  <2>1. CASE ~InKV
    BY <1>2, <1>13, <2>1 DEF GetFromKV, lazy
  <2>2. CASE InKV
    <3>1. \A g \in Goroutine : arg'[g].needed => arg'[g] = arg[g]
      BY <1>1, <1>13, <2>2 DEF GetFromKV, IInv, TypeOK
    <3> QED BY <1>1, <1>13, <3>1, OrderKept DEF GetFromKV, cache, lazy
  <2> QED BY <2>1, <2>2
<1>14. CASE GetPanics(c)
  BY <1>14, AgainInOrder DEF GetPanics
<1> QED BY <1>5, <1>6, <1>7, <1>8, <1>9, <1>10, <1>11, <1>12, <1>13, <1>14 DEF ClientStep

LEMMA LazyOrder ==
    ASSUME IInv, TypeOK', InOrder, LazyStep
    PROVE  InOrder' /\ own' >= own
<1>1. /\ clock \in Nat /\ own \in Nat /\ child \in StoreValue \cup {None}
      /\ lazyPc # "idle" => lazyValue \in StoreValue
      /\ \A n \in StoreValue : value[n] \in Node
  BY BoundTypes DEF IInv, TypeOK, Time, Loaded
<1>2. ASSUME \A n \in StoreValue : Same(value'[n], value[n]), child' = child \/ child' = None,
             arg' = arg, batch' = batch \/ batch' = None, own' = own, clock' = clock
      PROVE  InOrder' /\ own' >= own
  BY <1>1, <1>2, OrderKept DEF Same
<1>3. ASSUME LazyStore, UNCHANGED <<child, value, arg, batch, clock>>
      PROVE  InOrder' /\ own' >= own
  <2>1. own' = IF batch = None THEN own ELSE batch.time
    BY <1>3 DEF LazyStore
  <2>2. own' >= own /\ own' \in Nat /\ (batch # None => batch.time \in Nat)
    BY <1>1, <2>1 DEF InOrder, BatchIsNext, IInv, TypeOK, Record, Time
  <2>3. OwnIsPast' /\ BatchIsNext'
    BY <1>1, <1>3, <2>1, <2>2 DEF InOrder, OwnIsPast, BatchIsNext, IInv, TimesPassed
  <2>4. CallIsLatest' /\ HandlerNeedsNothing' /\ ChildIsNext'
    BY <1>3, <2>1, <2>2 DEF InOrder, CallIsLatest, HandlerNeedsNothing, ChildIsNext
  <2> QED BY <2>2, <2>3, <2>4 DEF InOrder
<1>4. CASE LazyRead
  <2>1. child \in StoreValue /\ child # None /\ UNCHANGED <<child, arg, own, clock>>
    BY <1>1, <1>4 DEF LazyRead
  <2>2. PICK m \in EvictOrNot(value[child]) : value' = [value EXCEPT ![child] = m]
    BY <1>4 DEF LazyRead
  <2>3. m \in Node /\ Same(m, value[child])
    BY <1>1, <2>1, <2>2, NodeOperators
  <2>4. \A n \in StoreValue : Same(value'[n], value[n])
    BY <2>1, <2>2, <2>3 DEF IInv, TypeOK, Same
  <2>5. CASE ~value[child].needed
    BY <1>2, <1>4, <2>1, <2>4, <2>5 DEF LazyRead
  <2>6. CASE value[child].needed
    <3>1. batch' # None => batch'.time = value[child].time
      BY <1>4, <2>6 DEF LazyRead
    <3>2. OwnIsPast' /\ HandlerNeedsNothing'
      BY <2>1 DEF InOrder, OwnIsPast, HandlerNeedsNothing
    <3>3. BatchIsNext'
      BY <2>1, <2>6, <3>1 DEF InOrder, BatchIsNext, ChildIsNext
    <3>4. CallIsLatest'
      BY <2>1, <2>4, <2>6, <3>1 DEF InOrder, CallIsLatest, Same
    <3>5. ChildIsNext'
      <4>1. value[child].time \in Nat
        BY <1>1, <2>1 DEF Node, Time
      <4> QED BY <2>1, <2>4, <2>6, <3>1, <4>1 DEF InOrder, ChildIsNext, Same
    <3> QED BY <1>1, <2>1, <3>2, <3>3, <3>4, <3>5 DEF InOrder
  <2> QED BY <2>5, <2>6
<1>5. CASE LazyRecheck
  BY <1>2, <1>5 DEF LazyRecheck, Same, cache
<1>6. CASE LazyPut
  BY <1>3, <1>6 DEF LazyPut, cache
<1>7. CASE LazyPutFails
  <2>1. CASE LazyStore
    BY <1>3, <1>7, <2>1 DEF LazyPutFails, cache
  <2>2. CASE UNCHANGED <<bucket, own>>
    BY <1>2, <1>7, <2>2 DEF LazyPutFails, Same, cache
  <2> QED BY <1>7, <2>1, <2>2 DEF LazyPutFails
<1>8. CASE LazyClear
  <2>1. lazyValue \in StoreValue /\ UNCHANGED <<child, arg, batch, own, clock>>
    BY <1>1, <1>8 DEF LazyClear
  <2>2. \A n \in StoreValue :
            value'[n].needed => value[n].needed /\ value'[n].time = value[n].time
    <3>1. \A n \in StoreValue : n # lazyValue => value'[n] = value[n]
      BY <1>8, <2>1 DEF LazyClear, IInv, TypeOK
    <3>2. /\ value'[lazyValue].time = value[lazyValue].time
          /\ value'[lazyValue].needed => value[lazyValue].needed
      BY <1>1, <1>8, <2>1 DEF LazyClear, IInv, TypeOK, Node
    <3> QED BY <3>1, <3>2
  <2> QED BY <1>1, <2>1, <2>2, OrderKept
<1>9. CASE CollectCheck
  <2>1. lazyValue \in StoreValue
    BY <1>1, <1>9 DEF CollectCheck
  <2>2. \A n \in StoreValue : Same(value'[n], value[n])
    BY <1>1, <1>9, <2>1, NodeOperators DEF CollectCheck, Same, IInv, TypeOK
  <2> QED BY <1>2, <1>9, <2>2 DEF CollectCheck, LazyDone
<1>10. CASE CollectDetach
  BY <1>2, <1>10 DEF CollectDetach, LazyDone, Same
<1> QED BY <1>4, <1>5, <1>6, <1>7, <1>8, <1>9, <1>10 DEF LazyStep

LEMMA HandlerOrder ==
    ASSUME IInv, TypeOK', InOrder, HandlerStep
    PROVE  InOrder' /\ own' >= own
<1>1. /\ clock \in Nat /\ child \in StoreValue \cup {None} /\ Handler \in Goroutine
      /\ ~arg[Handler].needed
      /\ pc[Handler] \in {"setPut", "confirm", "complete"} => target[Handler] \in StoreValue
      /\ \A n \in StoreValue : value[n] \in Node
  BY BoundTypes DEF IInv, TypeOK, Time, Loaded, Goroutine, InOrder, HandlerNeedsNothing
<1>2. ASSUME \A n \in StoreValue : Same(value'[n], value[n]), child' = child,
             \A g \in Goroutine : arg'[g].needed => arg'[g] = arg[g],
             UNCHANGED <<batch, own, clock>>
      PROVE  InOrder' /\ own' >= own
  BY <1>1, <1>2, OrderKept DEF Same
<1>3. Return(Handler) => \A g \in Goroutine : arg'[g].needed => arg'[g] = arg[g]
  BY <1>1 DEF Return, IInv, TypeOK, NoArg
<1>4. \A n \in StoreValue : value' = value => Same(value'[n], value[n])
  BY DEF Same
<1>5. ASSUME NEW n \in StoreValue, value' = [value EXCEPT ![n] = Put(arg[Handler])],
             child' = child \/ child' = n, Return(Handler), UNCHANGED <<batch, own, clock>>
      PROVE  InOrder' /\ own' >= own
  <2>1. \A m \in StoreValue : value'[m] = IF m = n THEN Put(arg[Handler]) ELSE value[m]
    BY <1>5 DEF IInv, TypeOK
  <2>2. ~Put(arg[Handler]).needed
    BY <1>1 DEF Put
  <2> QED BY <1>1, <1>3, <1>5, <2>1, <2>2, OrderKept
<1>6. CASE ReceiveEnd \/ ReceiveEmpty
  BY <1>2, <1>4, <1>6 DEF ReceiveEnd, ReceiveEmpty, cache, lazy
<1>7. CASE ReceiveRecord
  <2>1. \A g \in Goroutine : arg'[g].needed => arg'[g] = arg[g]
    BY <1>1, <1>7 DEF ReceiveRecord, IInv, TypeOK
  <2> QED BY <1>2, <1>4, <1>7, <2>1 DEF ReceiveRecord, cache, lazy
<1>8. CASE Compare \/ ConfirmLoad \/ EraseRead \/ EraseDelete
  BY <1>2, <1>3, <1>4, <1>8 DEF Compare, ConfirmLoad, EraseRead, EraseDelete, cache, lazy
<1>9. CASE SetLoad(Handler)
  BY <1>2, <1>4, <1>9 DEF SetLoad, cache, lazy
<1>10. CASE SetPut(Handler)
  BY <1>1, <1>5, <1>10 DEF SetPut, lazy
<1>11. CASE SetStore(Handler)
  <2>1. NewValue \in StoreValue
    BY <1>11 DEF SetStore, StoreChild, NewValue, Unused
  <2> QED BY <1>5, <1>11, <2>1 DEF SetStore, StoreChild, lazy
<1>12. CASE Confirm \/ Complete
  <2>1. \A n \in StoreValue : Same(value'[n], value[n])
    BY <1>12, ConfirmedIsSame
  <2> QED BY <1>2, <1>3, <1>12, <2>1 DEF Confirm, Complete, lazy
<1> QED BY <1>6, <1>7, <1>8, <1>9, <1>10, <1>11, <1>12 DEF HandlerStep

\* Whatever step, the records of one client stay in order.
LEMMA OrderStep ==
    ASSUME IInv, TypeOK', InOrder, OneClient, Next
    PROVE  InOrder' /\ own' >= own
<1>1. clock \in Nat /\ child \in StoreValue \cup {None}
  BY BoundTypes DEF IInv, TypeOK, Time
<1>2. CASE OtherWrites \/ Superseded
  <2>1. UNCHANGED <<child, value, arg, batch, own>> /\ clock' \in Nat /\ clock' >= clock
    BY <1>1, <1>2 DEF OtherWrites, Superseded, cache, lazy
  <2> QED BY <1>1, <2>1, OrderKept
<1>3. CASE Restart
  BY <1>3, AgainInOrder DEF Restart
<1> QED BY <1>2, <1>3, ClientOrder, LazyOrder, HandlerOrder DEF Next

LEMMA InitInOrder == Init => InOrder
  BY BoundTypes DEF Init, InOrder, OwnIsPast, CallIsLatest, HandlerNeedsNothing, BatchIsNext,
                    ChildIsNext, NoArg, Goroutine

\* With one client, the records the lazy writer puts never go back in time, in
\* spite of failing puts, restarts and other processes.
THEOREM OwnWritesAreInOrder == ASSUME OneClient PROVE Spec => OwnWritesMoveForward
<1>1. Init => InOrder
  BY InitInOrder
<1>2. IInv /\ InOrder /\ [Next]_vars /\ IInv' => InOrder' /\ [own' >= own]_own
  <2>1. ASSUME IInv, InOrder, UNCHANGED vars PROVE InOrder' /\ [own' >= own]_own
    BY <2>1 DEF vars, cache, lazy, InOrder, OwnIsPast, CallIsLatest, HandlerNeedsNothing,
                BatchIsNext, ChildIsNext
  <2>2. ASSUME IInv, InOrder, Next, IInv' PROVE InOrder' /\ [own' >= own]_own
    <3>1. TypeOK'
      BY <2>2 DEF IInv
    <3> QED BY <2>2, <3>1, OrderStep
  <2> QED BY <2>1, <2>2
<1> QED BY <1>1, <1>2, Inductive, PTL DEF Spec, OwnWritesMoveForward

-----------------------------------------------------------------------------
(* One client, no deletion and no other process: the cache follows the     *)
(* bucket                                                                  *)

Clean == \A w \in written : w.own /\ w.exists

\* The handler will still receive the entry of the bucket.
Coming == kv # None /\ \E i \in 1 .. Len(updates) : updates[i] = kv

HasTimes ==
    /\ \A w \in written : w.exists => w.time > 0
    /\ batch # None => batch.time > 0
    /\ child # None => value[child].time > 0
    /\ \A g \in Goroutine :
          /\ pc[g] \in {"setLoad", "setPut", "setStore", "setAbsent", "compare"} => arg[g].time > 0
          /\ pc[g] = "setAbsent" => arg[g].needed

WriterHoldsChild ==
    /\ lazyPc \in {"recheck", "put", "clear"} => child = lazyValue
    /\ child = None => lazyPc = "idle"

\* The bucket has the last record that was put, and the watch ends with it.
BucketIsLast ==
    /\ kv = None => written = {}
    /\ kv # None => kv.time = own
    /\ \A w \in written : w.time <= own
    /\ \A i \in 1 .. Len(updates) :
          updates[i] # None => \E j \in i .. Len(updates) : updates[j] = kv

ClearIsOwn == lazyPc = "clear" => batch # None /\ batch.time = own

Getting(c) == pc[c] = "getKV" \/ (pc[c] \in {"setLoad", "setPut", "setStore"} /\ ~arg[c].needed)

\* While the client reads the bucket, the writer puts nothing into it.
GetsTheLast ==
    \A c \in Client : Getting(c) =>
        /\ lazyPc # "put"
        /\ child # None => ~value[child].needed
        /\ pc[c] # "getKV" => arg[c].time = own

\* The handler erases nothing; what it stores is the last record, unless that
\* is still to come.
HandlerHasLast ==
    /\ pc[Handler] \notin {"erase", "eraseDelete"}
    /\ pc[Handler] \in {"compare", "setLoad", "setPut", "setStore"} /\ ~Coming =>
         arg[Handler].time = own

\* A value behind the bucket is about to be replaced.
BehindIsReplaced ==
    ~Coming /\ child # None /\ ~value[child].needed /\ value[child].time # own =>
        \/ pc[Handler] \in {"setLoad", "setStore"}
        \/ pc[Handler] \in {"compare", "setPut"} /\ target[Handler] = child

\* What a step of a client does to the value of the key, and where it leads.
LEMMA ClientEffect ==
    ASSUME IInv, TypeOK', NEW c \in Client, ClientStep(c), ~GetPanics(c)
    PROVE  /\ UNCHANGED <<lazyPc, lazyValue, batch, kv, updates, written, own>>
           /\ \A g \in Goroutine \ {c} :
                 pc'[g] = pc[g] /\ target'[g] = target[g] /\ arg'[g] = arg[g]
           /\ child' = child \/ (child' # None /\ RootFree)
           /\ child' # None =>
                \/ child' = child /\ Same(value'[child], value[child])
                \/ /\ value'[child'].time = arg[c].time /\ value'[child'].needed = arg[c].needed
                   /\ \/ pc[c] \in {"setPut", "setStore", "setAbsent"}
                      \/ pc[c] = "deletePut" /\ arg[c].needed
           /\ \/ pc'[c] \in {"idle", "deleteLoad", "deleteCheck", "deletePut"}
              \/ /\ pc'[c] \in {"setLoad", "setAbsent"}
                 /\ arg'[c].needed /\ arg'[c].time > 0
              \/ /\ pc[c] = "setLoad" /\ pc'[c] \in {"setPut", "setStore"} /\ arg'[c] = arg[c]
                 /\ UNCHANGED cache
              \/ pc'[c] = "getKV" /\ child = None /\ UNCHANGED cache
              \/ /\ pc[c] = "getKV" /\ InKV /\ pc'[c] = "setLoad" /\ UNCHANGED cache
                 /\ arg'[c].time = kv.time /\ ~arg'[c].needed
<1>1. /\ c \in Goroutine /\ clock \in Nat /\ child \in StoreValue \cup {None}
      /\ pc[c] \in {"setPut", "deleteCheck", "deletePut"} => target[c] \in StoreValue
      /\ pc[c] = "deletePut" => arg[c].needed
      /\ pc \in [Goroutine -> Location] /\ target \in [Goroutine -> StoreValue \cup {None}]
      /\ arg \in [Goroutine -> Argument] /\ value \in [StoreValue -> Node]
  BY BoundTypes DEF IInv, TypeOK, Goroutine, Time, Loaded, ArgsFit
<1>2. \A l : Goto(c, l) => pc'[c] = l /\ \A g \in Goroutine \ {c} : pc'[g] = pc[g]
  BY <1>1 DEF Goto
<1>3. Return(c) => /\ pc'[c] = "idle"
                   /\ \A g \in Goroutine \ {c} :
                         pc'[g] = pc[g] /\ target'[g] = target[g] /\ arg'[g] = arg[g]
  BY <1>1, <1>2 DEF Return
<1>4. UNCHANGED cache /\ child # None => child' = child /\ Same(value'[child], value[child])
  BY DEF cache, Same
<1>5. ASSUME NEW n \in StoreValue, NEW v, value' = [value EXCEPT ![n] = v],
             v.time = arg[c].time, v.needed = arg[c].needed, child' = child \/ child' = n, child' # None
      PROVE  \/ child' = child /\ Same(value'[child], value[child])
             \/ value'[child'].time = arg[c].time /\ value'[child'].needed = arg[c].needed
  <2>1. CASE child' = n
    BY <1>1, <1>5, <2>1
  <2>2. CASE child' # n
    BY <1>1, <1>5, <2>2 DEF Same
  <2> QED BY <2>1, <2>2
<1>6. Put(arg[c]).time = arg[c].time /\ Put(arg[c]).needed = arg[c].needed
  BY DEF Put
<1>7. Unused # {} => NewValue \in StoreValue /\ NewValue # None
  BY NoneIsNoValue DEF NewValue, Unused
<1>8. CASE SetCall(c) \/ DeleteCall(c)
  <2>1. PICK l \in {"setLoad", "setAbsent", "deleteLoad"} : Call(c, l)
    BY <1>8 DEF SetCall, DeleteCall
  <2>2. /\ \A g \in Goroutine \ {c} : arg'[g] = arg[g] /\ target'[g] = target[g]
        /\ arg'[c].needed /\ arg'[c].time > 0
    BY <1>1, <2>1 DEF Call
  <2> QED BY <1>2, <1>4, <2>1, <2>2 DEF Call, cache, lazy, bucket
<1>9. CASE SetLoad(c)
  <2>1. pc[c] = "setLoad" /\ UNCHANGED <<cache, arg>>
    BY <1>9 DEF SetLoad
  <2>2. \A g \in Goroutine \ {c} : target'[g] = target[g]
    BY <1>1, <1>9 DEF SetLoad
  <2> QED BY <1>2, <1>4, <1>9, <2>1, <2>2 DEF SetLoad, cache, lazy, bucket
<1>10. CASE SetPut(c)
  <2>1. target[c] \in StoreValue
    BY <1>1, <1>10 DEF SetPut
  <2> QED BY <1>3, <1>5, <1>6, <1>10, <2>1 DEF SetPut, lazy, bucket
<1>11. CASE SetStore(c)
  BY <1>3, <1>5, <1>6, <1>7, <1>11 DEF SetStore, StoreChild, lazy, bucket
<1>12. CASE SetAbsent(c)
  <2>1. pc[c] = "setAbsent" /\ RootFree /\ Return(c) /\ UNCHANGED <<lazyPc, lazyValue, batch, kv, updates, written, own>>
    BY <1>12 DEF SetAbsent, lazy, bucket
  <2>2. CASE child = None /\ StoreChild(c)
    BY <1>3, <1>5, <1>6, <1>7, <2>1, <2>2 DEF StoreChild
  <2>3. CASE child # None /\ value' = [value EXCEPT ![child] = Put(arg[c])] /\ UNCHANGED child
    <3>1. child \in StoreValue
      BY <1>1, <2>3
    <3> QED BY <1>3, <1>5, <1>6, <2>1, <2>3, <3>1
  <2>4. CASE UNCHANGED cache
    BY <1>3, <1>4, <2>1, <2>4 DEF cache
  <2> QED BY <1>12, <2>2, <2>3, <2>4 DEF SetAbsent
<1>13. CASE DeleteLoad(c)
  <2>1. CASE Return(c)
    BY <1>3, <1>4, <1>13, <2>1 DEF DeleteLoad, cache, lazy, bucket
  <2>2. CASE child # None /\ target' = [target EXCEPT ![c] = child]
             /\ Goto(c, "deleteCheck") /\ UNCHANGED arg
    <3>1. \A g \in Goroutine \ {c} : target'[g] = target[g]
      BY <1>1, <2>2
    <3> QED BY <1>2, <1>4, <1>13, <2>2, <3>1 DEF DeleteLoad, cache, lazy, bucket
  <2> QED BY <1>13, <2>1, <2>2 DEF DeleteLoad
<1>14. CASE DeleteCheck(c)
  BY <1>2, <1>3, <1>4, <1>14 DEF DeleteCheck, cache, lazy, bucket
<1>15. CASE DeletePut(c)
  <2> DEFINE v == [time |-> arg[c].time, exists |-> FALSE, needed |-> TRUE,
                   synced |-> FALSE, purge |-> 1]
  <2>1. /\ target[c] \in StoreValue /\ arg[c].needed /\ pc[c] = "deletePut" /\ Return(c)
        /\ child' = child /\ value' = [value EXCEPT ![target[c]] = v]
        /\ UNCHANGED <<lazyPc, lazyValue, batch, kv, updates, written, own>>
    BY <1>1, <1>15 DEF DeletePut, lazy, bucket
  <2>2. v.time = arg[c].time /\ v.needed = arg[c].needed
    BY <1>1, <2>1 DEF Argument
  <2> HIDE DEF v
  <2> QED BY <1>3, <1>5, <2>1, <2>2
<1>16. CASE GetCall(c)
  BY <1>2, <1>4, <1>16 DEF GetCall, cache, lazy, bucket
<1>17. CASE GetFromKV(c)
  <2>1. CASE ~InKV
    BY <1>3, <1>4, <1>17, <2>1 DEF GetFromKV, cache, lazy, bucket
  <2>2. CASE InKV
    <3>1. /\ arg'[c].time = kv.time /\ ~arg'[c].needed
          /\ \A g \in Goroutine \ {c} : arg'[g] = arg[g]
      BY <1>1, <1>17, <2>2 DEF GetFromKV
    <3> QED BY <1>2, <1>4, <1>17, <2>2, <3>1 DEF GetFromKV, cache, lazy, bucket
  <2> QED BY <2>1, <2>2
<1> QED BY <1>8, <1>9, <1>10, <1>11, <1>12, <1>13, <1>14, <1>15, <1>16, <1>17 DEF ClientStep


\* Nobody puts back what has left the bucket.
LEMMA CleanStays == ASSUME IInv, Next, Clean' PROVE Clean
<1>1. written \subseteq written'
  <2>1. ASSUME NEW e, Store(e) PROVE written \subseteq written'
    BY <2>1 DEF Store
  <2>2. ASSUME NEW c \in Client, ClientStep(c) PROVE written' = written
    <3>1. ASSUME NEW l, Call(c, l) PROVE written' = written
      BY <3>1 DEF Call, bucket
    <3> QED BY <2>2, <3>1 DEF ClientStep, SetCall, DeleteCall, SetLoad, SetPut, SetStore, SetAbsent,
                     DeleteLoad, DeleteCheck, DeletePut, GetCall, GetFromKV, GetPanics,
                     StartAgain, bucket
  <2>3. LazyStep => written' = written \/ LazyStore
    BY DEF LazyStep, LazyRead, LazyRecheck, LazyPut, LazyPutFails, LazyClear,
           CollectCheck, CollectDetach, bucket
  <2>4. HandlerStep => written' = written
    BY DEF HandlerStep, ReceiveEnd, ReceiveRecord, ReceiveEmpty, Compare, SetLoad, SetPut,
           SetStore, ConfirmLoad, Confirm, Complete, EraseRead, EraseDelete, bucket
  <2>5. CASE OtherWrites
    BY <2>1, <2>5 DEF OtherWrites
  <2>6. CASE Superseded \/ Restart
    BY <2>6 DEF Superseded, Restart, StartAgain
  <2> QED BY <2>1, <2>2, <2>3, <2>4, <2>5, <2>6 DEF Next, LazyStore
<1> QED BY <1>1 DEF Clean

\* The handler takes the first entry of the watch, or the bucket drops it.
LEMMA BucketKept ==
    ASSUME IInv, BucketIsLast, UNCHANGED <<kv, written, own>>,
           updates' = updates \/ (updates # <<>> /\ updates' = Tail(updates))
    PROVE  BucketIsLast'
<1>1. updates \in Seq(Record \cup {None})
  BY DEF IInv, TypeOK
<1>2. ASSUME updates # <<>>, updates' = Tail(updates), NEW i \in 1 .. Len(updates'), updates'[i] # None
      PROVE  \E j \in i .. Len(updates') : updates'[j] = kv'
  <2>1. /\ Len(updates') = Len(updates) - 1 /\ Len(updates) \in Nat
        /\ \A k \in 1 .. Len(updates') : updates'[k] = updates[k + 1]
    BY <1>1, <1>2
  <2>0. i \in 1 .. Len(updates') /\ updates'[i] # None
    BY <1>2
  <2>2. i + 1 \in 1 .. Len(updates) /\ updates[i + 1] # None
    BY <2>0, <2>1
  <2>3. PICK j \in i + 1 .. Len(updates) : updates[j] = kv
    BY <2>2 DEF BucketIsLast
  <2>4. j - 1 \in i .. Len(updates') /\ updates'[j - 1] = kv
    BY <2>0, <2>1, <2>3
  <2> QED BY <2>4
<1> QED BY <1>2 DEF BucketIsLast

\* What the client and the writer do in the cache does not put the key behind
\* the bucket.
LEMMA BehindKept ==
    ASSUME BehindIsReplaced, HandlerHasLast, UNCHANGED <<kv, updates, own>>,
           pc'[Handler] = pc[Handler], target'[Handler] = target[Handler],
           arg'[Handler] = arg[Handler],
           child' # None /\ ~value'[child'].needed /\ value'[child'].time # own =>
               child' = child /\ ~value[child].needed /\ value[child].time # own
    PROVE  BehindIsReplaced' /\ HandlerHasLast'
<1>1. Coming' <=> Coming
  BY DEF Coming
<1> QED BY <1>1 DEF BehindIsReplaced, HandlerHasLast

\* The parts that hold whatever was written.
Timed == HasTimes /\ WriterHoldsChild
\* The parts that hold when the bucket is clean.
Follow == BucketIsLast /\ ClearIsOwn /\ GetsTheLast /\ HandlerHasLast /\ BehindIsReplaced

LEMMA ClientFollows ==
    ASSUME IInv, TypeOK', OneClient, Timed, NEW c \in Client, ClientStep(c), ~GetPanics(c)
    PROVE  Timed' /\ (Follow => Follow')
<1>1. /\ c \in Goroutine /\ Handler \in Goroutine \ {c} /\ child \in StoreValue \cup {None}
      /\ \A d \in Client : d = c
  BY HandlerIsNoClient DEF IInv, TypeOK, Goroutine, OneClient
<1> DEFINE Unmoved == /\ UNCHANGED <<lazyPc, lazyValue, batch, kv, updates, written, own>>
                      /\ \A g \in Goroutine \ {c} :
                            pc'[g] = pc[g] /\ target'[g] = target[g] /\ arg'[g] = arg[g]
           Changed == /\ child' = child \/ (child' # None /\ RootFree)
                      /\ child' # None =>
                           \/ child' = child /\ Same(value'[child], value[child])
                           \/ /\ value'[child'].time = arg[c].time
                              /\ value'[child'].needed = arg[c].needed
                              /\ \/ pc[c] \in {"setPut", "setStore", "setAbsent"}
                                 \/ pc[c] = "deletePut" /\ arg[c].needed
           Went == \/ pc'[c] \in {"idle", "deleteLoad", "deleteCheck", "deletePut"}
                   \/ /\ pc'[c] \in {"setLoad", "setAbsent"}
                      /\ arg'[c].needed /\ arg'[c].time > 0
                   \/ /\ pc[c] = "setLoad" /\ pc'[c] \in {"setPut", "setStore"} /\ arg'[c] = arg[c]
                      /\ UNCHANGED cache
                   \/ pc'[c] = "getKV" /\ child = None /\ UNCHANGED cache
                   \/ /\ pc[c] = "getKV" /\ InKV /\ pc'[c] = "setLoad" /\ UNCHANGED cache
                      /\ arg'[c].time = kv.time /\ ~arg'[c].needed
<1>2. Unmoved /\ Changed /\ Went
  BY ClientEffect
<1> HIDE DEF Unmoved, Changed, Went
<1>3. HasTimes'
  <2>1. written' = written /\ batch' = batch
    BY <1>2 DEF Unmoved
  <2>2. child' # None => value'[child'].time > 0
    BY <1>1, <1>2 DEF Changed, Timed, HasTimes, Same, IInv, ArgsFresh
  <2>3. /\ pc'[c] \in {"setLoad", "setPut", "setStore", "setAbsent", "compare"} => arg'[c].time > 0
        /\ pc'[c] = "setAbsent" => arg'[c].needed
    <3>1. InKV => kv.time > 0
      BY DEF InKV, Timed, HasTimes, IInv, BucketRecorded
    <3> QED BY <1>1, <1>2, <3>1 DEF Went, Timed, HasTimes
  <2>4. ASSUME NEW g \in Goroutine, g # c
        PROVE  /\ pc'[g] \in {"setLoad", "setPut", "setStore", "setAbsent", "compare"} => arg'[g].time > 0
               /\ pc'[g] = "setAbsent" => arg'[g].needed
    BY <1>2, <2>4 DEF Unmoved, Timed, HasTimes
  <2> QED BY <2>1, <2>2, <2>3, <2>4 DEF HasTimes, Timed
<1>4. WriterHoldsChild'
  BY <1>2 DEF Unmoved, Changed, Timed, WriterHoldsChild, RootFree
<1>5. ASSUME Follow PROVE Follow'
  <2> USE <1>5 DEF Follow
  <2>1. BucketIsLast' /\ ClearIsOwn'
    BY <1>2, BucketKept DEF Unmoved, ClearIsOwn
  <2>2. GetsTheLast'
    <3>1. Getting(c)' => Getting(c) \/ lazyPc = "idle"
      BY <1>2 DEF Went, Getting, Timed, WriterHoldsChild
    <3>2. Getting(c)' => /\ lazyPc' # "put"
                         /\ child' # None => ~value'[child'].needed
                         /\ pc'[c] # "getKV" => arg'[c].time = own'
      <4>1. CASE pc[c] = "setLoad" /\ pc'[c] \in {"setPut", "setStore"} /\ arg'[c] = arg[c]
                 /\ UNCHANGED cache
        BY <1>2, <4>1 DEF Unmoved, GetsTheLast, Getting, cache
      <4>2. CASE pc'[c] = "getKV" /\ child = None /\ UNCHANGED cache
        BY <1>2, <4>2 DEF Unmoved, Timed, WriterHoldsChild, cache
      <4>3. CASE pc[c] = "getKV" /\ InKV /\ pc'[c] = "setLoad" /\ UNCHANGED cache
                 /\ arg'[c].time = kv.time /\ ~arg'[c].needed
        <5>1. kv.time = own
          BY <4>3 DEF InKV, BucketIsLast
        <5> QED BY <1>2, <4>3, <5>1 DEF Unmoved, GetsTheLast, Getting, cache
      <4> QED BY <1>2, <4>1, <4>2, <4>3 DEF Went, Getting
    <3> QED BY <1>1, <3>2 DEF GetsTheLast
  <2>3. child' # None /\ ~value'[child'].needed /\ value'[child'].time # own =>
            child' = child /\ ~value[child].needed /\ value[child].time # own
    <3>1. ASSUME pc[c] \in {"setPut", "setStore", "setAbsent"}, ~arg[c].needed
          PROVE  arg[c].time = own
      BY <1>1, <3>1 DEF GetsTheLast, Getting, Timed, HasTimes
    <3> QED BY <1>2, <3>1 DEF Changed, Same
  <2>4. BehindIsReplaced' /\ HandlerHasLast'
    BY <1>1, <1>2, <2>3, BehindKept DEF Unmoved
  <2> QED BY <2>1, <2>2, <2>4
<1> QED BY <1>3, <1>4, <1>5 DEF Timed

LEMMA AgainFollows ==
    ASSUME IInv, Timed, StartAgain PROVE Timed' /\ (Follow => Follow')
<1>1. /\ child' = None /\ lazyPc' = "idle" /\ batch' = None
      /\ \A g \in Goroutine : pc'[g] = "idle"
      /\ UNCHANGED <<kv, written, own>> /\ Handler \in Goroutine
  BY DEF StartAgain, Goroutine
<1>2. Timed'
  BY <1>1 DEF Timed, HasTimes, WriterHoldsChild
<1>3. ASSUME BucketIsLast PROVE BucketIsLast'
  <2>1. \A i \in 1 .. Len(updates') :
            updates'[i] # None => \E j \in i .. Len(updates') : updates'[j] = kv'
    <3>1. CASE kv = None
      BY <3>1 DEF StartAgain
    <3>2. CASE kv # None
      <4>1. updates' = <<kv, None>> /\ kv' = kv
        BY <3>2 DEF StartAgain
      <4> QED BY <4>1
    <3> QED BY <3>1, <3>2
  <2> QED BY <1>1, <1>3, <2>1 DEF BucketIsLast
<1>4. ClearIsOwn' /\ GetsTheLast' /\ HandlerHasLast' /\ BehindIsReplaced'
  BY <1>1 DEF ClearIsOwn, GetsTheLast, Getting, HandlerHasLast, BehindIsReplaced, Goroutine
<1> QED BY <1>2, <1>3, <1>4 DEF Follow

LEMMA LazyFollows ==
    ASSUME IInv, TypeOK', InOrder, Timed, LazyStep
    PROVE  Timed' /\ (Clean' /\ Follow => Follow')
<1>1. /\ child \in StoreValue \cup {None} /\ Handler \in Goroutine
      /\ \A d \in Client : d \in Goroutine
      /\ lazyPc # "idle" => lazyValue \in StoreValue
      /\ \A n \in StoreValue : value[n] \in Node
      /\ value \in [StoreValue -> Node]
  BY DEF IInv, TypeOK, Goroutine, Loaded
\* Steps that put nothing into the bucket.
<1>2. ASSUME \A n \in StoreValue :
                 /\ value'[n].time = value[n].time
                 /\ value'[n].needed => value[n].needed
                 /\ Follow /\ value[n].needed /\ n = child => value'[n].needed \/ value[n].time = own,
             child' = child \/ child' = None,
             UNCHANGED <<pc, target, arg, kv, updates, written, own>>,
             batch' # None => batch'.time > 0,
             lazyPc' \in {"recheck", "put"} => child' = lazyValue',
             child' = None => lazyPc' = "idle", lazyPc' # "clear",
             lazyPc' = "put" => child # None /\ value[child].needed
      PROVE  Timed' /\ (Follow => Follow')
  <2>1. HasTimes'
    BY <1>1, <1>2 DEF Timed, HasTimes
  <2>2. WriterHoldsChild'
    BY <1>2 DEF WriterHoldsChild
  <2>3. ASSUME Follow PROVE Follow'
    <3>1. BucketIsLast' /\ ClearIsOwn'
      BY <1>2, <2>3, BucketKept DEF Follow, ClearIsOwn
    <3>2. GetsTheLast'
      BY <1>1, <1>2, <2>3 DEF Follow, GetsTheLast, Getting
    <3>3. BehindIsReplaced' /\ HandlerHasLast'
      <4>1. child' # None /\ ~value'[child'].needed /\ value'[child'].time # own =>
                child' = child /\ ~value[child].needed /\ value[child].time # own
        BY <1>1, <1>2, <2>3
      <4> QED BY <1>2, <2>3, <4>1, BehindKept DEF Follow
    <3> QED BY <3>1, <3>2, <3>3 DEF Follow
  <2> QED BY <2>1, <2>2, <2>3 DEF Timed
\* The bucket takes what the writer has read.
<1>3. ASSUME LazyStore, lazyPc = "put", lazyPc' \in {"clear", "collect"},
             UNCHANGED <<child, value, pc, target, arg, lazyValue, batch>>
      PROVE  Timed' /\ (Clean' /\ Follow => Follow')
  <2>1. /\ kv' = Bytes /\ written' = written \cup {Bytes} /\ updates' = Append(updates, Bytes)
        /\ own' = IF batch = None THEN own ELSE batch.time
    BY <1>3 DEF LazyStore, Store
  <2>2. child # None /\ child = lazyValue
    BY <1>3 DEF Timed, WriterHoldsChild
  <2>3. HasTimes'
    BY <1>3, <2>1 DEF Timed, HasTimes, Bytes, EmptyRecord
  <2>4. WriterHoldsChild'
    BY <1>3, <2>2 DEF WriterHoldsChild
  <2>5. ASSUME Clean', Follow PROVE Follow'
    <3>1. batch # None /\ Bytes = batch /\ own' = batch.time
      BY <2>1, <2>5 DEF Clean, Bytes, EmptyRecord
    <3>2. own <= batch.time /\ own \in Nat /\ batch.time \in Nat /\ batch # None
      BY BoundTypes, <3>1 DEF InOrder, BatchIsNext, IInv, TypeOK, Record, Time
    <3>3. /\ Len(updates) \in Nat /\ Len(updates') = Len(updates) + 1
          /\ updates'[Len(updates) + 1] = batch
          /\ Len(updates) + 1 \in 1 .. Len(updates')
      BY <2>1, <3>1 DEF IInv, TypeOK
    <3>4. kv' = batch /\ kv' # None
      BY <2>1, <3>1
    <3>5. Coming'
      BY <3>3, <3>4 DEF Coming
    <3>6. BucketIsLast'
      <4>1. \A w \in written' : w.time <= own'
        <5>1. \A w \in written : w.time <= own /\ w.time \in Nat
          BY <2>5 DEF Follow, BucketIsLast, IInv, TypeOK, Record, Time
        <5> QED BY <2>1, <3>1, <3>2, <5>1
      <4>2. \A i \in 1 .. Len(updates') : \E j \in i .. Len(updates') : updates'[j] = kv'
        BY <3>3, <3>4
      <4> QED BY <3>1, <3>4, <4>1, <4>2 DEF BucketIsLast
    <3>7. ClearIsOwn'
      BY <1>3, <3>1 DEF ClearIsOwn
    <3>8. GetsTheLast'
      <4>1. \A c \in Client : ~Getting(c)
        BY <1>3, <2>5 DEF Follow, GetsTheLast
      <4> QED BY <1>3, <4>1 DEF GetsTheLast, Getting
    <3>9. HandlerHasLast' /\ BehindIsReplaced'
      BY <1>3, <2>5, <3>5 DEF Follow, HandlerHasLast, BehindIsReplaced
    <3> QED BY <3>6, <3>7, <3>8, <3>9 DEF Follow
  <2> QED BY <2>3, <2>4, <2>5 DEF Timed
<1>4. CASE LazyRead
  <2>1. child # None /\ child \in StoreValue
    BY <1>1, <1>4 DEF LazyRead
  <2>2. PICK m \in EvictOrNot(value[child]) : value' = [value EXCEPT ![child] = m]
    BY <1>4 DEF LazyRead
  <2>3. Same(m, value[child])
    BY <1>1, <2>1, <2>2, NodeOperators
  <2>4. \A n \in StoreValue : value'[n].time = value[n].time /\ value'[n].needed = value[n].needed
    BY <1>1, <2>1, <2>2, <2>3 DEF Same
  <2>5. batch' # None => batch'.time > 0
    BY <1>4, <2>1 DEF LazyRead, IInv, NeededHasTime
  <2> QED BY <1>2, <1>4, <2>1, <2>4, <2>5 DEF LazyRead, bucket
<1>5. CASE LazyRecheck
  <2>1. child = lazyValue /\ child # None /\ (batch # None => batch.time > 0)
    BY <1>5 DEF LazyRecheck, Timed, HasTimes, WriterHoldsChild
  <2> QED BY <1>2, <1>5, <2>1 DEF LazyRecheck, cache, bucket
<1>6. CASE LazyPut
  BY <1>3, <1>6 DEF LazyPut, cache
<1>7. CASE LazyPutFails
  <2>1. CASE LazyStore
    BY <1>3, <1>7, <2>1 DEF LazyPutFails, cache
  <2>2. CASE UNCHANGED <<bucket, own>>
    <3>1. batch # None => batch.time > 0
      BY DEF Timed, HasTimes
    <3>2. child # None
      BY <1>7 DEF LazyPutFails, Timed, WriterHoldsChild
    <3> QED BY <1>2, <1>7, <2>2, <3>1, <3>2 DEF LazyPutFails, cache, bucket
  <2> QED BY <1>7, <2>1, <2>2 DEF LazyPutFails
<1>8. CASE LazyClear
  <2>1. lazyPc = "clear" /\ lazyValue \in StoreValue /\ child = lazyValue /\ child # None
    BY <1>1, <1>8, NoneIsNoValue DEF LazyClear, Timed, WriterHoldsChild
  <2>2. \A n \in StoreValue : n # lazyValue => value'[n] = value[n]
    BY <1>1, <1>8, <2>1 DEF LazyClear
  <2>3. /\ value'[lazyValue].time = value[lazyValue].time
        /\ value'[lazyValue].needed <=> value[lazyValue].needed /\ Bytes.time # value[lazyValue].time
    BY <1>1, <1>8, <2>1 DEF LazyClear, Node
  <2>4. Follow => Bytes.time = own
    BY <2>1 DEF Follow, ClearIsOwn, Bytes
  <2>5. batch # None => batch.time > 0
    BY DEF Timed, HasTimes
  <2>6. \A n \in StoreValue :
            /\ value'[n].time = value[n].time
            /\ value'[n].needed => value[n].needed
            /\ Follow /\ value[n].needed /\ n = child => value'[n].needed \/ value[n].time = own
    BY <2>2, <2>3, <2>4
  <2> QED BY <1>2, <1>8, <2>1, <2>5, <2>6 DEF LazyClear, bucket
<1>9. CASE CollectCheck
  <2>1. lazyValue \in StoreValue /\ child # None /\ (batch # None => batch.time > 0)
    BY <1>1, <1>9 DEF CollectCheck, Timed, HasTimes, WriterHoldsChild
  <2>2. \A n \in StoreValue : value'[n].time = value[n].time /\ value'[n].needed = value[n].needed
    BY <1>1, <1>9, <2>1, NodeOperators DEF CollectCheck, Same
  <2> QED BY <1>2, <1>9, <2>1, <2>2 DEF CollectCheck, LazyDone, bucket
<1>10. CASE CollectDetach
  BY <1>2, <1>10 DEF CollectDetach, LazyDone, bucket
<1> QED BY <1>4, <1>5, <1>6, <1>7, <1>8, <1>9, <1>10 DEF LazyStep

\* What is left of the watch when its first entry is not the last record.
LEMMA StillComes ==
    ASSUME IInv, BucketIsLast, Coming, updates' = Tail(updates), UNCHANGED kv, updates # <<>>,
           \/ Head(updates) # kv
           \/ \E i \in 2 .. Len(updates) : updates[i] # None
    PROVE  Coming'
<1>1. /\ Len(updates') = Len(updates) - 1 /\ Len(updates) \in Nat /\ kv # None
      /\ \A k \in 1 .. Len(updates') : updates'[k] = updates[k + 1]
      /\ Head(updates) = updates[1]
  BY DEF IInv, TypeOK, Coming
<1>2. \E j \in 2 .. Len(updates) : updates[j] = kv
  <2>1. CASE Head(updates) # kv
    <3>1. PICK j \in 1 .. Len(updates) : updates[j] = kv
      BY DEF Coming
    <3>2. j # 1
      BY <1>1, <2>1, <3>1
    <3> QED BY <1>1, <3>1, <3>2
  <2>2. CASE \E i \in 2 .. Len(updates) : updates[i] # None
    <3>1. PICK i \in 2 .. Len(updates) : updates[i] # None
      BY <2>2
    <3>2. i \in 1 .. Len(updates)
      BY <1>1
    <3>3. PICK j \in i .. Len(updates) : updates[j] = kv
      BY <3>1, <3>2 DEF BucketIsLast
    <3> QED BY <1>1, <3>3
  <2> QED BY <2>1, <2>2
<1>3. PICK j \in 2 .. Len(updates) : updates[j] = kv
  BY <1>2
<1>4. j - 1 \in 1 .. Len(updates') /\ updates'[j - 1] = kv
  BY <1>1, <1>3
<1> QED BY <1>1, <1>4 DEF Coming

LEMMA HandlerFollows ==
    ASSUME IInv, TypeOK', InOrder, Timed, HandlerStep
    PROVE  Timed' /\ (Clean /\ Follow => Follow')
<1>1. /\ child \in StoreValue \cup {None} /\ Handler \in Goroutine /\ ~arg[Handler].needed
      /\ \A d \in Client : d \in Goroutine /\ d # Handler
      /\ pc[Handler] \in {"setPut", "confirm", "complete"} => target[Handler] \in StoreValue
      /\ pc \in [Goroutine -> Location] /\ target \in [Goroutine -> StoreValue \cup {None}]
      /\ arg \in [Goroutine -> Argument] /\ value \in [StoreValue -> Node]
  BY HandlerIsNoClient DEF IInv, TypeOK, Goroutine, Loaded, InOrder, HandlerNeedsNothing
<1>2. \A l : Goto(Handler, l) => /\ pc'[Handler] = l
                                 /\ \A g \in Goroutine \ {Handler} : pc'[g] = pc[g]
  BY <1>1 DEF Goto
<1>3. Return(Handler) => /\ pc'[Handler] = "idle"
                         /\ \A g \in Goroutine \ {Handler} : pc'[g] = pc[g] /\ arg'[g] = arg[g]
  BY <1>1, <1>2 DEF Return
<1>4. UNCHANGED cache /\ child # None => child' = child /\ Same(value'[child], value[child])
  BY DEF cache, Same
<1>5. updates # <<>> /\ Head(updates) # None => Head(updates) \in written /\ 1 \in 1 .. Len(updates)
  <2>1. updates # <<>> => 1 \in 1 .. Len(updates) /\ Head(updates) = updates[1]
    BY DEF IInv, TypeOK
  <2> QED BY <2>1 DEF IInv, BucketRecorded
\* The handler leaves the writer and the clients alone.
<1>6. ASSUME UNCHANGED <<lazyPc, lazyValue, batch, own>>, written' = written,
             \A g \in Goroutine \ {Handler} : pc'[g] = pc[g] /\ arg'[g] = arg[g],
             child' = child \/ (child' # None /\ RootFree),
             child' # None =>
                 \/ child' = child /\ Same(value'[child], value[child])
                 \/ value'[child'].time > 0 /\ ~value'[child'].needed,
             pc'[Handler] \in {"setLoad", "setPut", "setStore", "setAbsent", "compare"} =>
                 arg'[Handler].time > 0,
             pc'[Handler] # "setAbsent"
      PROVE  Timed' /\ (Follow => ClearIsOwn' /\ GetsTheLast')
  <2>1. HasTimes'
    BY <1>1, <1>6 DEF Timed, HasTimes, Same
  <2>2. WriterHoldsChild'
    BY <1>6 DEF Timed, WriterHoldsChild, RootFree
  <2>3. ASSUME Follow PROVE ClearIsOwn'
    BY <1>6, <2>3 DEF Follow, ClearIsOwn
  <2>4. ASSUME Follow PROVE GetsTheLast'
    BY <1>1, <1>6, <2>4 DEF Follow, GetsTheLast, Getting, Same
  <2> QED BY <2>1, <2>2, <2>3, <2>4 DEF Timed
<1>7. ASSUME UNCHANGED <<kv, updates, own>> PROVE Coming' <=> Coming
  BY <1>7 DEF Coming
<1>8. CASE ReceiveEnd
  <2>1. /\ UNCHANGED <<cache, pc, target, arg, lazyPc, lazyValue, batch, kv, written, own>>
        /\ updates # <<>> /\ updates' = Tail(updates) /\ Head(updates) = None /\ pc[Handler] = "idle"
    BY <1>8 DEF ReceiveEnd, Receive, lazy
  <2>2. Timed' /\ (Follow => ClearIsOwn' /\ GetsTheLast')
    BY <1>1, <1>4, <1>6, <2>1 DEF cache
  <2>3. ASSUME Follow PROVE BucketIsLast' /\ HandlerHasLast' /\ BehindIsReplaced'
    <3>1. BucketIsLast'
      BY <2>1, <2>3, BucketKept DEF Follow
    <3>2. Coming => Coming'
      BY <2>1, <2>3, StillComes DEF Follow, Coming
    <3>3. HandlerHasLast' /\ BehindIsReplaced'
      BY <2>1, <2>3, <3>2 DEF Follow, HandlerHasLast, BehindIsReplaced, cache
    <3> QED BY <3>1, <3>3
  <2> QED BY <2>2, <2>3 DEF Follow
<1>9. CASE ReceiveRecord
  <2>1. /\ UNCHANGED <<cache, lazyPc, lazyValue, batch, kv, written, own>>
        /\ updates # <<>> /\ updates' = Tail(updates) /\ Head(updates) # None
        /\ Head(updates).time > 0 /\ pc[Handler] = "idle"
        /\ target'[Handler] = child /\ pc'[Handler] = "compare"
        /\ arg'[Handler].time = Head(updates).time
        /\ \A g \in Goroutine \ {Handler} : pc'[g] = pc[g] /\ arg'[g] = arg[g]
    BY <1>1, <1>2, <1>9 DEF ReceiveRecord, Receive, lazy
  <2>2. Timed' /\ (Follow => ClearIsOwn' /\ GetsTheLast')
    BY <1>1, <1>4, <1>6, <2>1 DEF cache
  <2>3. ASSUME Follow PROVE BucketIsLast' /\ HandlerHasLast' /\ BehindIsReplaced'
    <3>1. BucketIsLast'
      BY <2>1, <2>3, BucketKept DEF Follow
    <3>2. Coming
      BY <1>5, <2>1, <2>3 DEF Follow, BucketIsLast, Coming, IInv, BucketRecorded
    <3>3. ~Coming' => Head(updates) = kv
      BY <2>1, <2>3, <3>2, StillComes DEF Follow
    <3>4. HandlerHasLast'
      BY <2>1, <2>3, <3>2, <3>3 DEF Follow, HandlerHasLast, BucketIsLast, Coming
    <3>5. BehindIsReplaced'
      BY <2>1 DEF BehindIsReplaced, cache
    <3> QED BY <3>1, <3>4, <3>5
  <2> QED BY <2>2, <2>3 DEF Follow
<1>10. CASE ReceiveEmpty
  <2>1. /\ UNCHANGED <<cache, arg, lazyPc, lazyValue, batch, kv, written, own>>
        /\ updates # <<>> /\ updates' = Tail(updates) /\ Head(updates) = EmptyRecord
        /\ pc[Handler] = "idle" /\ pc'[Handler] \in {"idle", "complete"}
        /\ \A g \in Goroutine \ {Handler} : pc'[g] = pc[g]
    BY <1>1, <1>2, <1>10 DEF ReceiveEmpty, Receive, lazy
  <2>2. Timed' /\ (Follow => ClearIsOwn' /\ GetsTheLast')
    BY <1>1, <1>4, <1>6, <2>1 DEF cache
  <2>3. ASSUME Clean, Follow PROVE BucketIsLast' /\ HandlerHasLast' /\ BehindIsReplaced'
    <3>1. BucketIsLast'
      BY <2>1, <2>3, BucketKept DEF Follow
    <3>2. Coming => Head(updates) # kv
      BY <2>1, <2>3 DEF Coming, Clean, EmptyRecord, IInv, BucketRecorded
    <3>3. Coming => Coming'
      BY <2>1, <2>3, <3>2, StillComes DEF Follow
    <3>4. HandlerHasLast' /\ BehindIsReplaced'
      BY <2>1, <2>3, <3>3 DEF Follow, HandlerHasLast, BehindIsReplaced, cache
    <3> QED BY <3>1, <3>4
  <2> QED BY <2>2, <2>3 DEF Follow
\* From here on the handler has its entry.
<1>11. ASSUME UNCHANGED <<kv, updates, written, own>>, Follow,
              pc'[Handler] \notin {"erase", "eraseDelete"},
              pc'[Handler] \in {"compare", "setLoad", "setPut", "setStore"} =>
                  /\ pc[Handler] \in {"compare", "setLoad", "setPut", "setStore"}
                  /\ arg'[Handler] = arg[Handler]
       PROVE  BucketIsLast' /\ HandlerHasLast'
  <2>1. BucketIsLast'
    BY <1>11, BucketKept DEF Follow
  <2>2. HandlerHasLast'
    BY <1>7, <1>11 DEF Follow, HandlerHasLast
  <2> QED BY <2>1, <2>2
<1>12. CASE Compare
  <2>1. /\ UNCHANGED <<cache, lazyPc, lazyValue, batch, kv, updates, written, own>>
        /\ pc[Handler] = "compare"
        /\ \A g \in Goroutine \ {Handler} : pc'[g] = pc[g] /\ arg'[g] = arg[g]
        /\ \/ /\ arg[Handler].time > CachedTime /\ arg' = arg
              /\ pc'[Handler] = IF arg[Handler].exists THEN "setLoad" ELSE "erase"
           \/ /\ arg[Handler].time = CachedTime /\ arg' = arg
              /\ pc'[Handler] = "confirmLoad"
           \/ arg[Handler].time < CachedTime /\ pc'[Handler] = "idle"
    BY <1>1, <1>2, <1>3, <1>12 DEF Compare, lazy, bucket
  <2>2. arg[Handler].time > 0
    BY <1>1, <2>1 DEF Timed, HasTimes
  <2>3. Timed' /\ (Follow => ClearIsOwn' /\ GetsTheLast')
    BY <1>1, <1>4, <1>6, <2>1, <2>2 DEF cache
  <2>4. ASSUME Clean, Follow PROVE BucketIsLast' /\ HandlerHasLast' /\ BehindIsReplaced'
    <3>1. arg[Handler].exists
      BY <1>1, <2>2, <2>4 DEF Clean, IInv, ArgsRecorded, Recorded
    <3>2. BucketIsLast' /\ HandlerHasLast'
      BY <1>11, <2>1, <2>4, <3>1
    <3>3. ASSUME ~Coming, child # None, ~value[child].needed, value[child].time # own
          PROVE  pc'[Handler] = "setLoad"
      <4>1. target[Handler] = child /\ arg[Handler].time = own
        BY <2>1, <2>4, <3>3 DEF Follow, BehindIsReplaced, HandlerHasLast
      <4>2. value[child].time > 0 /\ child \in StoreValue
        BY <1>1, <3>3 DEF Timed, HasTimes
      <4>3. value[child].time <= own
        BY <2>4, <3>3, <4>2 DEF IInv, ValuesRecorded, Recorded, Follow, BucketIsLast
      <4>4. value[child].time < own /\ value[child].time \in Nat /\ own \in Nat
        BY <1>1, <3>3, <4>2, <4>3 DEF IInv, TypeOK, Node, Time
      <4>5. CachedTime < own
        BY <2>2, <4>1, <4>4 DEF CachedTime
      <4>6. CachedTime \in Nat
        BY <4>1, <4>4 DEF CachedTime
      <4> QED BY <2>1, <3>1, <4>1, <4>4, <4>5, <4>6
    <3>4. BehindIsReplaced'
      BY <1>7, <2>1, <3>3 DEF BehindIsReplaced, cache
    <3> QED BY <3>2, <3>4
  <2> QED BY <2>3, <2>4 DEF Follow
<1>13. CASE SetLoad(Handler)
  <2>1. /\ UNCHANGED <<cache, arg, lazyPc, lazyValue, batch, kv, updates, written, own>>
        /\ pc[Handler] = "setLoad" /\ target'[Handler] = child
        /\ pc'[Handler] = IF child = None THEN "setStore" ELSE "setPut"
        /\ \A g \in Goroutine \ {Handler} : pc'[g] = pc[g]
    BY <1>1, <1>2, <1>13 DEF SetLoad, lazy, bucket
  <2>2. Timed' /\ (Follow => ClearIsOwn' /\ GetsTheLast')
    <3>1. arg[Handler].time > 0
      BY <1>1, <2>1 DEF Timed, HasTimes
    <3> QED BY <1>1, <1>4, <1>6, <2>1, <3>1 DEF cache
  <2>3. ASSUME Follow PROVE BucketIsLast' /\ HandlerHasLast' /\ BehindIsReplaced'
    <3>1. BucketIsLast' /\ HandlerHasLast'
      BY <1>11, <2>1, <2>3
    <3>2. BehindIsReplaced'
      BY <2>1 DEF BehindIsReplaced, cache
    <3> QED BY <3>1, <3>2
  <2> QED BY <2>2, <2>3 DEF Follow
<1>14. CASE SetPut(Handler) \/ SetStore(Handler)
  <2>1. Put(arg[Handler]).time = arg[Handler].time /\ ~Put(arg[Handler]).needed
    BY <1>1 DEF Put
  <2>2. /\ UNCHANGED <<lazyPc, lazyValue, batch, kv, updates, written, own>>
        /\ pc[Handler] \in {"setPut", "setStore"} /\ pc'[Handler] = "idle"
        /\ \A g \in Goroutine \ {Handler} : pc'[g] = pc[g] /\ arg'[g] = arg[g]
    BY <1>3, <1>14 DEF SetPut, SetStore, lazy, bucket
  <2>3. /\ child' = child \/ (child' # None /\ RootFree)
        /\ child' # None =>
             \/ value'[child'].time = arg[Handler].time /\ ~value'[child'].needed
             \/ /\ pc[Handler] = "setPut" /\ target[Handler] # child /\ child' = child
                /\ value'[child] = value[child]
    <3>1. CASE SetPut(Handler)
      <4>1. child' = child /\ target[Handler] \in StoreValue /\ pc[Handler] = "setPut"
            /\ value' = [value EXCEPT ![target[Handler]] = Put(arg[Handler])]
        BY <1>1, <3>1 DEF SetPut
      <4> QED BY <1>1, <2>1, <4>1
    <3>2. CASE SetStore(Handler)
      <4>1. NewValue \in StoreValue /\ NewValue # None /\ child' = NewValue /\ RootFree
            /\ value' = [value EXCEPT ![NewValue] = Put(arg[Handler])]
        BY <3>2, NoneIsNoValue DEF SetStore, StoreChild, NewValue, Unused
      <4> QED BY <1>1, <2>1, <4>1
    <3> QED BY <1>14, <3>1, <3>2
  <2>4. Timed' /\ (Follow => ClearIsOwn' /\ GetsTheLast')
    <3>1. arg[Handler].time > 0
      BY <1>1, <2>2 DEF Timed, HasTimes
    <3> QED BY <1>6, <2>2, <2>3, <3>1 DEF Same
  <2>5. ASSUME Follow PROVE BucketIsLast' /\ HandlerHasLast' /\ BehindIsReplaced'
    <3>1. BucketIsLast' /\ HandlerHasLast'
      BY <1>11, <2>2, <2>5
    <3>2. ASSUME ~Coming, child' # None, ~value'[child'].needed PROVE value'[child'].time = own
      BY <2>2, <2>3, <2>5, <3>2 DEF Follow, HandlerHasLast, BehindIsReplaced
    <3>3. BehindIsReplaced'
      BY <1>7, <2>2, <3>2 DEF BehindIsReplaced
    <3> QED BY <3>1, <3>3
  <2> QED BY <2>4, <2>5 DEF Follow
<1>15. CASE ConfirmLoad \/ Confirm \/ Complete
  <2>1. /\ UNCHANGED <<child, lazyPc, lazyValue, batch, kv, updates, written, own>>
        /\ pc[Handler] \in {"confirmLoad", "confirm", "complete"}
        /\ pc'[Handler] \in {"idle", "confirm"}
        /\ \A g \in Goroutine \ {Handler} : pc'[g] = pc[g] /\ arg'[g] = arg[g]
    BY <1>2, <1>3, <1>15 DEF ConfirmLoad, Confirm, Complete, cache, lazy, bucket
  <2>2. \A n \in StoreValue : Same(value'[n], value[n])
    BY <1>15, ConfirmedIsSame DEF ConfirmLoad, Same, cache
  <2>3. Timed' /\ (Follow => ClearIsOwn' /\ GetsTheLast')
    BY <1>1, <1>6, <2>1, <2>2
  <2>4. ASSUME Follow PROVE BucketIsLast' /\ HandlerHasLast' /\ BehindIsReplaced'
    <3>1. BucketIsLast' /\ HandlerHasLast'
      BY <1>11, <2>1, <2>4
    <3>2. BehindIsReplaced'
      BY <1>1, <1>7, <2>1, <2>2, <2>4 DEF Follow, BehindIsReplaced, Same
    <3> QED BY <3>1, <3>2
  <2> QED BY <2>3, <2>4 DEF Follow
<1>16. CASE EraseRead \/ EraseDelete
  <2>1. /\ UNCHANGED <<cache, lazyPc, lazyValue, batch, updates, written, own>>
        /\ pc[Handler] \in {"erase", "eraseDelete"}
        /\ pc'[Handler] \in {"idle", "eraseDelete"}
        /\ \A g \in Goroutine \ {Handler} : pc'[g] = pc[g] /\ arg'[g] = arg[g]
    BY <1>2, <1>3, <1>16 DEF EraseRead, EraseDelete, lazy
  <2>2. Timed'
    BY <1>1, <1>4, <1>6, <2>1 DEF cache
  <2> QED BY <2>1, <2>2 DEF Follow, HandlerHasLast
<1> QED BY <1>8, <1>9, <1>10, <1>12, <1>13, <1>14, <1>15, <1>16 DEF HandlerStep

\* Other processes make the bucket unclean.
LEMMA OtherFollows ==
    ASSUME IInv, TypeOK', Timed, OtherWrites \/ Superseded
    PROVE  Timed' /\ (Clean' /\ Follow => Follow')
<1>1. UNCHANGED <<child, value, pc, target, arg, lazyPc, lazyValue, batch, own>>
  BY DEF OtherWrites, Superseded, cache, lazy
<1>2. WriterHoldsChild'
  BY <1>1 DEF Timed, WriterHoldsChild
<1>3. CASE OtherWrites
  <2>1. PICK e \in BOOLEAN : Store([time |-> clock + 1, exists |-> e, own |-> FALSE])
    BY <1>3 DEF OtherWrites
  <2>2. written' = written \cup {[time |-> clock + 1, exists |-> e, own |-> FALSE]} /\ clock + 1 > 0
    BY <2>1, BoundTypes DEF Store, IInv, TypeOK, Time
  <2>3. HasTimes'
    BY <1>1, <2>2 DEF Timed, HasTimes
  <2>4. ~Clean'
    <3> DEFINE w == [time |-> clock + 1, exists |-> e, own |-> FALSE]
    <3>1. w \in written' /\ ~w.own
      BY <2>2
    <3> HIDE DEF w
    <3> QED BY <3>1 DEF Clean
  <2> QED BY <1>2, <2>3, <2>4 DEF Timed
<1>4. CASE Superseded
  <2>1. /\ UNCHANGED <<kv, written>> /\ updates # <<>> /\ updates' = Tail(updates) /\ Head(updates) # None
        /\ kv = None \/ \E i \in 2 .. Len(updates) : updates[i] # None
    BY <1>4 DEF Superseded
  <2>2. HasTimes'
    BY <1>1, <2>1 DEF Timed, HasTimes
  <2>3. ASSUME Follow PROVE Follow'
    <3>1. BucketIsLast'
      BY <1>1, <2>1, <2>3, BucketKept DEF Follow
    <3>2. Coming => Coming'
      BY <2>1, <2>3, StillComes DEF Follow, Coming
    <3>3. ClearIsOwn' /\ GetsTheLast'
      BY <1>1, <2>3 DEF Follow, ClearIsOwn, GetsTheLast, Getting
    <3>4. HandlerHasLast' /\ BehindIsReplaced'
      BY <1>1, <2>3, <3>2 DEF Follow, HandlerHasLast, BehindIsReplaced
    <3> QED BY <3>1, <3>3, <3>4 DEF Follow
  <2> QED BY <1>2, <2>2, <2>3 DEF Timed
<1> QED BY <1>3, <1>4

\* The inductive invariant of one client.
OneIInv == IInv /\ InOrder /\ Timed /\ (Clean => Follow)

LEMMA OneStep == ASSUME OneClient, OneIInv, IInv', Next PROVE OneIInv'
<1> USE DEF OneIInv
<1>1. TypeOK' /\ InOrder'
  BY OrderStep DEF IInv
<1>2. Clean' => Clean
  BY CleanStays
<1>3. ASSUME StartAgain PROVE Timed' /\ (Follow => Follow')
  BY <1>3, AgainFollows
<1>4. Timed' /\ (Clean' /\ Follow => Follow')
  <2>1. ASSUME NEW c \in Client, ClientStep(c) PROVE Timed' /\ (Clean' /\ Follow => Follow')
    BY <1>1, <1>3, <2>1, ClientFollows DEF GetPanics
  <2>2. CASE LazyStep
    BY <1>1, <2>2, LazyFollows
  <2>3. CASE HandlerStep
    BY <1>1, <1>2, <2>3, HandlerFollows
  <2>4. CASE OtherWrites \/ Superseded
    BY <1>1, <2>4, OtherFollows
  <2>5. CASE Restart
    BY <1>3, <2>5 DEF Restart
  <2> QED BY <2>1, <2>2, <2>3, <2>4, <2>5 DEF Next
<1> QED BY <1>1, <1>2, <1>4

\* With one client, and as long as nothing is deleted and no other process
\* writes, the cache and the bucket agree whenever all is quiet, in spite of
\* failing puts, evictions and restarts.
THEOREM TheyAgree == ASSUME OneClient PROVE Spec => []QuietAgrees
<1>1. Init => InOrder /\ Timed /\ Follow
  <2>1. Init => InOrder
    BY InitInOrder
  <2>2. Init => Timed /\ ClearIsOwn /\ GetsTheLast /\ HandlerHasLast /\ BehindIsReplaced
    BY DEF Init, Timed, HasTimes, WriterHoldsChild, ClearIsOwn, GetsTheLast, Getting,
           HandlerHasLast, BehindIsReplaced, Goroutine
  <2>3. Init => BucketIsLast
    BY DEF Init, BucketIsLast
  <2> QED BY <2>1, <2>2, <2>3 DEF Follow
<1>2. OneIInv /\ IInv' /\ [Next]_vars => OneIInv'
  <2>1. ASSUME OneIInv, UNCHANGED vars, IInv' PROVE OneIInv'
    BY <2>1 DEF vars, cache, lazy, bucket, OneIInv, InOrder, OwnIsPast, CallIsLatest,
                HandlerNeedsNothing, BatchIsNext, ChildIsNext, Timed, HasTimes,
                WriterHoldsChild, Clean, Follow, BucketIsLast, ClearIsOwn, GetsTheLast,
                Getting, HandlerHasLast, BehindIsReplaced, Coming
  <2> QED BY <2>1, OneStep
<1>3. OneIInv => QuietAgrees
  <2> SUFFICES ASSUME OneIInv, Quiet, child # None, ~value[child].needed, Clean
               PROVE  kv # None /\ kv.time = value[child].time
    BY DEF QuietAgrees, Clean
  <2>1. Handler \in Goroutine /\ pc[Handler] = "idle" /\ ~Coming
    BY DEF Goroutine, Quiet, Coming
  <2>2. value[child].time = own /\ value[child].time > 0
    BY <2>1 DEF OneIInv, Follow, BehindIsReplaced, Timed, HasTimes
  <2>3. written # {}
    BY <2>2 DEF OneIInv, IInv, TypeOK, ValuesRecorded, Recorded
  <2> QED BY <2>2, <2>3 DEF OneIInv, Follow, BucketIsLast
<1> QED BY <1>1, <1>2, <1>3, Inductive, PTL DEF Spec, OneIInv

=============================================================================
