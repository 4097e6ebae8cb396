# Verification of foliage-sdk

TLA+ specifications of the foliage SDK (Go, `src/`), the TLC configurations
that check them on small instances, and TLAPS proofs of theorems about them for
instances of any size. `PROJECT.json` lists every run, the source lines behind
every definition (`map`), and for every checked property a *mutant*: a bug a
programmer could have made in the mapped code that makes TLC refute it.

Contents: [1. the system](#1-the-system) · [2. the modules](#2-the-modules) ·
[3. the runs](#3-the-runs) · [4. fairness](#4-fairness) · [5. the
proofs](#5-the-proofs) · [6. what the code does otherwise than
documented](#6-findings) · [7. what is not modelled](#7-not-modelled) · [8. the
plan](#8-the-plan)

## 1. The system

Foliage runs *stateful functions*. A function has a *typename* and is invoked
for an *id*; invocations of one id are to be executed one after the other, and
each id has a context object. Processes share state through NATS: JetStream
carries signals, plain NATS carries requests, and one key/value bucket holds the
contexts, the graph and the distributed mutexes. Every process keeps a cache of
the bucket. On top of that, functions shipped with the SDK implement a graph
database, a query language and transactions.

```
   NATS JetStream (signals)   NATS (requests)          key/value bucket
          |                        |                    ^          | watch
          v                        v                    | put      v
   signal source            request source         lazy writer   update handler
   (nats_sources.go)               |                    \          /
          \                       /                    cache (cache.go)
           v                     v                           ^
        sendMsg -> channel of the id -> id handler -> function: graph CRUD,
        (function_type.go)   ^                        JPGQL, transactions, ...
                             gc                              |
                                          Signal / Request (ingress.go)
```

### Components

For each: the state it keeps, its operations, who it interacts with, what is
hard about it, and what makes it correct.

**Keyed mutex** (`statefun/system/system.go:26-54`, *modelled*).
A `sync.Map` from keys to mutexes. `Lock` stores a mutex of its own that is not
locked yet, locks whichever mutex the map holds, and starts again when that is
not its own. `Unlock` removes the entry and unlocks. Used by `sendMsg` and `gc`.
Hard: everything happens in separate atomic steps; a waiter may lock a mutex that
has left the map. Correct: one holder per key, no unlock of an unlocked mutex, no
entry nobody removes, and lockers cannot restart each other forever.

**Function type dispatcher** (`statefun/function_type.go`, *modelled*).
Per type: a channel, a last message time and an executor for each active id, the
lock of the id, and `instancesControlChannel` with a token per handler.
`sendMsg` finds or creates the channel and its handler goroutine and enqueues
the message, or refuses it; `idHandlerRoutine` executes messages; `gc`, called by
the runtime, closes the channel of an idle id.
Hard: gc reads the time without the lock and closes a channel while its handler
executes; senders, handlers and gc touch four maps in different orders.
Correct: no panic on a channel, nothing accepted is lost, handlers end, tokens
match handlers, an id can always be sent to, invocations of an id do not overlap.

**Distributed mutex** (`statefun/kv_mutices.go`, *modelled*).
A key of the bucket holding the lock time, or 0. Lock, renew, unlock; waiters
watch the key; a lock older than `kvMutexLifeTimeSec` is taken over. Used by the
runtime for single-instance types and by functions (`ObjectMutexLock`).
Hard: compare-and-set on revisions that are read again, unconditional writes for
missing and expired keys, crashes of holders, calls that fail after they had
their effect. Correct: exclusion, no missed release, dead locks are taken over.

**Cache** (`statefun/cache/cache.go`, *one key modelled*).
A tree of `StoreValue`s, each with value, time, and flags for what is to be
written (`syncNeeded`, `syncedWithKV`) or collected (`purgeState`). Clients set,
set-if-absent, delete, read; the *lazy writer* goes round the tree, puts what
waits into the bucket and collects garbage; the *update handler* receives every
write to the bucket, including the process's own echoes.
Hard: three kinds of goroutines work on a value between whose loads and locks
anything may happen; puts fail, with or without effect; echoes arrive late;
deleted values must be remembered; other processes write the same key.
Correct: the flags tell the truth, the bucket never goes back in time, what waits
is written, cache and bucket agree when all is quiet, a deletion is final.

**Runtime** (`statefun/runtime.go`, *not modelled*). Starts the cache,
subscriptions and, per single-instance type, a distributed mutex that it renews
for ever. Hard: failed renewals are logged only; a type found locked is skipped
for ever. Correct: a single-instance type runs in at most one process, and in
one when there is one.

**Sources** (`statefun/nats_sources.go`, *not modelled*). Turn a NATS message
into `sendMsg`; ack after execution, nak when refused; JetStream redelivers after
`AckWait`. Correct: every signal is executed at least once. (That a refused
message is sent again is the action `SendAgain` of `FunctionType`.)

**Signals and requests between functions** (`statefun/ingress.go`, *requests
between functions of one process modelled, in `GraphLinks`*). `goLangLocalRequest` waits for the result on an unbuffered channel,
with a timeout; the handler that produces the result blocks on that channel.
Hard: a timed out requester leaves its handler stuck for ever; two functions
that request each other. Correct: a handler always ends.

**Unbounded channel** (`CreateDimSizeChannel`, `system.go:56-117`, *not
modelled*). Two goroutines and a notifier. Correct: order kept, nothing lost,
nothing stays in the buffer while a reader waits.

**Graph CRUD, low level** (`embedded/graph/crud/ll_crud.go`, *modelled*). A
vertex body, out links with body, name and tag indices on the source, in links
on the target; a link operation changes its source vertex and requests the
change of the target. Hard: no atomicity across vertices, and six functions that
run at once on one vertex. Correct: link, indices and in link agree; link names
are unique per vertex; an answered call has taken effect.

**Graph CRUD, high level** (`embedded/graph/crud/hl_crud.go`, *modelled*).
Types, links between types, objects, links between objects, each a handful of
low level requests one after the other; a cascading deletion; triggers, found by
the type of what a call was about, when its requests are done. Hard: nothing is
taken back when a request fails or is given up, and what was read may have
changed when the request is made. Correct: an object is there with its type and
all its links, or not at all (but for what an update of a missing one leaves); a link between objects has the type declared for
their types; a creation is announced when the object is whole; a cascade deletes
what is reachable.

**JPGQL** (`embedded/graph/jpgql`, *modelled*). A query spreads over vertices;
results are aggregated either over the tree of calls by counters (`ctra`) or by a
root that watches pending records in the cache (`dcra`). Hard: termination
detection with replies in any order, on graphs with cycles; signals that are lost
or delivered twice; a timeout while processes still evaluate the query. Correct:
the answer is given once, after the last process, and is the exact result.

**Transactions** (`embedded/graph/tx`, *modelled*). `Begin` takes a mutex of the
transaction and copies the graph, or a part of it, under a prefix; twelve
functions change the copy, marking what is to be deleted; `Commit` has `Push`,
of which there is one for all transactions, merge the copy an element at a time
and delete it. Hard: the merge is many requests and takes nothing back; the
mutex expires, is freed by failing calls, and by a commit that was given up while
its merge goes on; other transactions copy what is half merged. Correct: nothing
of a transaction is seen before its commit, a commit brings what the calls did
and nothing else, nothing is deleted that nobody asked for, and a transaction
has one client at a time.

**Plugins, debug, logger, metrics, NATS helper, integration tests.** The table
of executors is in `FunctionType`; `DeleteKeyValueValue` of the NATS helper is in
`CacheSync`. The rest is output, configuration, or needs an external engine.

The code has no `recover()`: a panic ends the process. The specifications treat
a panic as the end of the process, or as a restart.

## 2. The modules

| module | models | checked by |
|---|---|---|
| `KeyLock` | the abstract lock per key: `Acquire`, `Release` | refined by `KeyMutex`, used by `FunctionType` |
| `KeyMutex` | `system.KeyMutex`, per `sync.Map`/`sync.Mutex` call | `MCKeyMutex` |
| `FunctionType` | the dispatcher of one function type, `INSTANCE KeyLock` as the lock of an id | `MCFunctionType` |
| `KVMutex` | one key of the distributed mutex | `MCKVMutex` |
| `CacheSync` | one key of the cache of one process, and the bucket | `MCCacheSync` |
| `GraphLinks` | the low level graph functions, key by key, and their requests to each other | `MCGraphLinks` |
| `JPGQL` | what a query asks: objects of links and filters, "." and ".." | extended by the next three |
| `Query` | the abstract evaluation: one answer, exact or a failure | refined by both evaluations |
| `QueryCache` | evaluation with pending records in the cache (`dcra`) | `MCQueryCache` |
| `QueryTree` | evaluation with counters over the tree of calls (`ctra`) | `MCQueryTree` |
| `ObjectGraph` | the graph of types and objects, the low level requests, what the functions read | extended by the next four |
| `ObjectCalls` | the twelve functions of `hl_crud.go`: what each reads, and the requests it then makes | extended by the next three |
| `Objects` | their handlers, a request at a time, with triggers, cascades and late requests | `MCObjects` |
| `TransactionCalls` | the twelve functions of a transaction, by calls of those of `ObjectCalls` | extended by `Transaction` |
| `Transaction` | sessions, `Begin`, calls, `Commit`, `Push` and the merge | `MCTransaction` |
| `*Proofs` | theorems about the module they extend (`MutexProofs`: about `KeyMutex` and `KVMutex`) | TLAPS |

In every module an action is the code between two points where another
goroutine can take effect: one atomic operation, one critical section, or one
call of NATS. Local variables that survive such a point are variables of the
specification, indexed by goroutine, and `pc` says where the goroutine is.

### KeyMutex

| code | specification |
|---|---|
| entry of the `sync.Map` | `m[k]` |
| `*sync.Mutex` | an address in `Mutex`, locked when it is in `locked` |
| locals `m`, `mm` of `Lock` | `own[p]`, `mm[p]` |
| `Lock`: `LoadOrStore`, `mm.Lock`, comparison | `LoadOrStore`, `LockMutex`, `Retry` |
| `Unlock`: `Load`, `Delete`, `Unlock` | `UnlockLoad`, `UnlockDelete`, `UnlockMutex` |

Addresses are reused only when nothing refers to them (`Fresh`), as a garbage
collected heap does; two per goroutine less one suffice, so the bound of the
run (five for three) hides nothing. `Release` of the refinement happens in `UnlockDelete`: from then on a
newcomer gets the key although the old mutex is still locked.

### FunctionType

| code | specification |
|---|---|
| `idHandlersChannel`, `idHandlersLastMsgTime`, `executors` | functions of the id |
| a channel and its goroutine | `c \in Chan`, with `buffer[c]`, `closed`, `handlerOf[c]`, `running[c]` |
| `instancesControlChannel` | `tokens`, its length |
| `sendMsg` | `SendCall`, `SendLock`, then `SendFound`, `SendLimit` or `SendCreate`, then `SendEnqueue` (accepts, refuses, or panics) |
| `idHandlerRoutine`, `handleMsgForID` | `HandleBegin`, `HandleEnd`, `HandlerExit` |
| `gc` | `GCFind` (the time, without the lock), `GCLock`, `GCClose`, `GCRemove` |

Time is reduced to what gc asks: whether the last message is recent or old
(`Age` makes it old). The function called by a handler is a step that returns.
`fate` is history: what became of each message. Each channel is a fresh one; a
closed channel whose handler ended may be reused. A message that has been done
may be sent again as a new one, so behaviours are infinite with few messages.
`MaxLingering` bounds how many handlers of closed channels may exist when gc
closes another.

### KVMutex

| code | specification |
|---|---|
| the entry of the key | `kv`: revision and lock time, or `None` |
| locals `entry`, `now`, `mutexResetLockNeeded` | `entry`, `now`, `reset` |
| returned revision | `rev` |
| `kwWatchMutex` of a process | `kwWatchMutex[p]` |
| `KeyMutexLock` | `LockCall`, `LockReset` / `LockFree` / `LockTaken`, then `LockPut` or `LockUpdate`, or `WatchOpen`, `WatchRead`, `WatchError` |
| `KeyMutexLockUpdate`, `KeyMutexUnlock` | `RenewCall/Get/Update`, `UnlockCall/Get/Update` |

`Failures` says what may go wrong: `"call"`, a NATS call returns an error, with
or without its effect; `"watch"`, opening or reading a watch fails; `"crash"`, a
process ends and starts again. Revisions are only compared, so a write takes the
least one that no client remembers; the specification needs twice the clients
and one, and `Rev` has them. The clock is bounded by `MaxTime`.

### CacheSync

| code | specification |
|---|---|
| a `StoreValue` | a node in `StoreValue`; `value[n]` has `time`, `exists`, `needed` (`syncNeeded`), `synced` (`syncedWithKV`), `purge` |
| the root's `store` | `child`, the node of the key, or `None` |
| locals of `SetValue`, `DeleteValue`, ... | `target[g]` (the loaded node), `arg[g]` (value, time and flag) |
| lazy writer | `LazyRead`, `LazyRecheck`, `LazyPut` or `LazyPutFails`, `LazyClear`, `CollectCheck`, `CollectDetach` |
| `finalBytes` | `batch`, `None` for nil |
| update handler | `Receive...`, `Compare`, then `SetLoad/SetPut/SetStore`, `ConfirmLoad/Confirm`, `Complete` or `EraseRead/EraseDelete` |
| the bucket and its watch | `kv`, `updates`, external |

A value is identified with the time it was set at. Two calls never read the same
time (`clock` advances with each): the code compares nanosecond clocks and its
behaviour on a tie is not modelled. `written` and `own` are history: every entry
the bucket ever had, and the time of the last record the lazy writer put. A
`StoreValue` is reused only when nothing refers to it. `RootFree` says that the
lazy writer's `Range` holds the root's mutex, so creating or removing the child
has to wait; the value's own mutex is free between its critical sections.
`Superseded` drops an entry of the watch that has been replaced, which the bucket
(one message per key) is free to do; `Restart` empties the cache and replays the
bucket. `Events` says what happens besides the process itself: `"other"`
processes write, puts `"fail"` (with or without effect), `"restart"`.

### GraphLinks

| code | specification |
|---|---|
| keys `<v>`, `<v>.out.body.*`, `.out.name.*`, `.out.index.*`, `.out.namegen`, `.in.*` | `vertex`, `body`, `outName`, `outIndex`, `nameGen`, `inLink` |
| an id handler of a function | `h = <<function, vertex, composite>>`, with `queue[h]`, its messages, and `frame[h]`, the execution with its locals, or `None` |
| `<id>===create_in_link`, `<id>===delete_in_link` | `<<"linkCreate", id, TRUE>>`, `<<"linkDelete", id, TRUE>>` |
| `LLAPIVertexCreate`, `...Update` | `VertexStart`, `SetVertex` |
| `LLAPIVertexDelete` | `ListOut`, `RequestDelete`, `ListIn`, `RequestDelete`, `DropGen`, `DropVertex` |
| `LLAPILinkCreate` | `CreateStart`, `ChooseName`, `ReadGen`, `WriteGen`, `SetName`, `SetIndex`, `SetBody`, `SetTags`, `RequestIn`; for the in link `InLink` |
| `LLAPILinkUpdate` | `UpdateStart`, `DropName`, `DropIndex`, `DropTags`, then as a creation without `RequestIn` |
| `LLAPILinkDelete` | `DeleteStart`, `ReadBody`, `DropBody`, `DropName`, `DropIndex`, `DropTags`, `RequestIn`; `InLink` |
| `goLangLocalRequest` | `Request`, then the location `"await"` until `Reply` |
| `resultJSONChannel <- data` | `Reply` |

Each access to the cache is a step, because functions of different types for one
vertex run concurrently; only the messages of one function for one vertex wait
for each other. The module assumes what `FunctionType` shows: a handler executes
its messages in order and one at a time (nothing stays long enough for gc), and
the queue is not full, which with one call per client it cannot be. Left out are calls
without a required argument, refused before any change, operation stacks, and
the bodies of vertices. A link's body is its name and its tags; how the easyjson
library merges two arrays of tags is left open (`Updated`). The tags of a body
are written, and deleted, in one step, and `GetKeysByPattern` is one step. Nobody gives up
a request here. A generated name is a number; `MaxGen` bounds them in the guard of
`ClientCall` only. What callers may call is `Calls`; `MCGraphLinks` assumes of it
`CallersAreApart`, `VerticesAreApart` and `NamesAreChosen`, which the theorems have
as hypotheses.

### JPGQL, QueryCache, QueryTree

`JPGQL` has no state. A query is a sequence of steps; a *process* is an object
with the part of the query that is left for it, which is what both evaluations
make their keys from. `Objects` are the ends of links with a type and a filter,
`Stops` and `Passed` where ".." ends and goes on, `Found` and `Asked` the results
of a process and the processes it asks. `Result` is defined by the least set of processes
closed under asking; `Meaning` by paths, from the documentation.

| code | `QueryCache` |
|---|---|
| `jpgql_dcra.<query>.pending.<process>` | `value[p]`, `None`, `"pending"` or `"done"` |
| `initPendingProcess` (`SetValueIfDoesNotExist`) | `InitPending`; `SendPending`, its notification under the lock of the parent (`ParentFree`) |
| `thisPendingDone` (`SetValue`) | `PutDone`, `SendDone` |
| signals: publication, delivery, second delivery | `Publish`, `Begin`, `Redeliver` |
| `pendingMap`, `resultObjects` and the aggregating goroutine | the same names; `Receive`, `Timeout`, then `Close` and `Remove` of the subscription |

| code | `QueryTree` |
|---|---|
| function context of `<object>===<process id>` | `context[p]`: `_callbacks`, `_result`, `_reply_object_id` |
| call with the plain id | `Root`, `Subscribe` |
| `getState` = 0 | `HandleAgain` (registered already), `HandleLeaf` (nobody to ask), `HandleQuery` |
| `getState` = 1 | `HandleResult`, with `replyCaller` when the counter becomes zero |
| the subscription to the result | `channel`, `Receive`, `Timeout`, each with the close and the removal of the subscription (`jpgql.go:114`, `cache.go:523`) |

In `QueryTree` a signal is handled in one step, since all signals to one object
within a query have one id and nobody else touches its context. The end of a
subscription is one step, too: what a reply between the close of the channel and its
removal would do is asked of `QueryCache` only. `QueryCache`
follows the calls of the cache, since its processes share the parent of the keys
and the channel of the subscriber.

### ObjectGraph, ObjectCalls, Objects

A graph has a body for every vertex and every link `<<from, type, to>>`. A
request of a low level function is one step: `GraphLinks` shows how it gets
there and that the keys agree afterwards. A body is a value (of a link between
types: its `link_type`) and whether `__meta.status` is "deleted"; `Merged` is
easyjson's `DeepMerge`. Types and objects are ids, sequences of one name.

| code | specification |
|---|---|
| a function of `hl_crud.go`, up to its first request | an operator of `ObjectCalls`, with the set of plans: `Refused`, or `Ok` and the requests |
| a handler | `handler[n]`: the requests still to be made, the operation stack, the queue of a cascade |
| reads, then request after request, then triggers and the answer | `Begin`, `Do`, `Finish` |
| a request that is refused, or given up after `requestTimeoutSec` | `Fail`; it may be executed at any later time: `Late` |
| the loop of `DeleteObject` in mode "cascade" | `Visit`, then `Do` |
| `executeTriggersFromLLOpStack` | `Operations`, `Signals`: what is announced about which vertex or link |

All reads between two requests are one step. A pattern that may find several
keys, of which the code takes the first, gives a set of plans. `Legal` has four
rules for clients: no two calls work on one type or object at a time, nor does an
object get a type that is being created; an object gets a type that is listed;
a cascade, and a change of a link between types, run alone, the latter while no
link of the old type exists; a type that is not listed is not created while it
has objects. Without them little holds (section 6). `Start` are graphs that the
functions make of an empty one when nothing fails (`Sound`).
`disturbed` is history: ids about which a call has failed, or that a late
request, or a cascade, has changed. So is `bare`: vertices that an update has made
because they were missing.

### TransactionCalls, Transaction

| code | specification |
|---|---|
| `x=<id>` | `Copy(x, id)`, which is `<<x>> \o id` |
| a call of a transaction: several calls of `hl_crud.go` | `Then` and `ForEach` chain the plans of `ObjectCalls` |
| `Begin`: mutex, `txmaster` vertex, root of the copy | `Begin`, when the mutex is free or expired |
| clones: full (`statefun.go:953`), with types, empty | which elements there are is what `Begin` saw; their bodies are read, and copied, by `Clone` |
| the twelve functions | `CallTx`; what they ask to delete, `Asks`, goes into `asked`, what they do to something else, `Strays`, into `astray`: both are history |
| `Commit`, its request given up | `Commit`, `CommitTimeout` |
| `Push`: the states, each element, the final cascade | `PushBegin`, `PushVertex`, `PushLink`, `PushAbort`, `PushEnd` |

A session is what one client does, from `Begin` to `Commit` or to the first call
that is refused or fails, which frees the mutex. The main graph is changed by
commits only. `Push` has one id and is modelled as one at a time, as its handler is
meant to be; across a gc that closes the channel of a merge that takes long, a second
one could start (`FunctionTypeOverlap`, section 6), which is left out. The requests of one call are executed in one step, or up to
the one that fails, and so is the cascade at the end of `Push`: `Objects` is
about how these interleave. A request that is given up in a call is executed at
once or not at all. Elements of a merge are taken in any order (Go's order of
maps); those whose request changes nothing count as done.

`CopyInto` copies all of the graph with the bodies of the built-in vertices (`fullClone`),
or creates these with empty bodies and then copies the selected elements over them
(`initBuilInObjects`, `cloneGraphWithTypes`). `Paste` is one such round: a vertex that
is there is created again, which takes its links.

The update of an object that was not copied makes keys with dots inside
(`CreateWithKey`, section 6). `getChildren` and the cascade read the last two tokens of a key
as type and end of a link, so such a key is a link with a fourth component, which its
vertex leads along as along any other; no request that names a link, or deletes the
links of a vertex, finds it (`IsLink`). `fragment` stands for the ends that are no
ids, like `name0` or `namegen`: no vertex has them.

`clean`, `fresh`, `before`, `exact` and `asked` are history: whether a session
found nothing of an earlier one and saw no other merge, the graph before a
merge, and what was asked to be deleted. `Flaky` are the elements whose copying
may fail, `MaxFailures` bounds everything that goes wrong, expiry included.

## 3. The runs

Properties in **bold** are also proved (section 5).

| run | question | bounds | distinct states |
|---|---|---|---|
| `KeyMutex` | is it a lock, in every interleaving? | 3 goroutines, 1 key, 5 addresses | 39 k |
| `FunctionTypeSafety` | no panic, no lost message, tokens right, with full channels and a limit | 2 senders, 2 ids, 2 payloads, channels of 1, limit 2, 3 channels | 143 k |
| `FunctionTypeLive` | is everything accepted handled while gc replaces handlers? | 1 id, 2 senders, 2 payloads, 3 channels | 21 k |
| `FunctionTypeOverlap` | *violation*: are messages of an id executed one at a time? | 1 id, 2 channels | |
| `KVMutexCas` | is it exclusive while only compare-and-set is used? | 3 processes, lifetime not exceeded, all failures | 74 k |
| `KVMutexFair` | are releases noticed and dead locks taken over? | 2 clients of one process, lifetime 1, 3 instants, crashes | 33 k |
| `CacheSync` | do flags, cache and bucket agree, and is everything written? | 1 client, 3 nodes, 2 instants, 3 updates, all events | 136 k |
| `GraphLinks` | do the keys of a link agree, is an answer true, is every call answered? | 2 clients, 3 vertices, 3 links, 1 name, 1 tag, 3 generated names | 269 k (2 minutes) |
| `QueryCache` | is the answer of `dcra` exact, in every interleaving? | 3 graphs of 3 vertices, 3 queries, 1 signal repeated, any lost, timeout | 146 k (2 minutes) |
| `QueryTree` | is the answer of `ctra` exact, do the counters match? | 67 graphs of 3 vertices, 3 queries, any signal lost, timeout | 57 k (2 minutes) |
| `Objects` | are objects whole, links declared, creations announced, cascades exact? | 2 types, 2 objects, 2 link types, 3 calls, 1 failure | 308 k |
| `Transaction` | do transactions exclude and not see each other, is a commit exact? | 2 sessions, 2 transactions, 3 ways to copy, 2 calls of 12 functions, 1 failure | 359 k (2 minutes) |

**KeyMutex.** **`MutualExclusion`**, **`NoPanic`**, `LockProgress` (somebody who wants
a key gets it: the restarts of `Lock` cannot go on for ever), and
**`ImplementsKeyLock`**, the refinement. Three goroutines are the least with
which a waiter holds a stale mutex while another one has stored a new one and a
third waits for that. Keys do not interact.

**FunctionTypeSafety.** **`NoChannelPanic`**: gc and senders agree on which
channels are open although gc decides by a time it read without the lock.
**`AcceptedIsQueued`**: gc never takes a channel away from under a message.
Two ids compete for the tokens, capacity 1 makes full channels, three channels
let a closed handler linger beside two open ones. Deadlock is not checked: after
the lock leak of section 6 all senders may be blocked, and a panic ends the
process.

**FunctionTypeLive.** Without a limit (so the leak cannot happen)
`AcceptedIsHandled`, `ClosedHandlerEnds` and `LockIsReleased` hold while up to
three handlers of one id exist.

**KVMutexCas.** **`MutualExclusion`** when the key exists and no lock gets too
old, with failing calls, failing watches and crashes at every step. The exclusion
is claimed for a lock within its lifetime: past it, a takeover is what the
code is for. (The theorem in section 5 lets locks expire.)

**KVMutexFair.** `FreeIsTaken`, `WaiterSeesRelease`: the release between the
`Get` that found the key locked and the `Watch` is not missed, and waiters of one
process that share `kwWatchMutex` do not block each other. `DeadLockIsTakenOver`:
a lock that nobody renews is taken over (asked only while the clock has a later
instant). Failing
watches are excluded: `kv_mutices.go:76` retries while it still holds
`kwWatchMutex`, which it then waits for; with `Failures = {"watch"}` TLC finds
`WaiterSeesRelease` violated by exactly that.

**CacheSync.** **`UnneededIsWritten`**: a value that does not wait for the writer
has been in the bucket, with its time and flag. This is what the comparison of
times in `LazyClear` is for, and what a lost update would violate.
**`OwnWritesMoveForward`**: whatever fails or restarts, the writer's records never go
back in time (with one client; two clients that read the clock in one order may
store in the other). **`QuietAgrees`**: when nothing is under way, and no other
process wrote and nothing was deleted, cache and bucket agree. `NeededIsWritten`:
what waits is written, or it is changed, or it leaves the cache. Two instants
let a value be replaced once while an older one is put or echoed; the invariants were also
checked with three instants and two updates (1.85 million states, too slow for a
routine run), without a difference. Three nodes are enough for one that is in the
tree, one detached but loaded by a client, and one loaded by the writer.

**GraphLinks.** One client creates and deletes a link a→b; the other one creates
a→c, creates or updates c→c, and creates, updates and deletes the vertex c with
the links from and to it. They never change one link at the same time (nothing in the code orders calls
of different functions for one link; that is left to callers) but share
everything else: the functions of a, the counter of generated names, and
the one name both ask for. That makes every interesting case happen: a name
taken, freed and generated, an in link written while its vertex is deleted, a
link to the vertex itself through the composite id, a chain of requests three
functions long. **`KeysAgree`**: when nobody changes a link, its body, in link, name
and indices are all there, as the body says, or none is. **`NamesAreUsed`**: no name
key stays behind, which would keep the name from being used again.
**`NamesAreUnique`** at every moment. **`AnswerMeansDone`**: an answered call has taken
effect, with both sides of a deleted vertex's links. `CallsAreAnswered`.

What the run excludes is not safe: TLC finds `NamesAreUnique` violated when an
update (`linkUpdate` on a→c) runs next to a creation on the same vertex, since
the two functions both look a name up before either takes it; and when a caller
chooses a name of the form of the generated ones (`Name = {0}`), which the code
never looks up. Calls that overlap on one link leave keys that disagree.

**QueryCache.** **`ImplementsQuery`**: the goroutine that aggregates answers once,
with the result of exactly the processes that the query comes to, although it
only ever knows the processes it has been told of. It depends on the order of
things in the code: a new key is announced while the parent of the keys is
locked, before its process is signalled and before the one that made it is done.
**`NoPanic`**: after the answer nobody writes a
key any more, so nobody sends on the channel that is closed then, unless the query
timed out or a signal was repeated. `QueryEnds`: cycles in the graph do
not keep a query alive; lost signals do, until the timeout, which the run never
forces. The graphs have a chain, a diamond with a cycle, two links to
one object, and a link of an object to itself; the queries have "..", filters
and "*".

**QueryTree.** **`CountersMatch`**: a counter is the number of replies still due,
under way, lost, or still to be given by a process that waits. Processes
do not wait for each other in a circle when the graph has one (`QueryEnds`); the reply of the
loop prevention (`jpgql.go:239`) sees to that. **`ImplementsQuery`**: although that reply is empty
and a process may evaluate a query several times, the union is exact.
**`AnswerHasMeaning`** compares it with the paths `docs/jpgql.md` speaks of (".."
stops at first occurrences), for both evaluations, which share `JPGQL`.
Signals are delivered once here: a query that is delivered twice is answered
twice, and TLC then finds an answer with a part of the result.

**Objects.** Any three calls, two or three at once, on an empty graph and on two
linked objects of two types, so that every function finds what it needs in one of
the two; one of the requests may fail anywhere, and be executed at any later
time. **`ObjectsAreWhole`**: an object is whole or not there, whatever calls for other
objects, and for its type, do meanwhile; except for the vertex without a link that
`object.update` leaves of an object nobody has created (section 6). **`LinksAreDeclared`**: the type of a link is read before it is created; that
nothing changes between the two, is a rule for clients (`Legal`), and the property says
that no other call, failure or late request makes or leaves a link of another type, or
one without its ends.
**`CreationIsAnnounced`**: triggers look the type up in the graph, so they come after
the links. **`CascadeIsReachability`**: the queue and the set of ids that were seen
delete, one by one, through cycles and while links vanish, the vertices that can
be reached, except exactly one of the last ones. `CallsEnd`. Three calls are two
that race and one before them that makes a case for them; two types and objects
are the ends of a link. The fourth rule of `Legal` was found by proving, and matters with four calls
only (section 6). The inductive invariant of section 5 was checked at these bounds, too, with four
calls on one type and one object (5.5 M states), and by simulation with eight calls and
three failures.

**Transaction.** Two sessions, of one transaction or of two, each on a full copy, an
empty one (`min`, so that a call has to copy what it is about), or one of a type with its object. The main
graph has bodies that differ from those that partial copies make. There are thirteen calls,
of all twelve functions, `object.update` in both modes; the first one is any but
the creation of a link, the second one links a created object, or deletes the object that
most calls are about; so an object that is updated, replaced, linked or gone with its type
is deleted by the same session, or by another one whose commit races; one thing
fails anywhere. That an object is created in the second call, too, was checked
as well (599 k states, too slow for a routine run), without a difference. Commits are in the default mode, `merge`, whose effect on a body is not
that of taking it; `replace` is left to the theorems, which are about both. **`OneSessionAtATime`**.
`TransactionsAreIsolated`: no step of a session changes another part of the graph, and
no merge another transaction; the run checks it of keys with dots, too.
**`OnlyAskedIsDeleted`**: whatever other
sessions merged meanwhile, and wherever a merge broke off. They hold as long as no
call makes copies of copies, and the latter as long as none goes `astray` at all (section 6)
and for a root that nobody asked to
delete; the run's calls go astray too. `CallsActOnTheView`: a
call means in the transaction what the function of the same name means in the
graph. `CommitIsExact`: in whatever order the elements come, a commit brings all that
the transaction shows and nothing else. Which body an element has afterwards is part of it: the default mode, and
links in both, merge the transaction's body into the one that is there (`Brought`). So
what `object.update` replaced, or a partial copy made empty, is *not* as the transaction shows it
(section 6); the run has both cases. Transactions are symmetric (there is no liveness property);
sessions begin in order, so they are not.

## 4. Fairness

Goroutines are scheduled fairly by Go: *weak fairness* of their steps, nowhere
more than that except where a mutex gives more.

* `KeyMutex`: strong fairness of `LockMutex(p)`. A `sync.Mutex` is fair: a waiter
  that has been passed over for a millisecond gets the mutex before newcomers.
  None for `Lock` and `UnlockLoad` being called by clients except that a holder
  does unlock.
* `FunctionType`: weak fairness of each sender, handler and gc between their
  calls. A function returns (section 7: requests). Nobody is promised the lock
  of an id, no message is ever sent, and gc need not run.
* `KVMutex`: weak fairness of locking, waiting and holding, strong of
  `WatchOpen(c)`, because it waits for `kwWatchMutex`, a `sync.Mutex`; the clock
  goes on. Crashes are never forced.
* `CacheSync`: weak fairness of the lazy writer, a loop that never ends. Strong
  fairness of `LazyPut`, the put that succeeds: the run allows puts to fail any
  number of times, not for ever. Strong fairness of the handler, which waits for
  the root's mutex the lazy writer takes again and again. Clients, other
  processes and restarts have none.
* `QueryCache`, `QueryTree`: weak fairness of handlers and of the aggregating
  goroutine. That a notification reaches that goroutine assumes that
  `CreateDimSizeChannel` delivers (its missed wake-up is a hazard of its own).
  Timeouts and failures are never forced.
* `GraphLinks`: weak fairness of each handler, a goroutine; none of clients.
* `Objects`: weak fairness of each handler, a goroutine whose requests succeed
  or are given up. Failures and late requests are never forced.
* `Transaction` has no liveness property: whether a merge ends depends on the
  client's elements having bodies.

## 5. The proofs

All proofs are checked to the last leaf. Each is of the form `Init => IInv`,
`IInv /\ [Next]_vars => IInv'` with a lemma per action, `IInv => property`.

**`MutexProofs`** has both mutexes. The keyed one, for any sets of goroutines, keys
and addresses: `TypeCorrect`, `MutexExcludes`, `UnlockNeverPanics`, `NoOrphanEntry`,
`Refinement` (`Spec => KL!Spec`). `MutualExclusion` is not inductive: a waiter
that locks a stale mutex is excluded only by what each location knows
(`AtLocation`: whoever is between `Lock` and `Unlock` still has its own mutex in
the map), by `LockedByOne` (a mutex is locked by one goroutine) and by
`OwnIsPrivate` (nobody else's `own` is mine, which is what `Fresh` gives).

The distributed mutex (`D`, an instance of `KVMutex`), for any clients and
processes, any clock and lifetime, a key that exists or not, whatever calls fail and
whoever crashes: `DistributedTypeCorrect` without a condition, and
`CompareAndSetExcludes`, `D!Spec /\ []D!LonelyTakeover => []D!MutualExclusion`.
`LonelyTakeover` is a condition on states: when a client is about to write without
comparing revisions (`mutexResetLock`, for a key that is missing or a lock that is too
old), nobody else has the mutex, is about to write like that, or has read a free
mutex that is still the entry. So locks may expire and be taken over as often as one
likes; what is left out is a takeover that meets somebody, and the code does
nothing against that: there `MutualExclusion` is false (section 6).
Strengthening: `RevisionNamesEntry` (an entry a client remembers with the present
revision is the present entry), `LockHasTime` (who is about to lock has a time to
write, and has read a free mutex if it compares), and `OneOwner`, which counts
clients that are unlocking as owners. TLC checked `IInv` under that condition with
two clients, a lifetime of 1 and a clock up to 4, with and without the key.

**`FunctionTypeProofs`**, for any ids, senders, channels, capacity and limit:
`TypeCorrect`, `ChannelsNeverPanic`, `HandlersAreLimited`, `NoForgottenHandler`,
`NothingAcceptedIsLost`. Strengthening: `SenderHoldsLock` and `GCHoldsLock` (in
its critical section a goroutine holds the lock of its id and its channel is the
registered one), `ChannelIsRegistered` (a registered channel serves its id and is
open, except between gc's `GCClose` and `GCRemove`). `TokensCounted` adds that
the handlers are finitely many.

**`CacheSyncProofs`**, for any number of clients, nodes, instants and updates:
`TypeCorrect` and `NothingIsTakenForWritten`. The argument: a time that a client
has read from the clock is its own until it stores it (`ArgsFresh`: no node, no
record, no other goroutine has it). So a value with the time of `batch` is the
value that was put (`BatchMatches`), and `LazyClear`, which clears the flag only
when the times are equal, clears the right one (`ClearRecorded`). The handler
stores only what it received, which was in the bucket (`ArgsRecorded`,
`BucketRecorded`).

For one client (`OneClient`; of two that read the clock in one order, one may store
in the other), `OwnWritesAreInOrder` and `TheyAgree`, the latter as long as no other
process has written and nothing has been deleted. For the first, `InOrder`: a
call under way is later than whatever was put or waits to be put, and what the
writer is going to put is not before what it put. For the second: the bucket has
the last record that was put, and the watch ends with it (`BucketIsLast`); a client
that loads from the bucket gets it (`GetsTheLast`), because nothing that is not in
the cache waits to be put; unless it is still to come from the watch, what the
handler stores is that record (`HandlerHasLast`), and an older value in the cache
is about to be replaced by it (`BehindIsReplaced`).

**`GraphLinksProofs`**, for any vertices, types, names, tags, clients and calls.
`TypeCorrect` has no hypothesis. Its invariant, `IInv`, says what a frame holds at
each location (`FrameOK`), and that a handler that waits has one request under
way, which it asked for and which is answered once (`Served`, `Once`).

`KeysKeepAgreeing`, `NamesKeepBeingUsed` and `NamesStayUnique` hold for callers
that are apart and choose names unlike the generated ones, `CallersAreApart` and
`NamesAreChosen`, as the run's callers do; TLC refutes them for others (section 3).
The code orders calls of different functions no more than that. `AnswersAreTrue`
needs `VerticesAreApart`, too: two clients never call functions of one vertex at
the same time, or the second one may create, between the last write and the answer,
what the first one has deleted. The argument has four layers, each of which needs
the one before:

1. *Who works for whom.* Every message has a client that it comes from in the end,
   at most four requests up (`Root`). What it may touch lies within that client's call
   (`Serving`), and all that works for one client stands in one line, in which only
   the last one does not wait (`Line`). So, the calls being apart, of the messages
   about one link only one is not waiting (`OneActive`), and who executes
   on a link is alone there (`OthersElsewhere`).
2. *The keys of a link*, `Keys`: a link that nobody works on has all its keys or
   none (`Whole`), and for each location of the handler that does work on it, which
   of them are there (`Doing`, `Due`). An in link that is requested is the one key
   missing, or left over, when the request is sent, waits and is executed.
3. *The names of a vertex*, `Names`: each name key is held by a link, whose body
   shows it or whose handler has written it or has still to drop it (`Holds`),
   and by one link only. A generated name is below the
   counter (`NamesAreCounted`). It stays so when the counter is reset, because the
   deletion of a vertex has deleted its out links by then, and nobody creates one
   meanwhile (`OutLinksGo`).
4. *What has been done*, `Effects`: the tags that a call gives are in the body that
   the handler has composed, and in the body of the link once it is written. They
   stay there while the handler waits for the in link, because the one it waits for
   changes no body and all others work elsewhere (`BodyIsKept`). Who works on a
   vertex is alone there (`OneAtVertex`). The in links of a vertex go as its out
   links do: none is left when the vertex is dropped (`InLinksGo`).

**`TransactionProofs`**, for any main graphs, sessions, transactions, calls and
failures: `TypeCorrect`, `TransactionsExclude`, `PartsStayApart` and
`OthersAreNotDeleted`. That a transaction has one
session is not inductive, because `Begin` looks at its mutex only: every session
holds the mutex of its transaction until it ends (`Protected`), and what ends one
after a merge, and frees that mutex, is a record that `Push` was given by a session
(`PushesAreOfSessions`). What the calls and merges do to the graph is not used, and
the other two theorems do not need it: they hold when mutexes expire and requests
are given up.

`PartsStayApart` is `TransactionsAreIsolated` (`StaysApart` in each step) until a call
makes copies of copies or keys with dots; for the latter the run alone has it. The step
of the call that makes the keys is still in the theorem (`KeyedCallStays`), what merges and
cascades do with them is not. Its invariant, `Apart`, holds that long: a link of the graph is one of the main graph or of one
transaction, or leads to the root of one (`InPlace`); what a session has found to
copy is of the main graph; and what is left to merge is of the transaction that is
merged. Each step needs something of its own:

* a call: that whatever requests it may make, in each of the graphs that its earlier
  requests lead to, are about ids of its transaction (`PlansAreProper`, function by
  function; `Then` and `ForEach` keep it, by induction over their calls);
* `Begin`, `PushBegin` and the final cascade: that they find what is on their side
  only. They find what a vertex leads to, which is the least set with the vertex
  that no link leaves (`ReachableIsLeast`); the ids of a transaction are closed, and
  so are those of the main graph;
* a merge: that the name that `Normal` makes of the id of a copy is one of the main
  graph. For a copy of a copy it is not, hence the exception.

`OthersAreNotDeleted` is `OnlyAskedIsDeleted`. Marks are what a merge deletes by, so
every mark in a transaction must have been asked for (`MarksAsked`). That
alone is not enough: `VertexRequest` creates what it did not find in the main graph
when the merge began, and the creation of a vertex that is there deletes its links.
So nothing may have come to be led to by the root since (`Foreseen`): until all
vertices are merged, no link is; and a link that is merged has its ends, or is not
merged because one of them was deleted, so that it does not bring a vertex back.
Then the links of the main graph lead to its vertices (`MainWhole`), which the next
merge counts on.

**`ObjectsProofs`**, for any types, objects, link types, sound start graphs, numbers
of calls at once and of failures: `TypeCorrect`, `ObjectsStayWhole`,
`LinksStayDeclared`, `CreationsAreAnnounced` and `CascadesFollowLinks`. None of them is
inductive, because a handler acts on what it read before its first request. The
invariant says

* of each object (`ObjectOK`): while it is created, exactly which of its vertex and
  three links are there, by the number of requests left (`Made`); otherwise, that it
  has its vertex, one type and the three links of it, and no other such link, or
  no link, and no vertex but one that an update made (`IsWhole`, `IsUnmade`);
* of the types: those listed are there (`TypesThere`), and those of two linked
  objects have a link of that type (`Declared`);
* of each handler (`Relies`), that what it read still holds: a type that is created has
  no objects, or is there once its vertex was made; a link between types that is
  created is not there, one that is changed has no links between objects that follow
  it; an object that is linked is whole, and the types of both ends have
  the link type that was looked up; a cascade has found every object of the vertex
  it is about to delete.

Nothing is said of `Loose` ids: those `disturbed`, and what a running cascade has found.
A step of a handler is about few ids (`About`), which no other handler is about. So
the proof has three lemmas that carry everything else over, for objects, handlers and
links (`ObjectStays`, `RelyStays`, `MainStays`), from what a step leaves alone
(`Quiet`, proved once for all six low level requests, `ApplyQuiet`), and one lemma for
the requests of each function, which sees to its own ids only. A failure, a late request
and a step of a cascade are about `Loose` ids only, for which `SteadyStep` is enough.

What a cascade leaves (`CascadesFollowLinks`) needs an invariant of its own, `Cascades`,
which holds until something fails; it was checked with TLC at the bounds of `Objects`,
too. A cascade runs alone, so it is about one queue and one graph (`Cascading`). `Level`:
there is a set of vertices such that all of them have been looked at, the queue has what is
left of the next level, before what that level leads to, and what is yet to be found is
the same from this set on as it was from the beginning. `Followed`: what has been looked
at leads to what has been seen. `Deleted`: what is gone is what has been looked at, but
for the vertex whose deletion is requested, so the links that are missing lead only to
what has been seen (`LessChildren`). When the first of the queue is not in its level, that
level is done and the next one takes its place (`HeadInLevel`); when nothing is left,
the vertex just looked at is in the last level, and stays. For this, `Spread` must be
what its definition says: that the recursive function exists for a finite graph is proved
by its size (`BeyondExists`, as in `TransactionProofs`).

The two modules about queries begin with what both evaluations rest on: a process
only asks processes with a part of the query, and what the query comes to is the
least set with the query that is closed under asking.

**`QueryCacheProofs`**, for all graphs and queries, whatever signals are lost or
repeated: `TypeCorrect`, `SendsBeforeTheEnd` and `AnswersExactly` (`Spec =>
Q!Spec`). The goroutine that aggregates stops when all it knows are done; that
this is all there is follows from `ChildrenAnnounced`: nobody's end comes before
the announcement of everybody it asked, in the channel or in `pendingMap`. That
holds because who finds a key made by somebody else (`KeysAnnounced`) finds it
announced, the announcement being sent under the lock of the parent. So what is
done is closed under asking (`DoneIsReached`). For the panic, `NotDoneYet`: who
still has something to do has not reported, unless its signal was repeated.

**`QueryTreeProofs`**, for all finite graphs and all queries, whatever signals
are lost: `TypeCorrect`, `CountersAreRight` and `AnswersExactly`. The counters
need that a process asked by another one is a query, a waiting process or a
reply, never two of them (`Once`). The answer needs two things more. `Rooted`:
any set of waiting processes without the first one has a member that was asked
from outside of it. It says, without counting, that they do not wait in a circle:
so when the first one gets its last reply, and nobody else was asked by it, nobody
waits at all, and nothing is under way. `Covered`: there is a set of processes that
have been evaluated, whose results have been collected by somebody, and which only
ask each other or whom a query is on its way to. It takes the empty replies of the
loop prevention into account: who replies so is in the set already. In the
end this set is closed under asking, so its results are all.

Two theorems say what that answer is. `ResultIsMeaning`: for finitely many vertices,
the results of a query are those of the paths `docs/jpgql.md` speaks of. A step of
a query ends in all that lies ahead of where it begins; a path that meets no vertex
twice leads there, and one that is as long as there are vertices is enough. The
inductions over the length of a path and over the steps of a query go by the least
number that would refute them (`Upwards`), since the library's induction theorems
are out of reach. `AnswersHaveMeaning` is the invariant of the evaluation.

The assumptions are the named `ASSUME`s of the modules, which TLC evaluates:
distinct `None`, sizes that are natural numbers, finitely many vertices; in `Objects`,
ids that are sequences of one name (`IdsAreApart`) and `StartIsSound`; in
`Transaction`, ids of the main graph that do not begin with the name of a transaction
(`PlainId`; the code tells copies by their prefix, `merge.go:85`), nor with `key`, which
is what a `fragment` is called, in calls, clones
and start graphs (`CallsAreOnPlainIds`, `ClonesAreOfPlainIds`, `NamesAreApart`), and
start graphs without marks whose links lead to their vertices (`StartIsUnmarked`). The
hypotheses of theorems are `Bucket`, which is what `KVMutex` assumes of its
constants, and `LonelyTakeover`, `OneClient`, `CallersAreApart`, `VerticesAreApart` and
`NamesAreChosen`, as said above.

Only model-checked: all liveness, which is out of the prover's reach, and of
`Transaction`, what becomes of keys with dots in `TransactionsAreIsolated`, and
`CallsActOnTheView` and `CommitIsExact`. The last two compare what a call does in a transaction with what another function does to
the whole graph that the transaction shows, for the one by composing the requests of
both, for the other over all orders in which a merge may take its elements.

## 6. Findings

A run that TLC refutes, with code and document quoted in `PROJECT.json`:

* `FunctionTypeOverlap`: gc closes the channel of an executing handler; the next
  message starts another one, against the sequential execution that
  `docs/glossary.md:11` promises.

The others are hazards: they leave the passing runs by a bound, a rule for
clients, or an exception that the property names; dropped, TLC finds them.

* Cache: a deleted value has no time to compare with (`cache.go:538`), so the echo
  of an older record brings it back, and the deletion is never written.
* Requests: a link a→b and a link b→a created at the same time wait for each
  other (`ll_crud.go:440`), since each in link is written by the function whose
  handler is waiting. After the timeout one goes on, but the handler that comes
  to execute its abandoned request sends the result to a channel without a receiver
  (`ingress.go:90`), and is stuck, with every later call of that function for that vertex.

Two results about `FunctionType` are kept as hazards. `sendMsg` returns at the
limit of handlers without unlocking the id (`function_type.go:94`), so that every
later message for the id blocks its source: with `MaxIdHandlers = 1` and two ids
TLC finds `LockIsReleased` violated. And gc removes the executor of an id while
its closed channel still holds messages; the next `GetForID` panics on nil (the
second disjunct of `HandleBegin`).

Two results about `KVMutex` are kept as hazards: with `EntryExists = FALSE` in
`KVMutexCas.cfg`, two processes that find the key missing both lock it
(`MutualExclusion` violated), and past its lifetime a client whose lock was taken
over frees its successor's, because unlock compares with the revision it has just
read.

What the functions for types and objects do otherwise than one would think, all
of it in `ObjectCalls` and `Objects`:

* The cascade of `DeleteObject` takes an element out of its queue and deletes it
  only if the queue is not empty then (`hl_crud.go:214`): the last one stays, and
  with it an object that leads nowhere.
* `UpdateTypesLink` looks the old link type up at a path that no body has, so that
  the links between objects keep the old type (`hl_crud.go:341`, against the
  comment at line 305); without the rule about it in `Legal` TLC finds
  `LinksAreDeclared` violated. A link that is updated while its source is deleted
  is created again, and stays: the same property, without the rule that no two
  calls work on one object.
* `CreateObject` and `CreateType` take nothing back. Called again, the one is
  content with the first of three links, the other one with the link from the
  list; before that they start over from the vertex, which deletes what is there.
  Hence the fourth rule of `Legal`. Without it, four calls violate `ObjectsAreWhole`:
  `type.create` fails at its vertex, a second one succeeds, an object gets the type,
  the first request is executed late and deletes the link from the list of types with the others, and
  a third `type.create` deletes those of an object that is just being made.
* `UpdateObject` asks for no object (`hl_crud.go:158`): the update of a vertex that is
  missing makes it (`ll_crud.go:146`). What it leaves is a vertex without type and links, which
  `ObjectsAreWhole` names (`IsBare`); a creation of the object makes it whole later.
* The creation of a link between types leaves out the body of the call, and the
  functions that delete a type, or such a link, answer "ok" and do nothing.
* Triggers for a deletion never fire: the type is looked up after it.

And transactions:

* Commit answers "ok" when the merge was given up (`statefun.go:160`) or broke off
  (`merge.go:79`), and frees the mutex although a merge may still go on. A call that
  is refused frees it too, and the mutex is never renewed. Whoever begins then
  shares the transaction (`OneSessionAtATime` needs `failures = 0`).
* A transaction that begins while another one is merged copies what is half
  done. When it commits, updates are lost, and what was deleted comes back.
  If two transactions delete one object, the second one creates it again, with the
  mark in its body.
* A retry of a merge that broke off takes the main graph as it is then: an element
  that was deleted is created again. A vertex that the first attempt created but did
  not link is created again, and loses its links (the exception in
  `OnlyAskedIsDeleted`).
* The final cascade leaves a vertex of the copy, and a later transaction of the
  same name with a partial copy takes it in (sessions that are not `clean`).
* `UpdateObject` of an object `o` that was not copied looks its type `t` up and takes the
  whole key, `o.out.body.__type.t`, for its name (`statefun.go:429`). The requests succeed, and
  the keys of the links between `x=o` and that type all begin with `x=o.out.body.`. So for
  `getChildren` (`traverse.go:141`) and for the cascade (`hl_crud.go:195`), which take the last tokens
  of a key, the copy leads to `t` of the main graph and whatever that leads to, to
  itself, and to tokens like `namegen` that are no ids. A commit whose merge comes to such a token ends
  there, "not found" (`merge.go:81`), having merged some of the vertices in the order of a map;
  it answers "ok", the cascade is not run, and the keys stay, so that
  later commits of that name end likewise. A merge that does not come to the keys is followed by
  the cascade of the whole copy: with a mutex that expired or a commit given up, a call can
  make the keys while its transaction is being merged, and then the cascade deletes `t` and
  its objects in the main graph, which nobody asked for. TLC finds `OnlyAskedIsDeleted` violated when it
  does not except these calls (`"keys"` in `astray`). No request finds the keys any more,
  so they survive the deletion of the vertex.
* A transaction does not bring what it shows when a body in it lacks something
  that the main graph has: an `object.update` in mode `replace`, committed by default
  (`merge.go:100`, `ll_crud.go:197`), and the built-in vertices of a partial copy, which are
  empty there (`statefun.go:874`). The old content is back after the commit, and with a commit in mode
  `replace` the built-in vertices of the main graph lose theirs.
* `UpdateObjectsLink` and `UpdateTypesLink` give an end that the transaction lacks
  to a function that adds the prefix again (`helper.go:29`, `helper.go:46`).
  The call is refused, the copy of a copy stays; a commit by a later session of the
  transaction merges it under the name of a copy (`merge.go:85` takes one prefix off),
  and links the main graph with a transaction's part. Three sessions do that, which is more than the
  run has: it was the proof of `PartsStayApart` that met it, and `astray` names it.
* `DeleteTypesLink` finds the links between objects by the type of the link between
  their types, and marks them by `objects.link.update`, which looks that type up for
  the two ends (`statefun.go:663`). If the target has another type, reached by another link type,
  it is another link that gets the mark, and is deleted. The proof of
  `OthersAreNotDeleted` met it: the other thing that `astray` names.
* A session may ask for the deletion of an object called `root`; from then on a merge
  does not know what the main graph has, since it sets out from there.

What else the specification of the cache can do, without a property that
excludes it (all listed as hazards at their lines):

* `collectGarbage` decides under the value's lock and deletes the key later: a
  value stored in between leaves the tree with it.
* `SetValue` loads the `StoreValue` and locks it later: after its removal the
  value goes to a node nobody finds.
* The update handler compares times and stores later: a client's newer value may
  be overwritten by an older record. `UnneededIsWritten` still holds.
* The echo of an own deletion takes the branch of newer records, so a tombstone
  is never confirmed and never collected.
* `DeleteKeyValueValue` erases the last message of the key, which may be newer
  than the deletion it was called for.
* The flag read again at `cache.go:445` makes the writer put nil; another
  process's `GetValue` panics on it (`GetPanics`). The value is put afterwards.

## 7. Not modelled

* Values, JSON, keys as strings, logging, metrics, configuration: data.
* In `FunctionType`: what a function does. A function that requests another one
  may block for ever (section 6), so `AcceptedIsHandled` is about
  functions that return. The context of an id is a cache value.
* In `KVMutex`: clocks that differ between processes; the wrappers at the end of
  the file, which only compute keys.
* In `CacheSync`: intermediate nodes, `GetKeysByPattern` and the consistency
  times, subscriptions, equal times of two calls, and the fixed pause of the lazy
  writer. `TransactionBegin`..`TransactionEnd` of the cache have no caller.
* In `JPGQL`: parsing, and queries or filters that are refused; `&&` of filters
  is taken by its result. In the evaluations: changes of the graph during a query,
  the optional call of a function for each result, the overlap of two
  executions of one id (`FunctionTypeOverlap`), and replying to the caller.
* In `ObjectCalls`: calls without a required argument; bodies beyond a value and a
  mark. In `Objects`: clients that break `Legal`; functions that triggers call.
* In `Transaction`: what a session does after a call that was refused; a `Begin` that
  fails when it has copied some elements (it ends before that, or misses one); requests of
  a call that are executed after it was given up; steps of other sessions between
  the requests of one call or within the final cascade; changes of the main graph
  from outside of transactions.
* Components marked so in section 1; plugins run in an external engine, the debug
  printer and the logger only write output, the integration tests need a server.

## 8. The plan

In order of importance. The set of runs is kept small: a new question may
replace the violation run, whose finding then becomes a hazard with a note.

1. Failing requests in `GraphLinks`.
2. `Replies`: who answers a function that is requested and signalled in turn
   (`function_type.go:177`).
3. `CommitIsExact` as a theorem: the merge of a clean, fresh session in any order.
4. `SignalSource`: at-least-once delivery with acks, naks and `AckWait` over the
   dispatcher.
5. `DimSizeChannel`: refines an unbounded queue; liveness of what is buffered.
6. `CacheTree`: intermediate nodes, patterns and consistency loss, level
   subscriptions; two caches over one bucket.
7. `SingleInstance`: the runtime's locks over `KVMutex`.
8. `CallsActOnTheView` as a theorem, function by function.
