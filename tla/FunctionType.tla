---------------------------- MODULE FunctionType ----------------------------
(***************************************************************************)
(* The dispatcher of one function type (statefun/function_type.go).  Every *)
(* id that receives messages has a channel and a goroutine, the id         *)
(* handler, that takes messages from it and runs the function on them.     *)
(* sendMsg creates both on demand and puts the message into the channel;   *)
(* gc closes the channel of an id that received nothing for a while.       *)
(* Handlers keep a token of instancesControlChannel, which limits how many *)
(* there are.                                                              *)
(*                                                                         *)
(* The lock of an id, idKeyMutex, is the specification KeyLock, which      *)
(* system.KeyMutex implements (module KeyMutex).  Time is reduced to what  *)
(* gc asks of it: whether the last message of an id is recent or old.      *)
(***************************************************************************)
EXTENDS Naturals, Sequences, FiniteSets

CONSTANTS
    Id,             \* ids of the function type
    Payload,        \* tells the messages of an id apart
    Sender,         \* goroutines that call sendMsg
    Chan,           \* channels; each has one handler goroutine
    GC,             \* the goroutine that calls gc
    None,
    MsgChannelSize, \* capacity of a channel
    MaxIdHandlers,  \* 0: not limited
    HasExecutor,    \* whether the type has a plugin executor
    MaxLingering    \* bound: handlers of closed channels when gc closes one more

ASSUME NoneIsNew == None \notin Id \cup Sender \cup Chan \cup {GC}
ASSUME GCIsNoSender == GC \notin Sender
ASSUME SizesAreNat ==
    /\ MsgChannelSize \in Nat \ {0}
    /\ MaxIdHandlers \in Nat
    /\ MaxLingering \in Nat
    /\ HasExecutor \in BOOLEAN

Msg == [id : Id, payload : Payload]

ASSUME NoneIsNoMsg == None \notin Msg

VARIABLES
    idKeyMutex,             \* the holder of the lock of each id
    idHandlersChannel,      \* the channel of each id, or None
    idHandlersLastMsgTime,  \* "none", "recent" or "old"
    executors,              \* ids with an executor instance
    tokens,                 \* length of instancesControlChannel
    handlerOf,              \* the id served by the handler of a channel, or None
    buffer,                 \* what is in each channel
    closed,                 \* channels that are closed
    running,                \* the message a handler executes, or None
    pc, msg, msgChannel,    \* sendMsg: location, argument, local variable
    gcId, gcPc,             \* gc: the id it found, and where it is
    fate,                   \* what became of each message
    panic                   \* "none", or what brought the process down

lockVars == <<idKeyMutex>>
handlerVars == <<handlerOf, buffer, closed, running, tokens>>
mapVars == <<idHandlersChannel, idHandlersLastMsgTime, executors>>
sendVars == <<pc, msg, msgChannel>>
gcVars == <<gcId, gcPc>>
vars == <<lockVars, handlerVars, mapVars, sendVars, gcVars, fate, panic>>

Lock == INSTANCE KeyLock
        WITH Process <- Sender \cup {GC}, Key <- Id, holder <- idKeyMutex

Fate == {"new", "sending", "accepted", "running", "done", "refused"}
Panic == {"none", "send on closed channel", "close of closed channel",
          "nil channel", "nil executor"}

Init ==
    /\ Lock!Init
    /\ idHandlersChannel = [i \in Id |-> None]
    /\ idHandlersLastMsgTime = [i \in Id |-> "none"]
    /\ executors = {}
    /\ tokens = 0
    /\ handlerOf = [c \in Chan |-> None]
    /\ buffer = [c \in Chan |-> <<>>]
    /\ closed = {}
    /\ running = [c \in Chan |-> None]
    /\ pc = [s \in Sender |-> "idle"]
    /\ msg = [s \in Sender |-> None]
    /\ msgChannel = [s \in Sender |-> None]
    /\ gcId = None
    /\ gcPc = "range"
    /\ fate = [m \in Msg |-> "new"]
    /\ panic = "none"

\* A panic ends the process.
Alive == panic = "none"

Handlers == {c \in Chan : handlerOf[c] # None}

\* Channels that nothing refers to.
FreshChan == {c \in Chan \ Handlers : \A i \in Id : idHandlersChannel[i] # c}

-----------------------------------------------------------------------------
(* sendMsg *)

SendCall(s, m) ==
    /\ Alive
    /\ pc[s] = "idle"
    /\ fate[m] = "new"
    /\ fate' = [fate EXCEPT ![m] = "sending"]
    /\ msg' = [msg EXCEPT ![s] = m]
    /\ pc' = [pc EXCEPT ![s] = "lock"]
    /\ UNCHANGED <<lockVars, handlerVars, mapVars, gcVars, msgChannel, panic>>

\* ft.idKeyMutex.Lock(id)
SendLock(s) ==
    /\ Alive
    /\ pc[s] = "lock"
    /\ Lock!Acquire(s, msg[s].id)
    /\ pc' = [pc EXCEPT ![s] = "lookup"]
    /\ UNCHANGED <<handlerVars, mapVars, gcVars, msg, msgChannel, fate, panic>>

\* sendMsg returns.
SendReturn(s) ==
    /\ pc' = [pc EXCEPT ![s] = "idle"]
    /\ msg' = [msg EXCEPT ![s] = None]
    /\ msgChannel' = [msgChannel EXCEPT ![s] = None]

\* The id has a channel.
SendFound(s) ==
    /\ Alive
    /\ pc[s] = "lookup"
    /\ idHandlersChannel[msg[s].id] # None
    /\ msgChannel' = [msgChannel EXCEPT ![s] = idHandlersChannel[msg[s].id]]
    /\ pc' = [pc EXCEPT ![s] = "enqueue"]
    /\ UNCHANGED <<lockVars, handlerVars, mapVars, gcVars, msg, fate, panic>>

LimitReached == MaxIdHandlers > 0 /\ tokens >= MaxIdHandlers

\* The limit of handlers is reached: the message is refused and sendMsg
\* returns from the middle, without unlocking the id.
SendLimit(s) ==
    /\ Alive
    /\ pc[s] = "lookup"
    /\ idHandlersChannel[msg[s].id] = None
    /\ LimitReached
    /\ fate' = [fate EXCEPT ![msg[s]] = "refused"]
    /\ SendReturn(s)
    /\ UNCHANGED <<lockVars, handlerVars, mapVars, gcVars, panic>>

\* A channel is made and its handler started, with a token if they are counted.
SendCreate(s) ==
    /\ Alive
    /\ pc[s] = "lookup"
    /\ idHandlersChannel[msg[s].id] = None
    /\ ~LimitReached
    /\ tokens' = IF MaxIdHandlers > 0 THEN tokens + 1 ELSE tokens
    /\ \E c \in FreshChan :
        /\ handlerOf' = [handlerOf EXCEPT ![c] = msg[s].id]
        /\ buffer' = [buffer EXCEPT ![c] = <<>>]
        /\ closed' = closed \ {c}
        /\ running' = [running EXCEPT ![c] = None]
        /\ idHandlersChannel' = [idHandlersChannel EXCEPT ![msg[s].id] = c]
        /\ msgChannel' = [msgChannel EXCEPT ![s] = c]
    /\ executors' = IF HasExecutor THEN executors \cup {msg[s].id} ELSE executors
    /\ pc' = [pc EXCEPT ![s] = "enqueue"]
    /\ UNCHANGED <<lockVars, idHandlersLastMsgTime, gcVars, msg, fate, panic>>

\* Mutant: a message that does not fit leaves the id locked.
EnqueueLeak(s) ==
    LET c == msgChannel[s]
        i == msg[s].id
    IN  /\ Alive
        /\ pc[s] = "enqueue"
        /\ idHandlersLastMsgTime' = [idHandlersLastMsgTime EXCEPT ![i] = "recent"]
        /\ \/ /\ Len(buffer[c]) < MsgChannelSize
              /\ buffer' = [buffer EXCEPT ![c] = Append(@, msg[s])]
              /\ fate' = [fate EXCEPT ![msg[s]] = "accepted"]
              /\ Lock!Release(s, i)
           \/ /\ Len(buffer[c]) >= MsgChannelSize
              /\ fate' = [fate EXCEPT ![msg[s]] = "refused"]
              /\ UNCHANGED <<buffer, lockVars>>
        /\ SendReturn(s)
        /\ UNCHANGED <<handlerOf, closed, running, tokens, idHandlersChannel,
                       executors, gcVars, panic>>

\* The time of the message is stored; the message goes into the channel or,
\* when that is full, back to its source; the id is unlocked.
SendEnqueue(s) ==
    LET c == msgChannel[s]
        i == msg[s].id
    IN  /\ Alive
        /\ pc[s] = "enqueue"
        /\ idHandlersLastMsgTime' = [idHandlersLastMsgTime EXCEPT ![i] = "recent"]
        /\ \/ /\ c \in closed
              /\ panic' = "send on closed channel"
              /\ UNCHANGED <<lockVars, sendVars, buffer, fate>>
           \/ /\ c \notin closed
              /\ \/ /\ Len(buffer[c]) < MsgChannelSize
                    /\ buffer' = [buffer EXCEPT ![c] = Append(@, msg[s])]
                    /\ fate' = [fate EXCEPT ![msg[s]] = "accepted"]
                 \/ /\ Len(buffer[c]) >= MsgChannelSize
                    /\ fate' = [fate EXCEPT ![msg[s]] = "refused"]
                    /\ UNCHANGED buffer
              /\ Lock!Release(s, i)
              /\ SendReturn(s)
              /\ UNCHANGED panic
        /\ UNCHANGED <<handlerOf, closed, running, tokens, idHandlersChannel,
                       executors, gcVars>>

-----------------------------------------------------------------------------
(* idHandlerRoutine and handleMsgForID *)

\* A message is taken from the channel and the function is called.
HandleBegin(c) ==
    /\ Alive
    /\ handlerOf[c] # None
    /\ running[c] = None
    /\ buffer[c] # <<>>
    /\ buffer' = [buffer EXCEPT ![c] = Tail(@)]
    /\ \/ /\ HasExecutor => handlerOf[c] \in executors
          /\ running' = [running EXCEPT ![c] = Head(buffer[c])]
          /\ fate' = [fate EXCEPT ![Head(buffer[c])] = "running"]
          /\ UNCHANGED panic
       \/ /\ HasExecutor /\ handlerOf[c] \notin executors  \* GetForID finds nil
          /\ panic' = "nil executor"
          /\ UNCHANGED <<running, fate>>
    /\ UNCHANGED <<lockVars, mapVars, handlerOf, closed, tokens, sendVars, gcVars>>

\* The function returns and the message is acknowledged or answered.
HandleEnd(c) ==
    /\ Alive
    /\ handlerOf[c] # None
    /\ running[c] # None
    /\ fate' = [fate EXCEPT ![running[c]] = "done"]
    /\ running' = [running EXCEPT ![c] = None]
    /\ UNCHANGED <<lockVars, mapVars, handlerOf, buffer, closed, tokens,
                   sendVars, gcVars, panic>>

\* Mutant: the handler of a closed channel leaves what is in it.
ExitNotDrained(c) ==
    /\ Alive
    /\ handlerOf[c] # None
    /\ running[c] = None
    /\ c \in closed
    /\ handlerOf' = [handlerOf EXCEPT ![c] = None]
    /\ tokens' = IF MaxIdHandlers > 0 THEN tokens - 1 ELSE tokens
    /\ UNCHANGED <<lockVars, mapVars, buffer, closed, running, sendVars,
                   gcVars, fate, panic>>

\* Mutant: the handler of a closed channel stays while its id has another.
ExitUnlessReplaced(c) ==
    /\ Alive
    /\ handlerOf[c] # None
    /\ running[c] = None
    /\ buffer[c] = <<>>
    /\ c \in closed
    /\ idHandlersChannel[handlerOf[c]] \in {None, c}
    /\ handlerOf' = [handlerOf EXCEPT ![c] = None]
    /\ tokens' = IF MaxIdHandlers > 0 THEN tokens - 1 ELSE tokens
    /\ UNCHANGED <<lockVars, mapVars, buffer, closed, running, sendVars,
                   gcVars, fate, panic>>

\* The closed channel is drained: the handler gives its token back and ends.
HandlerExit(c) ==
    /\ Alive
    /\ handlerOf[c] # None
    /\ running[c] = None
    /\ buffer[c] = <<>>
    /\ c \in closed
    /\ handlerOf' = [handlerOf EXCEPT ![c] = None]
    /\ tokens' = IF MaxIdHandlers > 0 THEN tokens - 1 ELSE tokens
    /\ UNCHANGED <<lockVars, mapVars, buffer, closed, running, sendVars,
                   gcVars, fate, panic>>

-----------------------------------------------------------------------------
(* gc *)

\* The lifetime of an id without messages passes.
Age(i) ==
    /\ Alive
    /\ idHandlersLastMsgTime[i] = "recent"
    /\ idHandlersLastMsgTime' = [idHandlersLastMsgTime EXCEPT ![i] = "old"]
    /\ UNCHANGED <<lockVars, handlerVars, idHandlersChannel, executors,
                   sendVars, gcVars, fate, panic>>

\* gc finds an old id, without its lock.
GCFind(i) ==
    /\ Alive
    /\ gcPc = "range"
    /\ idHandlersLastMsgTime[i] = "old"
    /\ Cardinality(closed \cap Handlers) < MaxLingering
    /\ gcId' = i
    /\ gcPc' = "lock"
    /\ UNCHANGED <<lockVars, handlerVars, mapVars, sendVars, fate, panic>>

GCLock ==
    /\ Alive
    /\ gcPc = "lock"
    /\ Lock!Acquire(GC, gcId)
    /\ gcPc' = "close"
    /\ UNCHANGED <<handlerVars, mapVars, sendVars, gcId, fate, panic>>

GCClose ==
    LET c == idHandlersChannel[gcId]
    IN  /\ Alive
        /\ gcPc = "close"
        /\ \/ /\ c = None
              /\ panic' = "nil channel"
              /\ UNCHANGED <<closed, gcPc>>
           \/ /\ c # None /\ c \in closed
              /\ panic' = "close of closed channel"
              /\ UNCHANGED <<closed, gcPc>>
           \/ /\ c # None /\ c \notin closed
              /\ closed' = closed \cup {c}
              /\ gcPc' = "remove"
              /\ UNCHANGED panic
        /\ UNCHANGED <<lockVars, mapVars, handlerOf, buffer, running, tokens,
                       sendVars, gcId, fate>>

\* Mutant: the closed channel stays in the map.
GCForgetsTime ==
    /\ Alive
    /\ gcPc = "remove"
    /\ idHandlersLastMsgTime' = [idHandlersLastMsgTime EXCEPT ![gcId] = "none"]
    /\ executors' = executors \ {gcId}
    /\ Lock!Release(GC, gcId)
    /\ gcId' = None
    /\ gcPc' = "range"
    /\ UNCHANGED <<handlerVars, idHandlersChannel, sendVars, fate, panic>>

GCRemove ==
    /\ Alive
    /\ gcPc = "remove"
    /\ idHandlersChannel' = [idHandlersChannel EXCEPT ![gcId] = None]
    /\ idHandlersLastMsgTime' = [idHandlersLastMsgTime EXCEPT ![gcId] = "none"]
    /\ executors' = executors \ {gcId}
    /\ Lock!Release(GC, gcId)
    /\ gcId' = None
    /\ gcPc' = "range"
    /\ UNCHANGED <<handlerVars, sendVars, fate, panic>>

-----------------------------------------------------------------------------
\* The source sends a message again, or another one like it.
SendAgain(m) ==
    /\ Alive
    /\ fate[m] \in {"done", "refused"}
    /\ fate' = [fate EXCEPT ![m] = "new"]
    /\ UNCHANGED <<lockVars, handlerVars, mapVars, sendVars, gcVars, panic>>

SendStep(s) == SendLock(s) \/ SendFound(s) \/ SendLimit(s)
                   \/ SendCreate(s) \/ SendEnqueue(s)

HandlerStep(c) == HandleBegin(c) \/ HandleEnd(c) \/ HandlerExit(c)

GCStep == GCLock \/ GCClose \/ GCRemove

Next ==
    \/ \E s \in Sender, m \in Msg : SendCall(s, m)
    \/ \E s \in Sender : SendStep(s)
    \/ \E c \in Chan : HandlerStep(c)
    \/ \E i \in Id : Age(i) \/ GCFind(i)
    \/ GCStep
    \/ \E m \in Msg : SendAgain(m)

Spec == Init /\ [][Next]_vars

(***************************************************************************)
(* Goroutines that can run do, and the functions return (the locks they    *)
(* take and the requests they make are not part of this module).  Nobody   *)
(* is promised a lock others keep taking, nor are messages sent or gc run. *)
(***************************************************************************)
Fairness ==
    /\ \A s \in Sender : WF_vars(SendStep(s))
    /\ \A c \in Chan : WF_vars(HandlerStep(c))
    /\ WF_vars(GCStep)

FairSpec == Spec /\ Fairness

-----------------------------------------------------------------------------
TypeOK ==
    /\ idKeyMutex \in [Id -> Sender \cup {GC, None}]
    /\ idHandlersChannel \in [Id -> Chan \cup {None}]
    /\ idHandlersLastMsgTime \in [Id -> {"none", "recent", "old"}]
    /\ executors \in SUBSET Id
    /\ tokens \in Nat
    /\ handlerOf \in [Chan -> Id \cup {None}]
    /\ buffer \in [Chan -> Seq(Msg)]
    /\ closed \in SUBSET Chan
    /\ running \in [Chan -> Msg \cup {None}]
    /\ pc \in [Sender -> {"idle", "lock", "lookup", "enqueue"}]
    /\ msg \in [Sender -> Msg \cup {None}]
    /\ msgChannel \in [Sender -> Chan \cup {None}]
    /\ gcId \in Id \cup {None}
    /\ gcPc \in {"range", "lock", "close", "remove"}
    /\ fate \in [Msg -> Fate]
    /\ panic \in Panic

\* sendMsg never sends on a channel that gc has closed, and gc neither closes
\* a channel twice nor misses the channel of an id it found to be old, though
\* it looks at the time of the last message before it takes the lock.
NoChannelPanic ==
    panic \notin {"send on closed channel", "close of closed channel", "nil channel"}

\* The handlers that count against the limit are the handlers that exist.
TokenPerHandler ==
    MaxIdHandlers > 0 => /\ tokens = Cardinality(Handlers)
                         /\ tokens <= MaxIdHandlers

\* The handler of a channel that is still open is the one that messages for
\* its id go to.  A handler that lost its channel while it was open would wait
\* forever, and keep its token.
OpenHandlerIsRegistered ==
    \A c \in Handlers \ closed : idHandlersChannel[handlerOf[c]] = c

InBuffer(m, c) == \E n \in 1 .. Len(buffer[c]) : buffer[c][n] = m

\* gc never loses a message: one that was accepted and not handled yet is in
\* the channel of a handler that serves its id, open or closed.
AcceptedIsQueued ==
    Alive => \A m \in Msg : fate[m] = "accepted" =>
                 \E c \in Chan : handlerOf[c] = m.id /\ InBuffer(m, c)

\* What was accepted is handled, also when gc closes the channel meanwhile.
AcceptedIsHandled ==
    \A m \in Msg : fate[m] = "accepted" ~> fate[m] = "done"

\* A handler whose channel is closed ends, and its token is free.
ClosedHandlerEnds ==
    \A c \in Chan : (c \in closed /\ handlerOf[c] # None) ~> (handlerOf[c] = None)

\* Whoever locks an id unlocks it.  What a source may expect that has been
\* refused a message: it can send to the id again.
LockIsReleased ==
    \A i \in Id : idKeyMutex[i] # None ~> idKeyMutex[i] = None

\* Messages of one id are executed one after the other (docs/glossary.md).
SequentialPerId ==
    \A c, d \in Handlers :
        /\ handlerOf[c] = handlerOf[d]
        /\ running[c] # None
        /\ running[d] # None
        => c = d

-----------------------------------------------------------------------------
(* The inductive invariant behind the proofs of FunctionTypeProofs. *)

\* Whoever is in a critical section holds the lock of its id, and a sender in
\* it has the channel that is registered.
SenderHoldsLock ==
    \A s \in Sender :
        /\ pc[s] # "idle" => msg[s] \in Msg
        /\ pc[s] \in {"lookup", "enqueue"} => idKeyMutex[msg[s].id] = s
        /\ pc[s] = "enqueue" => /\ msgChannel[s] \in Chan
                               /\ msgChannel[s] = idHandlersChannel[msg[s].id]

GCHoldsLock ==
    /\ gcPc # "range" => gcId \in Id
    /\ gcPc \in {"close", "remove"} => idKeyMutex[gcId] = GC

\* A registered channel serves its id and is open, unless gc is about to
\* remove it; an id has a time only if it has a channel, and gc works on an id
\* that has a time.
ChannelIsRegistered ==
    /\ \A i \in Id : idHandlersChannel[i] # None =>
           \/ /\ handlerOf[idHandlersChannel[i]] = i
              /\ idHandlersChannel[i] \notin closed
           \/ gcPc = "remove" /\ gcId = i
    /\ \A i \in Id : idHandlersLastMsgTime[i] # "none" => idHandlersChannel[i] # None
    /\ gcPc # "range" => idHandlersLastMsgTime[gcId] # "none"
    /\ gcPc = "remove" => idHandlersChannel[gcId] \in closed

TokensCounted ==
    /\ IsFiniteSet(Handlers)
    /\ TokenPerHandler

IInv ==
    /\ TypeOK
    /\ SenderHoldsLock
    /\ GCHoldsLock
    /\ ChannelIsRegistered
    /\ OpenHandlerIsRegistered
    /\ TokensCounted
    /\ AcceptedIsQueued
    /\ NoChannelPanic
=============================================================================
