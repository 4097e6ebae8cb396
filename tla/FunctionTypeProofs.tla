------------------------- MODULE FunctionTypeProofs -------------------------
(***************************************************************************)
(* The dispatcher of a function type for any numbers of ids, senders and   *)
(* channels, any limit of handlers and any capacity: its channels are      *)
(* used safely, the limit is kept, and accepted messages are not lost.     *)
(*                                                                         *)
(* A lemma for each action shows that it preserves the invariant IInv, and *)
(* has a step for each conjunct of it.                                     *)
(***************************************************************************)
EXTENDS FunctionType, FiniteSetTheorems, SequenceTheorems, TLAPS

-----------------------------------------------------------------------------
\* What is behind the head of a sequence is still in its tail.
LEMMA TailKeepsRest ==
    ASSUME NEW q \in Seq(Msg), NEW n \in 1 .. Len(q), q[n] # Head(q)
    PROVE  n - 1 \in 1 .. Len(Tail(q)) /\ Tail(q)[n - 1] = q[n]
  <1>1. q # <<>> /\ Head(q) = q[1] /\ Len(q) \in Nat
    BY LenProperties
  <1>2. Len(Tail(q)) = Len(q) - 1 /\ \A k \in 1 .. Len(q) - 1 : Tail(q)[k] = q[k + 1]
    BY <1>1
  <1>3. QED
    BY <1>1, <1>2

LEMMA SendCallStep ==
    ASSUME IInv, NEW s \in Sender, NEW m \in Msg, SendCall(s, m)
    PROVE  IInv'
  <1> USE DEF IInv, SendCall, Alive, lockVars, handlerVars, mapVars, sendVars,
              gcVars
  <1>1. TypeOK'
    BY DEF TypeOK, Fate
  <1>2. SenderHoldsLock'
    BY DEF SenderHoldsLock, TypeOK
  <1>3. GCHoldsLock'
    BY DEF GCHoldsLock
  <1>4. ChannelIsRegistered'
    BY DEF ChannelIsRegistered
  <1>5. OpenHandlerIsRegistered'
    BY DEF OpenHandlerIsRegistered, Handlers
  <1>6. TokensCounted'
    BY DEF TokensCounted, TokenPerHandler, Handlers
  <1>7. AcceptedIsQueued'
    BY DEF AcceptedIsQueued, InBuffer
  <1>8. NoChannelPanic'
    BY DEF NoChannelPanic
  <1>9. QED
    BY <1>1, <1>2, <1>3, <1>4, <1>5, <1>6, <1>7, <1>8

LEMMA SendLockStep ==
    ASSUME IInv, NEW s \in Sender, SendLock(s)
    PROVE  IInv'
  <1> USE DEF IInv, SendLock, Lock!Acquire, Alive, lockVars, handlerVars,
              mapVars, sendVars, gcVars
  <1>1. TypeOK'
    BY DEF TypeOK
  <1>2. SenderHoldsLock'
    BY NoneIsNew DEF SenderHoldsLock, TypeOK, Msg
  <1>3. GCHoldsLock'
    BY NoneIsNew DEF GCHoldsLock
  <1>4. ChannelIsRegistered'
    BY DEF ChannelIsRegistered
  <1>5. OpenHandlerIsRegistered'
    BY DEF OpenHandlerIsRegistered, Handlers
  <1>6. TokensCounted'
    BY DEF TokensCounted, TokenPerHandler, Handlers
  <1>7. AcceptedIsQueued'
    BY DEF AcceptedIsQueued, InBuffer
  <1>8. NoChannelPanic'
    BY DEF NoChannelPanic
  <1>9. QED
    BY <1>1, <1>2, <1>3, <1>4, <1>5, <1>6, <1>7, <1>8

LEMMA SendFoundStep ==
    ASSUME IInv, NEW s \in Sender, SendFound(s)
    PROVE  IInv'
  <1> USE DEF IInv, SendFound, Alive, lockVars, handlerVars, mapVars,
              sendVars, gcVars
  <1>1. TypeOK'
    BY DEF TypeOK, SenderHoldsLock, Msg
  <1>2. SenderHoldsLock'
    BY DEF SenderHoldsLock, TypeOK, Msg
  <1>3. GCHoldsLock'
    BY DEF GCHoldsLock
  <1>4. ChannelIsRegistered'
    BY DEF ChannelIsRegistered
  <1>5. OpenHandlerIsRegistered'
    BY DEF OpenHandlerIsRegistered, Handlers
  <1>6. TokensCounted'
    BY DEF TokensCounted, TokenPerHandler, Handlers
  <1>7. AcceptedIsQueued'
    BY DEF AcceptedIsQueued, InBuffer
  <1>8. NoChannelPanic'
    BY DEF NoChannelPanic
  <1>9. QED
    BY <1>1, <1>2, <1>3, <1>4, <1>5, <1>6, <1>7, <1>8

LEMMA SendLimitStep ==
    ASSUME IInv, NEW s \in Sender, SendLimit(s)
    PROVE  IInv'
  <1> USE DEF IInv, SendLimit, SendReturn, Alive, lockVars, handlerVars,
              mapVars, sendVars, gcVars
  <1>1. TypeOK'
    BY DEF TypeOK, Fate
  <1>2. SenderHoldsLock'
    BY DEF SenderHoldsLock, TypeOK
  <1>3. GCHoldsLock'
    BY DEF GCHoldsLock
  <1>4. ChannelIsRegistered'
    BY DEF ChannelIsRegistered
  <1>5. OpenHandlerIsRegistered'
    BY DEF OpenHandlerIsRegistered, Handlers
  <1>6. TokensCounted'
    BY DEF TokensCounted, TokenPerHandler, Handlers
  <1>7. AcceptedIsQueued'
    BY DEF AcceptedIsQueued, InBuffer
  <1>8. NoChannelPanic'
    BY DEF NoChannelPanic
  <1>9. QED
    BY <1>1, <1>2, <1>3, <1>4, <1>5, <1>6, <1>7, <1>8

LEMMA SendCreateStep ==
    ASSUME IInv, NEW s \in Sender, SendCreate(s)
    PROVE  IInv'
  <1> USE DEF IInv, SendCreate, FreshChan, LimitReached, Alive, lockVars,
              handlerVars, mapVars, sendVars, gcVars
  <1>1. TypeOK'
    <2>1. msg[s] \in Msg /\ msg[s].id \in Id
      BY DEF SenderHoldsLock, Msg
    <2>2. <<>> \in Seq(Msg)
      OBVIOUS
    <2>3. QED
      BY <2>1 DEF TypeOK
  <1>2. SenderHoldsLock'
    BY DEF SenderHoldsLock, TypeOK, Msg
  <1>3. GCHoldsLock'
    BY DEF GCHoldsLock
  <1>4. ChannelIsRegistered'
    BY DEF ChannelIsRegistered, TypeOK, GCHoldsLock
  <1>5. OpenHandlerIsRegistered'
    BY NoneIsNew DEF OpenHandlerIsRegistered, TypeOK, SenderHoldsLock,
       Handlers, Msg
  <1>6. TokensCounted'
    <2>1. PICK c \in FreshChan :
             handlerOf' = [handlerOf EXCEPT ![c] = msg[s].id]
      OBVIOUS
    <2>2. Handlers' = Handlers \cup {c} /\ c \notin Handlers
      BY NoneIsNew, <2>1 DEF Handlers, TypeOK, SenderHoldsLock, Msg
    <2>3. /\ IsFiniteSet(Handlers')
          /\ Cardinality(Handlers') = Cardinality(Handlers) + 1
      BY <2>2, FS_AddElement DEF TokensCounted
    <2>4. QED
      BY SizesAreNat, <2>3 DEF TokensCounted, TokenPerHandler, TypeOK
  <1>7. AcceptedIsQueued'
    <2> SUFFICES ASSUME NEW m \in Msg, fate[m] = "accepted"
                 PROVE  \E d \in Chan : handlerOf'[d] = m.id /\ InBuffer(m, d)'
      BY DEF AcceptedIsQueued
    <2>1. PICK d \in Chan : handlerOf[d] = m.id /\ InBuffer(m, d)
      BY DEF AcceptedIsQueued
    <2>2. d \in Handlers
      BY NoneIsNew, <2>1 DEF Handlers, Msg
    <2>3. handlerOf'[d] = handlerOf[d] /\ buffer'[d] = buffer[d]
      BY <2>2 DEF TypeOK
    <2>4. QED
      BY <2>1, <2>3 DEF InBuffer
  <1>8. NoChannelPanic'
    BY DEF NoChannelPanic, TypeOK, SenderHoldsLock, GCHoldsLock, ChannelIsRegistered, Msg
  <1>9. QED
    BY <1>1, <1>2, <1>3, <1>4, <1>5, <1>6, <1>7, <1>8

\* A sender about to enqueue holds the lock of its id and the channel that is
\* registered for it, which is open.
LEMMA EnqueueState ==
    ASSUME IInv, NEW s \in Sender, pc[s] = "enqueue"
    PROVE  /\ msg[s] \in Msg /\ msg[s].id \in Id
           /\ idKeyMutex[msg[s].id] = s
           /\ msgChannel[s] \in Chan
           /\ msgChannel[s] = idHandlersChannel[msg[s].id]
           /\ handlerOf[msgChannel[s]] = msg[s].id
           /\ msgChannel[s] \notin closed
  <1>1. /\ msg[s] \in Msg /\ msg[s].id \in Id
        /\ idKeyMutex[msg[s].id] = s
        /\ msgChannel[s] \in Chan
        /\ msgChannel[s] = idHandlersChannel[msg[s].id]
    BY DEF IInv, SenderHoldsLock, Msg
  <1>2. ~(gcPc = "remove" /\ gcId = msg[s].id)
    BY <1>1, GCIsNoSender DEF IInv, GCHoldsLock
  <1>3. idHandlersChannel[msg[s].id] # None
    BY <1>1, NoneIsNew
  <1>4. QED
    BY <1>1, <1>2, <1>3 DEF IInv, ChannelIsRegistered

LEMMA SendEnqueueStep ==
    ASSUME IInv, NEW s \in Sender, SendEnqueue(s)
    PROVE  IInv'
  <1> DEFINE c == msgChannel[s]
             i == msg[s].id
             q == Append(buffer[c], msg[s])
  <1> USE NoneIsNew, GCIsNoSender, NoneIsNoMsg
  <1>1. /\ msg[s] \in Msg /\ i \in Id /\ idKeyMutex[i] = s
        /\ c \in Chan /\ c = idHandlersChannel[i]
        /\ handlerOf[c] = i /\ c \notin closed
    BY EnqueueState DEF SendEnqueue
  <1>2. /\ idHandlersLastMsgTime' = [idHandlersLastMsgTime EXCEPT ![i] = "recent"]
        /\ idKeyMutex' = [idKeyMutex EXCEPT ![i] = None]
        /\ pc' = [pc EXCEPT ![s] = "idle"]
        /\ msg' = [msg EXCEPT ![s] = None]
        /\ msgChannel' = [msgChannel EXCEPT ![s] = None]
        /\ UNCHANGED <<handlerOf, closed, running, tokens, idHandlersChannel,
                       executors, gcId, gcPc, panic>>
    BY <1>1 DEF SendEnqueue, SendReturn, Lock!Release, gcVars
  <1>3. \/ /\ buffer' = [buffer EXCEPT ![c] = q]
           /\ fate' = [fate EXCEPT ![msg[s]] = "accepted"]
        \/ /\ buffer' = buffer
           /\ fate' = [fate EXCEPT ![msg[s]] = "refused"]
    BY <1>1 DEF SendEnqueue
  <1>4. /\ q \in Seq(Msg)
        /\ Len(q) = Len(buffer[c]) + 1 /\ Len(buffer[c]) \in Nat
        /\ q[Len(q)] = msg[s]
        /\ \A n \in 1 .. Len(buffer[c]) : q[n] = buffer[c][n]
    BY <1>1, AppendProperties, LenProperties DEF IInv, TypeOK
  <1> HIDE DEF c, i, q
  <1>5. TypeOK'
    <2>1. buffer' \in [Chan -> Seq(Msg)]
      <3>1. buffer \in [Chan -> Seq(Msg)] /\ (buffer' = buffer \/ buffer' = [buffer EXCEPT ![c] = q])
        BY <1>3 DEF IInv, TypeOK
      <3> QED
        BY <1>1, <1>4, <3>1
    <2>2. fate' \in [Msg -> Fate]
      BY <1>1, <1>3 DEF IInv, TypeOK, Fate
    <2>3. /\ idHandlersLastMsgTime' \in [Id -> {"none", "recent", "old"}]
          /\ idKeyMutex' \in [Id -> Sender \cup {GC, None}]
          /\ pc' \in [Sender -> {"idle", "lock", "lookup", "enqueue"}]
          /\ msg' \in [Sender -> Msg \cup {None}]
          /\ msgChannel' \in [Sender -> Chan \cup {None}]
      BY <1>2 DEF IInv, TypeOK
    <2>4. QED
      BY <1>2, <2>1, <2>2, <2>3 DEF IInv, TypeOK
  <1>6. SenderHoldsLock'
    BY <1>1, <1>2 DEF IInv, TypeOK, SenderHoldsLock, i
  <1>7. GCHoldsLock'
    BY <1>1, <1>2 DEF IInv, TypeOK, GCHoldsLock
  <1>8. ChannelIsRegistered'
    BY <1>1, <1>2 DEF IInv, TypeOK, ChannelIsRegistered
  <1>9. OpenHandlerIsRegistered' /\ TokensCounted' /\ NoChannelPanic'
    BY <1>2 DEF IInv, OpenHandlerIsRegistered, TokensCounted, TokenPerHandler,
                Handlers, NoChannelPanic
  <1>10. AcceptedIsQueued'
    <2> SUFFICES ASSUME Alive, NEW m \in Msg, fate'[m] = "accepted"
                 PROVE  \E d \in Chan : handlerOf'[d] = m.id /\ InBuffer(m, d)'
      BY <1>2 DEF AcceptedIsQueued, Alive
    <2>1. CASE m = msg[s]
      <3>1. buffer' = [buffer EXCEPT ![c] = q]
        BY <1>1, <1>3, <2>1 DEF IInv, TypeOK
      <3>2. buffer'[c] = q
        BY <1>1, <3>1 DEF IInv, TypeOK
      <3>3. Len(q) \in 1 .. Len(q) /\ q[Len(q)] = m
        BY <1>4, <2>1
      <3>4. PICK d \in Chan : d = c
        BY <1>1
      <3>5. InBuffer(m, d)'
        BY <3>2, <3>3, <3>4 DEF InBuffer
      <3>6. handlerOf'[d] = m.id
        BY <1>1, <1>2, <2>1, <3>4 DEF i
      <3>7. QED
        BY <3>5, <3>6
    <2>2. CASE m # msg[s]
      <3>1. fate[m] = "accepted"
        BY <1>3, <2>2 DEF IInv, TypeOK
      <3>2. PICK d \in Chan : handlerOf[d] = m.id /\ InBuffer(m, d)
        BY <3>1 DEF IInv, AcceptedIsQueued
      <3>3. PICK n \in 1 .. Len(buffer[d]) : buffer[d][n] = m
        BY <3>2 DEF InBuffer
      <3>4. n \in 1 .. Len(buffer'[d]) /\ buffer'[d][n] = m
        <4>1. CASE d = c /\ buffer' = [buffer EXCEPT ![c] = q]
          <5>1. buffer'[d] = q
            BY <1>1, <4>1 DEF IInv, TypeOK
          <5>2. QED
            BY <1>4, <3>3, <4>1, <5>1
        <4>2. CASE d # c \/ buffer' = buffer
          BY <1>3, <3>3, <4>2 DEF IInv, TypeOK
        <4>3. QED
          BY <1>3, <4>1, <4>2
      <3>5. QED
        BY <1>2, <3>2, <3>4 DEF InBuffer
    <2>3. QED
      BY <2>1, <2>2
  <1>11. QED
    BY <1>5, <1>6, <1>7, <1>8, <1>9, <1>10 DEF IInv

LEMMA HandleBeginStep ==
    ASSUME IInv, NEW c \in Chan, HandleBegin(c)
    PROVE  IInv'
  <1> USE DEF IInv, HandleBegin, Alive, lockVars, handlerVars, mapVars,
              sendVars, gcVars
  <1>1. TypeOK'
    <2>1. Head(buffer[c]) \in Msg /\ Tail(buffer[c]) \in Seq(Msg)
      BY HeadTailProperties DEF TypeOK
    <2>2. buffer' \in [Chan -> Seq(Msg)]
      BY <2>1 DEF TypeOK
    <2>3. running' \in [Chan -> Msg \cup {None}]
      BY <2>1 DEF TypeOK
    <2>4. fate' \in [Msg -> Fate]
      <3>1. fate \in [Msg -> Fate] /\ "running" \in Fate
        BY DEF TypeOK, Fate
      <3>2. QED
        BY <2>1, <3>1
    <2>5. panic' \in Panic
      BY DEF TypeOK, Panic
    <2>6. QED
      BY <2>2, <2>3, <2>4, <2>5 DEF TypeOK
  <1>2. SenderHoldsLock'
    BY DEF SenderHoldsLock, TypeOK, ChannelIsRegistered, Msg
  <1>3. GCHoldsLock'
    BY DEF GCHoldsLock, TypeOK
  <1>4. ChannelIsRegistered'
    BY DEF ChannelIsRegistered, TypeOK, SenderHoldsLock, GCHoldsLock, OpenHandlerIsRegistered, Handlers, Msg
  <1>5. OpenHandlerIsRegistered'
    BY DEF OpenHandlerIsRegistered, TypeOK, SenderHoldsLock, GCHoldsLock, ChannelIsRegistered, Handlers, Msg
  <1>6. TokensCounted'
    BY DEF TokensCounted, TypeOK, TokenPerHandler, Handlers, Msg
  <1>7. AcceptedIsQueued'
    <2> SUFFICES ASSUME Alive', NEW m \in Msg, fate'[m] = "accepted"
                 PROVE  \E d \in Chan : handlerOf'[d] = m.id /\ InBuffer(m, d)'
      BY DEF AcceptedIsQueued
    <2>1. fate[m] = "accepted" /\ m # Head(buffer[c])
      BY DEF TypeOK
    <2>2. PICK d \in Chan : handlerOf[d] = m.id /\ InBuffer(m, d)
      BY <2>1 DEF AcceptedIsQueued
    <2>3. PICK n \in 1 .. Len(buffer[d]) : buffer[d][n] = m
      BY <2>2 DEF InBuffer
    <2>4. CASE d = c
      <3>1. n - 1 \in 1 .. Len(Tail(buffer[c])) /\ Tail(buffer[c])[n - 1] = m
        BY <2>1, <2>3, <2>4, TailKeepsRest DEF TypeOK
      <3>2. buffer'[d] = Tail(buffer[c])
        BY <2>4 DEF TypeOK
      <3>3. InBuffer(m, d)'
        BY <3>1, <3>2 DEF InBuffer
      <3>4. QED
        BY <2>2, <3>3
    <2>5. CASE d # c
      BY <2>2, <2>5 DEF InBuffer, TypeOK
    <2>6. QED
      BY <2>4, <2>5
  <1>8. NoChannelPanic'
    BY DEF NoChannelPanic, TypeOK, SenderHoldsLock, GCHoldsLock, ChannelIsRegistered, Msg
  <1>9. QED
    BY <1>1, <1>2, <1>3, <1>4, <1>5, <1>6, <1>7, <1>8

LEMMA HandleEndStep ==
    ASSUME IInv, NEW c \in Chan, HandleEnd(c)
    PROVE  IInv'
  <1> USE DEF IInv, HandleEnd, Alive, lockVars, handlerVars, mapVars,
              sendVars, gcVars
  <1>1. TypeOK'
    BY DEF TypeOK, Msg, Fate, Panic
  <1>2. SenderHoldsLock'
    BY DEF SenderHoldsLock, TypeOK, ChannelIsRegistered, Msg
  <1>3. GCHoldsLock'
    BY DEF GCHoldsLock, TypeOK
  <1>4. ChannelIsRegistered'
    BY DEF ChannelIsRegistered, TypeOK, SenderHoldsLock, GCHoldsLock, OpenHandlerIsRegistered, Handlers, Msg
  <1>5. OpenHandlerIsRegistered'
    BY DEF OpenHandlerIsRegistered, TypeOK, SenderHoldsLock, GCHoldsLock, ChannelIsRegistered, Handlers, Msg
  <1>6. TokensCounted'
    BY DEF TokensCounted, TypeOK, TokenPerHandler, Handlers, Msg
  <1>7. AcceptedIsQueued'
    BY DEF AcceptedIsQueued, TypeOK, SenderHoldsLock, ChannelIsRegistered, InBuffer, Msg
  <1>8. NoChannelPanic'
    BY DEF NoChannelPanic, TypeOK, SenderHoldsLock, GCHoldsLock, ChannelIsRegistered, Msg
  <1>9. QED
    BY <1>1, <1>2, <1>3, <1>4, <1>5, <1>6, <1>7, <1>8

LEMMA HandlerExitStep ==
    ASSUME IInv, NEW c \in Chan, HandlerExit(c)
    PROVE  IInv'
  <1> USE DEF IInv, HandlerExit, Alive, lockVars, handlerVars, mapVars,
              sendVars, gcVars
  <1>1. TypeOK'
    <2>1. tokens' \in Nat
      <3>1. c \in Handlers
        BY DEF Handlers
      <3>2. Cardinality(Handlers) \in Nat /\ Cardinality(Handlers) # 0
        BY <3>1, FS_CardinalityType, FS_EmptySet DEF TokensCounted
      <3>3. QED
        BY <3>2 DEF TypeOK, TokensCounted, TokenPerHandler
    <2>2. QED
      BY <2>1 DEF TypeOK
  <1>2. SenderHoldsLock'
    BY DEF SenderHoldsLock, TypeOK, ChannelIsRegistered, Msg
  <1>3. GCHoldsLock'
    BY DEF GCHoldsLock, TypeOK
  <1>4. ChannelIsRegistered'
    BY DEF ChannelIsRegistered, TypeOK, SenderHoldsLock, GCHoldsLock, OpenHandlerIsRegistered, Handlers, Msg
  <1>5. OpenHandlerIsRegistered'
    BY DEF OpenHandlerIsRegistered, TypeOK, SenderHoldsLock, GCHoldsLock, ChannelIsRegistered, Handlers, Msg
  <1>6. TokensCounted'
    <2>1. Handlers' = Handlers \ {c} /\ c \in Handlers
      BY DEF Handlers, TypeOK
    <2>2. /\ IsFiniteSet(Handlers')
          /\ Cardinality(Handlers') = Cardinality(Handlers) - 1
      BY <2>1, FS_RemoveElement DEF TokensCounted
    <2>3. Cardinality(Handlers) \in Nat
      BY FS_CardinalityType DEF TokensCounted
    <2>4. QED
      BY SizesAreNat, <2>2, <2>3 DEF TokensCounted, TokenPerHandler, TypeOK
  <1>7. AcceptedIsQueued'
    <2> SUFFICES ASSUME NEW m \in Msg, fate[m] = "accepted"
                 PROVE  \E d \in Chan : handlerOf'[d] = m.id /\ InBuffer(m, d)'
      BY DEF AcceptedIsQueued
    <2>1. PICK d \in Chan : handlerOf[d] = m.id /\ InBuffer(m, d)
      BY DEF AcceptedIsQueued
    <2>2. d # c
      BY <2>1 DEF InBuffer
    <2>3. QED
      BY <2>1, <2>2 DEF InBuffer, TypeOK
  <1>8. NoChannelPanic'
    BY DEF NoChannelPanic, TypeOK, SenderHoldsLock, GCHoldsLock, ChannelIsRegistered, Msg
  <1>9. QED
    BY <1>1, <1>2, <1>3, <1>4, <1>5, <1>6, <1>7, <1>8

LEMMA AgeStep ==
    ASSUME IInv, NEW i \in Id, Age(i)
    PROVE  IInv'
  <1> USE DEF IInv, Age, Alive, lockVars, handlerVars, mapVars, sendVars,
              gcVars
  <1>1. TypeOK'
    BY DEF TypeOK, Msg, Fate, Panic
  <1>2. SenderHoldsLock'
    BY DEF SenderHoldsLock, TypeOK, ChannelIsRegistered, Msg
  <1>3. GCHoldsLock'
    BY DEF GCHoldsLock, TypeOK
  <1>4. ChannelIsRegistered'
    BY DEF ChannelIsRegistered, TypeOK, SenderHoldsLock, GCHoldsLock, OpenHandlerIsRegistered, Handlers, Msg
  <1>5. OpenHandlerIsRegistered'
    BY DEF OpenHandlerIsRegistered, TypeOK, SenderHoldsLock, GCHoldsLock, ChannelIsRegistered, Handlers, Msg
  <1>6. TokensCounted'
    BY DEF TokensCounted, TypeOK, TokenPerHandler, Handlers, Msg
  <1>7. AcceptedIsQueued'
    BY DEF AcceptedIsQueued, TypeOK, SenderHoldsLock, ChannelIsRegistered, InBuffer, Msg
  <1>8. NoChannelPanic'
    BY DEF NoChannelPanic, TypeOK, SenderHoldsLock, GCHoldsLock, ChannelIsRegistered, Msg
  <1>9. QED
    BY <1>1, <1>2, <1>3, <1>4, <1>5, <1>6, <1>7, <1>8

LEMMA GCFindStep ==
    ASSUME IInv, NEW i \in Id, GCFind(i)
    PROVE  IInv'
  <1> USE DEF IInv, GCFind, Alive, lockVars, handlerVars, mapVars, sendVars,
              gcVars
  <1>1. TypeOK'
    BY DEF TypeOK, Msg, Fate, Panic
  <1>2. SenderHoldsLock'
    BY DEF SenderHoldsLock, TypeOK, ChannelIsRegistered, Msg
  <1>3. GCHoldsLock'
    BY DEF GCHoldsLock, TypeOK
  <1>4. ChannelIsRegistered'
    BY DEF ChannelIsRegistered, TypeOK, SenderHoldsLock, GCHoldsLock, OpenHandlerIsRegistered, Handlers, Msg
  <1>5. OpenHandlerIsRegistered'
    BY DEF OpenHandlerIsRegistered, TypeOK, SenderHoldsLock, GCHoldsLock, ChannelIsRegistered, Handlers, Msg
  <1>6. TokensCounted'
    BY DEF TokensCounted, TypeOK, TokenPerHandler, Handlers, Msg
  <1>7. AcceptedIsQueued'
    BY DEF AcceptedIsQueued, TypeOK, SenderHoldsLock, ChannelIsRegistered, InBuffer, Msg
  <1>8. NoChannelPanic'
    BY DEF NoChannelPanic, TypeOK, SenderHoldsLock, GCHoldsLock, ChannelIsRegistered, Msg
  <1>9. QED
    BY <1>1, <1>2, <1>3, <1>4, <1>5, <1>6, <1>7, <1>8

LEMMA GCLockStep ==
    ASSUME IInv, GCLock
    PROVE  IInv'
  <1> USE DEF IInv, GCLock, Lock!Acquire, Alive, lockVars, handlerVars,
              mapVars, sendVars, gcVars
  <1>1. TypeOK'
    BY DEF TypeOK, Msg, Fate, Panic
  <1>2. SenderHoldsLock'
    BY NoneIsNew DEF SenderHoldsLock, TypeOK, ChannelIsRegistered, Msg
  <1>3. GCHoldsLock'
    BY DEF GCHoldsLock, TypeOK
  <1>4. ChannelIsRegistered'
    BY DEF ChannelIsRegistered, TypeOK, SenderHoldsLock, GCHoldsLock, OpenHandlerIsRegistered, Handlers, Msg
  <1>5. OpenHandlerIsRegistered'
    BY DEF OpenHandlerIsRegistered, TypeOK, SenderHoldsLock, GCHoldsLock, ChannelIsRegistered, Handlers, Msg
  <1>6. TokensCounted'
    BY DEF TokensCounted, TypeOK, TokenPerHandler, Handlers, Msg
  <1>7. AcceptedIsQueued'
    BY DEF AcceptedIsQueued, TypeOK, SenderHoldsLock, ChannelIsRegistered, InBuffer, Msg
  <1>8. NoChannelPanic'
    BY DEF NoChannelPanic, TypeOK, SenderHoldsLock, GCHoldsLock, ChannelIsRegistered, Msg
  <1>9. QED
    BY <1>1, <1>2, <1>3, <1>4, <1>5, <1>6, <1>7, <1>8

\* gc about to close finds the channel of its id, which is open.
LEMMA CloseState ==
    ASSUME IInv, gcPc = "close"
    PROVE  /\ gcId \in Id
           /\ idHandlersChannel[gcId] \in Chan
           /\ idHandlersChannel[gcId] # None
           /\ idHandlersChannel[gcId] \notin closed
           /\ handlerOf[idHandlersChannel[gcId]] = gcId
  <1>1. gcId \in Id /\ idHandlersChannel[gcId] \in Chan \cup {None}
    BY DEF IInv, TypeOK, GCHoldsLock
  <1>2. idHandlersChannel[gcId] # None
    BY <1>1 DEF IInv, ChannelIsRegistered
  <1>3. QED
    BY <1>1, <1>2 DEF IInv, ChannelIsRegistered

LEMMA GCCloseStep ==
    ASSUME IInv, GCClose
    PROVE  IInv'
  <1> DEFINE c == idHandlersChannel[gcId]
  <1> USE NoneIsNew
  <1>1. /\ gcPc = "close" /\ gcId \in Id /\ c \in Chan
        /\ c \notin closed /\ c # None
    BY CloseState DEF GCClose
  <1>2. /\ closed' = closed \cup {c} /\ gcPc' = "remove"
        /\ UNCHANGED <<lockVars, mapVars, handlerOf, buffer, running, tokens,
                       sendVars, gcId, fate, panic>>
    BY <1>1 DEF GCClose
  <1>3. c' = c
    BY <1>2 DEF mapVars
  <1> HIDE DEF c
  <1> USE DEF lockVars, mapVars, sendVars
  <1>4. TypeOK'
    BY <1>1, <1>2 DEF IInv, TypeOK
  <1>5. SenderHoldsLock' /\ GCHoldsLock'
    BY <1>1, <1>2 DEF IInv, SenderHoldsLock, GCHoldsLock
  <1>6. ChannelIsRegistered'
    <2>1. ASSUME NEW i \in Id, idHandlersChannel[i] # None, i # gcId
          PROVE  idHandlersChannel[i] # c
      BY <1>1, <2>1, CloseState DEF IInv, ChannelIsRegistered, c
    <2>2. QED
      BY <1>1, <1>2, <2>1 DEF IInv, ChannelIsRegistered, c
  <1>7. OpenHandlerIsRegistered' /\ TokensCounted' /\ NoChannelPanic'
    BY <1>2 DEF IInv, OpenHandlerIsRegistered, TokensCounted, TokenPerHandler,
                Handlers, NoChannelPanic
  <1>8. AcceptedIsQueued'
    BY <1>2 DEF IInv, AcceptedIsQueued, InBuffer, Alive
  <1>9. QED
    BY <1>4, <1>5, <1>6, <1>7, <1>8 DEF IInv

LEMMA GCRemoveStep ==
    ASSUME IInv, GCRemove
    PROVE  IInv'
  <1> USE DEF IInv, GCRemove, Lock!Release, Alive, lockVars, handlerVars,
              mapVars, sendVars, gcVars
  <1>1. TypeOK'
    BY DEF TypeOK, Msg, Fate, Panic
  <1>2. SenderHoldsLock'
    BY GCIsNoSender DEF SenderHoldsLock, TypeOK, ChannelIsRegistered, Msg
  <1>3. GCHoldsLock'
    BY DEF GCHoldsLock, TypeOK
  <1>4. ChannelIsRegistered'
    BY DEF ChannelIsRegistered, TypeOK, SenderHoldsLock, GCHoldsLock, OpenHandlerIsRegistered, Handlers, Msg
  <1>5. OpenHandlerIsRegistered'
    BY DEF OpenHandlerIsRegistered, TypeOK, SenderHoldsLock, GCHoldsLock, ChannelIsRegistered, Handlers, Msg
  <1>6. TokensCounted'
    BY DEF TokensCounted, TypeOK, TokenPerHandler, Handlers, Msg
  <1>7. AcceptedIsQueued'
    BY DEF AcceptedIsQueued, TypeOK, SenderHoldsLock, ChannelIsRegistered, InBuffer, Msg
  <1>8. NoChannelPanic'
    BY DEF NoChannelPanic, TypeOK, SenderHoldsLock, GCHoldsLock, ChannelIsRegistered, Msg
  <1>9. QED
    BY <1>1, <1>2, <1>3, <1>4, <1>5, <1>6, <1>7, <1>8

LEMMA SendAgainStep ==
    ASSUME IInv, NEW m \in Msg, SendAgain(m)
    PROVE  IInv'
  <1> USE DEF IInv, SendAgain, Alive, lockVars, handlerVars, mapVars,
              sendVars, gcVars
  <1>1. TypeOK'
    BY DEF TypeOK, Msg, Fate, Panic
  <1>2. SenderHoldsLock'
    BY DEF SenderHoldsLock, TypeOK, ChannelIsRegistered, Msg
  <1>3. GCHoldsLock'
    BY DEF GCHoldsLock, TypeOK
  <1>4. ChannelIsRegistered'
    BY DEF ChannelIsRegistered, TypeOK, SenderHoldsLock, GCHoldsLock, OpenHandlerIsRegistered, Handlers, Msg
  <1>5. OpenHandlerIsRegistered'
    BY DEF OpenHandlerIsRegistered, TypeOK, SenderHoldsLock, GCHoldsLock, ChannelIsRegistered, Handlers, Msg
  <1>6. TokensCounted'
    BY DEF TokensCounted, TypeOK, TokenPerHandler, Handlers, Msg
  <1>7. AcceptedIsQueued'
    BY DEF AcceptedIsQueued, TypeOK, SenderHoldsLock, ChannelIsRegistered, InBuffer, Msg
  <1>8. NoChannelPanic'
    BY DEF NoChannelPanic, TypeOK, SenderHoldsLock, GCHoldsLock, ChannelIsRegistered, Msg
  <1>9. QED
    BY <1>1, <1>2, <1>3, <1>4, <1>5, <1>6, <1>7, <1>8

-----------------------------------------------------------------------------
LEMMA InitInvariant == Init => IInv
  <1> SUFFICES ASSUME Init PROVE IInv
    OBVIOUS
  <1> USE NoneIsNew, NoneIsNoMsg DEF Init
  <1>1. TypeOK
    BY EmptySeq DEF TypeOK, Lock!Init, Fate, Panic
  <1>2. SenderHoldsLock /\ GCHoldsLock
    BY DEF SenderHoldsLock, GCHoldsLock
  <1>3. ChannelIsRegistered /\ NoChannelPanic
    BY DEF ChannelIsRegistered, NoChannelPanic
  <1>4. Handlers = {}
    BY DEF Handlers
  <1>5. OpenHandlerIsRegistered /\ TokensCounted
    BY <1>4, FS_EmptySet, SizesAreNat
       DEF OpenHandlerIsRegistered, TokensCounted, TokenPerHandler
  <1>6. AcceptedIsQueued
    BY DEF AcceptedIsQueued
  <1>7. QED
    BY <1>1, <1>2, <1>3, <1>5, <1>6 DEF IInv

THEOREM Invariance == Spec => []IInv
  <1>1. IInv /\ [Next]_vars => IInv'
    <2> SUFFICES ASSUME IInv, [Next]_vars PROVE IInv'
      OBVIOUS
    <2>1. ASSUME NEW s \in Sender, SendStep(s) PROVE IInv'
      BY <2>1, SendLockStep, SendFoundStep, SendLimitStep, SendCreateStep,
         SendEnqueueStep DEF SendStep
    <2>2. ASSUME NEW c \in Chan, HandlerStep(c) PROVE IInv'
      BY <2>2, HandleBeginStep, HandleEndStep, HandlerExitStep DEF HandlerStep
    <2>3. CASE GCStep
      BY <2>3, GCLockStep, GCCloseStep, GCRemoveStep DEF GCStep
    <2>4. CASE UNCHANGED vars
      <3> USE <2>4 DEF vars, lockVars, handlerVars, mapVars, sendVars, gcVars, IInv
      <3>1. TypeOK'
        BY DEF TypeOK
      <3>2. SenderHoldsLock' /\ GCHoldsLock'
        BY DEF SenderHoldsLock, GCHoldsLock
      <3>3. ChannelIsRegistered'
        BY DEF ChannelIsRegistered
      <3>4. OpenHandlerIsRegistered' /\ TokensCounted' /\ NoChannelPanic'
        BY DEF OpenHandlerIsRegistered, TokensCounted, TokenPerHandler,
               Handlers, NoChannelPanic
      <3>5. AcceptedIsQueued'
        BY DEF AcceptedIsQueued, InBuffer, Alive
      <3>6. QED
        BY <3>1, <3>2, <3>3, <3>4, <3>5
    <2>5. QED
      BY <2>1, <2>2, <2>3, <2>4, SendCallStep, AgeStep, GCFindStep,
         SendAgainStep DEF Next
  <1>2. QED
    BY InitInvariant, <1>1, PTL DEF Spec

\* The variables always have their types.
THEOREM TypeCorrect == Spec => []TypeOK
  BY Invariance, PTL DEF IInv

\* No panic on a channel: sendMsg and gc agree on which channels are open.
THEOREM ChannelsNeverPanic == Spec => []NoChannelPanic
  BY Invariance, PTL DEF IInv

\* There are as many tokens out as handlers, and never more than the limit.
THEOREM HandlersAreLimited == Spec => []TokenPerHandler
  BY Invariance, PTL DEF IInv, TokensCounted

\* No handler is left waiting on an open channel that nobody sends to.
THEOREM NoForgottenHandler == Spec => []OpenHandlerIsRegistered
  BY Invariance, PTL DEF IInv

\* No accepted message leaves the channels before it is handled.
THEOREM NothingAcceptedIsLost == Spec => []AcceptedIsQueued
  BY Invariance, PTL DEF IInv
=============================================================================
