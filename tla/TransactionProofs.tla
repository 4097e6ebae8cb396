-------------------------- MODULE TransactionProofs --------------------------
(***************************************************************************)
(* What holds of transactions, for any number of them, of sessions and     *)
(* failures, whatever the graph holds and the calls do to it.              *)
(*                                                                         *)
(* Who works on a transaction: that one session has it is not inductive:   *)
(* Begin looks at the mutex only, so every session must hold that of its   *)
(* transaction (Protected) until it ends; and what ends a session and      *)
(* frees the mutex after a merge is the record that Push was given         *)
(* (PushesAreOfSessions).                                                  *)
(*                                                                         *)
(* What it changes: every link of the graph is in the main graph, in the   *)
(* part of one transaction, or leads to such a part (InPlace), what Begin  *)
(* has found to copy is of the main graph, and what is being merged is of  *)
(* the transaction that is merged (Apart).  That the requests of a call    *)
(* stay in the part of its transaction is shown call by call               *)
(* (PlansAreProper), and what a vertex leads to is the least set that no   *)
(* link leaves (ReachableIsLeast), so that copying, merging and the        *)
(* deletion at the end do so, too.  A call that makes keys with dots stays *)
(* in its part as well (KeyedCallStays); what merges and deletions make of *)
(* such keys afterwards does not, and is left out.                         *)
(*                                                                         *)
(* What is deleted: every mark has been asked for, links of the main graph *)
(* lead to its vertices, and a merge that has vertices left knows          *)
(* whatever the root leads to (Kept).                                      *)
(***************************************************************************)
EXTENDS Transaction, FiniteSetTheorems, SequenceTheorems, NaturalsInduction, TLAPS

\* A session has the mutex of its transaction, unless something failed.
Protected ==
    failures = 0 =>
      \A s \in Session :
        session[s].tx # None => session[s].at # "late" /\ lock[session[s].tx]

PushesAreOfSessions ==
    /\ pushes \in Seq([session : Session, tx : Tx, mode : Modes])
    /\ push # None => "session" \in DOMAIN push /\ push.session \in Session

IInv == TypeOK /\ PushesAreOfSessions /\ Protected /\ OneSessionAtATime

SessionType == [at : {"idle", "cloning", "open", "committing", "late", "done"},
                tx : Tx \cup {None}, clean : BOOLEAN, fresh : BOOLEAN]

-----------------------------------------------------------------------------
(* What the actions have in common *)

\* Failures are counted, and never go back to none.
LEMMA FailuresCount ==
    ASSUME TypeOK, \/ UNCHANGED failures
                   \/ failures < MaxFailures /\ failures' = failures + 1
    PROVE  /\ failures' \in 0 .. MaxFailures
           /\ failures' = 0 => failures = 0
  BY BoundTypes DEF TypeOK

\* A session that is over has no transaction.
LEMMA DoneType == Done \in SessionType /\ Done.tx = None /\ Done.at = "done"
  BY NoneIsNew DEF Done, Idle, SessionType

\* A session that ends and frees the mutex of its transaction: nobody else had it.
LEMMA SessionEnds ==
    ASSUME IInv, NEW s \in Session,
           session' = [session EXCEPT ![s] = Done],
           lock' = IF session[s].at = "late" THEN lock ELSE [lock EXCEPT ![session[s].tx] = FALSE],
           failures' \in 0 .. MaxFailures, failures' = 0 => failures = 0
    PROVE  TypeOK' /\ Protected' /\ OneSessionAtATime'
  <1>1. TypeOK'
    BY DoneType DEF IInv, TypeOK, SessionType
  <1>2. ASSUME NEW r \in Session, session'[r].tx # None
        PROVE  r # s /\ session'[r] = session[r]
    BY <1>2, DoneType DEF IInv, TypeOK
  <1>3. Protected'
    <2> SUFFICES ASSUME failures' = 0, NEW r \in Session, session'[r].tx # None
                 PROVE  session'[r].at # "late" /\ lock'[session'[r].tx]
      BY DEF Protected
    <2>1. r # s /\ session'[r] = session[r]
      BY <1>2
    <2>2. session[r].at # "late" /\ lock[session[r].tx] /\ session[r].tx # session[s].tx
      BY <2>1 DEF IInv, Protected, OneSessionAtATime
    <2>3. session[r].tx \in Tx
      BY <2>1 DEF IInv, TypeOK
    <2> QED
      BY <2>1, <2>2, <2>3 DEF IInv, TypeOK
  <1>4. OneSessionAtATime'
    BY <1>2 DEF IInv, OneSessionAtATime
  <1> QED
    BY <1>1, <1>3, <1>4

\* A session goes on: its transaction stays, and nobody frees a mutex.
LEMMA SessionGoesOn ==
    ASSUME IInv, session' \in [Session -> SessionType],
           \A s \in Session : session'[s].tx = None <=> session'[s].at \in {"idle", "done"},
           \A s \in Session : session'[s].tx = session[s].tx
                                /\ (session'[s].at = "late" => session[s].at = "late"),
           lock' = lock,
           failures' \in 0 .. MaxFailures, failures' = 0 => failures = 0
    PROVE  TypeOK' /\ Protected' /\ OneSessionAtATime'
  BY DEF IInv, TypeOK, SessionType, Protected, OneSessionAtATime

\* What else is known of a merge does not change whose it is.
LEMMA PushStays ==
    ASSUME PushesAreOfSessions, pushes' = pushes,
           push # None => /\ DOMAIN push' = DOMAIN push
                          /\ "session" \in DOMAIN push => push'["session"] = push["session"],
           push = None => push' = None
    PROVE  PushesAreOfSessions'
  BY DEF PushesAreOfSessions

LEMMA DisturbedStays ==
    ASSUME PushesAreOfSessions, pushes' = pushes, NEW x, push' = Disturbed(x)
    PROVE  PushesAreOfSessions'
  <1>1. CASE push # None /\ push.tx = x
    <2>1. push' = [push EXCEPT !.exact = FALSE]
      BY <1>1 DEF Disturbed
    <2> QED
      BY <2>1, <1>1, PushStays
  <1>2. CASE ~(push # None /\ push.tx = x)
    BY <1>2, PushStays DEF Disturbed
  <1> QED
    BY <1>1, <1>2

-----------------------------------------------------------------------------
(* The sessions *)

\* Begin finds the mutex free: no session has the transaction.
LEMMA BeginKeeps ==
    ASSUME IInv, NEW s \in Session, NEW x \in Tx, NEW clone \in Clones, Begin(s, x, clone)
    PROVE  IInv'
  <1> DEFINE new == [at |-> "cloning", tx |-> x, fresh |-> push = None,
                     clean |-> PartOf(graph, x) = EmptyGraph
                                 /\ {r \in Session : session[r].tx = x} = {}]
  <1>1. /\ session[s].at = "idle"
        /\ lock' = [lock EXCEPT ![x] = TRUE]
        /\ session' = [r \in Session |->
                         IF r = s THEN new
                         ELSE IF r \in {q \in Session : session[q].tx = x}
                              THEN [session[r] EXCEPT !.clean = FALSE] ELSE session[r]]
        /\ \/ ~ lock[x] /\ UNCHANGED failures
           \/ failures < MaxFailures /\ failures' = failures + 1
        /\ lock[x] => failures' = failures + 1
        /\ push' = Disturbed(x) /\ pushes' = pushes
    BY DEF Begin
  <1>2. failures' \in 0 .. MaxFailures /\ (failures' = 0 => failures = 0)
    BY <1>1, FailuresCount DEF IInv
  <1>3. new \in SessionType /\ new.tx = x /\ new.at = "cloning"
    BY DEF SessionType
  <1>4. ASSUME NEW r \in Session, r # s
        PROVE  /\ session'[r] \in SessionType
               /\ session'[r].tx = session[r].tx /\ session'[r].at = session[r].at
    <2>1. session[r] \in SessionType
      BY DEF IInv, TypeOK, SessionType
    <2>2. session'[r] = [session[r] EXCEPT !.clean = FALSE] \/ session'[r] = session[r]
      BY <1>1, <1>4
    <2> QED
      BY <2>1, <2>2 DEF SessionType
  <1>5. session'[s] = new
    BY <1>1
  <1>6. TypeOK'
    <2>1. session' \in [Session -> SessionType]
      BY <1>1, <1>3, <1>4, <1>5
    <2>2. \A r \in Session : session'[r].tx = None <=> session'[r].at \in {"idle", "done"}
      BY <1>3, <1>4, <1>5, NoneIsNew DEF IInv, TypeOK
    <2>3. lock' \in [Tx -> BOOLEAN]
      BY <1>1 DEF IInv, TypeOK
    <2> QED
      BY <2>1, <2>2, <2>3, <1>2 DEF TypeOK, SessionType
  <1>7. failures' = 0 => \A r \in Session : session[r].tx # x
    BY <1>1, <1>2, NoneIsNew, BoundTypes DEF IInv, TypeOK, Protected
  <1>8. Protected'
    <2> SUFFICES ASSUME failures' = 0, NEW r \in Session, session'[r].tx # None
                 PROVE  session'[r].at # "late" /\ lock'[session'[r].tx]
      BY DEF Protected
    <2>1. CASE r = s
      BY <2>1, <1>1, <1>3, <1>5 DEF IInv, TypeOK
    <2>2. CASE r # s
      BY <2>2, <1>1, <1>2, <1>4 DEF IInv, TypeOK, Protected
    <2> QED
      BY <2>1, <2>2
  <1>9. OneSessionAtATime'
    BY <1>2, <1>3, <1>4, <1>5, <1>7 DEF IInv, OneSessionAtATime
  <1>10. PushesAreOfSessions'
    BY <1>1, DisturbedStays DEF IInv
  <1> QED
    BY <1>6, <1>8, <1>9, <1>10 DEF IInv

LEMMA CloneKeeps ==
    ASSUME IInv, NEW s \in Session, Clone(s)
    PROVE  IInv'
  <1>1. PICK whole \in BOOLEAN :
          session' = [session EXCEPT ![s].at = "open", ![s].clean = @ /\ whole]
    BY DEF Clone
  <1>2. /\ session[s].at = "cloning"
        /\ \/ UNCHANGED failures
           \/ failures < MaxFailures /\ failures' = failures + 1
        /\ lock' = lock /\ push' = push /\ pushes' = pushes
    BY DEF Clone
  <1>3. failures' \in 0 .. MaxFailures /\ (failures' = 0 => failures = 0)
    BY <1>2, FailuresCount DEF IInv
  <1>4. session' \in [Session -> SessionType]
    <2>1. session[s] \in SessionType
      BY DEF IInv, TypeOK, SessionType
    <2>2. (session[s].clean /\ whole) \in BOOLEAN
      BY <2>1 DEF SessionType
    <2>3. session'[s] \in SessionType
      BY <1>1, <2>1, <2>2 DEF IInv, TypeOK, SessionType
    <2> QED
      BY <1>1, <2>3 DEF IInv, TypeOK, SessionType
  <1>5. \A r \in Session : /\ session'[r].tx = session[r].tx
                           /\ r # s => session'[r] = session[r]
                           /\ r = s => session'[r].at = "open"
    BY <1>1 DEF IInv, TypeOK
  <1>6. \A r \in Session : session'[r].tx = None <=> session'[r].at \in {"idle", "done"}
    BY <1>2, <1>5 DEF IInv, TypeOK
  <1>7. TypeOK' /\ Protected' /\ OneSessionAtATime'
    BY <1>2, <1>3, <1>4, <1>5, <1>6, SessionGoesOn
  <1>8. PushesAreOfSessions'
    BY <1>2 DEF IInv, PushesAreOfSessions
  <1> QED
    BY <1>7, <1>8 DEF IInv

\* A session that ends before it is merged: at cloning or at a call.
LEMMA BeginFailKeeps ==
    ASSUME IInv, NEW s \in Session, BeginFail(s)
    PROVE  IInv'
  <1>1. /\ session[s].at = "cloning" /\ failures < MaxFailures /\ failures' = failures + 1
        /\ lock' = [lock EXCEPT ![session[s].tx] = FALSE]
        /\ session' = [session EXCEPT ![s] = Done]
        /\ push' = push /\ pushes' = pushes
    BY DEF BeginFail
  <1>2. failures' \in 0 .. MaxFailures /\ (failures' = 0 => failures = 0)
    BY <1>1, FailuresCount DEF IInv
  <1>3. TypeOK' /\ Protected' /\ OneSessionAtATime'
    BY <1>1, <1>2, SessionEnds
  <1>4. PushesAreOfSessions'
    BY <1>1 DEF IInv, PushesAreOfSessions
  <1> QED
    BY <1>3, <1>4 DEF IInv

LEMMA CallTxKeeps ==
    ASSUME IInv, NEW s \in Session, NEW c \in Calls, CallTx(s, c)
    PROVE  IInv'
  <1>1. /\ session[s].at = "open"
        /\ \/ UNCHANGED failures
           \/ failures < MaxFailures /\ failures' = failures + 1
        /\ \/ UNCHANGED <<lock, session>>
           \/ /\ lock' = [lock EXCEPT ![session[s].tx] = FALSE]
              /\ session' = [session EXCEPT ![s] = Done]
        /\ push' = Disturbed(session[s].tx) /\ pushes' = pushes
    BY DEF CallTx
  <1>2. failures' \in 0 .. MaxFailures /\ (failures' = 0 => failures = 0)
    BY <1>1, FailuresCount DEF IInv
  <1>3. TypeOK' /\ Protected' /\ OneSessionAtATime'
    <2>1. CASE UNCHANGED <<lock, session>>
      BY <2>1, <1>2 DEF IInv, TypeOK, Protected, OneSessionAtATime
    <2>2. CASE /\ lock' = [lock EXCEPT ![session[s].tx] = FALSE]
               /\ session' = [session EXCEPT ![s] = Done]
      BY <2>2, <1>1, <1>2, SessionEnds
    <2> QED
      BY <2>1, <2>2, <1>1
  <1>4. PushesAreOfSessions'
    BY <1>1, DisturbedStays DEF IInv
  <1> QED
    BY <1>3, <1>4 DEF IInv

LEMMA CommitKeeps ==
    ASSUME IInv, NEW s \in Session, NEW mode \in Modes, Commit(s, mode)
    PROVE  IInv'
  <1>1. /\ session[s].at = "open" /\ session' = [session EXCEPT ![s].at = "committing"]
        /\ pushes' = Append(pushes, [session |-> s, tx |-> session[s].tx, mode |-> mode])
        /\ lock' = lock /\ push' = push /\ failures' = failures
    BY DEF Commit
  <1>2. failures' \in 0 .. MaxFailures /\ (failures' = 0 => failures = 0)
    BY <1>1 DEF IInv, TypeOK
  <1>3. session' \in [Session -> SessionType]
    BY <1>1 DEF IInv, TypeOK, SessionType
  <1>4. \A r \in Session : /\ session'[r].tx = session[r].tx
                           /\ r # s => session'[r] = session[r]
                           /\ r = s => session'[r].at = "committing"
    BY <1>1 DEF IInv, TypeOK
  <1>5. \A r \in Session : session'[r].tx = None <=> session'[r].at \in {"idle", "done"}
    BY <1>1, <1>4 DEF IInv, TypeOK
  <1>6. TypeOK' /\ Protected' /\ OneSessionAtATime'
    BY <1>1, <1>2, <1>3, <1>4, <1>5, SessionGoesOn
  <1>7. session[s].tx \in Tx
    BY <1>1 DEF IInv, TypeOK
  <1>8. PushesAreOfSessions'
    BY <1>1, <1>7 DEF IInv, PushesAreOfSessions
  <1> QED
    BY <1>6, <1>8 DEF IInv

\* From now on something has failed.
LEMMA CommitTimeoutKeeps ==
    ASSUME IInv, NEW s \in Session, CommitTimeout(s)
    PROVE  IInv'
  <1>1. /\ session[s].at = "committing" /\ failures < MaxFailures /\ failures' = failures + 1
        /\ session' = [session EXCEPT ![s].at = "late"]
        /\ lock' = [lock EXCEPT ![session[s].tx] = FALSE]
        /\ push' = push /\ pushes' = pushes
    BY DEF CommitTimeout
  <1>2. failures' \in 0 .. MaxFailures /\ failures' # 0
    BY <1>1, BoundTypes DEF IInv, TypeOK
  <1>3. TypeOK'
    BY <1>1, <1>2 DEF IInv, TypeOK
  <1>4. Protected' /\ OneSessionAtATime'
    BY <1>2 DEF Protected, OneSessionAtATime
  <1>5. PushesAreOfSessions'
    BY <1>1 DEF IInv, PushesAreOfSessions
  <1> QED
    BY <1>3, <1>4, <1>5 DEF IInv

-----------------------------------------------------------------------------
(* The merge *)

LEMMA PushBeginKeeps ==
    ASSUME IInv, PushBegin
    PROVE  IInv'
  <1> DEFINE first == Head(pushes)
  <1>1. /\ pushes # << >> /\ pushes' = Tail(pushes)
        /\ session' = [s \in Session |-> IF s = first.session THEN session[s]
                                         ELSE [session[s] EXCEPT !.fresh = FALSE]]
        /\ lock' = lock /\ failures' = failures
        /\ "session" \in DOMAIN push' /\ push'["session"] = first.session
    BY DEF PushBegin
  <1>2. failures' \in 0 .. MaxFailures /\ (failures' = 0 => failures = 0)
    BY <1>1 DEF IInv, TypeOK
  <1>3. ASSUME NEW r \in Session
        PROVE  /\ session'[r] \in SessionType
               /\ session'[r].tx = session[r].tx /\ session'[r].at = session[r].at
    <2>1. session[r] \in SessionType
      BY DEF IInv, TypeOK, SessionType
    <2>2. session'[r] = [session[r] EXCEPT !.fresh = FALSE] \/ session'[r] = session[r]
      BY <1>1
    <2> QED
      BY <2>1, <2>2 DEF SessionType
  <1>4. session' \in [Session -> SessionType]
    BY <1>1, <1>3
  <1>5. \A r \in Session : session'[r].tx = None <=> session'[r].at \in {"idle", "done"}
    BY <1>3 DEF IInv, TypeOK
  <1>6. TypeOK' /\ Protected' /\ OneSessionAtATime'
    BY <1>1, <1>2, <1>3, <1>4, <1>5, SessionGoesOn
  <1>7. first.session \in Session /\ pushes' \in Seq([session : Session, tx : Tx, mode : Modes])
    <2> DEFINE Waiting == [session : Session, tx : Tx, mode : Modes]
    <2>1. pushes \in Seq(Waiting) /\ pushes # << >>
      BY <1>1 DEF IInv, PushesAreOfSessions
    <2> HIDE DEF Waiting
    <2>2. Head(pushes) \in Waiting /\ Tail(pushes) \in Seq(Waiting)
      BY <2>1
    <2> QED
      BY <1>1, <2>2 DEF Waiting
  <1>8. PushesAreOfSessions'
    BY <1>1, <1>7 DEF PushesAreOfSessions
  <1> QED
    BY <1>6, <1>8 DEF IInv

LEMMA PushStepKeeps ==
    ASSUME IInv, push # None,
           \/ \E k \in push.vertex : PushVertex(k)
           \/ \E l \in push.link : PushLink(l)
    PROVE  IInv'
  <1>1. /\ UNCHANGED <<lock, session, pushes, failures>>
        /\ DOMAIN push' = DOMAIN push
        /\ "session" \in DOMAIN push => push'["session"] = push["session"]
    BY DEF PushVertex, PushLink
  <1>2. TypeOK' /\ Protected' /\ OneSessionAtATime'
    BY <1>1 DEF IInv, TypeOK, Protected, OneSessionAtATime
  <1>3. PushesAreOfSessions'
    BY <1>1, PushStays DEF IInv
  <1> QED
    BY <1>2, <1>3 DEF IInv

\* However the merge ends, Commit ends the session it was given.
LEMMA PushOverKeeps ==
    ASSUME IInv, PushAbort \/ PushEnd
    PROVE  IInv'
  <1>1. /\ push # None /\ Committed(push.session) /\ pushes' = pushes
        /\ \/ UNCHANGED failures
           \/ failures < MaxFailures /\ failures' = failures + 1
    BY DEF PushAbort, PushEnd
  <1>2. failures' \in 0 .. MaxFailures /\ (failures' = 0 => failures = 0)
    BY <1>1, FailuresCount DEF IInv
  <1>3. push.session \in Session
    BY <1>1 DEF IInv, PushesAreOfSessions
  <1>4. TypeOK' /\ Protected' /\ OneSessionAtATime'
    BY <1>1, <1>2, <1>3, SessionEnds DEF Committed
  <1>5. PushesAreOfSessions'
    BY <1>1 DEF IInv, PushesAreOfSessions, Committed
  <1> QED
    BY <1>4, <1>5 DEF IInv

-----------------------------------------------------------------------------
(* One session at a time *)

LEMMA InitIInv == Init => IInv
  <1> SUFFICES ASSUME Init PROVE IInv
    OBVIOUS
  <1>1. \A s \in Session : session[s] = Idle
    BY DEF Init
  <1>2. Idle \in SessionType /\ Idle.tx = None /\ Idle.at = "idle"
    BY DEF Idle, SessionType
  <1>3. TypeOK
    BY <1>1, <1>2, BoundTypes DEF Init, TypeOK, SessionType
  <1>4. PushesAreOfSessions
    BY DEF Init, PushesAreOfSessions
  <1> QED
    BY <1>1, <1>2, <1>3, <1>4 DEF IInv, Protected, OneSessionAtATime

LEMMA Inductive == Spec => []IInv
  <1>1. IInv /\ [Next]_vars => IInv'
    <2> SUFFICES ASSUME IInv, [Next]_vars PROVE IInv'
      OBVIOUS
    <2>1. CASE UNCHANGED vars
      BY <2>1 DEF IInv, TypeOK, PushesAreOfSessions, Protected, OneSessionAtATime, vars
    <2>2. CASE Next
      BY <2>2, BeginKeeps, CloneKeeps, BeginFailKeeps, CallTxKeeps, CommitKeeps,
         CommitTimeoutKeeps, PushBeginKeeps, PushStepKeeps, PushOverKeeps DEF Next
    <2> QED
      BY <2>1, <2>2
  <1> QED
    BY <1>1, InitIInv, PTL DEF Spec

\* The mutexes, the sessions and the count of failures keep their types,
\* whatever the twelve functions do to the graph.
THEOREM TypeCorrect == Spec => []TypeOK
  <1>1. IInv => TypeOK
    BY DEF IInv
  <1> QED
    BY <1>1, Inductive, PTL

\* Begin refuses a transaction that is open or being merged, as long as its
\* mutex does not expire and nothing fails: refused calls, merges that find
\* an element without a body, and any other end of a session included.
THEOREM TransactionsExclude == Spec => []OneSessionAtATime
  <1>1. IInv => OneSessionAtATime
    BY DEF IInv
  <1> QED
    BY <1>1, Inductive, PTL

-----------------------------------------------------------------------------
(* Induction over numbers *)

\* A set of numbers has a least one.
LEMMA LeastOne ==
    ASSUME NEW B \in SUBSET Nat, B # {}
    PROVE  \E m \in B : \A k \in B : m <= k
  <1> DEFINE R == OpToRel(<, Nat)
  <1>1. IsWellFoundedOn(R, Nat)
    BY NatLessThanWellFounded
  <1>2. \A x, y \in Nat : y < x => <<y, x>> \in R
    BY DEF OpToRel
  <1> HIDE DEF R
  <1>3. \E x \in B : \A y \in B : ~ (<<y, x>> \in R)
    BY <1>1, WFMin
  <1>3a. PICK m \in B : \A y \in B : ~ (<<y, m>> \in R)
    BY <1>3
  <1>4. \A k \in B : ~(k < m) /\ k \in Nat /\ m \in Nat
    BY <1>2, <1>3a
  <1> QED
    BY <1>4

\* What holds of 0, and goes on, holds up to n.
LEMMA Upwards ==
    ASSUME NEW n \in Nat, NEW G, 0 \in G, \A i \in 0 .. n : i \in G /\ i < n => i + 1 \in G
    PROVE  \A i \in 0 .. n : i \in G
  <1> SUFFICES ASSUME (0 .. n) \ G # {} PROVE FALSE
    OBVIOUS
  <1>0. (0 .. n) \ G \in SUBSET Nat
    OBVIOUS
  <1>1. PICK k \in (0 .. n) \ G : \A j \in (0 .. n) \ G : k <= j
    BY <1>0, LeastOne
  <1>2. k # 0 /\ k - 1 \in 0 .. n /\ k - 1 < n /\ ~(k <= k - 1) /\ k - 1 + 1 = k
    BY <1>1
  <1>3. k - 1 \in G
    BY <1>1, <1>2
  <1> QED
    BY <1>1, <1>2, <1>3

-----------------------------------------------------------------------------
(* What a vertex leads to *)

Onward(g, v, S) == {v} \cup S \cup {l[3] : l \in {k \in DOMAIN g.link : k[1] \in S}}
Ahead(g, v) == {v} \cup {l[3] : l \in DOMAIN g.link}
Closed(g, T) == \A l \in DOMAIN g.link : l[1] \in T => l[3] \in T

\* The function that Spread calls beyond, as far as it is needed for the sets
\* that lack at most n of what is ahead.
Lacking(g, v, n) == {S \in SUBSET Ahead(g, v) : Cardinality(Ahead(g, v) \ S) <= n}
Outmost(g, v, f, S) ==
    LET next == Onward(g, v, S)
    IN  IF Onward(g, v, next) = next THEN [all |-> next, last |-> next \ S] ELSE f[next]
Beyond(g, v, f, D) == f = [S \in D |-> Outmost(g, v, f, S)]

LEMMA AheadIsFinite ==
    ASSUME NEW g, NEW v, IsFiniteSet(DOMAIN g.link)
    PROVE  IsFiniteSet(Ahead(g, v)) /\ Cardinality(Ahead(g, v)) \in Nat
  <1> DEFINE T == {l[3] : l \in DOMAIN g.link}
             f == [l \in DOMAIN g.link |-> l[3]]
  <1>1. f \in Surjection(DOMAIN g.link, T)
    BY DEF Surjection
  <1>2. IsFiniteSet(T)
    BY <1>1, FS_Surjection
  <1>3. IsFiniteSet(T \cup {v}) /\ Ahead(g, v) = T \cup {v}
    BY <1>2, FS_AddElement DEF Ahead
  <1> QED
    BY <1>3, FS_CardinalityType

\* Going on, a set gets larger or stays as it is.
LEMMA OnwardGrows ==
    ASSUME NEW g, NEW v, IsFiniteSet(DOMAIN g.link), NEW n \in Nat,
           NEW S \in SUBSET Ahead(g, v), Onward(g, v, S) # S,
           Cardinality(Ahead(g, v) \ S) <= n + 1
    PROVE  Onward(g, v, S) \in Lacking(g, v, n)
  <1> DEFINE I == Ahead(g, v)
             N == Onward(g, v, S)
  <1>1. IsFiniteSet(I)
    BY AheadIsFinite
  <1>2. S \subseteq N /\ N \subseteq I
    BY DEF Onward, Ahead
  <1>3. IsFiniteSet(I \ S) /\ Cardinality(I \ S) \in Nat
    BY <1>1, FS_Difference, FS_CardinalityType
  <1>4. I \ N \in SUBSET (I \ S) /\ I \ N # I \ S
    BY <1>2
  <1>5. IsFiniteSet(I \ N) /\ Cardinality(I \ N) <= Cardinality(I \ S) /\ Cardinality(I \ N) # Cardinality(I \ S)
    BY <1>3, <1>4, FS_Subset
  <1>6. Cardinality(I \ N) \in Nat
    BY <1>5, FS_CardinalityType
  <1>7. Cardinality(I \ N) <= n
    BY <1>3, <1>5, <1>6
  <1> QED
    BY <1>2, <1>7 DEF Lacking

\* What is at the end of a set is there once the larger ones have one.
LEMMA BeyondExists ==
    ASSUME NEW g, NEW v, IsFiniteSet(DOMAIN g.link)
    PROVE  \E f : Beyond(g, v, f, SUBSET Ahead(g, v))
  <1> DEFINE n == Cardinality(Ahead(g, v))
             G == {i \in 0 .. n : \E f : Beyond(g, v, f, Lacking(g, v, i))}
  <1>0. n \in Nat /\ IsFiniteSet(Ahead(g, v))
    BY AheadIsFinite
  <1>1. 0 \in G
    <2>1. ASSUME NEW S \in Lacking(g, v, 0) PROVE Onward(g, v, Onward(g, v, S)) = Onward(g, v, S)
      <3>1. S \subseteq Ahead(g, v) /\ IsFiniteSet(Ahead(g, v) \ S)
        BY <1>0, FS_Difference DEF Lacking
      <3>2. Cardinality(Ahead(g, v) \ S) = 0
        BY <3>1, FS_CardinalityType DEF Lacking
      <3>3. S = Ahead(g, v)
        BY <3>1, <3>2, FS_EmptySet
      <3> QED
        BY <3>3 DEF Onward, Ahead
    <2> DEFINE f == [S \in Lacking(g, v, 0) |->
                       [all |-> Onward(g, v, S), last |-> Onward(g, v, S) \ S]]
    <2>2. Beyond(g, v, f, Lacking(g, v, 0))
      BY <2>1 DEF Beyond, Outmost
    <2> HIDE DEF f
    <2> QED
      BY <2>2, <1>0
  <1>2. ASSUME NEW i \in 0 .. n, i \in G, i < n PROVE i + 1 \in G
    <2>1. PICK f : Beyond(g, v, f, Lacking(g, v, i))
      BY <1>2
    <2> DEFINE more == [S \in Lacking(g, v, i + 1) |-> Outmost(g, v, f, S)]
    <2>2. ASSUME NEW S \in Lacking(g, v, i) PROVE S \in Lacking(g, v, i + 1) /\ more[S] = f[S]
      <3>1. S \in Lacking(g, v, i + 1)
        <4>1. Cardinality(Ahead(g, v) \ S) \in Nat
          BY <1>0, FS_Difference, FS_CardinalityType
        <4> QED
          BY <4>1, <1>0 DEF Lacking
      <3>2. f[S] = Outmost(g, v, f, S)
        BY <2>1 DEF Beyond
      <3> QED
        BY <3>1, <3>2
    <2>3. ASSUME NEW S \in Lacking(g, v, i + 1) PROVE Outmost(g, v, f, S) = Outmost(g, v, more, S)
      <3> DEFINE next == Onward(g, v, S)
      <3>1. CASE Onward(g, v, next) = next
        BY <3>1 DEF Outmost
      <3>2. CASE Onward(g, v, next) # next
        <4>1. next # S
          BY <3>2
        <4>2. next \in Lacking(g, v, i)
          BY <4>1, <1>0, OnwardGrows DEF Lacking
        <4>3. more[next] = f[next]
          BY <4>2, <2>2
        <4> HIDE DEF more
        <4> QED
          BY <4>3 DEF Outmost
      <3> QED
        BY <3>1, <3>2
    <2>4. more = [S \in Lacking(g, v, i + 1) |-> Outmost(g, v, f, S)]
      OBVIOUS
    <2> HIDE DEF more
    <2>5. more = [S \in Lacking(g, v, i + 1) |-> Outmost(g, v, more, S)]
      BY <2>3, <2>4
    <2>6. Beyond(g, v, more, Lacking(g, v, i + 1))
      BY <2>5 DEF Beyond
    <2> QED
      BY <2>6, <1>2, <1>0
  <1> HIDE DEF G
  <1>3. n \in G
    BY <1>0, <1>1, <1>2, Upwards
  <1>4. ASSUME NEW S \in SUBSET Ahead(g, v) PROVE S \in Lacking(g, v, n)
    <2>1. Ahead(g, v) \ S \in SUBSET Ahead(g, v)
      OBVIOUS
    <2> QED
      BY <2>1, <1>0, FS_Subset DEF Lacking
  <1>5. Lacking(g, v, n) = SUBSET Ahead(g, v)
    BY <1>4 DEF Lacking
  <1> QED
    BY <1>3, <1>5 DEF G

\* What a vertex leads to is the least set that has it and is not left by a link.
LEMMA ReachableIsLeast ==
    ASSUME NEW g, NEW v, IsFiniteSet(DOMAIN g.link)
    PROVE  /\ v \in Reachable(g, v) /\ Closed(g, Reachable(g, v))
           /\ \A T : v \in T /\ Closed(g, T) => Reachable(g, v) \subseteq T
  <1> DEFINE I == Ahead(g, v)
             n == Cardinality(I)
             f == CHOOSE f : f = [S \in SUBSET I |-> Outmost(g, v, f, S)]
             Good(S) == /\ v \in f[S].all /\ Closed(g, f[S].all)
                        /\ \A T : v \in T /\ Closed(g, T) /\ S \subseteq T => f[S].all \subseteq T
             G == {i \in 0 .. n : \A S \in Lacking(g, v, i) : Good(S)}
  <1>0. n \in Nat /\ IsFiniteSet(I)
    BY AheadIsFinite
  <1>1. Spread(g, v) = f[{}]
    BY DEF Spread, Outmost, Onward, Ahead
  <1>2. f = [S \in SUBSET I |-> Outmost(g, v, f, S)]
    BY BeyondExists DEF Beyond
  <1> HIDE DEF f
  <1>3. ASSUME NEW S \in SUBSET I PROVE f[S] = Outmost(g, v, f, S)
    BY <1>2
  <1>4. ASSUME NEW S \in SUBSET I, Onward(g, v, Onward(g, v, S)) = Onward(g, v, S) PROVE Good(S)
    <2> DEFINE next == Onward(g, v, S)
    <2>0. f[S] = [all |-> next, last |-> next \ S]
      BY <1>3, <1>4 DEF Outmost
    <2>1. f[S].all = next
      BY ONLY <2>0
    <2>2. v \in next
      BY DEF Onward
    <2>3. Closed(g, next)
      BY <1>4 DEF Onward, Closed
    <2>4. ASSUME NEW T, v \in T, Closed(g, T), S \subseteq T PROVE next \subseteq T
      BY <2>4 DEF Onward, Closed
    <2> HIDE DEF next
    <2> QED
      BY <2>1, <2>2, <2>3, <2>4
  <1>5. ASSUME NEW S \in SUBSET I, Onward(g, v, Onward(g, v, S)) # Onward(g, v, S),
               Good(Onward(g, v, S))
        PROVE  Good(S)
    <2> DEFINE next == Onward(g, v, S)
    <2>1. f[S] = f[next]
      BY <1>3, <1>5 DEF Outmost
    <2>4. ASSUME NEW T, v \in T, Closed(g, T), S \subseteq T PROVE next \subseteq T
      BY <2>4 DEF Onward, Closed
    <2> HIDE DEF next
    <2> QED
      BY <2>1, <2>4, <1>5 DEF next
  <1>6. 0 \in G
    <2>1. ASSUME NEW S \in Lacking(g, v, 0) PROVE Good(S)
      <3>1. S \subseteq I /\ IsFiniteSet(I \ S)
        BY <1>0, FS_Difference DEF Lacking
      <3>2. Cardinality(I \ S) = 0
        BY <3>1, FS_CardinalityType DEF Lacking
      <3>3. S = I
        BY <3>1, <3>2, FS_EmptySet
      <3>4. Onward(g, v, Onward(g, v, S)) = Onward(g, v, S)
        BY <3>3 DEF Onward, Ahead
      <3> QED
        BY <3>1, <3>4, <1>4
    <2> QED
      BY <2>1, <1>0
  <1>7. ASSUME NEW i \in 0 .. n, i \in G, i < n PROVE i + 1 \in G
    <2>1. ASSUME NEW S \in Lacking(g, v, i + 1) PROVE Good(S)
      <3>1. S \in SUBSET I
        BY DEF Lacking
      <3>2. CASE Onward(g, v, Onward(g, v, S)) = Onward(g, v, S)
        BY <3>1, <3>2, <1>4
      <3>3. CASE Onward(g, v, Onward(g, v, S)) # Onward(g, v, S)
        <4>1. Onward(g, v, S) # S
          BY <3>3
        <4>2. Onward(g, v, S) \in Lacking(g, v, i)
          BY <4>1, <1>0, OnwardGrows DEF Lacking
        <4>3. Good(Onward(g, v, S))
          BY <4>2, <1>7
        <4> QED
          BY <4>3, <3>1, <3>3, <1>5
      <3> QED
        BY <3>2, <3>3
    <2> QED
      BY <2>1, <1>7, <1>0
  <1> HIDE DEF G
  <1>8. n \in G
    BY <1>0, <1>6, <1>7, Upwards
  <1>9. {} \in Lacking(g, v, n)
    <2>1. I \ {} = I /\ {} \in SUBSET I
      OBVIOUS
    <2> QED
      BY <2>1, <1>0 DEF Lacking
  <1>10. Good({})
    BY <1>8, <1>9 DEF G
  <1> QED
    BY <1>1, <1>10 DEF Reachable

-----------------------------------------------------------------------------
(* Ids *)

Copies(x) == {Copy(x, p) : p \in PlainId}

\* The ids that begin with the name of a transaction, but are not that name.
Owned(x) == {id \in Seq(Name) : Len(id) > 1 /\ Head(id) = x}

\* An id of the main graph is not touched by Normal, and names no transaction.
LEMMA PlainFacts ==
    ASSUME NEW p \in PlainId
    PROVE  /\ p \in Seq(Name) /\ p # << >> /\ Head(p) \notin Tx /\ Head(p) # "txmaster"
           /\ p # txmaster /\ InMain(p) /\ p # None
           /\ \A x \in Tx : Normal(x, p) = p /\ p # <<x>>
  <1>1. p \in Seq(Name) /\ p # << >> /\ Head(p) \notin Tx /\ Head(p) # "txmaster" /\ p # None
    BY NoneIsNew DEF PlainId
  <1>2. \A y : Head(<<y>>) = y
    OBVIOUS
  <1>3. p # txmaster
    BY <1>1, <1>2 DEF txmaster
  <1>4. \A x \in Tx : Normal(x, p) = p /\ p # <<x>>
    BY <1>1, <1>2 DEF Normal
  <1> QED
    BY <1>1, <1>3, <1>4 DEF InMain

\* A copy is told from its original, the vertex of its transaction, and txmaster.
LEMMA CopyFacts ==
    ASSUME NEW x \in Tx, NEW id \in Seq(Name), id # << >>
    PROVE  /\ Copy(x, id) \in Owned(x) /\ Tail(Copy(x, id)) = id /\ Head(Copy(x, id)) = x
           /\ Normal(x, Copy(x, id)) = id /\ Copy(x, id) \notin PlainId /\ Copy(x, id) # <<x>>
           /\ Copy(x, id) # txmaster /\ ~ InMain(Copy(x, id))
  <1>1. x \in Name /\ x # "txmaster"
    BY NamesAreApart
  <1>2. Len(id) \in Nat \ {0}
    BY EmptySeq
  <1>3. <<x>> \in Seq(Name) /\ Len(<<x>>) = 1 /\ <<x>>[1] = x
    BY <1>1
  <1>4. /\ Copy(x, id) \in Seq(Name) /\ Len(Copy(x, id)) = 1 + Len(id)
        /\ \A i \in 1 .. 1 + Len(id) : Copy(x, id)[i] = IF i <= 1 THEN x ELSE id[i - 1]
    BY <1>3, ConcatProperties DEF Copy
  <1>5. Copy(x, id) # << >> /\ Len(Copy(x, id)) > 1
    BY <1>2, <1>4
  <1>6. Head(Copy(x, id)) = x
    <2>1. Head(Copy(x, id)) = Copy(x, id)[1] /\ 1 \in 1 .. 1 + Len(id)
      BY <1>2
    <2> QED
      BY <2>1, <1>4
  <1>7. Tail(Copy(x, id)) = id
    <2>1. /\ Tail(Copy(x, id)) \in Seq(Name) /\ Len(Tail(Copy(x, id))) = Len(id)
          /\ \A i \in 1 .. Len(id) : Tail(Copy(x, id))[i] = Copy(x, id)[i + 1]
      BY <1>2, <1>4, <1>5, HeadTailProperties
    <2>2. \A i \in 1 .. Len(id) : Tail(Copy(x, id))[i] = id[i]
      BY <2>1, <1>2, <1>4
    <2> QED
      BY <2>1, <2>2, SeqEqual
  <1>8. \A y : Head(<<y>>) = y /\ Len(<<y>>) = 1
    OBVIOUS
  <1>9. Copy(x, id) # <<x>> /\ Copy(x, id) # txmaster
    <2>1. Head(txmaster) = "txmaster" /\ Len(<<x>>) = 1
      BY <1>8 DEF txmaster
    <2> HIDE DEF txmaster
    <2>2. ~ (1 > 1)
      OBVIOUS
    <2> QED
      BY <2>1, <2>2, <1>1, <1>5, <1>6
  <1> QED
    BY <1>4, <1>5, <1>6, <1>7, <1>9 DEF Owned, Normal, PlainId, InMain

\* The same of all copies, with the ids that are not copies.
LEMMA CopiesFacts ==
    ASSUME NEW x \in Tx
    PROVE  /\ \A p \in PlainId : Copy(x, p) \in Copies(x)
           /\ \A k \in Copies(x) :
                /\ k \in Owned(x) /\ Tail(k) \in PlainId /\ k = Copy(x, Tail(k)) /\ Head(k) = x
                /\ Normal(x, k) = Tail(k) /\ k \notin PlainId /\ k # <<x>> /\ k # txmaster
                /\ ~ InMain(k)
           /\ <<x>> \notin PlainId /\ <<x>> # txmaster /\ ~ InMain(<<x>>) /\ Head(<<x>>) = x
           /\ txmaster \notin PlainId /\ ~ InMain(txmaster)
  <1>1. \A p \in PlainId : p \in Seq(Name) /\ p # << >>
    BY PlainFacts
  <1>2. \A p \in PlainId : Copy(x, p) \in Copies(x)
    BY DEF Copies
  <1>3. ASSUME NEW k \in Copies(x)
        PROVE  /\ k \in Owned(x) /\ Tail(k) \in PlainId /\ k = Copy(x, Tail(k)) /\ Head(k) = x
               /\ Normal(x, k) = Tail(k) /\ k \notin PlainId /\ k # <<x>> /\ k # txmaster
               /\ ~ InMain(k)
    <2>1. PICK p \in PlainId : k = Copy(x, p)
      BY DEF Copies
    <2> QED
      BY <2>1, <1>1, CopyFacts
  <1>4. \A y : Head(<<y>>) = y
    OBVIOUS
  <1>5. <<x>> \notin PlainId /\ <<x>> # txmaster /\ ~ InMain(<<x>>) /\ Head(<<x>>) = x
    BY <1>4, NamesAreApart DEF PlainId, InMain, txmaster
  <1>6. txmaster \notin PlainId /\ ~ InMain(txmaster)
    BY PlainFacts DEF InMain
  <1> QED
    BY <1>2, <1>3, <1>5, <1>6

\* The ids that the code knows by name.
LEMMA NamedIds ==
    root \in PlainId /\ types \in PlainId /\ objects \in PlainId /\ group \in PlainId /\ nav \in PlainId
  <1>1. ASSUME NEW y \in Name \ Tx, y \notin {"txmaster", "key"} PROVE <<y>> \in PlainId
    <2>1. <<y>> \in Seq(Name) /\ <<y>> # << >> /\ Head(<<y>>) = y
      OBVIOUS
    <2> QED
      BY <2>1, <1>1 DEF PlainId
  <1>2. {"root", "objects", "types", "group", "nav"} \subseteq Name \ Tx
    BY NamesAreApart
  <1> QED
    BY <1>1, <1>2 DEF root, types, objects, group, nav

\* The prefix of the calls that a transaction makes is that of a copy.
LEMMA Prefixed == \A x, id : <<x>> \o id = Copy(x, id)
  BY DEF Copy

-----------------------------------------------------------------------------
(* The low level requests *)

IsGraph(g) == g = [vertex |-> g.vertex, link |-> g.link]

\* The links that go with a vertex.
Severed(g, v) == {l \in Touching(g, v) : IsLink(l)}

\* What each request does to bodies and links, in terms of what was there.
LEMMA DeleteVertexEffect ==
    ASSUME NEW g, NEW v, NEW h, h = DeleteVertex(g, v)
    PROVE  /\ IsGraph(h)
           /\ DOMAIN h.vertex = DOMAIN g.vertex \ {v}
           /\ \A u \in DOMAIN h.vertex : h.vertex[u] = g.vertex[u]
           /\ DOMAIN h.link = DOMAIN g.link \ Severed(g, v)
           /\ \A l \in DOMAIN h.link : h.link[l] = g.link[l]
  <1>1. h.vertex = Without(g.vertex, {v}) /\ h.link = Without(g.link, Severed(g, v)) /\ IsGraph(h)
    BY DEF DeleteVertex, IsGraph, Severed
  <1>2. /\ DOMAIN h.vertex = DOMAIN g.vertex \ {v}
        /\ \A u \in DOMAIN h.vertex : h.vertex[u] = g.vertex[u]
    BY <1>1 DEF Without, Restrict
  <1>3. /\ DOMAIN h.link = DOMAIN g.link \ Severed(g, v)
        /\ \A l \in DOMAIN h.link : h.link[l] = g.link[l]
    BY <1>1 DEF Without, Restrict
  <1> QED
    BY <1>1, <1>2, <1>3

LEMMA CreateVertexEffect ==
    ASSUME NEW g, IsGraph(g), NEW v, NEW b, NEW h, h = CreateVertex(g, v, b)
    PROVE  /\ IsGraph(h)
           /\ DOMAIN h.vertex = DOMAIN g.vertex \cup {v} /\ h.vertex[v] = b
           /\ \A u \in DOMAIN g.vertex \ {v} : h.vertex[u] = g.vertex[u]
           /\ v \in DOMAIN g.vertex => DOMAIN h.link = DOMAIN g.link \ Severed(g, v)
           /\ v \notin DOMAIN g.vertex => DOMAIN h.link = DOMAIN g.link
           /\ \A l \in DOMAIN h.link : h.link[l] = g.link[l]
  <1> DEFINE k == IF v \in DOMAIN g.vertex THEN DeleteVertex(g, v) ELSE g
  <1>1. /\ IsGraph(k) /\ DOMAIN k.vertex = DOMAIN g.vertex \ {v}
        /\ \A u \in DOMAIN k.vertex : k.vertex[u] = g.vertex[u]
        /\ v \in DOMAIN g.vertex => DOMAIN k.link = DOMAIN g.link \ Severed(g, v)
        /\ v \notin DOMAIN g.vertex => DOMAIN k.link = DOMAIN g.link
        /\ \A l \in DOMAIN k.link : k.link[l] = g.link[l]
    <2>1. CASE v \in DOMAIN g.vertex
      <3>1. k = DeleteVertex(g, v)
        BY <2>1
      <3> HIDE DEF k
      <3> QED
        BY <2>1, <3>1, DeleteVertexEffect
    <2>2. CASE v \notin DOMAIN g.vertex
      BY <2>2
    <2> QED
      BY <2>1, <2>2
  <1>2. h = [k EXCEPT !.vertex = Put(@, v, b)]
    BY DEF CreateVertex
  <1> HIDE DEF k
  <1>3. IsGraph(h) /\ h.vertex = Put(k.vertex, v, b) /\ h.link = k.link
    BY <1>1, <1>2 DEF IsGraph
  <1>4. /\ DOMAIN h.vertex = DOMAIN k.vertex \cup {v} /\ h.vertex[v] = b
        /\ \A u \in DOMAIN k.vertex \ {v} : h.vertex[u] = k.vertex[u]
    BY <1>3 DEF Put
  <1> QED
    BY <1>1, <1>3, <1>4

LEMMA UpdateVertexEffect ==
    ASSUME NEW g, IsGraph(g), NEW v, NEW b, NEW m, NEW h, h = UpdateVertex(g, v, b, m)
    PROVE  /\ IsGraph(h) /\ h.link = g.link
           /\ DOMAIN h.vertex = DOMAIN g.vertex \cup {v}
           /\ h.vertex[v] = IF m = "merge" /\ v \in DOMAIN g.vertex THEN Merged(g.vertex[v], b) ELSE b
           /\ \A u \in DOMAIN g.vertex \ {v} : h.vertex[u] = g.vertex[u]
  <1> DEFINE new == IF m = "merge" /\ v \in DOMAIN g.vertex THEN Merged(g.vertex[v], b) ELSE b
  <1>1. h = [g EXCEPT !.vertex = Put(@, v, new)]
    BY DEF UpdateVertex
  <1> HIDE DEF new
  <1>2. IsGraph(h) /\ h.vertex = Put(g.vertex, v, new) /\ h.link = g.link
    BY <1>1 DEF IsGraph
  <1>3. /\ DOMAIN h.vertex = DOMAIN g.vertex \cup {v} /\ h.vertex[v] = new
        /\ \A u \in DOMAIN g.vertex \ {v} : h.vertex[u] = g.vertex[u]
    BY <1>2 DEF Put
  <1> QED
    BY <1>2, <1>3 DEF new

LEMMA CreateLinkEffect ==
    ASSUME NEW g, IsGraph(g), NEW l, NEW b, NEW h, h = CreateLink(g, l, b)
    PROVE  /\ IsGraph(h) /\ h.vertex = g.vertex
           /\ DOMAIN h.link = DOMAIN g.link \cup {l} /\ h.link[l] = b
           /\ \A k \in DOMAIN g.link \ {l} : h.link[k] = g.link[k]
  <1>1. IsGraph(h) /\ h.link = Put(g.link, l, b) /\ h.vertex = g.vertex
    BY DEF IsGraph, CreateLink
  <1>2. /\ DOMAIN h.link = DOMAIN g.link \cup {l} /\ h.link[l] = b
        /\ \A k \in DOMAIN g.link \ {l} : h.link[k] = g.link[k]
    BY <1>1 DEF Put
  <1> QED
    BY <1>1, <1>2

LEMMA UpdateLinkEffect ==
    ASSUME NEW g, IsGraph(g), NEW l, NEW b, NEW h, h = UpdateLink(g, l, b)
    PROVE  /\ IsGraph(h) /\ h.vertex = g.vertex
           /\ DOMAIN h.link = DOMAIN g.link \cup {l}
           /\ h.link[l] = IF l \in DOMAIN g.link THEN Merged(g.link[l], b) ELSE b
           /\ \A k \in DOMAIN g.link \ {l} : h.link[k] = g.link[k]
  BY CreateLinkEffect DEF UpdateLink

LEMMA DeleteLinkEffect ==
    ASSUME NEW g, IsGraph(g), NEW l, NEW h, h = DeleteLink(g, l)
    PROVE  /\ IsGraph(h) /\ h.vertex = g.vertex
           /\ DOMAIN h.link = DOMAIN g.link \ {l}
           /\ \A k \in DOMAIN h.link : h.link[k] = g.link[k]
  <1>1. IsGraph(h) /\ h.link = Without(g.link, {l}) /\ h.vertex = g.vertex
    BY DEF IsGraph, DeleteLink
  <1>2. /\ DOMAIN h.link = DOMAIN g.link \ {l}
        /\ \A k \in DOMAIN h.link : h.link[k] = g.link[k]
    BY <1>1 DEF Without, Restrict
  <1> QED
    BY <1>1, <1>2

\* The requests of the calls: nothing is deleted.
Within(I, r) ==
    \/ r.op \in {"vertexCreate", "vertexUpdate"} /\ r.at \in I
    \/ r.op \in {"linkCreate", "linkUpdate"} /\ IsLink(r.at) /\ r.at[1] \in I /\ r.at[3] \in I

\* What a request leaves: the bodies of all others, and the links, but those
\* of a vertex that is created again.
LEMMA ApplyEffect ==
    ASSUME NEW g, IsGraph(g), NEW I, NEW r, Within(I, r), NEW h, h = Apply(g, r)
    PROVE  /\ IsGraph(h)
           /\ r.op \in {"vertexCreate", "vertexUpdate"} =>
                /\ DOMAIN h.vertex = DOMAIN g.vertex \cup {r.at}
                /\ h.vertex[r.at] \in {r.body} \cup
                     {Merged(b, r.body) : b \in {g.vertex[u] : u \in DOMAIN g.vertex \cap {r.at}}}
                /\ \A u \in DOMAIN g.vertex \ {r.at} : h.vertex[u] = g.vertex[u]
                /\ DOMAIN h.link \subseteq DOMAIN g.link
                /\ DOMAIN g.link \ DOMAIN h.link \subseteq Severed(g, r.at)
                /\ \A l \in DOMAIN h.link : h.link[l] = g.link[l]
           /\ r.op \in {"linkCreate", "linkUpdate"} =>
                /\ h.vertex = g.vertex
                /\ DOMAIN h.link = DOMAIN g.link \cup {r.at}
                /\ h.link[r.at] \in {r.body} \cup
                     {Merged(b, r.body) : b \in {g.link[l] : l \in DOMAIN g.link \cap {r.at}}}
                /\ \A l \in DOMAIN g.link \ {r.at} : h.link[l] = g.link[l]
  <1>1. CASE r.op = "vertexCreate"
    <2> DEFINE v == r.at
               b == r.body
    <2>1. h = CreateVertex(g, v, b)
      BY <1>1 DEF Apply
    <2> HIDE DEF v, b
    <2>2. /\ IsGraph(h)
          /\ DOMAIN h.vertex = DOMAIN g.vertex \cup {v} /\ h.vertex[v] = b
          /\ \A u \in DOMAIN g.vertex \ {v} : h.vertex[u] = g.vertex[u]
          /\ v \in DOMAIN g.vertex => DOMAIN h.link = DOMAIN g.link \ Severed(g, v)
          /\ v \notin DOMAIN g.vertex => DOMAIN h.link = DOMAIN g.link
          /\ \A l \in DOMAIN h.link : h.link[l] = g.link[l]
      BY <2>1, CreateVertexEffect
    <2> QED
      BY <1>1, <2>2 DEF v, b
  <1>2. CASE r.op = "vertexUpdate"
    <2>1. h = UpdateVertex(g, r.at, r.body, r.mode)
      BY <1>2 DEF Apply
    <2> QED
      BY <1>2, <2>1, UpdateVertexEffect
  <1>3. CASE r.op = "linkCreate"
    <2>1. h = CreateLink(g, r.at, r.body)
      BY <1>3 DEF Apply
    <2> QED
      BY <1>3, <2>1, CreateLinkEffect
  <1>4. CASE r.op = "linkUpdate"
    <2>1. h = UpdateLink(g, r.at, r.body)
      BY <1>4 DEF Apply
    <2> QED
      BY <1>4, <2>1, UpdateLinkEffect
  <1> QED
    BY <1>1, <1>2, <1>3, <1>4 DEF Within

-----------------------------------------------------------------------------
(* Requests one after the other *)

After(g, rs, f) == f = [n \in 0 .. Len(rs) |-> IF n = 0 THEN g ELSE Apply(f[n - 1], rs[n])]

LEMMA AfterExists ==
    ASSUME NEW g, NEW rs, Len(rs) \in Nat
    PROVE  \E f : After(g, rs, f)
  <1> DEFINE n == Len(rs)
             Chain(k, f) == f = [i \in 0 .. k |-> IF i = 0 THEN g ELSE Apply(f[i - 1], rs[i])]
             G == {k \in 0 .. n : \E f : Chain(k, f)}
  <1>1. 0 \in G
    <2> DEFINE f == [i \in 0 .. 0 |-> g]
    <2>1. f = [i \in 0 .. 0 |-> IF i = 0 THEN g ELSE Apply(f[i - 1], rs[i])]
      OBVIOUS
    <2> HIDE DEF f
    <2>2. Chain(0, f)
      BY <2>1
    <2> QED
      BY <2>2
  <1>2. ASSUME NEW k \in 0 .. n, k \in G, k < n PROVE k + 1 \in G
    <2>1. PICK f : Chain(k, f)
      BY <1>2
    <2> DEFINE more == [i \in 0 .. k + 1 |-> IF i = k + 1 THEN Apply(f[k], rs[k + 1]) ELSE f[i]]
    <2>2. \A i \in 0 .. k : more[i] = f[i]
      OBVIOUS
    <2>3. more[k + 1] = Apply(f[k], rs[k + 1])
      OBVIOUS
    <2>4. more = [i \in 0 .. k + 1 |-> more[i]]
      OBVIOUS
    <2> HIDE DEF more
    <2>5. \A i \in 0 .. k : f[i] = IF i = 0 THEN g ELSE Apply(f[i - 1], rs[i])
      BY <2>1
    <2>6. ASSUME NEW i \in 0 .. k + 1
          PROVE  more[i] = IF i = 0 THEN g ELSE Apply(more[i - 1], rs[i])
      <3>1. CASE i = 0
        BY <3>1, <2>2, <2>5
      <3>2. CASE i \in 1 .. k
        <4>1. i \in 0 .. k /\ i - 1 \in 0 .. k /\ i # 0
          BY <3>2
        <4>2. more[i] = f[i] /\ more[i - 1] = f[i - 1]
          BY <2>2, <4>1
        <4> QED
          BY <4>1, <4>2, <2>5
      <3>3. CASE i = k + 1
        <4>1. k \in 0 .. k /\ k + 1 - 1 = k /\ k + 1 # 0
          OBVIOUS
        <4>2. more[k] = f[k]
          BY <2>2, <4>1
        <4> QED
          BY <3>3, <4>1, <4>2, <2>3
      <3> QED
        BY <3>1, <3>2, <3>3
    <2>7. Chain(k + 1, more)
      BY <2>4, <2>6
    <2> QED
      BY <1>2, <2>7
  <1> HIDE DEF G
  <1>3. n \in 0 .. n /\ \A i \in 0 .. n : i \in G
    BY <1>1, <1>2, Upwards
  <1>4. \E f : Chain(n, f)
    BY <1>3 DEF G
  <1> QED
    BY <1>4 DEF After

\* ApplyAll goes from g to its result a request at a time.
LEMMA ApplyAllGoesOn ==
    ASSUME NEW g, NEW rs, Len(rs) \in Nat
    PROVE  \E f : /\ f[0] = g /\ ApplyAll(g, rs) = f[Len(rs)]
                  /\ \A n \in 0 .. Len(rs) : n < Len(rs) => f[n + 1] = Apply(f[n], rs[n + 1])
  <1> DEFINE f == CHOOSE f : f = [n \in 0 .. Len(rs) |-> IF n = 0 THEN g ELSE Apply(f[n - 1], rs[n])]
  <1>1. ApplyAll(g, rs) = f[Len(rs)]
    BY DEF ApplyAll
  <1>2. f = [n \in 0 .. Len(rs) |-> IF n = 0 THEN g ELSE Apply(f[n - 1], rs[n])]
    <2>1. \E h : h = [n \in 0 .. Len(rs) |-> IF n = 0 THEN g ELSE Apply(h[n - 1], rs[n])]
      <3>1. \E h : After(g, rs, h)
        BY AfterExists
      <3> QED
        BY <3>1 DEF After
    <2> QED
      BY <2>1
  <1> HIDE DEF f
  <1>3. f[0] = g
    BY <1>2
  <1>4. ASSUME NEW n \in 0 .. Len(rs), n < Len(rs) PROVE f[n + 1] = Apply(f[n], rs[n + 1])
    <2>1. n + 1 \in 0 .. Len(rs) /\ n + 1 # 0 /\ n + 1 - 1 = n
      BY <1>4
    <2> QED
      BY <2>1, <1>2
  <1> QED
    BY <1>1, <1>3, <1>4

LEMMA NothingApplied == \A g : ApplyAll(g, << >>) = g
  <1> SUFFICES ASSUME NEW g PROVE ApplyAll(g, << >>) = g
    OBVIOUS
  <1>1. Len(<< >>) = 0
    OBVIOUS
  <1> QED
    BY <1>1, ApplyAllGoesOn

-----------------------------------------------------------------------------
(* The parts of the graph *)

TxLink(x, l) == (l[1] = <<x>> \/ l[1] \in Copies(x)) /\ l[3] \in Copies(x)
MasterLink(x, l) == l = <<txmaster, "tx", <<x>>>>

\* Every link is one of the main graph, of one transaction, or leads to one.
LinkInPlace(l) == IsLink(l) /\ (PlainLink(l) \/ \E x \in Tx : TxLink(x, l) \/ MasterLink(x, l))
InPlace(g) == IsGraph(g) /\ IsFiniteSet(DOMAIN g.link) /\ \A l \in DOMAIN g.link : LinkInPlace(l)

\* What is left of that when there are copies of copies and keys with dots.
HeadsApart(g) ==
    /\ IsGraph(g)
    /\ \A l \in DOMAIN g.link : IsLink(l) => \A x \in Tx :
         l[1] \in Owned(x) \/ l[3] \in Owned(x) => Head(l[1]) = x /\ Head(l[3]) = x

\* A change of nothing but the part of transaction x.
Alters(x, g, h) ==
    /\ \A v \in Differ(g.vertex, h.vertex) : Head(v) = x
    /\ \A l \in Differ(g.link, h.link) : Head(l[1]) = x /\ (IsLink(l) => Head(l[3]) = x)

\* As long as everything is in place, the parts are apart.
LEMMA InPlaceIsApart ==
    ASSUME NEW g, InPlace(g)
    PROVE  HeadsApart(g)
  <1> SUFFICES ASSUME NEW l \in DOMAIN g.link, NEW x \in Tx, l[1] \in Owned(x) \/ l[3] \in Owned(x)
               PROVE  Head(l[1]) = x /\ Head(l[3]) = x
    BY DEF HeadsApart, InPlace
  <1>1. LinkInPlace(l)
    BY DEF InPlace
  <1>2. \A id \in Owned(x) : Head(id) = x /\ Len(id) > 1
    BY DEF Owned
  <1>3. CASE PlainLink(l)
    BY <1>2, <1>3, PlainFacts DEF PlainLink
  <1>4. ASSUME NEW y \in Tx, TxLink(y, l) PROVE Head(l[1]) = x /\ Head(l[3]) = x
    <2>1. Head(l[1]) = y /\ Head(l[3]) = y
      BY <1>4, CopiesFacts DEF TxLink
    <2> QED
      BY <2>1, <1>2
  <1>5. ASSUME NEW y \in Tx, MasterLink(y, l) PROVE FALSE
    <2>1. l[1] = txmaster /\ l[3] = <<y>>
      BY <1>5 DEF MasterLink
    <2>2. Len(txmaster) = 1 /\ Len(<<y>>) = 1 /\ ~ (1 > 1)
      BY DEF txmaster
    <2> QED
      BY <2>1, <2>2, <1>2
  <1> QED
    BY <1>1, <1>3, <1>4, <1>5 DEF LinkInPlace

LEMMA DifferTransitive ==
    ASSUME NEW f, NEW g, NEW h
    PROVE  Differ(f, h) \subseteq Differ(f, g) \cup Differ(g, h)
  BY DEF Differ

LEMMA AltersTransitive ==
    ASSUME NEW x, NEW f, NEW g, NEW h, Alters(x, f, g), Alters(x, g, h)
    PROVE  Alters(x, f, h)
  <1>1. Differ(f.vertex, h.vertex) \subseteq Differ(f.vertex, g.vertex) \cup Differ(g.vertex, h.vertex)
    BY DifferTransitive
  <1>2. Differ(f.link, h.link) \subseteq Differ(f.link, g.link) \cup Differ(g.link, h.link)
    BY DifferTransitive
  <1> QED
    BY <1>1, <1>2 DEF Alters

LEMMA AltersNothing ==
    ASSUME NEW x, NEW g
    PROVE  Alters(x, g, g)
  BY DEF Alters, Differ

-----------------------------------------------------------------------------
(* A request on the ids of a transaction stays in its part. *)

\* A link that is created under a key with dots, of an id of the transaction.
Keyed(x, r) == r.op = "linkCreate" /\ ~ IsLink(r.at) /\ r.at[1] \in Owned(x)
Stays(x, r) == Within(Owned(x), r) \/ Keyed(x, r)

\* One request leaves the parts apart, and alters its own only.
LEMMA RequestStays ==
    ASSUME NEW x \in Tx, NEW g, HeadsApart(g), NEW r, Stays(x, r), NEW h, h = Apply(g, r)
    PROVE  HeadsApart(h) /\ Alters(x, g, h)
  <1>0. IsGraph(g) /\ \A id \in Owned(x) : Head(id) = x /\ Len(id) > 1
    BY DEF HeadsApart, Owned
  <1>1. CASE Within(Owned(x), r) /\ r.op \in {"vertexCreate", "vertexUpdate"}
    <2>1. /\ IsGraph(h)
          /\ DOMAIN h.vertex = DOMAIN g.vertex \cup {r.at}
          /\ \A u \in DOMAIN g.vertex \ {r.at} : h.vertex[u] = g.vertex[u]
          /\ DOMAIN h.link \subseteq DOMAIN g.link
          /\ DOMAIN g.link \ DOMAIN h.link \subseteq Severed(g, r.at)
          /\ \A l \in DOMAIN h.link : h.link[l] = g.link[l]
      BY <1>0, <1>1, ApplyEffect
    <2>2. r.at \in Owned(x) /\ Head(r.at) = x
      BY <1>0, <1>1 DEF Within
    <2>3. HeadsApart(h)
      BY <2>1 DEF HeadsApart
    <2>4. Differ(g.vertex, h.vertex) \subseteq {r.at}
      BY <2>1 DEF Differ
    <2>5. Differ(g.link, h.link) \subseteq Severed(g, r.at)
      BY <2>1 DEF Differ
    <2>6. \A l \in Severed(g, r.at) : Head(l[1]) = x /\ Head(l[3]) = x
      BY <2>2 DEF HeadsApart, Touching, Severed
    <2> QED
      BY <2>2, <2>3, <2>4, <2>5, <2>6 DEF Alters
  <1>2. CASE Within(Owned(x), r) /\ r.op \in {"linkCreate", "linkUpdate"}
    <2>1. /\ IsGraph(h) /\ h.vertex = g.vertex
          /\ DOMAIN h.link = DOMAIN g.link \cup {r.at}
          /\ \A l \in DOMAIN g.link \ {r.at} : h.link[l] = g.link[l]
      BY <1>0, <1>2, ApplyEffect
    <2> DEFINE k == r.at
    <2>2. k[1] \in Owned(x) /\ k[3] \in Owned(x) /\ Head(k[1]) = x /\ Head(k[3]) = x
      BY <1>0, <1>2 DEF Within
    <2>3. HeadsApart(h)
      <3> SUFFICES ASSUME NEW l \in DOMAIN h.link, IsLink(l),
                          NEW y \in Tx, l[1] \in Owned(y) \/ l[3] \in Owned(y)
                   PROVE  Head(l[1]) = y /\ Head(l[3]) = y
        BY <2>1 DEF HeadsApart
      <3>1. CASE l = k
        <4>1. Head(l[1]) = y \/ Head(l[3]) = y
          BY DEF Owned
        <4> QED
          BY <4>1, <3>1, <2>2
      <3>2. CASE l \in DOMAIN g.link
        BY <3>2 DEF HeadsApart
      <3> QED
        BY <3>1, <3>2, <2>1
    <2>4. Differ(g.vertex, h.vertex) = {}
      BY <2>1 DEF Differ
    <2>5. Differ(g.link, h.link) \subseteq {k}
      BY <2>1 DEF Differ
    <2> QED
      BY <2>2, <2>3, <2>4, <2>5 DEF Alters
  <1>3. CASE Keyed(x, r)
    <2> DEFINE k == r.at
    <2>1. h = CreateLink(g, k, r.body) /\ ~ IsLink(k) /\ Head(k[1]) = x
      BY <1>0, <1>3 DEF Apply, Keyed
    <2> HIDE DEF k
    <2>2. /\ IsGraph(h) /\ h.vertex = g.vertex
          /\ DOMAIN h.link = DOMAIN g.link \cup {k}
          /\ \A l \in DOMAIN g.link \ {k} : h.link[l] = g.link[l]
      BY <1>0, <2>1, CreateLinkEffect
    <2>3. HeadsApart(h)
      BY <2>1, <2>2 DEF HeadsApart
    <2>4. Differ(g.vertex, h.vertex) = {} /\ Differ(g.link, h.link) \subseteq {k}
      BY <2>2 DEF Differ
    <2> QED
      BY <2>1, <2>3, <2>4 DEF Alters
  <1> QED
    BY <1>1, <1>2, <1>3 DEF Within, Stays

\* One request about copies leaves everything in place.
LEMMA RequestInPlace ==
    ASSUME NEW x \in Tx, NEW g, InPlace(g), NEW r, Within(Copies(x), r), NEW h, h = Apply(g, r)
    PROVE  InPlace(h)
  <1>0. IsGraph(g) /\ IsFiniteSet(DOMAIN g.link)
    BY DEF InPlace
  <1>1. CASE r.op \in {"vertexCreate", "vertexUpdate"}
    <2>1. IsGraph(h) /\ DOMAIN h.link \subseteq DOMAIN g.link
      BY <1>0, <1>1, ApplyEffect
    <2>2. IsFiniteSet(DOMAIN h.link)
      BY <1>0, <2>1, FS_Subset
    <2> QED
      BY <2>1, <2>2 DEF InPlace
  <1>2. CASE r.op \in {"linkCreate", "linkUpdate"}
    <2>1. IsGraph(h) /\ DOMAIN h.link = DOMAIN g.link \cup {r.at}
      BY <1>0, <1>2, ApplyEffect
    <2>2. IsFiniteSet(DOMAIN h.link)
      BY <1>0, <2>1, FS_AddElement
    <2> DEFINE k == r.at
    <2>3. IsLink(k) /\ k[1] \in Copies(x) /\ k[3] \in Copies(x)
      BY <1>2 DEF Within
    <2>4. LinkInPlace(k)
      BY <2>3 DEF LinkInPlace, TxLink
    <2> QED
      BY <2>1, <2>2, <2>4 DEF InPlace
  <1> QED
    BY <1>1, <1>2 DEF Within

\* So do requests one after the other.
LEMMA RequestsStay ==
    ASSUME NEW x \in Tx, NEW g, HeadsApart(g), NEW R, NEW rs \in Seq(R),
           \A r \in R : Stays(x, r)
    PROVE  Alters(x, g, ApplyAll(g, rs))
  <1> DEFINE n == Len(rs)
  <1>1. n \in Nat /\ \A i \in 1 .. n : rs[i] \in R
    BY LenProperties, ElementOfSeq
  <1>2. PICK f : /\ f[0] = g /\ ApplyAll(g, rs) = f[n]
                 /\ \A i \in 0 .. n : i < n => f[i + 1] = Apply(f[i], rs[i + 1])
    BY <1>1, ApplyAllGoesOn
  <1> HIDE DEF n
  <1> DEFINE G == {i \in 0 .. n : HeadsApart(f[i]) /\ Alters(x, g, f[i])}
  <1>3. 0 \in G
    BY <1>1, <1>2, AltersNothing
  <1>4. ASSUME NEW i \in 0 .. n, i \in G, i < n PROVE i + 1 \in G
    <2>1. i + 1 \in 1 .. n
      BY <1>4, <1>1
    <2>2. f[i + 1] = Apply(f[i], rs[i + 1]) /\ rs[i + 1] \in R
      BY <1>1, <1>2, <1>4, <2>1
    <2>3. HeadsApart(f[i]) /\ Alters(x, g, f[i])
      BY <1>4
    <2>4. HeadsApart(f[i + 1]) /\ Alters(x, f[i], f[i + 1])
      BY <2>2, <2>3, RequestStays
    <2>5. Alters(x, g, f[i + 1])
      BY <2>3, <2>4, AltersTransitive
    <2> QED
      BY <2>1, <2>4, <2>5
  <1> HIDE DEF G
  <1>5. n \in 0 .. n /\ \A i \in 0 .. n : i \in G
    BY <1>1, <1>3, <1>4, Upwards
  <1> QED
    BY <1>2, <1>5 DEF G

LEMMA RequestsInPlace ==
    ASSUME NEW x \in Tx, NEW g, InPlace(g), NEW R, NEW rs \in Seq(R),
           \A r \in R : Within(Copies(x), r)
    PROVE  InPlace(ApplyAll(g, rs))
  <1> DEFINE n == Len(rs)
  <1>1. n \in Nat /\ \A i \in 1 .. n : rs[i] \in R
    BY LenProperties, ElementOfSeq
  <1>2. PICK f : /\ f[0] = g /\ ApplyAll(g, rs) = f[n]
                 /\ \A i \in 0 .. n : i < n => f[i + 1] = Apply(f[i], rs[i + 1])
    BY <1>1, ApplyAllGoesOn
  <1> HIDE DEF n
  <1> DEFINE G == {i \in 0 .. n : InPlace(f[i])}
  <1>3. 0 \in G
    BY <1>1, <1>2
  <1>4. ASSUME NEW i \in 0 .. n, i \in G, i < n PROVE i + 1 \in G
    <2>1. i + 1 \in 1 .. n
      BY <1>4, <1>1
    <2>2. f[i + 1] = Apply(f[i], rs[i + 1]) /\ rs[i + 1] \in R
      BY <1>1, <1>2, <1>4, <2>1
    <2>3. InPlace(f[i + 1])
      BY <2>2, <1>4, RequestInPlace
    <2> QED
      BY <2>1, <2>3
  <1> HIDE DEF G
  <1>5. n \in 0 .. n /\ \A i \in 0 .. n : i \in G
    BY <1>1, <1>3, <1>4, Upwards
  <1> QED
    BY <1>2, <1>5 DEF G

-----------------------------------------------------------------------------
(* Calls made one after the other *)

PlanOf(R, plan) == plan = [answer |-> plan.answer, todo |-> plan.todo] /\ plan.todo \in Seq(R)

\* The plans of which others are made.
LEMMA PlanFacts ==
    ASSUME NEW R
    PROVE  /\ PlanOf(R, Refused) /\ PlanOf(R, Ok(<< >>)) /\ Ok(<< >>).todo = << >>
           /\ \A r \in R : PlanOf(R, Ok(<<r>>))
           /\ \A q, r \in R : PlanOf(R, Ok(<<q, r>>))
  <1>1. << >> \in Seq(R)
    BY EmptySeq
  <1>2. \A r \in R : <<r>> \in Seq(R)
    OBVIOUS
  <1>3. \A q, r \in R : <<q, r>> \in Seq(R)
    OBVIOUS
  <1>4. \A todo : Ok(todo) = [answer |-> "ok", todo |-> todo]
    BY DEF Ok
  <1>5. Refused = [answer |-> "failed", todo |-> << >>]
    BY DEF Refused
  <1>6. ASSUME NEW todo \in Seq(R) PROVE PlanOf(R, Ok(todo)) /\ Ok(todo).todo = todo
    BY <1>4 DEF PlanOf
  <1>7. PlanOf(R, Refused)
    BY <1>1, <1>5 DEF PlanOf
  <1> QED
    BY <1>1, <1>2, <1>3, <1>6, <1>7

LEMMA LargerPlan ==
    ASSUME NEW R, NEW Q, R \subseteq Q, NEW plan, PlanOf(R, plan)
    PROVE  PlanOf(Q, plan)
  BY SeqMonotonic DEF PlanOf

\* A plan after another one asks for what the two ask for.
LEMMA Joined ==
    ASSUME NEW R, NEW p, NEW q, PlanOf(R, p), PlanOf(R, q)
    PROVE  PlanOf(R, [q EXCEPT !.todo = p.todo \o @])
  <1> DEFINE j == [q EXCEPT !.todo = p.todo \o @]
  <1>1. p.todo \o q.todo \in Seq(R)
    BY ConcatProperties DEF PlanOf
  <1>0. q = [answer |-> q.answer, todo |-> q.todo]
    BY DEF PlanOf
  <1>2. j = [answer |-> q.answer, todo |-> p.todo \o q.todo]
    <2>1. j = [q EXCEPT !.todo = p.todo \o q.todo]
      OBVIOUS
    <2>2. \A todo : [q EXCEPT !.todo = todo] = [answer |-> q.answer, todo |-> todo]
      BY <1>0
    <2> QED
      BY <2>1, <2>2
  <1> HIDE DEF j
  <1>3. j.answer = q.answer /\ j.todo = p.todo \o q.todo
    BY <1>2
  <1> QED
    BY <1>1, <1>2, <1>3 DEF PlanOf, j

LEMMA ImageIsFinite ==
    ASSUME NEW S, IsFiniteSet(S), NEW f, DOMAIN f = S
    PROVE  IsFiniteSet({f[s] : s \in S})
  <1> DEFINE T == {f[s] : s \in S}
             h == [s \in S |-> f[s]]
  <1>1. h \in Surjection(S, T)
    BY DEF Surjection
  <1> QED
    BY <1>1, FS_Surjection

\* A finite set can be gone through.
LEMMA OrderIsSeq ==
    ASSUME NEW S, IsFiniteSet(S)
    PROVE  SetToSeq(S) \in Seq(S) /\ Len(SetToSeq(S)) \in Nat
  <1>1. Cardinality(S) \in Nat /\ ExistsBijection(1 .. Cardinality(S), S)
    BY FS_CardinalityType
  <1>2. \E f \in [1 .. Cardinality(S) -> S] : IsInjective(f)
    BY <1>1 DEF ExistsBijection, Bijection, Injection
  <1>3. SetToSeq(S) \in [1 .. Cardinality(S) -> S]
    BY <1>2 DEF SetToSeq
  <1>4. SetToSeq(S) \in Seq(S)
    BY <1>1, <1>3
  <1> QED
    BY <1>4, LenProperties

\* The plans of ForEach after the first calls.
Further(g, call, p) ==
    IF p.answer = "failed" THEN {p}
    ELSE {[next EXCEPT !.todo = p.todo \o @] : next \in Plans(ApplyAll(g, p.todo), call)}
Joint(g, order, f, n) ==
    IF n = 0 THEN {Ok(<< >>)}
    ELSE UNION {Further(g, order[n], p) : p \in f[n - 1]}
AllJoint(g, order, f, k) == f = [n \in 0 .. k |-> Joint(g, order, f, n)]

LEMMA JointOfSame ==
    ASSUME NEW g, NEW order, NEW f, NEW h, NEW n, n # 0 => f[n - 1] = h[n - 1]
    PROVE  Joint(g, order, f, n) = Joint(g, order, h, n)
  BY DEF Joint

LEMMA JointExists ==
    ASSUME NEW g, NEW order, NEW n \in Nat
    PROVE  \E f : AllJoint(g, order, f, n)
  <1> DEFINE G == {k \in 0 .. n : \E f : AllJoint(g, order, f, k)}
  <1>1. 0 \in G
    <2> DEFINE f == [i \in 0 .. 0 |-> {Ok(<< >>)}]
    <2>1. f = [i \in 0 .. 0 |-> Joint(g, order, f, i)]
      BY DEF Joint
    <2> HIDE DEF f
    <2>2. AllJoint(g, order, f, 0)
      BY <2>1 DEF AllJoint
    <2> QED
      BY <2>2
  <1>2. ASSUME NEW k \in 0 .. n, k \in G, k < n PROVE k + 1 \in G
    <2>1. PICK f : AllJoint(g, order, f, k)
      BY <1>2
    <2> DEFINE more == [i \in 0 .. k + 1 |-> IF i = k + 1 THEN Joint(g, order, f, k + 1) ELSE f[i]]
    <2>2. \A i \in 0 .. k : more[i] = f[i]
      OBVIOUS
    <2>3. more[k + 1] = Joint(g, order, f, k + 1)
      OBVIOUS
    <2>4. more = [i \in 0 .. k + 1 |-> more[i]]
      OBVIOUS
    <2> HIDE DEF more
    <2>5. \A i \in 0 .. k : f[i] = Joint(g, order, f, i)
      BY <2>1 DEF AllJoint
    <2>6. ASSUME NEW i \in 0 .. k + 1
          PROVE  more[i] = Joint(g, order, more, i)
      <3>1. i # 0 => i - 1 \in 0 .. k
        OBVIOUS
      <3>2. i # 0 => more[i - 1] = f[i - 1]
        BY <2>2, <3>1
      <3>3. Joint(g, order, f, i) = Joint(g, order, more, i)
        BY <3>2, JointOfSame
      <3>4. CASE i \in 0 .. k
        BY <3>3, <3>4, <2>2, <2>5
      <3>5. CASE i = k + 1
        BY <3>3, <3>5, <2>3
      <3> QED
        BY <3>4, <3>5
    <2>7. AllJoint(g, order, more, k + 1)
      BY <2>4, <2>6 DEF AllJoint
    <2> QED
      BY <1>2, <2>7
  <1> HIDE DEF G
  <1>3. n \in 0 .. n /\ \A i \in 0 .. n : i \in G
    BY <1>1, <1>2, Upwards
  <1> QED
    BY <1>3 DEF G

\* If what the calls ask for is in R as long as only requests in R have been
\* made, so is what they all ask for.
LEMMA ForEachPlans ==
    ASSUME NEW g, NEW S, IsFiniteSet(S), NEW R,
           \A rs \in Seq(R) : \A c \in S : \A plan \in Plans(ApplyAll(g, rs), c) : PlanOf(R, plan)
    PROVE  \A plan \in ForEach(g, S) : PlanOf(R, plan)
  <1> DEFINE order == SetToSeq(S)
             k == Len(order)
             f == CHOOSE f : f = [n \in 0 .. k |-> Joint(g, order, f, n)]
  <1>1. order \in Seq(S) /\ k \in Nat
    BY OrderIsSeq
  <1>2. ForEach(g, S) = f[k]
    BY DEF ForEach, Joint, Then, Further
  <1> HIDE DEF order
  <1>3. f = [n \in 0 .. k |-> Joint(g, order, f, n)]
    <2>1. \E h : AllJoint(g, order, h, k)
      BY <1>1, JointExists
    <2>2. \E h : h = [n \in 0 .. k |-> Joint(g, order, h, n)]
      BY <2>1 DEF AllJoint
    <2> QED
      BY <2>2
  <1> HIDE DEF f, k
  <1> DEFINE G == {n \in 0 .. k : \A plan \in f[n] : PlanOf(R, plan)}
  <1>4. 0 \in G
    <2>1. f[0] = {Ok(<< >>)}
      BY <1>1, <1>3 DEF Joint
    <2> QED
      BY <2>1, <1>1, PlanFacts
  <1>5. ASSUME NEW n \in 0 .. k, n \in G, n < k PROVE n + 1 \in G
    <2>1. n + 1 \in 0 .. k /\ n + 1 # 0 /\ n + 1 - 1 = n /\ n + 1 \in 1 .. Len(order)
      BY <1>5, <1>1 DEF k
    <2>2. order[n + 1] \in S
      BY <1>1, <2>1, ElementOfSeq
    <2>3. f[n + 1] = Joint(g, order, f, n + 1)
      BY <1>3, <2>1
    <2>4. ASSUME NEW plan \in f[n + 1] PROVE PlanOf(R, plan)
      <3>0. PICK p \in f[n + 1 - 1] : plan \in Further(g, order[n + 1], p)
        BY <2>1, <2>3, <2>4 DEF Joint
      <3>1. p \in f[n] /\ plan \in Further(g, order[n + 1], p)
        BY <3>0, <2>1
      <3>2. PlanOf(R, p)
        BY <1>5, <3>1
      <3>3. CASE plan = p
        BY <3>2, <3>3
      <3>4. CASE \E next \in Plans(ApplyAll(g, p.todo), order[n + 1]) :
                   plan = [next EXCEPT !.todo = p.todo \o @]
        <4>1. PICK next \in Plans(ApplyAll(g, p.todo), order[n + 1]) :
                   plan = [next EXCEPT !.todo = p.todo \o @]
          BY <3>4
        <4>2. PlanOf(R, next)
          BY <2>2, <3>2 DEF PlanOf
        <4> QED
          BY <3>2, <4>1, <4>2, Joined
      <3> QED
        BY <3>1, <3>3, <3>4 DEF Further
    <2> QED
      BY <2>1, <2>4
  <1> HIDE DEF G
  <1>6. k \in 0 .. k /\ \A n \in 0 .. k : n \in G
    BY <1>1, <1>4, <1>5, Upwards
  <1> QED
    BY <1>2, <1>6 DEF G

-----------------------------------------------------------------------------
(* What calls ask for *)

\* The id, or link, of the main graph that one of a transaction stands for.
Original(id) == IF Len(id) > 1 /\ Head(id) \in Tx THEN Tail(id) ELSE id
OriginalLink(l) == <<Original(l[1]), l[2], Original(l[3])>>

\* A body without a mark, or one that is asked for.
VertexMark(D, at, body) == body.gone \in BOOLEAN /\ (body.gone => Original(at) \in D.vertex)
LinkMark(D, at, body) == body.gone \in BOOLEAN /\ (body.gone => OriginalLink(at) \in D.link)
Harmless(D, r) ==
    /\ r.op \in {"vertexCreate", "vertexUpdate"} => VertexMark(D, r.at, r.body)
    /\ r.op \in {"linkCreate", "linkUpdate"} => LinkMark(D, r.at, r.body)
Good(I, D, sure, r) == Within(I, r) /\ (sure => Harmless(D, r))
Proper(I, D, sure, plan) == \E R : PlanOf(R, plan) /\ \A r \in R : Good(I, D, sure, r)

\* Requests for ids in I are good if their bodies are.
LEMMA GoodVertex ==
    ASSUME NEW I, NEW D, NEW sure, NEW at \in I, NEW body, sure => VertexMark(D, at, body)
    PROVE  Good(I, D, sure, VCreate(at, body)) /\ \A m : Good(I, D, sure, VUpdate(at, body, m))
  <1>1. ASSUME NEW r, r = VCreate(at, body) PROVE Good(I, D, sure, r)
    <2>1. r.op = "vertexCreate" /\ r.at = at /\ r.body = body
      BY <1>1 DEF VCreate
    <2> QED
      BY <2>1 DEF Good, Within, Harmless
  <1>2. ASSUME NEW m, NEW r, r = VUpdate(at, body, m) PROVE Good(I, D, sure, r)
    <2>1. r.op = "vertexUpdate" /\ r.at = at /\ r.body = body
      BY <1>2 DEF VUpdate
    <2> QED
      BY <2>1 DEF Good, Within, Harmless
  <1> QED
    BY <1>1, <1>2

LEMMA GoodLink ==
    ASSUME NEW I, NEW D, NEW sure, NEW from \in I, NEW t, NEW to \in I, NEW body,
           sure => LinkMark(D, <<from, t, to>>, body)
    PROVE  Good(I, D, sure, LCreate(<<from, t, to>>, body)) /\ Good(I, D, sure, LUpdate(<<from, t, to>>, body))
  <1> DEFINE l == <<from, t, to>>
  <1>0. IsLink(l) /\ l[1] \in I /\ l[3] \in I
    BY DEF IsLink
  <1>00. sure => LinkMark(D, l, body)
    OBVIOUS
  <1> HIDE DEF l
  <1>1. ASSUME NEW r, r = LCreate(l, body) PROVE Good(I, D, sure, r)
    <2>1. r.op = "linkCreate" /\ r.at = l /\ r.body = body
      BY <1>1 DEF LCreate
    <2> QED
      BY <1>0, <1>00, <2>1 DEF Good, Within, Harmless
  <1>2. ASSUME NEW r, r = LUpdate(l, body) PROVE Good(I, D, sure, r)
    <2>1. r.op = "linkUpdate" /\ r.at = l /\ r.body = body
      BY <1>2 DEF LUpdate
    <2> QED
      BY <1>0, <1>00, <2>1 DEF Good, Within, Harmless
  <1>3. Good(I, D, sure, LCreate(l, body)) /\ Good(I, D, sure, LUpdate(l, body))
    BY <1>1, <1>2
  <1> QED
    BY <1>3 DEF l

\* Bodies that are created have no mark.
LEMMA NoMarkIn ==
    /\ \A D, at, val : VertexMark(D, at, Body(val)) /\ LinkMark(D, at, Body(val))
    /\ \A D, at, body : ~ body.gone /\ body.gone \in BOOLEAN => VertexMark(D, at, body) /\ LinkMark(D, at, body)
  BY DEF VertexMark, LinkMark, Body

LEMMA ProperPlans ==
    ASSUME NEW I, NEW D, NEW sure
    PROVE  /\ Proper(I, D, sure, Refused) /\ Proper(I, D, sure, Ok(<< >>))
           /\ \A r : Good(I, D, sure, r) => Proper(I, D, sure, Ok(<<r>>))
           /\ \A q, r : Good(I, D, sure, q) /\ Good(I, D, sure, r) => Proper(I, D, sure, Ok(<<q, r>>))
  <1>1. Proper(I, D, sure, Refused) /\ Proper(I, D, sure, Ok(<< >>))
    <2>1. PlanOf({}, Refused) /\ PlanOf({}, Ok(<< >>))
      BY PlanFacts
    <2> QED
      BY <2>1 DEF Proper
  <1>2. ASSUME NEW r, Good(I, D, sure, r) PROVE Proper(I, D, sure, Ok(<<r>>))
    <2>1. PlanOf({r}, Ok(<<r>>))
      BY PlanFacts
    <2> QED
      BY <1>2, <2>1 DEF Proper
  <1>3. ASSUME NEW q, NEW r, Good(I, D, sure, q), Good(I, D, sure, r) PROVE Proper(I, D, sure, Ok(<<q, r>>))
    <2>1. PlanOf({q, r}, Ok(<<q, r>>))
      BY PlanFacts
    <2> QED
      BY <1>3, <2>1 DEF Proper
  <1> QED
    BY <1>1, <1>2, <1>3

\* Proper plans one after the other are proper.
LEMMA ProperJoined ==
    ASSUME NEW I, NEW D, NEW sure, NEW p, NEW q, Proper(I, D, sure, p), Proper(I, D, sure, q)
    PROVE  Proper(I, D, sure, [q EXCEPT !.todo = p.todo \o @])
  <1>1. PICK R : PlanOf(R, p) /\ \A r \in R : Good(I, D, sure, r)
    BY DEF Proper
  <1>2. PICK Q : PlanOf(Q, q) /\ \A r \in Q : Good(I, D, sure, r)
    BY DEF Proper
  <1>3. PlanOf(R \cup Q, p) /\ PlanOf(R \cup Q, q)
    BY <1>1, <1>2, LargerPlan
  <1>4. PlanOf(R \cup Q, [q EXCEPT !.todo = p.todo \o @])
    BY <1>3, Joined
  <1>5. \A r \in R \cup Q : Good(I, D, sure, r)
    BY <1>1, <1>2
  <1> QED
    BY <1>4, <1>5 DEF Proper

\* What a transaction's requests are about: copies, or copies of copies, too.
Room(x, I) == I = Copies(x) \/ I = Owned(x)

\* Whatever a transaction's requests are about, there is room for its copies.
LEMMA RoomFacts ==
    ASSUME NEW x \in Tx, NEW I, Room(x, I)
    PROVE  \A p \in PlainId : Copy(x, p) \in I /\ Original(Copy(x, p)) = p
  <1> SUFFICES ASSUME NEW p \in PlainId PROVE Copy(x, p) \in I /\ Original(Copy(x, p)) = p
    OBVIOUS
  <1>1. Copy(x, p) \in Copies(x) /\ Copy(x, p) \in Owned(x) /\ Head(Copy(x, p)) = x /\ Tail(Copy(x, p)) = p
    BY PlainFacts, CopyFacts DEF Copies
  <1>2. Original(Copy(x, p)) = p
    BY <1>1 DEF Owned, Original
  <1> QED
    BY <1>1, <1>2 DEF Room

\* What the assumption on the calls says of each one.
LEMMA CallFacts ==
    ASSUME NEW c \in Calls
    PROVE  /\ c = [fn |-> c.fn, id |-> c.id, type |-> c.type, to |-> c.to, lt |-> c.lt,
                   body |-> c.body, mode |-> c.mode]
           /\ ~ c.body.gone /\ c.body.gone \in BOOLEAN /\ c.body = [val |-> c.body.val, gone |-> FALSE]
           /\ c.id \in PlainId
           /\ c.fn = "object.create" => c.type \in PlainId
           /\ c.fn \in LinkFunctions => c.to \in PlainId
           /\ c.fn \in TxFunctions
  <1>1. c.body = [val |-> c.body.val, gone |-> FALSE]
    BY CallsAreOnPlainIds DEF Body
  <1>2. c = [fn |-> c.fn, id |-> c.id, type |-> c.type, to |-> c.to, lt |-> c.lt,
             body |-> c.body, mode |-> c.mode]
    BY CallsAreOnPlainIds DEF TxCall
  <1>3. ~ c.body.gone /\ c.body.gone \in BOOLEAN
    <2>1. \A b, v : b = [val |-> v, gone |-> FALSE] => b.gone = FALSE
      OBVIOUS
    <2> QED
      BY ONLY <1>1, <2>1
  <1> QED
    BY <1>1, <1>2, <1>3, CallsAreOnPlainIds

MarksAsked(g, D) ==
    /\ \A v \in DOMAIN g.vertex : VertexMark(D, v, g.vertex[v])
    /\ \A l \in DOMAIN g.link : LinkMark(D, l, g.link[l])

LEMMA PlainIsOriginal ==
    \A p \in PlainId : Original(p) = p
  BY PlainFacts DEF Original

-----------------------------------------------------------------------------
(* The calls for types and objects, one by one *)

\* The calls for types and objects, with what a transaction gives them.
LEMMA TypeCreated ==
    ASSUME NEW x \in Tx, NEW I, Room(x, I), NEW D, NEW sure, NEW g, NEW c, Copy(x, c.id) \in I,
           sure => VertexMark(D, Copy(x, c.id), c.body)
    PROVE  \A plan \in TxCreateType(g, x, c) : Proper(I, D, sure, plan)
  <1> DEFINE copy == Copy(x, c.id)
             call == [Call("type.create", copy) EXCEPT !.prefix = <<x>>, !.body = c.body]
             listed == <<Copy(x, types), "__type", copy>>
  <1>1. call.at = copy /\ call.prefix = <<x>> /\ call.body = c.body
    BY DEF Call
  <1>2. TxCreateType(g, x, c) = CreateType(g, call)
    BY DEF TxCreateType
  <1>3. <<x>> \o <<"types">> = Copy(x, types)
    BY DEF Copy, types
  <1>4. Copy(x, types) \in I
    BY RoomFacts, NamedIds
  <1>4a. copy \in I
    OBVIOUS
  <1> HIDE DEF call, copy
  <1>5. CreateType(g, call) \subseteq {Ok(<< >>), Ok(<<VCreate(copy, c.body), LCreate(listed, Body(None))>>)}
    BY <1>1, <1>3 DEF CreateType
  <1>6. Good(I, D, sure, VCreate(copy, c.body))
    BY <1>4a, GoodVertex DEF copy
  <1>7. Good(I, D, sure, LCreate(listed, Body(None)))
    BY <1>4, <1>4a, GoodLink, NoMarkIn
  <1>8. Proper(I, D, sure, Ok(<< >>)) /\ Proper(I, D, sure, Ok(<<VCreate(copy, c.body), LCreate(listed, Body(None))>>))
    BY <1>6, <1>7, ProperPlans
  <1> QED
    BY <1>2, <1>5, <1>8

LEMMA VertexUpdated ==
    ASSUME NEW x \in Tx, NEW I, NEW D, NEW sure, NEW g, NEW call, call.at \in I,
           sure => VertexMark(D, call.at, call.body)
    PROVE  /\ \A plan \in UpdateType(g, call) : Proper(I, D, sure, plan)
           /\ \A plan \in UpdateObject(g, call) : Proper(I, D, sure, plan)
  <1>1. Good(I, D, sure, VUpdate(call.at, call.body, call.mode))
    BY GoodVertex
  <1>2. Proper(I, D, sure, Ok(<<VUpdate(call.at, call.body, call.mode)>>))
    BY <1>1, ProperPlans
  <1> QED
    BY <1>2 DEF UpdateType, UpdateObject

\* The update of a type creates it if the transaction lists it no more.
LEMMA UpdateTypeProper ==
    ASSUME NEW x \in Tx, NEW I, Room(x, I), NEW D, NEW sure, NEW g, NEW c \in Calls,
           sure => MarksAsked(g, D)
    PROVE  \A plan \in TxUpdateType(g, x, c) : Proper(I, D, sure, plan)
  <1> DEFINE copy == Copy(x, c.id)
             call == [Call("type.update", copy) EXCEPT !.body = c.body]
             Update(h) == UpdateType(h, call)
             old == [c EXCEPT !.body = g.vertex[c.id]]
  <1>0. copy \in I /\ Original(copy) = c.id
    BY CallFacts, RoomFacts
  <1>1. call.at = copy /\ call.body = c.body
    BY DEF Call
  <1>2. ASSUME NEW h PROVE \A plan \in Update(h) : Proper(I, D, sure, plan)
    <2>1. VertexMark(D, copy, c.body)
      BY CallFacts, NoMarkIn
    <2> HIDE DEF call, copy
    <2> QED
      BY <1>0, <1>1, <2>1, VertexUpdated
  <1>3. ASSUME c.id \in DOMAIN g.vertex PROVE \A plan \in TxCreateType(g, x, old) : Proper(I, D, sure, plan)
    <2>1. old.id = c.id /\ old.body = g.vertex[c.id]
      BY CallFacts
    <2>2. sure => VertexMark(D, c.id, g.vertex[c.id])
      BY <1>3 DEF MarksAsked
    <2>3. Original(c.id) = c.id
      BY CallFacts, PlainIsOriginal
    <2>4. sure => VertexMark(D, copy, g.vertex[c.id])
      BY <2>2, <2>3, <1>0 DEF VertexMark
    <2> HIDE DEF old
    <2> QED
      BY <1>0, <2>1, <2>4, TypeCreated
  <1> SUFFICES ASSUME NEW plan \in TxUpdateType(g, x, c) PROVE Proper(I, D, sure, plan)
    OBVIOUS
  <1>4. \/ plan \in Update(g)
        \/ plan = Refused
        \/ c.id \in DOMAIN g.vertex /\ plan \in Then(g, TxCreateType(g, x, old), Update)
    BY DEF TxUpdateType
  <1>5. CASE c.id \in DOMAIN g.vertex /\ plan \in Then(g, TxCreateType(g, x, old), Update)
    <2>1. PICK p \in TxCreateType(g, x, old) :
             \/ plan = p
             \/ \E next \in Update(ApplyAll(g, p.todo)) : plan = [next EXCEPT !.todo = p.todo \o @]
      <3> HIDE DEF old, Update
      <3> QED
        BY <1>5 DEF Then
    <2>2. Proper(I, D, sure, p)
      BY <1>3, <1>5, <2>1
    <2> HIDE DEF Update, old
    <2>3. ASSUME NEW next \in Update(ApplyAll(g, p.todo)), plan = [next EXCEPT !.todo = p.todo \o @]
          PROVE  Proper(I, D, sure, plan)
      <3>1. Proper(I, D, sure, next)
        BY <1>2
      <3> QED
        BY <2>2, <2>3, <3>1, ProperJoined
    <2> QED
      BY <2>1, <2>2, <2>3
  <1> HIDE DEF Update
  <1> QED
    BY <1>2, <1>4, <1>5, ProperPlans

LEMMA ObjectCreated ==
    ASSUME NEW x \in Tx, NEW I, Room(x, I), NEW D, NEW sure, NEW g, NEW c, Copy(x, c.id) \in I,
           Copy(x, c.type) \in I, sure => VertexMark(D, Copy(x, c.id), c.body)
    PROVE  \A plan \in TxCreateObject(g, x, c) : Proper(I, D, sure, plan)
  <1> DEFINE copy == Copy(x, c.id)
             type == Copy(x, c.type)
             list == Copy(x, objects)
             call == [Call("object.create", copy) EXCEPT !.prefix = <<x>>, !.type = c.type, !.body = c.body]
             ls == <<<<list, "__object", copy>>, <<copy, "__type", type>>, <<type, "__object", copy>>>>
             todo == <<VCreate(copy, c.body)>> \o [i \in 1 .. 3 |-> LCreate(ls[i], Body(None))]
  <1>1. call.at = copy /\ call.prefix = <<x>> /\ call.body = c.body /\ call.type = c.type
    BY DEF Call
  <1>2. TxCreateObject(g, x, c) = CreateObject(g, call)
    BY DEF TxCreateObject
  <1>3. <<x>> \o <<"objects">> = list /\ <<x>> \o c.type = type
    BY DEF Copy, objects
  <1>4. list \in I /\ copy \in I /\ type \in I /\ (sure => VertexMark(D, copy, c.body))
    BY RoomFacts, NamedIds
  <1> HIDE DEF call, copy, type, list
  <1>5. ObjectLinks(call) = ls
    BY <1>1, <1>3 DEF ObjectLinks
  <1>6. CreateObject(g, call) \subseteq {Ok(<< >>), Ok(todo)}
    <2> HIDE DEF ls
    <2> QED
      BY <1>1, <1>5 DEF CreateObject
  <1> DEFINE r0 == VCreate(copy, c.body)
             r1 == LCreate(<<list, "__object", copy>>, Body(None))
             r2 == LCreate(<<copy, "__type", type>>, Body(None))
             r3 == LCreate(<<type, "__object", copy>>, Body(None))
             R == {r0, r1, r2, r3}
  <1>7. Good(I, D, sure, r0) /\ Good(I, D, sure, r1) /\ Good(I, D, sure, r2) /\ Good(I, D, sure, r3)
    <2>1. Good(I, D, sure, r0)
      BY <1>4, GoodVertex
    <2>2. \A at, b : LinkMark(D, at, Body(None))
      BY NoMarkIn
    <2>3. Good(I, D, sure, r1)
      BY <1>4, <2>2, GoodLink
    <2>4. Good(I, D, sure, r2)
      BY <1>4, <2>2, GoodLink
    <2>5. Good(I, D, sure, r3)
      BY <1>4, <2>2, GoodLink
    <2> QED
      BY <2>1, <2>3, <2>4, <2>5
  <1>8. todo \in Seq(R)
    <2> DEFINE more == [i \in 1 .. 3 |-> LCreate(ls[i], Body(None))]
    <2>1. LCreate(ls[1], Body(None)) = r1 /\ LCreate(ls[2], Body(None)) = r2 /\ LCreate(ls[3], Body(None)) = r3
      OBVIOUS
    <2> HIDE DEF ls, r0, r1, r2, r3
    <2>2. \A i \in 1 .. 3 : LCreate(ls[i], Body(None)) \in R
      <3>1. \A i \in 1 .. 3 : i = 1 \/ i = 2 \/ i = 3
        OBVIOUS
      <3> QED
        BY <2>1, <3>1
    <2> HIDE DEF R
    <2>3. more \in [1 .. 3 -> R]
      BY <2>2
    <2>4. more \in Seq(R)
      BY <2>3, SeqDef
    <2>5. <<VCreate(copy, c.body)>> \in Seq(R)
      BY DEF R, r0
    <2> HIDE DEF more
    <2>6. <<VCreate(copy, c.body)>> \o more \in Seq(R)
      BY <2>4, <2>5, ConcatProperties
    <2> QED
      BY <2>6 DEF more
  <1> HIDE DEF todo, r0, r1, r2, r3
  <1>9. PlanOf(R, Ok(todo))
    <2>1. Ok(todo) = [answer |-> "ok", todo |-> todo]
      BY DEF Ok
    <2> QED
      BY <2>1, <1>8 DEF PlanOf
  <1>10. Proper(I, D, sure, Ok(todo))
    BY <1>7, <1>9 DEF Proper
  <1>11. Proper(I, D, sure, Ok(<< >>))
    BY ProperPlans
  <1> QED
    BY <1>2, <1>6, <1>10, <1>11

\* So does that of an object that the transaction has.
LEMMA UpdateObjectProper ==
    ASSUME NEW x \in Tx, NEW I, Room(x, I), NEW D, NEW sure, NEW g, NEW c \in Calls,
           <<Copy(x, objects), "__object", Copy(x, c.id)>> \in DOMAIN g.link
    PROVE  \A plan \in TxUpdateObject(g, x, c) : Proper(I, D, sure, plan)
  <1> DEFINE copy == Copy(x, c.id)
             call == [Call("object.update", copy) EXCEPT !.body = c.body, !.mode = c.mode]
  <1>0. copy \in I /\ VertexMark(D, copy, c.body)
    BY CallFacts, RoomFacts, NoMarkIn
  <1>1. call.at = copy /\ call.body = c.body
    BY DEF Call
  <1>2. TxUpdateObject(g, x, c) = UpdateObject(g, call)
    BY DEF TxUpdateObject
  <1> HIDE DEF call, copy
  <1> QED
    BY <1>0, <1>1, <1>2, VertexUpdated

\* One that it lacks is created with keys with dots, in its part.
Staying(x, plan) == \E R : PlanOf(R, plan) /\ \A r \in R : Stays(x, r)

LEMMA CreateWithKeyStays ==
    ASSUME NEW x \in Tx, NEW g, NEW c \in Calls, NEW t
    PROVE  Staying(x, CreateWithKey(g, x, c, t))
  <1> DEFINE copy == Copy(x, c.id)
             list == Copy(x, objects)
             k(end) == <<copy, "__type", end, "key">>
             r1 == VCreate(copy, g.vertex[c.id])
             r2 == LCreate(<<list, "__object", copy>>, Body(None))
             r3 == LCreate(k(fragment), Body(None))
             r4 == LCreate(k(t), Body(None))
             r5 == LCreate(k(copy), Body(None))
             R == {r1, r2, r3, r4, r5}
             todo == <<r1, r2, r3, r4, r5>>
  <1>1. copy \in Owned(x) /\ list \in Owned(x)
    BY CallFacts, NamedIds, RoomFacts DEF Room
  <1>2. CreateWithKey(g, x, c, t) = [answer |-> "ok", todo |-> todo]
    BY DEF CreateWithKey, Ok
  <1> HIDE DEF copy, list
  <1>3. Stays(x, r1) /\ Stays(x, r2)
    BY <1>1, GoodVertex, GoodLink DEF Good, Stays
  <1>4. ASSUME NEW end PROVE Stays(x, LCreate(k(end), Body(None)))
    <2>1. ~ IsLink(k(end)) /\ k(end)[1] = copy
      BY DEF IsLink
    <2>2. LCreate(k(end), Body(None)).op = "linkCreate" /\ LCreate(k(end), Body(None)).at = k(end)
      BY DEF LCreate
    <2> HIDE DEF k
    <2> QED
      BY <1>1, <2>1, <2>2 DEF Stays, Keyed
  <1>5. \A r \in R : Stays(x, r)
    <2>1. Stays(x, r3) /\ Stays(x, r4) /\ Stays(x, r5)
      BY <1>4
    <2> HIDE DEF r1, r2, r3, r4, r5
    <2> QED
      BY <1>3, <2>1
  <1> HIDE DEF r1, r2, r3, r4, r5
  <1>6. todo \in Seq(R)
    OBVIOUS
  <1> HIDE DEF todo, R
  <1>7. PlanOf(R, CreateWithKey(g, x, c, t))
    BY <1>2, <1>6 DEF PlanOf
  <1> QED
    BY <1>5, <1>7 DEF Staying

LEMMA UpdateObjectStays ==
    ASSUME NEW x \in Tx, NEW g, NEW c \in Calls, NEW plan \in TxUpdateObject(g, x, c)
    PROVE  Staying(x, plan)
  <1> DEFINE copy == Copy(x, c.id)
             call == [Call("object.update", copy) EXCEPT !.body = c.body, !.mode = c.mode]
             Update(h) == UpdateObject(h, call)
             keyed == {CreateWithKey(g, x, c, t) : t \in ObjectTypes(g, c.id)}
  <1>0. copy \in Owned(x) /\ \A D : VertexMark(D, copy, c.body)
    BY CallFacts, RoomFacts, NoMarkIn DEF Room
  <1>1. call.at = copy /\ call.body = c.body
    BY DEF Call
  <1>2. ASSUME NEW p, Proper(Owned(x), asked, FALSE, p) PROVE Staying(x, p)
    BY <1>2 DEF Proper, Good, Staying, Stays
  <1>3. ASSUME NEW h, NEW next \in Update(h) PROVE Staying(x, next)
    <2> HIDE DEF call, copy
    <2>1. Proper(Owned(x), asked, FALSE, next)
      BY <1>0, <1>1, VertexUpdated
    <2> QED
      BY <2>1, <1>2
  <1>4. Staying(x, Refused)
    BY <1>2, ProperPlans
  <1>5. plan \in Update(g) \/ plan = Refused \/ plan \in Then(g, keyed, Update)
    BY DEF TxUpdateObject
  <1>6. \A p \in keyed : Staying(x, p)
    BY CreateWithKeyStays
  <1> HIDE DEF Update, keyed
  <1>7. ASSUME plan \in Then(g, keyed, Update) PROVE Staying(x, plan)
    <2>1. PICK p \in keyed : \/ plan = p
                             \/ \E next \in Update(ApplyAll(g, p.todo)) : plan = [next EXCEPT !.todo = p.todo \o @]
      BY <1>7 DEF Then
    <2>2. Staying(x, p)
      BY <1>6
    <2>3. ASSUME NEW next \in Update(ApplyAll(g, p.todo)), plan = [next EXCEPT !.todo = p.todo \o @]
          PROVE  Staying(x, plan)
      <3>1. PICK P : PlanOf(P, p) /\ \A r \in P : Stays(x, r)
        BY <2>2 DEF Staying
      <3>2. PICK Q : PlanOf(Q, next) /\ \A r \in Q : Stays(x, r)
        BY <1>3 DEF Staying
      <3>3. PlanOf(P \cup Q, p) /\ PlanOf(P \cup Q, next)
        BY <3>1, <3>2, LargerPlan
      <3>4. PlanOf(P \cup Q, plan)
        BY <2>3, <3>3, Joined
      <3> QED
        BY <3>1, <3>2, <3>4 DEF Staying
    <2> QED
      BY <2>1, <2>2, <2>3
  <1> QED
    BY <1>3, <1>4, <1>5, <1>7

\* Links between types and objects.
LEMMA TypesLinked ==
    ASSUME NEW x \in Tx, NEW I, Room(x, I), NEW D, NEW sure, NEW g, NEW c \in Calls, c.to \in PlainId
    PROVE  /\ \A plan \in TxCreateTypesLink(g, x, c) : Proper(I, D, sure, plan)
           /\ \A plan \in TxCreateObjectsLink(g, x, c) : Proper(I, D, sure, plan)
  <1> DEFINE from == Copy(x, c.id)
             to == Copy(x, c.to)
             call == [Call("types.link.create", from) EXCEPT !.to = to, !.lt = c.lt]
             call2 == [Call("objects.link.create", from) EXCEPT !.to = to]
             l == <<from, "__type", to>>
  <1>1. from \in I /\ to \in I
    BY CallFacts, RoomFacts
  <1>2. call.at = from /\ call.to = to /\ call2.at = from /\ call2.to = to /\ call2.body = Body(None)
    BY DEF Call
  <1>3. TxCreateTypesLink(g, x, c) = CreateTypesLink(g, call) /\ TxCreateObjectsLink(g, x, c) = CreateObjectsLink(g, call2)
    BY DEF TxCreateTypesLink, TxCreateObjectsLink
  <1> HIDE DEF call, call2, from, to
  <1>4. \A t, v : Good(I, D, sure, LCreate(<<from, t, to>>, Body(v)))
    BY <1>1, GoodLink, NoMarkIn
  <1>5. ASSUME NEW plan \in CreateTypesLink(g, call) PROVE Proper(I, D, sure, plan)
    <2>1. plan = Ok(<< >>) \/ plan = Ok(<<LCreate(<<from, "__type", to>>, Body(call.lt))>>)
      BY <1>2 DEF CreateTypesLink
    <2> QED
      BY <1>4, <2>1, ProperPlans
  <1>6. ASSUME NEW plan \in CreateObjectsLink(g, call2) PROVE Proper(I, D, sure, plan)
    <2>1. plan = Refused \/ plan = Ok(<< >>) \/ \E lt : plan = Ok(<<LCreate(<<from, lt, to>>, Body(None))>>)
      BY <1>2 DEF CreateObjectsLink, WithLinkType
    <2> QED
      BY <1>4, <2>1, ProperPlans
  <1> QED
    BY <1>3, <1>5, <1>6

\* The update of a link between objects, of the main graph or not.
LEMMA ObjectsLinkUpdated ==
    ASSUME NEW I, NEW D, NEW sure, NEW g, NEW call, call.at \in I, call.to \in I,
           sure => \A lt \in LinkTypeOf(g, call.at, call.to) : LinkMark(D, <<call.at, lt, call.to>>, call.body)
    PROVE  \A plan \in UpdateObjectsLink(g, call) : Proper(I, D, sure, plan)
  <1> SUFFICES ASSUME NEW plan \in UpdateObjectsLink(g, call) PROVE Proper(I, D, sure, plan)
    OBVIOUS
  <1>1. plan = Refused \/ \E lt \in LinkTypeOf(g, call.at, call.to) :
           plan = Ok(<<LUpdate(<<call.at, lt, call.to>>, call.body)>>)
    BY DEF UpdateObjectsLink, WithLinkType
  <1>2. ASSUME NEW lt \in LinkTypeOf(g, call.at, call.to)
        PROVE Good(I, D, sure, LUpdate(<<call.at, lt, call.to>>, call.body))
    BY GoodLink
  <1> QED
    BY <1>1, <1>2, ProperPlans

LEMMA TypesLinkUpdated ==
    ASSUME NEW I, NEW D, NEW sure, NEW g, NEW call, call.at \in I, call.to \in I,
           NEW new, new = [call.body EXCEPT !.val = call.lt],
           sure => LinkMark(D, <<call.at, "__type", call.to>>, new)
    PROVE  \A plan \in UpdateTypesLink(g, call) : Proper(I, D, sure, plan)
  <1> SUFFICES ASSUME NEW plan \in UpdateTypesLink(g, call) PROVE Proper(I, D, sure, plan)
    OBVIOUS
  <1>1. plan = Refused \/ plan = Ok(<<LUpdate(<<call.at, "__type", call.to>>, new)>>)
    BY DEF UpdateTypesLink
  <1>2. Good(I, D, sure, LUpdate(<<call.at, "__type", call.to>>, new))
    BY GoodLink
  <1> QED
    BY <1>1, <1>2, ProperPlans

LEMMA CopyOfCopy ==
    ASSUME NEW x \in Tx, NEW p \in PlainId
    PROVE  Copy(x, p) \in Owned(x) /\ Copy(x, Copy(x, p)) \in Owned(x)
  <1>1. Copy(x, p) \in Owned(x)
    BY PlainFacts, CopyFacts
  <1>2. Copy(x, p) \in Seq(Name) /\ Copy(x, p) # << >>
    BY <1>1 DEF Owned
  <1> QED
    BY <1>1, <1>2, CopyFacts

\* What is not refused goes on where the first calls have led.
LEMMA ThenFacts ==
    ASSUME NEW plan, NEW p, NEW S, NEW I, NEW D, NEW sure, Proper(I, D, sure, p),
           plan = p \/ \E next \in S : plan = [next EXCEPT !.todo = p.todo \o @],
           \A next \in S : Proper(I, D, sure, next)
    PROVE  Proper(I, D, sure, plan)
  <1>1. CASE plan = p
    BY <1>1
  <1>2. ASSUME NEW next \in S, plan = [next EXCEPT !.todo = p.todo \o @] PROVE Proper(I, D, sure, plan)
    <2>1. Proper(I, D, sure, next)
      OBVIOUS
    <2> QED
      BY <1>2, <2>1, ProperJoined
  <1> QED
    BY <1>1, <1>2

\* Nothing to do, and then nothing to do.
Nothing(plan) == plan = [answer |-> plan.answer, todo |-> << >>]
LEMMA NothingJoined ==
    ASSUME NEW p, NEW q, Nothing(p), Nothing(q)
    PROVE  Nothing([q EXCEPT !.todo = p.todo \o @])
  <1>1. p.todo = << >> /\ q.todo = << >> /\ q = [answer |-> q.answer, todo |-> q.todo]
    BY DEF Nothing
  <1>2. [q EXCEPT !.todo = p.todo \o @] = [q EXCEPT !.todo = p.todo \o q.todo]
    OBVIOUS
  <1>3. p.todo \o q.todo = << >>
    BY <1>1
  <1>4. \A todo : [q EXCEPT !.todo = todo] = [answer |-> q.answer, todo |-> todo]
    BY <1>1
  <1>5. [q EXCEPT !.todo = p.todo \o @] = [answer |-> q.answer, todo |-> << >>]
    BY <1>2, <1>3, <1>4
  <1> HIDE DEF Nothing
  <1> DEFINE j == [q EXCEPT !.todo = p.todo \o @]
  <1>6. j = [answer |-> q.answer, todo |-> << >>]
    BY <1>5
  <1> HIDE DEF j
  <1>7. Nothing(j)
    BY <1>6 DEF Nothing
  <1> QED
    BY <1>7 DEF j

LEMMA NothingPlans == Nothing(Ok(<< >>)) /\ Nothing(Refused)
  BY DEF Nothing, Ok, Refused

LEMMA OtherValue ==
    ASSUME NEW b, NEW v, b = [val |-> b.val, gone |-> b.gone]
    PROVE  [b EXCEPT !.val = v] = [val |-> v, gone |-> b.gone]
  OBVIOUS

\* A link between types: an end that is not there is cloned first, to a copy of a copy.
LEMMA UpdateTypesLinkProper ==
    ASSUME NEW x \in Tx, NEW I, Room(x, I), NEW D, NEW sure, NEW g, NEW c \in Calls, c.to \in PlainId,
           {Copy(x, c.id), Copy(x, c.to)} \subseteq DOMAIN g.vertex \/ (I = Owned(x) /\ ~ sure)
    PROVE  \A plan \in TxUpdateTypesLink(g, x, c) : Proper(I, D, sure, plan)
  <1> DEFINE from == Copy(x, c.id)
             to == Copy(x, c.to)
             update == [Call("types.link.update", from) EXCEPT !.to = to, !.lt = c.lt, !.body = c.body]
             CloneType(h, id) ==
                IF Copy(x, id) \in DOMAIN h.vertex THEN {Ok(<< >>)}
                ELSE IF id \notin DOMAIN h.vertex THEN {Refused}
                ELSE TxCreateType(h, x, [TxCall("type.create", Copy(x, id)) EXCEPT !.body = h.vertex[id]])
             CloneTo(h) == CloneType(h, c.to)
             NoLink(h) == {Refused}
  <1>1. from \in I /\ to \in I
    BY CallFacts, RoomFacts
  <1>2. ASSUME NEW plan \in UpdateTypesLink(g, update) PROVE Proper(I, D, sure, plan)
    <2> DEFINE new == [c.body EXCEPT !.val = c.lt]
    <2>1. update.at = from /\ update.to = to /\ update.body = c.body /\ update.lt = c.lt
      BY DEF Call
    <2>2. new = Body(c.lt)
      <3>1. c.body = [val |-> c.body.val, gone |-> c.body.gone] /\ c.body.gone = FALSE
        BY CallFacts
      <3>2. [c.body EXCEPT !.val = c.lt] = [val |-> c.lt, gone |-> c.body.gone]
        BY <3>1, OtherValue
      <3>3. new = [val |-> c.lt, gone |-> FALSE]
        BY <3>1, <3>2
      <3> QED
        BY <3>3 DEF Body
    <2> HIDE DEF update, new, from, to
    <2>3. new = [update.body EXCEPT !.val = update.lt]
      BY <2>1 DEF new
    <2>4. LinkMark(D, <<update.at, "__type", update.to>>, new)
      BY <2>2, NoMarkIn
    <2> QED
      BY <1>1, <2>1, <2>3, <2>4, <1>2, TypesLinkUpdated
  <1>3. ASSUME NEW h, NEW id \in {c.id, c.to}, Copy(x, id) \in DOMAIN h.vertex \/ (I = Owned(x) /\ ~ sure),
               NEW plan \in CloneType(h, id)
        PROVE  Proper(I, D, sure, plan) /\ (Copy(x, id) \in DOMAIN h.vertex => Nothing(plan))
    <2> DEFINE call == [TxCall("type.create", Copy(x, id)) EXCEPT !.body = h.vertex[id]]
    <2>1. CASE Copy(x, id) \in DOMAIN h.vertex \/ plan = Refused
      BY <1>3, <2>1, ProperPlans, NothingPlans
    <2>2. CASE Copy(x, id) \notin DOMAIN h.vertex /\ plan \in TxCreateType(h, x, call)
      <3>1. call.id = Copy(x, id)
        BY DEF TxCall
      <3>2. Copy(x, Copy(x, id)) \in I
        BY <1>3, <2>2, CallFacts, CopyOfCopy
      <3> HIDE DEF call
      <3> QED
        BY <3>1, <3>2, <1>3, <2>2, TypeCreated
    <2> QED
      BY <1>3, <2>1, <2>2
  <1> SUFFICES ASSUME NEW plan \in TxUpdateTypesLink(g, x, c) PROVE Proper(I, D, sure, plan)
    OBVIOUS
  <1> DEFINE both == Then(g, CloneType(g, c.id), CloneTo)
  <1>4. plan \in UpdateTypesLink(g, update) \/ plan \in Then(g, both, NoLink)
    BY DEF TxUpdateTypesLink
  <1>5. CASE plan \in Then(g, both, NoLink)
    <2>1. PICK p \in both : plan = p \/ plan = [Refused EXCEPT !.todo = p.todo \o @]
      <3> HIDE DEF both
      <3> QED
        BY <1>5 DEF Then
    <2>1a. p \in both
      BY <2>1
    <2>2. PICK q \in CloneType(g, c.id) :
             p = q \/ \E next \in CloneTo(ApplyAll(g, q.todo)) : p = [next EXCEPT !.todo = q.todo \o @]
      <3> HIDE DEF CloneType, CloneTo
      <3> QED
        BY <2>1a DEF Then, both
    <2> HIDE DEF CloneType
    <2>3. Proper(I, D, sure, q) /\ (Copy(x, c.id) \in DOMAIN g.vertex => Nothing(q))
      BY <1>3, <2>2
    <2>4. Copy(x, c.to) \in DOMAIN ApplyAll(g, q.todo).vertex \/ (I = Owned(x) /\ ~ sure)
      <3>1. CASE {Copy(x, c.id), Copy(x, c.to)} \subseteq DOMAIN g.vertex
        <4>1. q.todo = << >>
          BY <2>3, <3>1 DEF Nothing
        <4> QED
          BY <3>1, <4>1, NothingApplied
      <3> QED
        BY <3>1
    <2>5. \A next \in CloneTo(ApplyAll(g, q.todo)) : Proper(I, D, sure, next)
      BY <1>3, <2>4
    <2> HIDE DEF CloneTo
    <2>6. Proper(I, D, sure, p)
      BY <2>2, <2>3, <2>5, ThenFacts
    <2>7. Proper(I, D, sure, Refused)
      BY ProperPlans
    <2>8. Proper(I, D, sure, [Refused EXCEPT !.todo = p.todo \o @])
      BY <2>6, <2>7, ProperJoined
    <2> QED
      BY <2>1, <2>6, <2>8
  <1> HIDE DEF both, NoLink, update
  <1> QED
    BY <1>2, <1>4, <1>5

\* Types of objects of the main graph are in the main graph.
LEMMA TypesInPlace ==
    ASSUME NEW g, InPlace(g), NEW id \in PlainId
    PROVE  \A t \in ObjectTypes(g, id) : t \in PlainId \/ t = None
  <1> SUFFICES ASSUME NEW l \in DOMAIN g.link, l[1] = id PROVE l[3] \in PlainId
    BY DEF ObjectTypes, OutOfType, Out
  <1>1. LinkInPlace(l)
    BY DEF InPlace
  <1>2. ASSUME NEW x \in Tx PROVE ~ TxLink(x, l) /\ ~ MasterLink(x, l)
    <2>1. l[1] # <<x>> /\ l[1] \notin Copies(x) /\ l[1] # txmaster
      BY CopiesFacts
    <2>2. MasterLink(x, l) => l[1] = txmaster
      BY DEF MasterLink
    <2> QED
      BY <2>1, <2>2 DEF TxLink
  <1> QED
    BY <1>1, <1>2 DEF LinkInPlace, PlainLink

LEMMA NoneIsNoEnd ==
    ASSUME NEW g, InPlace(g), NEW a, NEW b, <<a, "__type", b>> \in DOMAIN g.link
    PROVE  a # None /\ b # None
  <1> DEFINE l == <<a, "__type", b>>
  <1>0. l[1] = a /\ l[2] = "__type" /\ l[3] = b /\ l \in DOMAIN g.link
    OBVIOUS
  <1> HIDE DEF l
  <1>1. LinkInPlace(l)
    BY <1>0 DEF InPlace
  <1>2. None \notin Seq(Name) /\ \A x \in Tx : <<x>> \in Seq(Name)
    BY NoneIsNew, NamesAreApart
  <1>3. \A x \in Tx : ~ MasterLink(x, l)
    <2>1. "tx" # "__type"
      OBVIOUS
    <2> QED
      BY <1>0, <2>1 DEF MasterLink
  <1>4. CASE PlainLink(l)
    BY <1>0, <1>2, <1>4, PlainFacts DEF PlainLink
  <1>5. ASSUME NEW x \in Tx, TxLink(x, l) PROVE a # None /\ b # None
    <2>1. \A k \in Copies(x) : k \in Seq(Name)
      BY CopiesFacts DEF Owned
    <2> QED
      BY <1>0, <1>2, <1>5, <2>1 DEF TxLink
  <1> QED
    BY <1>1, <1>3, <1>4, <1>5 DEF LinkInPlace

\* The same for objects, with their types and the link between those.
LEMMA UpdateObjectsLinkProper ==
    ASSUME NEW x \in Tx, NEW I, Room(x, I), NEW D, NEW sure \in BOOLEAN, NEW g, InPlace(g),
           NEW c \in Calls, c.to \in PlainId,
           {Copy(x, c.id), Copy(x, c.to)} \subseteq DOMAIN g.vertex \/ (I = Owned(x) /\ ~ sure),
           sure => MarksAsked(g, D)
    PROVE  \A plan \in TxUpdateObjectsLink(g, x, c) : Proper(I, D, sure, plan)
  <1> DEFINE from == Copy(x, c.id)
             to == Copy(x, c.to)
             straight == {from, to} \subseteq DOMAIN g.vertex
             call == [Call("objects.link.update", from) EXCEPT !.to = to, !.body = c.body]
             Update(h) == UpdateObjectsLink(h, call)
  <1>1. from \in I /\ to \in I /\ Original(from) = c.id /\ Original(to) = c.to
        /\ Original(c.id) = c.id /\ Original(c.to) = c.to
    BY CallFacts, RoomFacts, PlainIsOriginal
  <1>2. ASSUME NEW h, NEW plan \in Update(h) PROVE Proper(I, D, sure, plan)
    <2>1. call.at = from /\ call.to = to /\ call.body = c.body
      BY DEF Call
    <2>2. \A at : LinkMark(D, at, c.body)
      BY CallFacts, NoMarkIn
    <2> HIDE DEF call, from, to
    <2> QED
      BY <1>1, <1>2, <2>1, <2>2, ObjectsLinkUpdated
  <1>3. ASSUME NEW h, NEW id \in {c.id, c.to}, Copy(x, id) \in DOMAIN h.vertex \/ (I = Owned(x) /\ ~ sure),
               NEW type \in PlainId, NEW plan \in CloneObject(h, x, id, type)
        PROVE  Proper(I, D, sure, plan) /\ (Copy(x, id) \in DOMAIN h.vertex => Nothing(plan))
    <2> DEFINE create == [TxCall("object.create", Copy(x, id)) EXCEPT !.body = h.vertex[id], !.type = type]
    <2>1. CASE Copy(x, id) \in DOMAIN h.vertex \/ plan = Refused
      BY <1>3, <2>1, ProperPlans, NothingPlans DEF CloneObject
    <2>2. CASE Copy(x, id) \notin DOMAIN h.vertex /\ plan \in TxCreateObject(h, x, create)
      <3>1. create.id = Copy(x, id) /\ create.type = type
        BY DEF TxCall
      <3>2. Copy(x, Copy(x, id)) \in I /\ Copy(x, type) \in I
        BY <1>3, <2>2, CallFacts, CopyOfCopy
      <3> HIDE DEF create
      <3> QED
        BY <3>1, <3>2, <1>3, <2>2, ObjectCreated
    <2> QED
      BY <1>3, <2>1, <2>2 DEF CloneObject
  <1>4. ASSUME NEW h, h = g \/ ~ sure, NEW lt, NEW plan \in CloneObjectsLink(h, x, c, lt) PROVE Proper(I, D, sure, plan)
    <2> DEFINE l == <<c.id, lt, c.to>>
    <2>1. CASE plan = Refused
      BY <2>1, ProperPlans
    <2>2. CASE l \in DOMAIN h.link /\ plan = Ok(<<LCreate(<<from, lt, to>>, h.link[l])>>)
      <3>1. sure => LinkMark(D, <<from, lt, to>>, h.link[l])
        <4>1. OriginalLink(<<from, lt, to>>) = OriginalLink(l)
          BY <1>1 DEF OriginalLink
        <4>2. sure => LinkMark(D, l, h.link[l])
          BY <1>4, <2>2 DEF MarksAsked
        <4> QED
          BY <4>1, <4>2 DEF LinkMark
      <3> HIDE DEF from, to, l
      <3>2. Good(I, D, sure, LCreate(<<from, lt, to>>, h.link[l]))
        BY <1>1, <3>1, GoodLink
      <3> QED
        BY <2>2, <3>2, ProperPlans
    <2> QED
      BY <1>4, <2>1, <2>2 DEF CloneObjectsLink
  <1> SUFFICES ASSUME NEW a \in ObjectTypes(g, c.id), NEW b \in ObjectTypes(g, c.to), NEW plan \in UpdateLinkOfTypes(g, x, c, a, b)
               PROVE  Proper(I, D, sure, plan)
    BY DEF TxUpdateObjectsLink
  <1> DEFINE lt == g.link[<<a, "__type", b>>].val
             CloneTo(h) == CloneObject(h, x, c.to, b)
             CloneIt(h) == CloneObjectsLink(h, x, c, lt)
             both == Then(g, CloneObject(g, x, c.id, a), CloneTo)
             three == Then(g, both, CloneIt)
  <1>5. \/ plan = Refused
        \/ plan \in Update(g)
        \/ <<a, "__type", b>> \in DOMAIN g.link /\ plan \in Then(g, three, Update)
    BY DEF UpdateLinkOfTypes
  <1>6. CASE <<a, "__type", b>> \in DOMAIN g.link /\ plan \in Then(g, three, Update)
    <2>0. a \in PlainId /\ b \in PlainId
      BY <1>6, TypesInPlace, NoneIsNoEnd, CallFacts
    <2> HIDE DEF Update
    <2>1. PICK p \in three : plan = p \/ \E next \in Update(ApplyAll(g, p.todo)) : plan = [next EXCEPT !.todo = p.todo \o @]
      <3> HIDE DEF three
      <3> QED
        BY <1>6 DEF Then
    <2>1a. p \in three
      BY <2>1
    <2>2. PICK q \in both : p = q \/ \E next \in CloneIt(ApplyAll(g, q.todo)) : p = [next EXCEPT !.todo = q.todo \o @]
      <3> HIDE DEF both, CloneIt
      <3> QED
        BY <2>1a DEF Then, three
    <2>2a. q \in both
      BY <2>2
    <2>3. PICK r \in CloneObject(g, x, c.id, a) :
             q = r \/ \E next \in CloneTo(ApplyAll(g, r.todo)) : q = [next EXCEPT !.todo = r.todo \o @]
      <3> DEFINE first == CloneObject(g, x, c.id, a)
                 Step(r) == IF r.answer = "failed" THEN {r}
                            ELSE {[next EXCEPT !.todo = r.todo \o @] : next \in CloneTo(ApplyAll(g, r.todo))}
      <3> HIDE DEF CloneTo
      <3>1. both = UNION {Step(r) : r \in first}
        BY Zenon DEF Then, both
      <3> HIDE DEF first, Step
      <3>2. PICK r \in first : q \in Step(r)
        BY <2>2a, <3>1
      <3>3. q = r \/ \E next \in CloneTo(ApplyAll(g, r.todo)) : q = [next EXCEPT !.todo = r.todo \o @]
        BY <3>2 DEF Step
      <3> QED
        BY <3>2, <3>3 DEF first
    <2>4. Proper(I, D, sure, r) /\ (Copy(x, c.id) \in DOMAIN g.vertex => Nothing(r))
      BY <1>3, <2>0, <2>3
    <2>5. straight => ApplyAll(g, r.todo) = g
      BY <2>4, NothingApplied DEF Nothing
    <2>6. Copy(x, c.to) \in DOMAIN ApplyAll(g, r.todo).vertex \/ (I = Owned(x) /\ ~ sure)
      BY <2>5
    <2>7. \A next \in CloneTo(ApplyAll(g, r.todo)) : Proper(I, D, sure, next) /\ (straight => Nothing(next))
      BY <1>3, <2>0, <2>5, <2>6
    <2> HIDE DEF CloneTo
    <2>8. Proper(I, D, sure, q)
      BY <2>3, <2>4, <2>7, ThenFacts
    <2>9. straight => Nothing(q)
      <3>1. CASE q = r
        BY <3>1, <2>4
      <3>2. ASSUME NEW next \in CloneTo(ApplyAll(g, r.todo)), q = [next EXCEPT !.todo = r.todo \o @], straight
            PROVE  Nothing(q)
        <4>1. Nothing(r) /\ Nothing(next)
          BY <2>4, <2>7, <3>2
        <4> QED
          BY <4>1, <3>2, NothingJoined
      <3> QED
        BY <2>3, <3>1, <3>2
    <2>10. ApplyAll(g, q.todo) = g \/ ~ sure
      <3>1. straight \/ ~ sure
        OBVIOUS
      <3> QED
        BY <3>1, <2>9, NothingApplied DEF Nothing
    <2>11. \A next \in CloneIt(ApplyAll(g, q.todo)) : Proper(I, D, sure, next)
      BY <1>4, <2>10
    <2> HIDE DEF CloneIt
    <2>12. Proper(I, D, sure, p)
      BY <2>2, <2>8, <2>11, ThenFacts
    <2>13. \A next \in Update(ApplyAll(g, p.todo)) : Proper(I, D, sure, next)
      BY <1>2
    <2> QED
      BY <2>1, <2>12, <2>13, ThenFacts
  <1>7. CASE plan = Refused
    BY <1>7, ProperPlans
  <1> HIDE DEF Update, three
  <1> QED
    BY <1>2, <1>5, <1>6, <1>7

\* A mark, and that it is asked for.
LEMMA MarkFacts ==
    ASSUME NEW fn, NEW at
    PROVE  /\ Mark(fn, at).fn = fn /\ Mark(fn, at).at = at /\ Mark(fn, at).body = DeletedMeta
           /\ Mark(fn, at).mode = "merge" /\ Mark(fn, at).lt = None
           /\ \A to : LET call == [Mark(fn, at) EXCEPT !.to = to]
                      IN  /\ call.fn = fn /\ call.at = at /\ call.body = DeletedMeta
                          /\ call.lt = None /\ call.to = to
  BY DEF Mark, Call

LEMMA Deleted ==
    /\ DeletedMeta.gone = TRUE /\ DeletedMeta.val = None
    /\ \A D, at : Original(at) \in D.vertex => VertexMark(D, at, DeletedMeta)
    /\ \A D, at : OriginalLink(at) \in D.link => LinkMark(D, at, DeletedMeta)
  BY DEF DeletedMeta, VertexMark, LinkMark

LEMMA DeleteObjectProper ==
    ASSUME NEW x \in Tx, NEW I, Room(x, I), NEW D, NEW sure, NEW g, NEW c \in Calls,
           sure => c.id \in D.vertex
    PROVE  \A plan \in TxDeleteObject(g, x, c) : Proper(I, D, sure, plan)
  <1> DEFINE copy == Copy(x, c.id)
             call == Mark("object.update", copy)
  <1>1. copy \in I /\ Original(copy) = c.id
    BY CallFacts, RoomFacts
  <1>2. call.at = copy /\ call.body = DeletedMeta
    BY MarkFacts
  <1>3. sure => VertexMark(D, copy, DeletedMeta)
    BY <1>1, Deleted
  <1>4. TxDeleteObject(g, x, c) = UpdateObject(g, call)
    BY DEF TxDeleteObject
  <1> HIDE DEF call, copy
  <1> QED
    BY <1>1, <1>2, <1>3, <1>4, VertexUpdated

LEMMA DeleteObjectsLinkProper ==
    ASSUME NEW x \in Tx, NEW I, Room(x, I), NEW D, NEW sure, NEW g, NEW c \in Calls, c.to \in PlainId,
           sure => {<<c.id, lt, c.to>> : lt \in LinkTypeOf(g, Copy(x, c.id), Copy(x, c.to))} \subseteq D.link
    PROVE  \A plan \in TxDeleteObjectsLink(g, x, c) : Proper(I, D, sure, plan)
  <1> DEFINE from == Copy(x, c.id)
             to == Copy(x, c.to)
             call == [Mark("objects.link.update", from) EXCEPT !.to = to]
  <1>1. from \in I /\ Original(from) = c.id /\ to \in I /\ Original(to) = c.to
    BY CallFacts, RoomFacts
  <1>2. call.at = from /\ call.body = DeletedMeta /\ call.to = to
    BY MarkFacts
  <1>3. ASSUME sure, NEW lt \in LinkTypeOf(g, from, to) PROVE LinkMark(D, <<from, lt, to>>, DeletedMeta)
    <2>1. OriginalLink(<<from, lt, to>>) = <<c.id, lt, c.to>>
      BY <1>1 DEF OriginalLink
    <2>2. <<c.id, lt, c.to>> \in D.link
      BY <1>3
    <2> QED
      BY <2>1, <2>2, Deleted
  <1>4. TxDeleteObjectsLink(g, x, c) = UpdateObjectsLink(g, call)
    BY DEF TxDeleteObjectsLink
  <1> HIDE DEF call, from, to
  <1> QED
    BY <1>1, <1>2, <1>3, <1>4, ObjectsLinkUpdated

\* The objects of a type of a transaction are its own.
LEMMA ObjectsInPlace ==
    ASSUME NEW x \in Tx, NEW g, InPlace(g), NEW v \in Copies(x)
    PROVE  \A l \in DOMAIN g.link : l[1] = v => IsLink(l) /\ l[3] \in Copies(x)
  <1> SUFFICES ASSUME NEW l \in DOMAIN g.link, l[1] = v PROVE IsLink(l) /\ l[3] \in Copies(x)
    OBVIOUS
  <1>1. LinkInPlace(l)
    BY DEF InPlace
  <1>2. v \notin PlainId /\ v # txmaster /\ Head(v) = x
    BY CopiesFacts
  <1>3. ASSUME NEW y \in Tx, TxLink(y, l) PROVE l[3] \in Copies(x)
    <2>1. v # <<y>>
      <3>1. v \in Owned(x)
        BY CopiesFacts
      <3>2. Len(<<y>>) = 1 /\ ~ (1 > 1)
        OBVIOUS
      <3> QED
        BY <3>1, <3>2 DEF Owned
    <2>2. v \in Copies(y)
      BY <1>3, <2>1 DEF TxLink
    <2>3. y = x
      BY <1>2, <2>2, CopiesFacts
    <2> QED
      BY <1>3, <2>3 DEF TxLink
  <1>4. ~ PlainLink(l)
    BY <1>2 DEF PlainLink
  <1>5. ASSUME NEW y \in Tx PROVE ~ MasterLink(y, l)
    <2>1. MasterLink(y, l) => l[1] = txmaster
      BY DEF MasterLink
    <2> QED
      BY <1>2, <2>1
  <1> QED
    BY <1>1, <1>3, <1>4, <1>5 DEF LinkInPlace

LEMMA TypeObjectsFacts ==
    ASSUME NEW x \in Tx, NEW g, InPlace(g), NEW v \in Copies(x)
    PROVE  TypeObjects(g, v) \subseteq Copies(x) /\ IsFiniteSet(TypeObjects(g, v))
  <1> DEFINE found == {k \in Out(g, v) : k[2] = "__object"}
             f == [l \in found |-> l[3]]
  <1>1. found \subseteq DOMAIN g.link /\ \A l \in found : l[1] = v
    BY DEF Out
  <1>2. IsFiniteSet(found)
    BY <1>1, FS_Subset DEF InPlace
  <1>3. TypeObjects(g, v) = {l[3] : l \in found}
    BY DEF TypeObjects, OutOfType
  <1> HIDE DEF found
  <1>4. {f[l] : l \in found} = {l[3] : l \in found}
    OBVIOUS
  <1>5. DOMAIN f = found
    OBVIOUS
  <1> HIDE DEF f
  <1>6. IsFiniteSet({f[l] : l \in found})
    BY <1>2, <1>5, ImageIsFinite
  <1> QED
    BY <1>1, <1>3, <1>4, <1>6, ObjectsInPlace

\* A type is marked with its objects.
LEMMA DeleteTypeProper ==
    ASSUME NEW x \in Tx, NEW I, Room(x, I), NEW D, NEW sure, NEW g, InPlace(g), NEW c \in Calls,
           sure => {Normal(x, v) : v \in {Copy(x, c.id)} \cup TypeObjects(g, Copy(x, c.id))} \subseteq D.vertex
    PROVE  \A plan \in TxDeleteType(g, x, c) : Proper(I, D, sure, plan)
  <1> DEFINE copy == Copy(x, c.id)
             found == TypeObjects(g, copy)
             marks == {Mark("object.update", o) : o \in found}
             MarkType(h) == UpdateType(h, Mark("type.update", copy))
             R == {VUpdate(o, DeletedMeta, "merge") : o \in found}
  <1>1. copy \in Copies(x) /\ Copies(x) \subseteq I
    BY CallFacts, CopiesFacts DEF Room
  <1>2. found \subseteq Copies(x) /\ IsFiniteSet(found)
    BY <1>1, TypeObjectsFacts
  <1>3. ASSUME NEW o \in {copy} \cup found PROVE sure => VertexMark(D, o, DeletedMeta)
    <2>1. o \in Copies(x)
      BY <1>1, <1>2
    <2>2. Normal(x, o) = Tail(o) /\ o \in Owned(x) /\ Head(o) = x
      BY <2>1, CopiesFacts
    <2>3. Original(o) = Normal(x, o)
      BY <2>2 DEF Original, Owned
    <2>4. sure => Normal(x, o) \in D.vertex
      BY <1>3
    <2> QED
      BY <2>3, <2>4, Deleted
  <1> HIDE DEF copy, found
  <1>4. IsFiniteSet(marks)
    <2> DEFINE f == [o \in found |-> Mark("object.update", o)]
    <2>1. DOMAIN f = found /\ {f[o] : o \in found} = marks
      OBVIOUS
    <2> HIDE DEF f
    <2> QED
      BY <1>2, <2>1, ImageIsFinite
  <1>5. ASSUME NEW h, NEW call \in marks, NEW plan \in Plans(h, call) PROVE PlanOf(R, plan)
    <2>1. PICK o \in found : call = Mark("object.update", o)
      BY <1>5
    <2>2. call.fn = "object.update" /\ call.at = o /\ call.body = DeletedMeta /\ call.mode = "merge"
      BY <2>1, MarkFacts
    <2>3. Plans(h, call) = UpdateObject(h, call)
      BY <2>2 DEF Plans
    <2>4. plan = Ok(<<VUpdate(o, DeletedMeta, "merge")>>)
      BY <1>5, <2>2, <2>3 DEF UpdateObject
    <2> QED
      BY <2>4, PlanFacts
  <1> HIDE DEF marks
  <1>6. \A plan \in ForEach(g, marks) : PlanOf(R, plan)
    <2> HIDE DEF R
    <2>1. \A rs \in Seq(R) : \A call \in marks : \A plan \in Plans(ApplyAll(g, rs), call) : PlanOf(R, plan)
      BY <1>5
    <2> QED
      BY <1>4, <2>1, ForEachPlans
  <1>7. \A r \in R : Good(I, D, sure, r)
    <2> SUFFICES ASSUME NEW o \in found PROVE Good(I, D, sure, VUpdate(o, DeletedMeta, "merge"))
      OBVIOUS
    <2>1. o \in I
      BY <1>1, <1>2
    <2> QED
      BY <2>1, <1>3, GoodVertex
  <1> HIDE DEF R
  <1>8. \A p \in ForEach(g, marks) : Proper(I, D, sure, p)
    BY <1>6, <1>7 DEF Proper
  <1>9. ASSUME NEW h, NEW plan \in MarkType(h) PROVE Proper(I, D, sure, plan)
    <2> DEFINE call == Mark("type.update", copy)
    <2>1. call.at = copy /\ call.body = DeletedMeta
      BY MarkFacts
    <2>2. copy \in I /\ (sure => VertexMark(D, copy, DeletedMeta))
      BY <1>1, <1>3
    <2> HIDE DEF call
    <2>3. plan \in UpdateType(h, call)
      BY <1>9 DEF call
    <2> QED
      BY <2>1, <2>2, <2>3, VertexUpdated
  <1> SUFFICES ASSUME NEW plan \in TxDeleteType(g, x, c) PROVE Proper(I, D, sure, plan)
    OBVIOUS
  <1>10. plan \in Then(g, ForEach(g, marks), MarkType)
    BY DEF TxDeleteType, marks, found, copy
  <1> HIDE DEF MarkType
  <1>11. PICK p \in ForEach(g, marks) :
           plan = p \/ \E next \in MarkType(ApplyAll(g, p.todo)) : plan = [next EXCEPT !.todo = p.todo \o @]
    BY <1>10 DEF Then
  <1>12. \A next \in MarkType(ApplyAll(g, p.todo)) : Proper(I, D, sure, next)
    BY <1>9
  <1> QED
    BY <1>8, <1>11, <1>12, ThenFacts

\* Marks on links: links and values of links stay, and what is new has no value.
LEMMA MarkedLinksStay ==
    ASSUME NEW g, IsGraph(g), NEW R, \A r \in R : \E l : r = LUpdate(l, DeletedMeta), NEW rs \in Seq(R),
           NEW h, h = ApplyAll(g, rs)
    PROVE  /\ DOMAIN g.link \subseteq DOMAIN h.link
           /\ DOMAIN h.link \subseteq DOMAIN g.link \cup {r.at : r \in R}
           /\ \A l \in DOMAIN g.link : h.link[l].val = g.link[l].val
           /\ \A l \in DOMAIN h.link \ DOMAIN g.link : h.link[l].val = None
  <1> DEFINE n == Len(rs)
             Same(k) == /\ IsGraph(k)
                        /\ DOMAIN g.link \subseteq DOMAIN k.link
                        /\ DOMAIN k.link \subseteq DOMAIN g.link \cup {r.at : r \in R}
                        /\ \A l \in DOMAIN g.link : k.link[l].val = g.link[l].val
                        /\ \A l \in DOMAIN k.link \ DOMAIN g.link : k.link[l].val = None
  <1>1. n \in Nat /\ \A i \in 1 .. n : rs[i] \in R
    BY LenProperties, ElementOfSeq
  <1>2. PICK f : /\ f[0] = g /\ ApplyAll(g, rs) = f[n]
                 /\ \A i \in 0 .. n : i < n => f[i + 1] = Apply(f[i], rs[i + 1])
    BY <1>1, ApplyAllGoesOn
  <1> HIDE DEF n
  <1>3. ASSUME NEW k, Same(k), NEW r \in R PROVE Same(Apply(k, r))
    <2>1. PICK l : r = LUpdate(l, DeletedMeta)
      OBVIOUS
    <2>2. r.op = "linkUpdate" /\ r.at = l /\ r.body = DeletedMeta
      BY <2>1 DEF LUpdate
    <2> DEFINE m == Apply(k, r)
    <2>3. m = UpdateLink(k, l, DeletedMeta)
      BY <2>2 DEF Apply
    <2> HIDE DEF m
    <2>4. /\ IsGraph(m)
          /\ DOMAIN m.link = DOMAIN k.link \cup {l}
          /\ m.link[l] = IF l \in DOMAIN k.link THEN Merged(k.link[l], DeletedMeta) ELSE DeletedMeta
          /\ \A j \in DOMAIN k.link \ {l} : m.link[j] = k.link[j]
      BY <1>3, <2>3, UpdateLinkEffect
    <2>5. m.link[l].val = IF l \in DOMAIN k.link THEN k.link[l].val ELSE None
      <3>1. \A b : Merged(b, DeletedMeta).val = b.val
        BY Deleted DEF Merged
      <3> QED
        BY <2>4, <3>1, Deleted
    <2>6. l \in {q.at : q \in R}
      BY <2>2
    <2>7. Same(m)
      <3>1. /\ DOMAIN g.link \subseteq DOMAIN m.link
            /\ DOMAIN m.link \subseteq DOMAIN g.link \cup {q.at : q \in R}
        BY <1>3, <2>4, <2>6
      <3>2. \A j \in DOMAIN g.link : m.link[j].val = g.link[j].val
        BY <1>3, <2>4, <2>5
      <3>3. \A j \in DOMAIN m.link \ DOMAIN g.link : m.link[j].val = None
        BY <1>3, <2>4, <2>5
      <3> QED
        BY <2>4, <3>1, <3>2, <3>3
    <2> QED
      BY <2>7 DEF m
  <1> DEFINE G == {i \in 0 .. n : Same(f[i])}
  <1>4. Same(g)
    OBVIOUS
  <1> HIDE DEF Same
  <1>5. 0 \in G
    BY <1>1, <1>2, <1>4
  <1>6. ASSUME NEW i \in 0 .. n, i \in G, i < n PROVE i + 1 \in G
    <2>1. i + 1 \in 1 .. n /\ i + 1 \in 0 .. n
      BY <1>6, <1>1
    <2>2. f[i + 1] = Apply(f[i], rs[i + 1]) /\ rs[i + 1] \in R
      BY <1>1, <1>2, <1>6, <2>1
    <2>3. Same(f[i])
      BY <1>6
    <2>4. Same(f[i + 1])
      BY <1>3, <2>2, <2>3
    <2> QED
      BY <2>1, <2>4
  <1> HIDE DEF G
  <1>7. n \in 0 .. n /\ \A i \in 0 .. n : i \in G
    BY <1>1, <1>5, <1>6, Upwards
  <1>8. Same(h)
    BY <1>2, <1>7 DEF G
  <1> QED
    BY <1>8 DEF Same

LEMMA LinkTypesStay ==
    ASSUME NEW g, NEW h, DOMAIN h.link = DOMAIN g.link, \A l \in DOMAIN g.link : h.link[l].val = g.link[l].val
    PROVE  \A a, b : LinkTypeOf(h, a, b) = LinkTypeOf(g, a, b)
  <1> SUFFICES ASSUME NEW a, NEW b PROVE LinkTypeOf(h, a, b) = LinkTypeOf(g, a, b)
    OBVIOUS
  <1> DEFINE Val(k, l) == IF l \in DOMAIN k.link THEN k.link[l].val ELSE None
  <1>1. \A l : Val(h, l) = Val(g, l)
    OBVIOUS
  <1>2. \A v : ObjectTypes(h, v) = ObjectTypes(g, v)
    <2> SUFFICES ASSUME NEW v PROVE ObjectTypes(h, v) = ObjectTypes(g, v)
      OBVIOUS
    <2>1. Out(h, v) = Out(g, v)
      BY DEF Out
    <2>2. OutOfType(h, v, "__type") = OutOfType(g, v, "__type")
      BY <2>1 DEF OutOfType
    <2> QED
      BY <2>2 DEF ObjectTypes
  <1>3. ASSUME NEW lt PROVE lt \in LinkTypeOf(h, a, b) <=> lt \in LinkTypeOf(g, a, b)
    <2>1. lt \in LinkTypeOf(h, a, b) <=>
            \E p \in ObjectTypes(h, a), q \in ObjectTypes(h, b) : lt = Val(h, <<p, "__type", q>>)
      BY DEF LinkTypeOf
    <2>2. lt \in LinkTypeOf(g, a, b) <=>
            \E p \in ObjectTypes(g, a), q \in ObjectTypes(g, b) : lt = Val(g, <<p, "__type", q>>)
      BY DEF LinkTypeOf
    <2> HIDE DEF Val
    <2> QED
      BY <1>1, <1>2, <2>1, <2>2
  <1> QED
    BY <1>3

LEMMA LinkTypeIsValue ==
    ASSUME NEW g, NEW from, NEW to, NEW lt \in LinkTypeOf(g, from, to)
    PROVE  lt = None \/ \E l \in DOMAIN g.link : lt = g.link[l].val
  <1> DEFINE Val(l) == IF l \in DOMAIN g.link THEN g.link[l].val ELSE None
  <1>0. lt \in {Val(<<a, "__type", b>>) : a \in ObjectTypes(g, from), b \in ObjectTypes(g, to)}
    BY DEF LinkTypeOf
  <1> HIDE DEF Val
  <1>1. PICK p \in ObjectTypes(g, from), q \in ObjectTypes(g, to) : lt = Val(<<p, "__type", q>>)
    BY <1>0
  <1>2. PICK l : lt = Val(l)
    BY <1>1
  <1> QED
    BY <1>2 DEF Val

\* The marks of the links between the objects.
LEMMA MarkedJoins ==
    ASSUME NEW x \in Tx, NEW g, InPlace(g), NEW found \in SUBSET DOMAIN g.link,
           NEW R, \A r \in R : \E l : r = LUpdate(l, DeletedMeta),
           \A rs \in Seq(R) : \A l \in found : \A lt \in LinkTypeOf(ApplyAll(g, rs), l[1], l[3]) :
               lt # None => LUpdate(<<l[1], lt, l[3]>>, DeletedMeta) \in R
    PROVE  \A plan \in ForEach(g, {[Mark("objects.link.update", l[1]) EXCEPT !.to = l[3]] : l \in found}) :
              PlanOf(R, plan)
  <1> DEFINE call(l) == [Mark("objects.link.update", l[1]) EXCEPT !.to = l[3]]
             marks == {call(l) : l \in found}
  <1>1. IsFiniteSet(marks)
    <2> DEFINE f == [l \in found |-> call(l)]
    <2>1. DOMAIN f = found /\ {f[l] : l \in found} = marks
      OBVIOUS
    <2>2. IsFiniteSet(found)
      BY FS_Subset DEF InPlace
    <2> HIDE DEF f
    <2> QED
      BY <2>1, <2>2, ImageIsFinite
  <1>2. ASSUME NEW rs \in Seq(R), NEW l \in found, NEW plan \in Plans(ApplyAll(g, rs), call(l))
        PROVE  PlanOf(R, plan)
    <2> DEFINE k == call(l)
               h == ApplyAll(g, rs)
    <2>1. k.fn = "objects.link.update" /\ k.at = l[1] /\ k.to = l[3] /\ k.body = DeletedMeta
      BY MarkFacts
    <2>1a. plan \in Plans(h, k) /\ \A lt \in LinkTypeOf(h, l[1], l[3]) :
                                     lt # None => LUpdate(<<l[1], lt, l[3]>>, DeletedMeta) \in R
      BY <1>2
    <2> HIDE DEF k, h
    <2>2. Plans(h, k) = UpdateObjectsLink(h, k)
      BY <2>1 DEF Plans
    <2>3. plan = Refused \/ \E lt \in LinkTypeOf(h, l[1], l[3]) :
             lt # None /\ plan = Ok(<<LUpdate(<<l[1], lt, l[3]>>, DeletedMeta)>>)
      BY <2>1, <2>1a, <2>2 DEF UpdateObjectsLink, WithLinkType
    <2> QED
      BY <2>1a, <2>3, PlanFacts
  <1>3. \A rs \in Seq(R) : \A k \in marks : \A plan \in Plans(ApplyAll(g, rs), k) : PlanOf(R, plan)
    BY <1>2
  <1>4. \A plan \in ForEach(g, marks) : PlanOf(R, plan)
    <2> HIDE DEF marks
    <2> QED
      BY <1>1, <1>3, ForEachPlans
  <1> QED
    BY <1>4

\* A link between types is marked with those between objects that go with it.
LEMMA DeleteTypesLinkProper ==
    ASSUME NEW x \in Tx, NEW I, Room(x, I), NEW D, NEW sure \in BOOLEAN, NEW g, InPlace(g),
           NEW c \in Calls, c.to \in PlainId,
           sure => \A l \in Joins(g, x, c) : LinkTypeOf(g, l[1], l[3]) = {l[2]},
           sure => {<<c.id, "__type", c.to>>}
                     \cup {<<Normal(x, l[1]), l[2], Normal(x, l[3])>> : l \in Joins(g, x, c)} \subseteq D.link
    PROVE  \A plan \in TxDeleteTypesLink(g, x, c) : Proper(I, D, sure, plan)
  <1> DEFINE from == Copy(x, c.id)
             to == Copy(x, c.to)
             link == <<from, "__type", to>>
             found == {l \in DOMAIN g.link : l[1] \in TypeObjects(g, from) /\ l[2] = g.link[link].val}
             marks == {[Mark("objects.link.update", l[1]) EXCEPT !.to = l[3]] : l \in found}
             MarkTypesLink(h) == UpdateTypesLink(h, [Mark("types.link.update", from) EXCEPT !.to = to])
             T == {g.link[l].val : l \in DOMAIN g.link} \cup {None}
             R == IF sure THEN {LUpdate(l, DeletedMeta) : l \in found}
                  ELSE {LUpdate(<<l[1], lt, l[3]>>, DeletedMeta) : l \in found, lt \in T}
  <1>1. from \in Copies(x) /\ from \in I /\ Original(from) = c.id /\ to \in I /\ Original(to) = c.to /\ Copies(x) \subseteq I
    BY CallFacts, RoomFacts, CopiesFacts DEF Room
  <1>2. link \in DOMAIN g.link => found = Joins(g, x, c)
    BY DEF Joins
  <1>3. ASSUME NEW l \in found
        PROVE  l \in DOMAIN g.link /\ l[1] \in Copies(x) /\ l[3] \in Copies(x) /\ IsLink(l)
    BY <1>1, TypeObjectsFacts, ObjectsInPlace
  <1> HIDE DEF from, to
  <1>4. ASSUME link \in DOMAIN g.link PROVE \A r \in R : Good(I, D, sure, r)
    <2>1. ASSUME NEW l \in found, sure PROVE LinkMark(D, l, DeletedMeta)
      <3>1. l[1] \in Copies(x) /\ l[3] \in Copies(x)
        BY <1>3
      <3>2. \A k \in Copies(x) : Original(k) = Normal(x, k)
        <4>1. \A k \in Copies(x) : k \in Owned(x) /\ Head(k) = x /\ Normal(x, k) = Tail(k)
          BY CopiesFacts
        <4> QED
          BY <4>1 DEF Original, Owned
      <3>3. OriginalLink(l) = <<Normal(x, l[1]), l[2], Normal(x, l[3])>>
        BY <3>1, <3>2 DEF OriginalLink
      <3>4. OriginalLink(l) \in D.link
        BY <1>2, <1>4, <2>1, <3>3
      <3> QED
        BY <3>4, Deleted
    <2>2. ASSUME sure, NEW l \in found PROVE Good(I, D, sure, LUpdate(l, DeletedMeta))
      <3>1. l = <<l[1], l[2], l[3]>> /\ l[1] \in I /\ l[3] \in I
        BY <1>1, <1>3 DEF IsLink
      <3>2. LinkMark(D, <<l[1], l[2], l[3]>>, DeletedMeta)
        BY <2>1, <2>2, <3>1
      <3>3. Good(I, D, sure, LUpdate(<<l[1], l[2], l[3]>>, DeletedMeta))
        BY <3>1, <3>2, GoodLink
      <3> QED
        BY <3>1, <3>3
    <2>3. ASSUME ~ sure, NEW l \in found, NEW lt \in T PROVE Good(I, D, sure, LUpdate(<<l[1], lt, l[3]>>, DeletedMeta))
      <3>1. l[1] \in I /\ l[3] \in I
        BY <1>1, <1>3
      <3> QED
        BY <2>3, <3>1, GoodLink
    <2> HIDE DEF found, T
    <2>4. CASE sure
      <3>1. R = {LUpdate(l, DeletedMeta) : l \in found}
        BY <2>4
      <3> HIDE DEF R
      <3> QED
        BY <2>2, <2>4, <3>1
    <2>5. CASE ~ sure
      <3>1. R = {LUpdate(<<l[1], lt, l[3]>>, DeletedMeta) : l \in found, lt \in T}
        BY <2>5
      <3> HIDE DEF R
      <3> QED
        <4> SUFFICES ASSUME NEW r \in R PROVE Good(I, D, sure, r)
          OBVIOUS
        <4>1. PICK l \in found, lt \in T : r = LUpdate(<<l[1], lt, l[3]>>, DeletedMeta)
          BY <3>1
        <4> QED
          BY <2>3, <2>5, <4>1
    <2> QED
      BY <2>4, <2>5
  <1>5. \A r \in R : \E l : r = LUpdate(l, DeletedMeta)
    <2> HIDE DEF found, T
    <2>1. CASE sure
      <3>1. R = {LUpdate(l, DeletedMeta) : l \in found}
        BY <2>1
      <3> HIDE DEF R
      <3> QED
        BY <3>1
    <2>2. CASE ~ sure
      <3>1. R = {LUpdate(<<l[1], lt, l[3]>>, DeletedMeta) : l \in found, lt \in T}
        BY <2>2
      <3> HIDE DEF R
      <3> QED
        <4> SUFFICES ASSUME NEW r \in R PROVE \E l : r = LUpdate(l, DeletedMeta)
          OBVIOUS
        <4>1. PICK l \in found, lt \in T : r = LUpdate(<<l[1], lt, l[3]>>, DeletedMeta)
          BY <3>1
        <4> QED
          BY <4>1
    <2> HIDE DEF R
    <2> QED
      BY <2>1, <2>2
  <1>6. ASSUME link \in DOMAIN g.link, NEW rs \in Seq(R), NEW l \in found,
               NEW lt \in LinkTypeOf(ApplyAll(g, rs), l[1], l[3]), lt # None
        PROVE  LUpdate(<<l[1], lt, l[3]>>, DeletedMeta) \in R
    <2> DEFINE h == ApplyAll(g, rs)
    <2> HIDE DEF h, R
    <2>1. /\ DOMAIN g.link \subseteq DOMAIN h.link
          /\ DOMAIN h.link \subseteq DOMAIN g.link \cup {r.at : r \in R}
          /\ \A k \in DOMAIN g.link : h.link[k].val = g.link[k].val
          /\ \A k \in DOMAIN h.link \ DOMAIN g.link : h.link[k].val = None
      <3>1. IsGraph(g)
        BY DEF InPlace
      <3> QED
        BY <1>5, <3>1, MarkedLinksStay DEF h
    <2>2. CASE sure
      <3>1. \A r \in R : r.at \in DOMAIN g.link
        <4>1. R = {LUpdate(k, DeletedMeta) : k \in found}
          BY <2>2 DEF R
        <4>2. \A k : LUpdate(k, DeletedMeta).at = k
          BY DEF LUpdate
        <4> QED
          BY <4>1, <4>2
      <3>2. DOMAIN h.link = DOMAIN g.link
        BY <2>1, <3>1
      <3>4. LinkTypeOf(h, l[1], l[3]) = LinkTypeOf(g, l[1], l[3])
        BY <2>1, <3>2, LinkTypesStay
      <3>5. lt = l[2]
        <4>1. LinkTypeOf(g, l[1], l[3]) = {l[2]}
          BY <1>2, <1>6, <2>2
        <4> QED
          BY <1>6, <3>4, <4>1 DEF h
      <3>6. <<l[1], lt, l[3]>> = l
        BY <1>3, <3>5 DEF IsLink
      <3> HIDE DEF found
      <3> QED
        BY <2>2, <3>6 DEF R
    <2>3. CASE ~ sure
      <3>1. lt \in T
        <4>1. lt \in LinkTypeOf(h, l[1], l[3])
          BY <1>6 DEF h
        <4>2. lt = None \/ \E k \in DOMAIN h.link : lt = h.link[k].val
          BY <4>1, LinkTypeIsValue
        <4> QED
          BY <2>1, <4>2
      <3> HIDE DEF found, T
      <3> QED
        BY <2>3, <3>1 DEF R
    <2> QED
      BY <2>2, <2>3
  <1>7. ASSUME link \in DOMAIN g.link, NEW p \in ForEach(g, marks) PROVE Proper(I, D, sure, p)
    <2>1. found \in SUBSET DOMAIN g.link
      OBVIOUS
    <2> HIDE DEF found, R
    <2>2. PlanOf(R, p)
      BY <1>5, <1>6, <1>7, <2>1, MarkedJoins
    <2> QED
      BY <1>4, <1>7, <2>2 DEF Proper
  <1>8. ASSUME NEW h, NEW plan \in MarkTypesLink(h) PROVE Proper(I, D, sure, plan)
    <2> DEFINE call == [Mark("types.link.update", from) EXCEPT !.to = to]
               new == [DeletedMeta EXCEPT !.val = None]
    <2>1. call.at = from /\ call.to = to /\ call.body = DeletedMeta /\ call.lt = None
      BY MarkFacts
    <2>2. new = DeletedMeta
      <3>1. DeletedMeta = [val |-> DeletedMeta.val, gone |-> DeletedMeta.gone] /\ DeletedMeta.val = None
        BY DEF DeletedMeta
      <3>2. new = [val |-> None, gone |-> DeletedMeta.gone]
        BY <3>1, OtherValue
      <3> QED
        BY ONLY <3>1, <3>2
    <2>3. sure => LinkMark(D, link, new)
      <3>1. OriginalLink(link) = <<c.id, "__type", c.to>>
        BY <1>1 DEF OriginalLink
      <3>2. sure => OriginalLink(link) \in D.link
        BY <3>1
      <3> QED
        BY <2>2, <3>2, Deleted
    <2>4. plan \in UpdateTypesLink(h, call)
      BY <1>8
    <2> HIDE DEF call
    <2>5. new = [call.body EXCEPT !.val = call.lt]
      BY <2>1
    <2> HIDE DEF new
    <2> QED
      BY <1>1, <2>1, <2>3, <2>4, <2>5, TypesLinkUpdated
  <1> SUFFICES ASSUME NEW plan \in TxDeleteTypesLink(g, x, c) PROVE Proper(I, D, sure, plan)
    OBVIOUS
  <1>9. plan = Refused \/ (link \in DOMAIN g.link /\ plan \in Then(g, ForEach(g, marks), MarkTypesLink))
    BY DEF TxDeleteTypesLink, from, to
  <1>10. CASE link \in DOMAIN g.link /\ plan \in Then(g, ForEach(g, marks), MarkTypesLink)
    <2> HIDE DEF MarkTypesLink, marks
    <2>1. PICK p \in ForEach(g, marks) :
             plan = p \/ \E next \in MarkTypesLink(ApplyAll(g, p.todo)) : plan = [next EXCEPT !.todo = p.todo \o @]
      BY <1>10 DEF Then
    <2>2. Proper(I, D, sure, p)
      BY <1>7, <1>10, <2>1
    <2>3. ASSUME NEW next \in MarkTypesLink(ApplyAll(g, p.todo)), plan = [next EXCEPT !.todo = p.todo \o @]
          PROVE  Proper(I, D, sure, plan)
      <3>1. Proper(I, D, sure, next)
        BY <1>8
      <3> QED
        BY <2>2, <2>3, <3>1, ProperJoined
    <2> QED
      BY <2>1, <2>2, <2>3
  <1> HIDE DEF MarkTypesLink, marks, R, found
  <1> QED
    BY <1>9, <1>10, ProperPlans

\* What a call asks the graph for is about its transaction's ids, copies unless
\* the call clones copies of copies, and what it marks is asked for; unless it
\* makes keys with dots.
AllProper(g, x, c, D, sure) ==
    \E I : /\ Room(x, I) /\ ("copies" \notin Strays(g, x, c) => I = Copies(x))
           /\ \A plan \in TxPlans(g, x, c) : Proper(I, D, sure, plan)

LEMMA PlansAreProper ==
    ASSUME NEW x \in Tx, NEW g, InPlace(g), NEW c \in Calls, NEW D, NEW sure \in BOOLEAN,
           "keys" \notin Strays(g, x, c),
           sure => /\ Strays(g, x, c) = {} /\ MarksAsked(g, D)
                   /\ Asks(g, x, c).vertex \subseteq D.vertex /\ Asks(g, x, c).link \subseteq D.link
    PROVE  AllProper(g, x, c, D, sure)
  <1> DEFINE I == IF "copies" \in Strays(g, x, c) THEN Owned(x) ELSE Copies(x)
             P(plans) == \A plan \in plans : Proper(I, D, sure, plan)
  <1>1. Room(x, I)
    BY DEF Room
  <1>2. "copies" \in Strays(g, x, c) =>
           I = Owned(x) /\ ~ sure
    OBVIOUS
  <1>3. c.fn \in {"types.link.update", "objects.link.update"} =>
           "copies" \in Strays(g, x, c) \/ {Copy(x, c.id), Copy(x, c.to)} \subseteq DOMAIN g.vertex
    BY DEF Strays
  <1> HIDE DEF I
  <1>4. c.fn \in LinkFunctions => c.to \in PlainId
    BY CallFacts
  <1>5. CASE c.fn = "type.create"
    <2>1. TxPlans(g, x, c) = TxCreateType(g, x, c)
      BY <1>5 DEF TxPlans
    <2>2. Copy(x, c.id) \in I /\ VertexMark(D, Copy(x, c.id), c.body)
      BY <1>1, CallFacts, RoomFacts, NoMarkIn
    <2>3. P(TxPlans(g, x, c))
      BY <1>1, <2>1, <2>2, TypeCreated
    <2> QED
      BY <2>3, <1>1 DEF I, AllProper
  <1>6. CASE c.fn = "type.update"
    <2>1. TxPlans(g, x, c) = TxUpdateType(g, x, c)
      BY <1>6 DEF TxPlans
    <2>3. P(TxPlans(g, x, c))
      BY <1>1, <2>1, UpdateTypeProper
    <2> QED
      BY <2>3, <1>1 DEF I, AllProper
  <1>7. CASE c.fn = "type.delete"
    <2>1. TxPlans(g, x, c) = TxDeleteType(g, x, c)
      BY <1>7 DEF TxPlans
    <2>2. Asks(g, x, c).vertex = {Normal(x, v) : v \in {Copy(x, c.id)} \cup TypeObjects(g, Copy(x, c.id))}
      BY <1>7 DEF Asks
    <2>3. P(TxPlans(g, x, c))
      BY <1>1, <2>1, <2>2, DeleteTypeProper
    <2> QED
      BY <2>3, <1>1 DEF I, AllProper
  <1>8. CASE c.fn \in {"types.link.create", "objects.link.create"}
    <2>1. TxPlans(g, x, c) = TxCreateTypesLink(g, x, c) \/ TxPlans(g, x, c) = TxCreateObjectsLink(g, x, c)
      BY <1>8 DEF TxPlans
    <2>2. c.to \in PlainId
      BY <1>4, <1>8 DEF LinkFunctions
    <2>3. P(TxPlans(g, x, c))
      BY <1>1, <2>1, <2>2, TypesLinked
    <2> QED
      BY <2>3, <1>1 DEF I, AllProper
  <1>9. CASE c.fn = "types.link.update"
    <2>1. TxPlans(g, x, c) = TxUpdateTypesLink(g, x, c)
      BY <1>9 DEF TxPlans
    <2>2. c.to \in PlainId /\ ({Copy(x, c.id), Copy(x, c.to)} \subseteq DOMAIN g.vertex \/ (I = Owned(x) /\ ~ sure))
      BY <1>2, <1>3, <1>4, <1>9 DEF LinkFunctions
    <2>3. P(TxPlans(g, x, c))
      BY <1>1, <2>1, <2>2, UpdateTypesLinkProper
    <2> QED
      BY <2>3, <1>1 DEF I, AllProper
  <1>10. CASE c.fn = "types.link.delete"
    <2>1. TxPlans(g, x, c) = TxDeleteTypesLink(g, x, c)
      BY <1>10 DEF TxPlans
    <2>2. c.to \in PlainId
      BY <1>4, <1>10 DEF LinkFunctions
    <2>3. Asks(g, x, c).link = {<<c.id, "__type", c.to>>}
                                 \cup {<<Normal(x, l[1]), l[2], Normal(x, l[3])>> : l \in Joins(g, x, c)}
      BY <1>10 DEF Asks
    <2>4. sure => \A l \in Joins(g, x, c) : LinkTypeOf(g, l[1], l[3]) = {l[2]}
      BY <1>10 DEF Strays
    <2>3a. sure => {<<c.id, "__type", c.to>>}
                     \cup {<<Normal(x, l[1]), l[2], Normal(x, l[3])>> : l \in Joins(g, x, c)} \subseteq D.link
      BY <2>3
    <2>4a. \A plan \in TxDeleteTypesLink(g, x, c) : Proper(I, D, sure, plan)
      BY <1>1, <2>2, <2>3a, <2>4, DeleteTypesLinkProper
    <2>5. P(TxPlans(g, x, c))
      BY <2>1, <2>4a
    <2> QED
      BY <2>5, <1>1 DEF I, AllProper
  <1>11. CASE c.fn = "object.create"
    <2>1. TxPlans(g, x, c) = TxCreateObject(g, x, c)
      BY <1>11 DEF TxPlans
    <2>2. Copy(x, c.id) \in I /\ VertexMark(D, Copy(x, c.id), c.body) /\ Copy(x, c.type) \in I
      BY <1>1, <1>11, CallFacts, RoomFacts, NoMarkIn
    <2>3. P(TxPlans(g, x, c))
      BY <1>1, <2>1, <2>2, ObjectCreated
    <2> QED
      BY <2>3, <1>1 DEF I, AllProper
  <1>12. CASE c.fn = "object.update"
    <2>1. TxPlans(g, x, c) = TxUpdateObject(g, x, c)
      BY <1>12 DEF TxPlans
    <2>2. <<Copy(x, objects), "__object", Copy(x, c.id)>> \in DOMAIN g.link
      BY <1>12 DEF Strays
    <2>3. P(TxPlans(g, x, c))
      BY <1>1, <2>1, <2>2, UpdateObjectProper
    <2> QED
      BY <2>3, <1>1 DEF I, AllProper
  <1>13. CASE c.fn = "object.delete"
    <2>1. TxPlans(g, x, c) = TxDeleteObject(g, x, c)
      BY <1>13 DEF TxPlans
    <2>2. Asks(g, x, c).vertex = {c.id}
      BY <1>13 DEF Asks
    <2>3. sure => c.id \in D.vertex
      BY <2>2
    <2>4. \A plan \in TxDeleteObject(g, x, c) : Proper(I, D, sure, plan)
      BY <1>1, <2>3, DeleteObjectProper
    <2> QED
      BY <2>1, <2>4, <1>1 DEF I, AllProper
  <1>14. CASE c.fn = "objects.link.update"
    <2>1. TxPlans(g, x, c) = TxUpdateObjectsLink(g, x, c)
      BY <1>14 DEF TxPlans
    <2>2. c.to \in PlainId /\ ({Copy(x, c.id), Copy(x, c.to)} \subseteq DOMAIN g.vertex \/ (I = Owned(x) /\ ~ sure))
      BY <1>2, <1>3, <1>4, <1>14 DEF LinkFunctions
    <2>3. P(TxPlans(g, x, c))
      BY <1>1, <2>1, <2>2, UpdateObjectsLinkProper
    <2> QED
      BY <2>3, <1>1 DEF I, AllProper
  <1>15. CASE c.fn = "objects.link.delete"
    <2>1. TxPlans(g, x, c) = TxDeleteObjectsLink(g, x, c)
      BY <1>15 DEF TxPlans
    <2>2. c.to \in PlainId
      BY <1>4, <1>15 DEF LinkFunctions
    <2>3. Asks(g, x, c).link = {<<c.id, lt, c.to>> : lt \in LinkTypeOf(g, Copy(x, c.id), Copy(x, c.to))}
      BY <1>15 DEF Asks
    <2>4. P(TxPlans(g, x, c))
      BY <1>1, <2>1, <2>2, <2>3, DeleteObjectsLinkProper
    <2> QED
      BY <2>4, <1>1 DEF I, AllProper
  <1>16. c.fn \in TxFunctions
    BY CallFacts
  <1> QED
    BY <1>5, <1>6, <1>7, <1>8, <1>9, <1>10, <1>11, <1>12, <1>13, <1>14, <1>15, <1>16 DEF TxFunctions, LinkFunctions

\* What a call does, however far it gets: requests about ids in I, which are
\* copies unless the call clones copies of copies.
Did(x, g, c, D, sure, h) ==
    \E I, R : \E rs \in Seq(R) :
      /\ h = ApplyAll(g, rs)
      /\ Room(x, I) /\ ("copies" \notin Strays(g, x, c) => I = Copies(x))
      /\ \A r \in R : Good(I, D, sure, r)

\* Some or all of the requests of a plan.
DoneOf(g, plan, h) ==
    \/ h = ApplyAll(g, plan.todo)
    \/ \E n \in 1 .. Len(plan.todo) : h = ApplyAll(g, SubSeq(plan.todo, 1, n - 1))

LEMMA PartOfPlan ==
    ASSUME NEW R, NEW g, NEW plan, PlanOf(R, plan), NEW h, DoneOf(g, plan, h)
    PROVE  \E rs \in Seq(R) : h = ApplyAll(g, rs)
  <1>3. plan.todo \in Seq(R)
    BY DEF PlanOf
  <1>4. ASSUME NEW n \in 1 .. Len(plan.todo) PROVE SubSeq(plan.todo, 1, n - 1) \in Seq(R)
    <2> DEFINE todo == plan.todo
    <2>1. todo \in Seq(R) /\ Len(todo) \in Nat
      BY <1>3, LenProperties
    <2>2. n \in 1 .. Len(todo)
      OBVIOUS
    <2> HIDE DEF todo
    <2>3. n - 1 \in 0 .. Len(todo) /\ 1 \in 1 .. Len(todo) + 1
      BY <2>1, <2>2
    <2>4. SubSeq(todo, 1, n - 1) \in Seq(R)
      BY <2>1, <2>2, <2>3, SubSeqProperties
    <2> QED
      BY <2>4 DEF todo
  <1> QED
    BY <1>3, <1>4 DEF DoneOf

\* So is what is done of its plan, should a request fail.
LEMMA CallIsProper ==
    ASSUME NEW x \in Tx, NEW g, InPlace(g), NEW c \in Calls, NEW D, NEW sure \in BOOLEAN,
           "keys" \notin Strays(g, x, c),
           sure => /\ Strays(g, x, c) = {} /\ MarksAsked(g, D)
                   /\ Asks(g, x, c).vertex \subseteq D.vertex /\ Asks(g, x, c).link \subseteq D.link,
           NEW plan \in TxPlans(g, x, c), NEW h, DoneOf(g, plan, h)
    PROVE  Did(x, g, c, D, sure, h)
  <1>0. AllProper(g, x, c, D, sure)
    BY PlansAreProper
  <1>1. PICK I : /\ Room(x, I) /\ ("copies" \notin Strays(g, x, c) => I = Copies(x))
                 /\ \A p \in TxPlans(g, x, c) : Proper(I, D, sure, p)
    BY <1>0 DEF AllProper
  <1>2. PICK R : PlanOf(R, plan) /\ \A r \in R : Good(I, D, sure, r)
    BY <1>1 DEF Proper
  <1>5. \E rs \in Seq(R) : h = ApplyAll(g, rs)
    BY <1>2, PartOfPlan
  <1> QED
    BY <1>1, <1>2, <1>5 DEF Did

\* What a call does that makes keys with dots stays in its part.
LEMMA KeyedCallStays ==
    ASSUME NEW x \in Tx, NEW g, InPlace(g), NEW c \in Calls, "keys" \in Strays(g, x, c),
           NEW plan \in TxPlans(g, x, c), NEW h, DoneOf(g, plan, h)
    PROVE  Alters(x, g, h)
  <1>1. c.fn = "object.update"
    BY DEF Strays
  <1>2. plan \in TxUpdateObject(g, x, c)
    BY <1>1 DEF TxPlans
  <1>3. PICK R : PlanOf(R, plan) /\ \A r \in R : Stays(x, r)
    BY <1>2, UpdateObjectStays DEF Staying
  <1>4. PICK rs \in Seq(R) : h = ApplyAll(g, rs)
    BY <1>3, PartOfPlan
  <1> QED
    BY <1>3, <1>4, InPlaceIsApart, RequestsStay

-----------------------------------------------------------------------------
(* Where everything is *)

\* A link at an id of the main graph is of the main graph.
LEMMA PlainLinksStay ==
    ASSUME NEW g, InPlace(g), NEW l \in DOMAIN g.link, l[1] \in PlainId \/ l[3] \in PlainId
    PROVE  PlainLink(l)
  <1>1. LinkInPlace(l)
    BY DEF InPlace
  <1>2. ASSUME NEW x \in Tx PROVE ~ TxLink(x, l) /\ ~ MasterLink(x, l)
    <2>1. <<x>> \notin PlainId /\ txmaster \notin PlainId /\ \A k \in Copies(x) : k \notin PlainId
      BY CopiesFacts
    <2>2. MasterLink(x, l) => l[1] = txmaster /\ l[3] = <<x>>
      BY DEF MasterLink
    <2> QED
      BY <2>1, <2>2 DEF TxLink
  <1> QED
    BY <1>1, <1>2 DEF LinkInPlace

\* A link at a copy is of its transaction.
LEMMA TxLinksStay ==
    ASSUME NEW x \in Tx, NEW g, InPlace(g), NEW l \in DOMAIN g.link,
           l[1] = <<x>> \/ l[1] \in Copies(x) \/ l[3] \in Copies(x)
    PROVE  TxLink(x, l) /\ IsLink(l)
  <1>1. LinkInPlace(l)
    BY DEF InPlace
  <1>2. /\ <<x>> \notin PlainId /\ <<x>> # txmaster
        /\ \A k \in Copies(x) : k \notin PlainId /\ k # txmaster /\ Head(k) = x /\ Len(k) > 1
    BY CopiesFacts DEF Owned
  <1>3. ~ PlainLink(l)
    BY <1>2 DEF PlainLink
  <1>4. \A y \in Tx : <<y>> \notin Copies(x)
    <2>1. \A y : Len(<<y>>) = 1 /\ ~ (1 > 1)
      OBVIOUS
    <2> QED
      BY <1>2, <2>1
  <1>5. ASSUME NEW y \in Tx PROVE ~ MasterLink(y, l)
    <2>1. MasterLink(y, l) => l[1] = txmaster /\ l[3] = <<y>>
      BY DEF MasterLink
    <2> QED
      BY <1>2, <1>4, <2>1
  <1>6. ASSUME NEW y \in Tx, TxLink(y, l) PROVE y = x
    <2>1. Head(<<y>>) = y /\ Head(<<x>>) = x /\ \A k \in Copies(y) : Head(k) = y
      BY CopiesFacts
    <2> QED
      BY <1>2, <1>6, <2>1 DEF TxLink
  <1> QED
    BY <1>1, <1>3, <1>5, <1>6 DEF LinkInPlace

\* So what the root leads to is of the main graph, and what its copy leads to of the transaction.
LEMMA StateInPlace ==
    ASSUME NEW g, InPlace(g)
    PROVE  /\ Reachable(g, root) \subseteq PlainId
           /\ State(g, root).vertex \subseteq Reachable(g, root)
           /\ \A l \in State(g, root).link : l \in DOMAIN g.link /\ PlainLink(l)
           /\ \A x \in Tx :
                /\ State(g, Copy(x, root)).vertex \subseteq Copies(x)
                /\ \A l \in State(g, Copy(x, root)).link :
                     l \in DOMAIN g.link /\ l[1] \in State(g, Copy(x, root)).vertex /\ TxLink(x, l) /\ IsLink(l) 
                     /\ l[1] \in Copies(x)
                /\ Reachable(g, <<x>>) \subseteq {<<x>>} \cup Copies(x)
  <1>0. IsFiniteSet(DOMAIN g.link)
    BY DEF InPlace
  <1>1. Reachable(g, root) \subseteq PlainId
    <2>1. Closed(g, PlainId)
      BY PlainLinksStay DEF Closed, PlainLink
    <2> QED
      BY <1>0, <2>1, NamedIds, ReachableIsLeast
  <1>2. \A v : State(g, v).vertex \subseteq Reachable(g, v)
    BY DEF State
  <1>3. \A v : \A l \in State(g, v).link : l \in DOMAIN g.link /\ l[1] \in State(g, v).vertex
    BY DEF State
  <1>4. \A l \in State(g, root).link : l \in DOMAIN g.link /\ PlainLink(l)
    BY <1>1, <1>2, <1>3, PlainLinksStay
  <1>5. ASSUME NEW x \in Tx
        PROVE  /\ State(g, Copy(x, root)).vertex \subseteq Copies(x)
               /\ \A l \in State(g, Copy(x, root)).link :
                    l \in DOMAIN g.link /\ l[1] \in State(g, Copy(x, root)).vertex /\ TxLink(x, l) /\ IsLink(l)
                    /\ l[1] \in Copies(x)
               /\ Reachable(g, <<x>>) \subseteq {<<x>>} \cup Copies(x)
    <2>1. Closed(g, Copies(x))
      BY TxLinksStay DEF Closed, TxLink
    <2>2. Closed(g, {<<x>>} \cup Copies(x))
      BY TxLinksStay DEF Closed, TxLink
    <2>3. Copy(x, root) \in Copies(x)
      BY NamedIds, CopiesFacts
    <2>4. Reachable(g, Copy(x, root)) \subseteq Copies(x)
      BY <1>0, <2>1, <2>3, ReachableIsLeast
    <2>5. Reachable(g, <<x>>) \subseteq {<<x>>} \cup Copies(x)
      BY <1>0, <2>2, ReachableIsLeast
    <2> QED
      BY <1>2, <1>3, <2>4, <2>5, TxLinksStay
  <1> QED
    BY <1>1, <1>2, <1>4, <1>5

-----------------------------------------------------------------------------
(* What is copied *)

ElementsInPlace(e) == e.vertex \subseteq PlainId /\ IsFiniteSet(e.link) /\ \A l \in e.link : PlainLink(l)
CloneInPlace(e) == e = [full |-> e.full, vertex |-> e.vertex, link |-> e.link] /\ ElementsInPlace(e)

\* Without one element it still is.
LEMMA AllButInPlace ==
    ASSUME NEW c, CloneInPlace(c), NEW e
    PROVE  CloneInPlace([full |-> c.full, vertex |-> c.vertex \ {e}, link |-> c.link \ {e}])
  <1>1. c.link \ {e} \in SUBSET c.link
    OBVIOUS
  <1>2. IsFiniteSet(c.link \ {e})
    BY <1>1, FS_Subset DEF CloneInPlace, ElementsInPlace
  <1> QED
    BY <1>2 DEF CloneInPlace, ElementsInPlace

LEMMA PlainTriple ==
    ASSUME NEW a \in PlainId, NEW t, NEW b \in PlainId
    PROVE  PlainLink(<<a, t, b>>)
  BY DEF PlainLink, IsLink

LEMMA ThreeAreFinite ==
    ASSUME NEW S, IsFiniteSet(S), NEW a, NEW b, NEW c
    PROVE  IsFiniteSet(((S \cup {a}) \cup {b}) \cup {c})
  <1>1. IsFiniteSet(S \cup {a})
    BY FS_AddElement
  <1>2. IsFiniteSet((S \cup {a}) \cup {b})
    BY <1>1, FS_AddElement
  <1> QED
    BY <1>2, FS_AddElement

\* What every graph has is of the main graph.
LEMMA BuiltInInPlace ==
    DOMAIN BuiltIn.vertex \subseteq PlainId /\ IsFiniteSet(BuiltInLinks) /\ \A l \in BuiltInLinks : PlainLink(l)
  <1>1. DOMAIN BuiltIn.vertex \subseteq PlainId
    <2>1. DOMAIN BuiltIn.vertex = {root, objects, types, group, nav}
      BY DEF BuiltIn
    <2> QED
      BY <2>1, NamedIds
  <1>2. \A l \in BuiltInLinks : PlainLink(l)
    <2> SUFFICES ASSUME NEW l \in BuiltInLinks PROVE PlainLink(l)
      OBVIOUS
    <2>1. \E a, b \in {root, objects, types, group, nav} : \E t : l = <<a, t, b>>
      BY DEF BuiltInLinks
    <2> QED
      BY <2>1, NamedIds, PlainTriple
  <1>3. IsFiniteSet(BuiltInLinks)
    <2>1. \A a, b, c, d, e, f, g : IsFiniteSet({a, b, c, d, e, f, g})
      <3> SUFFICES ASSUME NEW a, NEW b, NEW c, NEW d, NEW e, NEW f, NEW g PROVE IsFiniteSet({a, b, c, d, e, f, g})
        OBVIOUS
      <3>1. IsFiniteSet((({} \cup {a}) \cup {b}) \cup {c})
        BY FS_EmptySet, ThreeAreFinite
      <3>2. IsFiniteSet((((({} \cup {a}) \cup {b}) \cup {c}) \cup {d}) \cup {e} \cup {f})
        BY <3>1, ThreeAreFinite
      <3>3. IsFiniteSet(((((({} \cup {a}) \cup {b}) \cup {c}) \cup {d}) \cup {e} \cup {f}) \cup {g})
        BY <3>2, FS_AddElement
      <3>4. {a, b, c, d, e, f, g} = ((((({} \cup {a}) \cup {b}) \cup {c}) \cup {d}) \cup {e} \cup {f}) \cup {g}
        OBVIOUS
      <3> QED
        BY <3>3, <3>4
    <2> QED
      BY <2>1 DEF BuiltInLinks
  <1> QED
    BY <1>1, <1>2, <1>3

\* So is what Begin finds to copy, with or without a selection.
LEMMA FullCloneInPlace ==
    ASSUME NEW g, InPlace(g)
    PROVE  CloneInPlace(FullClone(g))
  <1>1. State(g, root).vertex \subseteq PlainId /\ State(g, root).link \subseteq DOMAIN g.link
        /\ \A l \in State(g, root).link : PlainLink(l)
    BY StateInPlace
  <1>2. /\ FullClone(g).vertex = State(g, root).vertex \cup DOMAIN BuiltIn.vertex
        /\ FullClone(g).link = State(g, root).link \cup BuiltInLinks
        /\ FullClone(g) = [full |-> FullClone(g).full, vertex |-> FullClone(g).vertex, link |-> FullClone(g).link]
    BY DEF FullClone
  <1>3. IsFiniteSet(State(g, root).link)
    BY <1>1, FS_Subset DEF InPlace
  <1>4. IsFiniteSet(FullClone(g).link)
    BY <1>2, <1>3, BuiltInInPlace, FS_Union
  <1> QED
    BY <1>1, <1>2, <1>4, BuiltInInPlace DEF CloneInPlace, ElementsInPlace

LEMMA SelectedInPlace ==
    ASSUME NEW g, InPlace(g), NEW selection, IsFiniteSet(DOMAIN selection), DOMAIN selection \subseteq PlainId
    PROVE  CloneInPlace(Selected(g, selection))
  <1> DEFINE ts == DOMAIN selection \cap DOMAIN g.vertex
             ObjectsOf(t) == TypeObjects(g, t) \cap selection[t]
             between == {<<a, "__type", b>> : a \in ts, b \in DOMAIN selection} \cap DOMAIN g.link
             lists == {<<types, "__type", t>> : t \in ts}
             three(t, o) == {<<t, "__object", o>>, <<o, "__type", t>>, <<objects, "__object", o>>}
             of(t) == UNION {three(t, o) : o \in ObjectsOf(t)}
             ofObjects == UNION {of(t) : t \in ts}
             joins == UNION {{<<a, g.link[l].val, b>> : a \in ObjectsOf(l[1]), b \in ObjectsOf(l[3])} :
                                 l \in {k \in between : k[3] \in ts}}
  <1>1. Selected(g, selection) =
          [full |-> FALSE,
           vertex |-> ts \cup {l[3] : l \in between} \cup UNION {ObjectsOf(t) : t \in ts},
           link |-> lists \cup between \cup ofObjects \cup (joins \cap DOMAIN g.link)]
    BY DEF Selected
  <1>2. ts \subseteq PlainId /\ IsFiniteSet(ts)
    BY FS_Intersection
  <1>3. ASSUME NEW t \in ts PROVE ObjectsOf(t) \subseteq PlainId /\ IsFiniteSet(ObjectsOf(t))
    <2>1. \A o \in TypeObjects(g, t) : \E l \in DOMAIN g.link : l[1] = t /\ l[3] = o
      BY DEF TypeObjects, OutOfType, Out
    <2>2. TypeObjects(g, t) \subseteq PlainId
      BY <1>2, <2>1, PlainLinksStay DEF PlainLink
    <2>3. IsFiniteSet(TypeObjects(g, t))
      <3> DEFINE F == {k \in Out(g, t) : k[2] = "__object"}
                 f == [l \in F |-> l[3]]
      <3>1. F \in SUBSET DOMAIN g.link
        BY DEF Out
      <3>2. IsFiniteSet(F)
        BY <3>1, FS_Subset DEF InPlace
      <3>3. TypeObjects(g, t) = {l[3] : l \in F}
        BY DEF TypeObjects, OutOfType
      <3> HIDE DEF F
      <3>4. {f[l] : l \in F} = {l[3] : l \in F} /\ DOMAIN f = F
        OBVIOUS
      <3> HIDE DEF f
      <3>5. IsFiniteSet({f[l] : l \in F})
        BY <3>2, <3>4, ImageIsFinite
      <3> QED
        BY <3>3, <3>4, <3>5
    <2> QED
      BY <2>2, <2>3, FS_Intersection
  <1>4. between \subseteq DOMAIN g.link /\ \A l \in between : PlainLink(l)
    <2>1. \A l \in between : l \in DOMAIN g.link /\ l[1] \in PlainId
      BY <1>2
    <2> QED
      BY <2>1, PlainLinksStay
  <1>5. IsFiniteSet(between)
    BY <1>4, FS_Subset DEF InPlace
  <1> HIDE DEF ts, ObjectsOf, between
  <1>6. lists \in SUBSET {l \in lists : PlainLink(l)} /\ IsFiniteSet(lists)
    <2> DEFINE f == [t \in ts |-> <<types, "__type", t>>]
    <2>1. DOMAIN f = ts /\ {f[t] : t \in ts} = lists
      OBVIOUS
    <2> HIDE DEF f
    <2>2. IsFiniteSet(lists)
      BY <1>2, <2>1, ImageIsFinite
    <2>3. \A t \in ts : PlainLink(<<types, "__type", t>>)
      BY <1>2, NamedIds, PlainTriple
    <2> QED
      BY <2>2, <2>3
  <1>7. ASSUME NEW t \in ts PROVE IsFiniteSet(of(t)) /\ \A l \in of(t) : PlainLink(l)
    <2> DEFINE f == [o \in ObjectsOf(t) |-> three(t, o)]
    <2>1. DOMAIN f = ObjectsOf(t) /\ {f[o] : o \in ObjectsOf(t)} = {three(t, o) : o \in ObjectsOf(t)}
      OBVIOUS
    <2> HIDE DEF f
    <2>2. IsFiniteSet({three(t, o) : o \in ObjectsOf(t)})
      BY <1>3, <2>1, ImageIsFinite
    <2>3. ASSUME NEW o \in ObjectsOf(t) PROVE IsFiniteSet(three(t, o)) /\ \A l \in three(t, o) : PlainLink(l)
      <3>1. \A a, b, c : IsFiniteSet({a, b, c})
        <4> SUFFICES ASSUME NEW a, NEW b, NEW c PROVE IsFiniteSet({a, b, c})
          OBVIOUS
        <4>1. {a, b, c} = (({} \cup {a}) \cup {b}) \cup {c}
          OBVIOUS
        <4>2. IsFiniteSet((({} \cup {a}) \cup {b}) \cup {c})
          BY FS_EmptySet, ThreeAreFinite
        <4> QED
          BY <4>1, <4>2
      <3>2. o \in PlainId /\ t \in PlainId
        BY <1>2, <1>3
      <3>3. PlainLink(<<t, "__object", o>>) /\ PlainLink(<<o, "__type", t>>) /\ PlainLink(<<objects, "__object", o>>)
        BY <3>2, NamedIds, PlainTriple
      <3> QED
        BY <3>1, <3>3
    <2>4. \A S \in {three(t, o) : o \in ObjectsOf(t)} : IsFiniteSet(S)
      BY <2>3
    <2>5. IsFiniteSet(of(t))
      <3> DEFINE SS == {three(t, o) : o \in ObjectsOf(t)}
      <3>1. IsFiniteSet(SS) /\ \A S \in SS : IsFiniteSet(S)
        BY <2>2, <2>4
      <3> HIDE DEF SS
      <3>2. IsFiniteSet(UNION SS)
        BY <3>1, FS_UNION
      <3> QED
        BY <3>2 DEF SS
    <2> HIDE DEF three
    <2> QED
      BY <2>3, <2>5
  <1> HIDE DEF of
  <1>8. IsFiniteSet(ofObjects) /\ \A l \in ofObjects : PlainLink(l)
    <2> DEFINE f == [t \in ts |-> of(t)]
               SS == {of(t) : t \in ts}
    <2>1. DOMAIN f = ts /\ {f[t] : t \in ts} = SS
      OBVIOUS
    <2> HIDE DEF f
    <2>2. IsFiniteSet(SS)
      BY <1>2, <2>1, ImageIsFinite
    <2>3. \A S \in SS : IsFiniteSet(S) /\ \A l \in S : PlainLink(l)
      BY <1>7
    <2> HIDE DEF SS
    <2>4. IsFiniteSet(UNION SS) /\ \A l \in UNION SS : PlainLink(l)
      BY <2>2, <2>3, FS_UNION
    <2> QED
      BY <2>4 DEF SS
  <1>9. IsFiniteSet(joins \cap DOMAIN g.link) /\ \A l \in joins \cap DOMAIN g.link : PlainLink(l)
    <2>1. IsFiniteSet(joins \cap DOMAIN g.link)
      <3> HIDE DEF joins
      <3>1. joins \cap DOMAIN g.link \in SUBSET DOMAIN g.link
        OBVIOUS
      <3> QED
        BY <3>1, FS_Subset DEF InPlace
    <2>2. ASSUME NEW l \in joins PROVE l[1] \in PlainId
      <3>1. PICK k \in between : k[3] \in ts /\ l \in {<<a, g.link[k].val, b>> : a \in ObjectsOf(k[1]), b \in ObjectsOf(k[3])}
        OBVIOUS
      <3>2. k[1] \in ts
        BY <3>1 DEF between
      <3>3. l[1] \in ObjectsOf(k[1])
        BY <3>1
      <3> QED
        BY <1>3, <3>2, <3>3
    <2> HIDE DEF joins
    <2> QED
      BY <2>1, <2>2, PlainLinksStay
  <1> HIDE DEF lists, ofObjects, joins
  <1> DEFINE links == lists \cup between \cup ofObjects \cup (joins \cap DOMAIN g.link)
             ids == ts \cup {l[3] : l \in between} \cup UNION {ObjectsOf(t) : t \in ts}
  <1>10. IsFiniteSet(links)
    BY <1>5, <1>6, <1>8, <1>9, FS_Union
  <1>11. \A l \in links : PlainLink(l)
    BY <1>4, <1>6, <1>8, <1>9
  <1>12. ids \subseteq PlainId
    BY <1>2, <1>3, <1>4 DEF PlainLink
  <1>13. Selected(g, selection) = [full |-> FALSE, vertex |-> ids, link |-> links]
    BY <1>1
  <1> HIDE DEF links, ids
  <1> QED
    BY <1>10, <1>11, <1>12, <1>13 DEF CloneInPlace, ElementsInPlace

LEMMA ClonedInPlace ==
    ASSUME NEW g, InPlace(g), NEW clone \in Clones
    PROVE  CloneInPlace(Cloned(g, clone))
  <1>1. clone # None => IsFiniteSet(DOMAIN clone) /\ DOMAIN clone \subseteq PlainId
    BY ClonesAreOfPlainIds
  <1> QED
    BY <1>1, FullCloneInPlace, SelectedInPlace DEF Cloned

-----------------------------------------------------------------------------
(* What Begin, its copying and the merge change *)

\* A change of nothing but the main graph.
AltersMain(g, h) ==
    /\ \A v \in Differ(g.vertex, h.vertex) : Head(v) \notin Tx
    /\ \A l \in Differ(g.link, h.link) : Head(l[1]) \notin Tx /\ (IsLink(l) => Head(l[3]) \notin Tx)

\* Where a change alters one part only.
LEMMA PartsFacts ==
    ASSUME NEW g, NEW h, NEW name \in PartsThatChange(g, h)
    PROVE  /\ \A x \in Tx : Alters(x, g, h) => name = x
           /\ AltersMain(g, h) => name \notin Tx
  <1>1. name # "txmaster"
        /\ \/ \E v \in Differ(g.vertex, h.vertex) : name = Head(v)
           \/ \E l \in Differ(g.link, h.link) : name = Head(l[1]) \/ (IsLink(l) /\ name = Head(l[3]))
    BY DEF PartsThatChange
  <1> QED
    BY <1>1 DEF Alters, AltersMain

\* The main graph has the elements it had.
KeepsMain(g, h) ==
    /\ \A v : InMain(v) => (v \in DOMAIN g.vertex <=> v \in DOMAIN h.vertex)
    /\ \A l : InMain(l[1]) /\ InMain(l[3]) => (l \in DOMAIN g.link <=> l \in DOMAIN h.link)

LEMMA AltersKeepsMain ==
    ASSUME NEW x \in Tx, NEW g, NEW h, Alters(x, g, h)
    PROVE  KeepsMain(g, h)
  BY DEF Alters, KeepsMain, Differ, InMain

\* Begin adds the vertex of its transaction, and the link to it.
LEMMA BeginEffect ==
    ASSUME NEW x \in Tx, NEW g, InPlace(g), NEW h,
           h = CreateLink(UpdateVertex(g, <<x>>, Body(None), "merge"), <<txmaster, "tx", <<x>>>>, Body(None))
    PROVE  InPlace(h) /\ KeepsMain(g, h) /\ \A name \in PartsThatChange(g, h) : name = x
  <1> DEFINE k == <<txmaster, "tx", <<x>>>>
             between == UpdateVertex(g, <<x>>, Body(None), "merge")
  <1>0. IsGraph(g) /\ IsFiniteSet(DOMAIN g.link)
    BY DEF InPlace
  <1>1. /\ IsGraph(between) /\ between.link = g.link
        /\ DOMAIN between.vertex = DOMAIN g.vertex \cup {<<x>>}
        /\ \A u \in DOMAIN g.vertex \ {<<x>>} : between.vertex[u] = g.vertex[u]
    BY <1>0, UpdateVertexEffect
  <1> HIDE DEF between
  <1>2. /\ IsGraph(h) /\ h.vertex = between.vertex
        /\ DOMAIN h.link = DOMAIN between.link \cup {k}
        /\ \A l \in DOMAIN between.link \ {k} : h.link[l] = between.link[l]
    BY <1>1, CreateLinkEffect DEF between
  <1>3. IsFiniteSet(DOMAIN h.link)
    <2> HIDE DEF k
    <2>1. IsFiniteSet(DOMAIN g.link \cup {k})
      BY <1>0, FS_AddElement
    <2> QED
      BY <1>1, <1>2, <2>1
  <1>4. LinkInPlace(k)
    BY DEF LinkInPlace, IsLink, MasterLink
  <1>5. InPlace(h)
    BY <1>1, <1>2, <1>3, <1>4 DEF InPlace
  <1>6. Differ(g.vertex, h.vertex) \subseteq {<<x>>} /\ Differ(g.link, h.link) \subseteq {k}
    BY <1>1, <1>2 DEF Differ
  <1>7. Head(<<x>>) = x /\ Head(k[1]) = "txmaster" /\ Head(k[3]) = x
    BY DEF txmaster
  <1>8. KeepsMain(g, h)
    <2>1. ~ InMain(<<x>>) /\ ~ InMain(k[1])
      BY CopiesFacts
    <2> HIDE DEF k
    <2> QED
      BY <1>1, <1>2, <2>1 DEF KeepsMain
  <1> HIDE DEF k
  <1> QED
    BY <1>5, <1>6, <1>7, <1>8 DEF PartsThatChange

\* Copying alters the transaction's part only, and leaves everything in place.
LEMMA PasteEffect ==
    ASSUME NEW x \in Tx, NEW g, InPlace(g), NEW e, ElementsInPlace(e), NEW source, NEW h, h = Paste(g, x, e, source)
    PROVE  InPlace(h) /\ Alters(x, g, h)
  <1> DEFINE copies == {Copy(x, v) : v \in e.vertex}
             BodyIn(f, i) == IF i \in DOMAIN f THEN f[i] ELSE Body(None)
             ToLink(l) == <<Copy(x, l[1]), l[2], Copy(x, l[3])>>
             linked == {ToLink(l) : l \in e.link}
             again == copies \cap DOMAIN g.vertex
             kept == {l \in DOMAIN g.link : IsLink(l) => {l[1], l[3]} \cap again = {}}
             V == [v \in copies |-> BodyIn(source.vertex, Tail(v))]
             L == [l \in linked |-> BodyIn(source.link, <<Tail(l[1]), l[2], Tail(l[3])>>)]
             K == Restrict(g.link, kept)
  <1>1. h = [vertex |-> Over(V, g.vertex), link |-> Over(L, K)]
    BY DEF Paste
  <1>2. DOMAIN V = copies /\ DOMAIN L = linked /\ DOMAIN K = kept /\ \A l \in kept : K[l] = g.link[l]
    BY DEF Restrict
  <1>3. copies \subseteq Copies(x) /\ \A v \in copies : Head(v) = x
    <2>1. e.vertex \subseteq PlainId
      BY DEF ElementsInPlace
    <2>2. \A v \in e.vertex : Copy(x, v) \in Copies(x)
      BY <2>1, CopiesFacts
    <2>3. copies \subseteq Copies(x)
      BY <2>2
    <2> QED
      BY <2>3, CopiesFacts
  <1>4. \A l \in linked : LinkInPlace(l) /\ Head(l[1]) = x /\ Head(l[3]) = x
    <2> SUFFICES ASSUME NEW l \in linked PROVE LinkInPlace(l) /\ Head(l[1]) = x /\ Head(l[3]) = x
      OBVIOUS
    <2>1. PICK m \in e.link : l = ToLink(m)
      OBVIOUS
    <2>2. m[1] \in PlainId /\ m[3] \in PlainId
      BY DEF ElementsInPlace, PlainLink
    <2>3. l[1] \in Copies(x) /\ l[3] \in Copies(x) /\ IsLink(l)
      BY <2>1, <2>2, CopiesFacts DEF IsLink
    <2>4. Head(l[1]) = x /\ Head(l[3]) = x
      BY <2>3, CopiesFacts
    <2> QED
      BY <2>3, <2>4 DEF LinkInPlace, TxLink
  <1>5. IsFiniteSet(linked)
    <2> DEFINE f == [l \in e.link |-> ToLink(l)]
    <2>1. DOMAIN f = e.link /\ {f[l] : l \in e.link} = linked
      OBVIOUS
    <2> HIDE DEF f
    <2>2. IsFiniteSet(e.link)
      BY DEF ElementsInPlace
    <2> QED
      BY <2>1, <2>2, ImageIsFinite
  <1>7. \A l \in DOMAIN g.link \ kept : Head(l[1]) = x /\ Head(l[3]) = x
    <2> SUFFICES ASSUME NEW l \in DOMAIN g.link, l[1] \in copies \/ l[3] \in copies
                 PROVE  Head(l[1]) = x /\ Head(l[3]) = x
      <3> HIDE DEF copies
      <3> QED
        OBVIOUS
    <2>1. TxLink(x, l)
      BY <1>3, TxLinksStay
    <2> QED
      BY <2>1, CopiesFacts DEF TxLink
  <1>8. IsFiniteSet(kept) /\ kept \subseteq DOMAIN g.link
    <2>1. kept \in SUBSET DOMAIN g.link
      OBVIOUS
    <2> QED
      BY <2>1, FS_Subset DEF InPlace
  <1> HIDE DEF copies, linked, kept, V, L, K
  <1>9. /\ DOMAIN h.vertex = copies \cup DOMAIN g.vertex
        /\ \A v \in DOMAIN g.vertex \ copies : h.vertex[v] = g.vertex[v]
        /\ DOMAIN h.link = linked \cup kept
        /\ \A l \in kept \ linked : h.link[l] = g.link[l]
        /\ IsGraph(h)
    <2>1. h.vertex = Over(V, g.vertex) /\ h.link = Over(L, K) /\ IsGraph(h)
      BY <1>1 DEF IsGraph
    <2>2. DOMAIN h.link = linked \cup kept /\ \A l \in kept \ linked : h.link[l] = g.link[l]
      BY <2>1, <1>2 DEF Over
    <2> QED
      BY <2>1, <2>2, <1>2 DEF Over
  <1>10. InPlace(h)
    <2>1. IsFiniteSet(DOMAIN h.link)
      BY <1>5, <1>8, <1>9, FS_Union
    <2>2. \A l \in kept : LinkInPlace(l)
      BY DEF InPlace, kept
    <2> QED
      BY <1>4, <1>9, <2>1, <2>2 DEF InPlace
  <1>11. Differ(g.vertex, h.vertex) \subseteq copies
    BY <1>9 DEF Differ
  <1>12. Differ(g.link, h.link) \subseteq linked \cup (DOMAIN g.link \ kept)
    BY <1>8, <1>9 DEF Differ
  <1> QED
    BY <1>3, <1>4, <1>7, <1>10, <1>11, <1>12 DEF Alters

\* The same with the link from the vertex of the transaction.
LEMMA CopyIntoEffect ==
    ASSUME NEW x \in Tx, NEW g, InPlace(g), NEW e, CloneInPlace(e), NEW h, h = CopyInto(g, x, e)
    PROVE  InPlace(h) /\ Alters(x, g, h)
  <1> DEFINE builtIn == [vertex |-> DOMAIN BuiltIn.vertex, link |-> BuiltInLinks]
             all == [vertex |-> g.vertex, link |-> Over(BuiltIn.link, g.link)]
             first == <<<<x>>, "graph", Copy(x, root)>>
             half == Paste(g, x, builtIn, BuiltIn)
             pasted == IF e.full THEN Paste(g, x, e, all) ELSE Paste(half, x, e, g)
  <1>1. h = [pasted EXCEPT !.link = Put(@, first, Body(None))]
    BY DEF CopyInto
  <1>2. ElementsInPlace(builtIn) /\ ElementsInPlace(e)
    BY BuiltInInPlace DEF ElementsInPlace, CloneInPlace
  <1> HIDE DEF builtIn, all
  <1>3. InPlace(half) /\ Alters(x, g, half)
    BY <1>2, PasteEffect
  <1>4. InPlace(pasted) /\ Alters(x, g, pasted)
    <2>1. CASE e.full
      BY <1>2, <2>1, PasteEffect
    <2>2. CASE ~ e.full
      <3> HIDE DEF half
      <3>1. InPlace(Paste(half, x, e, g)) /\ Alters(x, half, Paste(half, x, e, g))
        BY <1>2, <1>3, PasteEffect
      <3> QED
        BY <1>3, <2>2, <3>1, AltersTransitive
    <2> QED
      BY <2>1, <2>2
  <1> HIDE DEF pasted
  <1>5. LinkInPlace(first) /\ Head(first[1]) = x /\ Head(first[3]) = x
    <2>1. Copy(x, root) \in Copies(x) /\ Head(Copy(x, root)) = x /\ Head(<<x>>) = x
      BY NamedIds, CopiesFacts
    <2> QED
      BY <2>1 DEF LinkInPlace, TxLink, IsLink
  <1> HIDE DEF first
  <1>6. h = CreateLink(pasted, first, Body(None)) /\ IsGraph(pasted)
    BY <1>1, <1>4 DEF CreateLink, InPlace
  <1>7. /\ IsGraph(h) /\ h.vertex = pasted.vertex /\ DOMAIN h.link = DOMAIN pasted.link \cup {first}
        /\ \A l \in DOMAIN pasted.link \ {first} : h.link[l] = pasted.link[l]
    BY <1>6, CreateLinkEffect
  <1>8. IsFiniteSet(DOMAIN h.link)
    BY <1>4, <1>7, FS_AddElement DEF InPlace
  <1>9. InPlace(h)
    BY <1>4, <1>5, <1>7, <1>8 DEF InPlace
  <1>10. Differ(pasted.vertex, h.vertex) = {} /\ Differ(pasted.link, h.link) \subseteq {first}
    BY <1>7 DEF Differ
  <1>11. Alters(x, pasted, h)
    BY <1>5, <1>10 DEF Alters
  <1> QED
    BY <1>4, <1>9, <1>11, AltersTransitive

-----------------------------------------------------------------------------
(* What the requests of a merge change *)

\* A request about ids of the main graph; it may delete.
Merges(r) ==
    \/ r.op \in {"vertexCreate", "vertexUpdate", "vertexDelete"} /\ r.at \in PlainId
    \/ r.op \in {"linkCreate", "linkUpdate", "linkDelete"} /\ PlainLink(r.at)

LEMMA FewerLinksInPlace ==
    ASSUME NEW g, InPlace(g), NEW h, IsGraph(h), DOMAIN h.link \subseteq DOMAIN g.link
    PROVE  InPlace(h)
  <1>1. IsFiniteSet(DOMAIN h.link)
    BY FS_Subset DEF InPlace
  <1> QED
    BY <1>1 DEF InPlace

\* What is touched by an id of the main graph is in the main graph.
LEMMA MainStays ==
    ASSUME NEW g, InPlace(g), NEW h,
           \A v \in Differ(g.vertex, h.vertex) : v \in PlainId,
           \A l \in Differ(g.link, h.link) : PlainLink(l)
    PROVE  AltersMain(g, h)
  BY PlainFacts DEF AltersMain, PlainLink

\* A request of a merge alters the main graph only, and leaves everything in place.
LEMMA MergeInPlace ==
    ASSUME NEW g, InPlace(g), NEW r, Merges(r), NEW h, h = Apply(g, r)
    PROVE  InPlace(h) /\ AltersMain(g, h)
  <1>0. IsGraph(g) /\ IsFiniteSet(DOMAIN g.link)
    BY DEF InPlace
  <1>1. CASE r.op \in {"vertexCreate", "vertexUpdate", "vertexDelete"}
    <2>1. r.at \in PlainId
      BY <1>1 DEF Merges
    <2>2. /\ IsGraph(h)
          /\ Differ(g.vertex, h.vertex) \subseteq {r.at}
          /\ DOMAIN h.link \subseteq DOMAIN g.link
          /\ DOMAIN g.link \ DOMAIN h.link \subseteq Severed(g, r.at)
          /\ \A l \in DOMAIN h.link : h.link[l] = g.link[l]
      <3>1. CASE r.op \in {"vertexCreate", "vertexUpdate"}
        <4>1. Within({r.at}, r)
          BY <3>1 DEF Within
        <4>2. /\ IsGraph(h) /\ DOMAIN h.vertex = DOMAIN g.vertex \cup {r.at}
              /\ \A u \in DOMAIN g.vertex \ {r.at} : h.vertex[u] = g.vertex[u]
              /\ DOMAIN h.link \subseteq DOMAIN g.link
              /\ DOMAIN g.link \ DOMAIN h.link \subseteq Severed(g, r.at)
              /\ \A l \in DOMAIN h.link : h.link[l] = g.link[l]
          BY <1>0, <3>1, <4>1, ApplyEffect
        <4> QED
          BY <4>2 DEF Differ
      <3>2. CASE r.op = "vertexDelete"
        <4>1. h = DeleteVertex(g, r.at)
          BY <3>2 DEF Apply
        <4>2. /\ IsGraph(h) /\ DOMAIN h.vertex = DOMAIN g.vertex \ {r.at}
              /\ \A u \in DOMAIN h.vertex : h.vertex[u] = g.vertex[u]
              /\ DOMAIN h.link = DOMAIN g.link \ Severed(g, r.at)
              /\ \A l \in DOMAIN h.link : h.link[l] = g.link[l]
          BY <4>1, DeleteVertexEffect
        <4> QED
          BY <4>2 DEF Differ
      <3> QED
        BY <3>1, <3>2, <1>1
    <2>3. Differ(g.link, h.link) \subseteq Severed(g, r.at)
      BY <2>2 DEF Differ
    <2>4. \A l \in Severed(g, r.at) : PlainLink(l)
      BY <2>1, PlainLinksStay DEF Touching, Severed
    <2>5. AltersMain(g, h)
      BY <2>1, <2>2, <2>3, <2>4, MainStays
    <2> QED
      BY <2>2, <2>5, FewerLinksInPlace
  <1>2. CASE r.op \in {"linkCreate", "linkUpdate", "linkDelete"}
    <2> DEFINE k == r.at
    <2>1. PlainLink(k) /\ LinkInPlace(k)
      BY <1>2 DEF Merges, LinkInPlace, PlainLink
    <2>2. /\ IsGraph(h) /\ h.vertex = g.vertex
          /\ DOMAIN h.link \subseteq DOMAIN g.link \cup {k}
          /\ DOMAIN g.link \ {k} \subseteq DOMAIN h.link
          /\ \A l \in DOMAIN h.link \ {k} : h.link[l] = g.link[l]
      <3>1. CASE r.op = "linkCreate"
        <4>1. h = CreateLink(g, k, r.body)
          BY <3>1 DEF Apply
        <4> HIDE DEF k
        <4> QED
          BY <1>0, <4>1, CreateLinkEffect
      <3>2. CASE r.op = "linkUpdate"
        <4>1. h = UpdateLink(g, k, r.body)
          BY <3>2 DEF Apply
        <4> HIDE DEF k
        <4> QED
          BY <1>0, <4>1, UpdateLinkEffect
      <3>3. CASE r.op = "linkDelete"
        <4>1. h = DeleteLink(g, k)
          BY <3>3 DEF Apply
        <4> HIDE DEF k
        <4> QED
          BY <1>0, <4>1, DeleteLinkEffect
      <3> QED
        BY <3>1, <3>2, <3>3, <1>2
    <2> HIDE DEF k
    <2>3. InPlace(h)
      <3>1. IsFiniteSet(DOMAIN g.link \cup {k})
        BY <1>0, FS_AddElement
      <3>2. IsFiniteSet(DOMAIN h.link)
        BY <2>2, <3>1, FS_Subset
      <3> QED
        BY <2>1, <2>2, <3>2 DEF InPlace
    <2>4. Differ(g.vertex, h.vertex) = {} /\ Differ(g.link, h.link) \subseteq {k}
      BY <2>2 DEF Differ
    <2>5. AltersMain(g, h)
      BY <2>1, <2>4, MainStays
    <2> QED
      BY <2>3, <2>5
  <1> QED
    BY <1>1, <1>2 DEF Merges

\* What is deleted at the end of a merge is the transaction's.
LEMMA CascadeEffect ==
    ASSUME NEW x \in Tx, NEW g, InPlace(g), NEW h \in CascadeOutcomes(g, <<x>>)
    PROVE  /\ InPlace(h) /\ KeepsMain(g, h) /\ \A name \in PartsThatChange(g, h) : name = x
           /\ \A v \in DOMAIN h.vertex : v \in DOMAIN g.vertex /\ h.vertex[v] = g.vertex[v]
           /\ \A l \in DOMAIN h.link : l \in DOMAIN g.link /\ h.link[l] = g.link[l]
  <1> DEFINE DeleteAll(S) == [vertex |-> Without(g.vertex, S),
                              link |-> Without(g.link, {l \in DOMAIN g.link :
                                                           IsLink(l) /\ {l[1], l[3]} \cap S # {}})]
  <1>1. PICK S \in SUBSET Reachable(g, <<x>>) : h = DeleteAll(S)
    BY DEF CascadeOutcomes, Reachable
  <1>2. S \subseteq {<<x>>} \cup Copies(x)
    BY <1>1, StateInPlace
  <1> DEFINE gone == {l \in DOMAIN g.link : IsLink(l) /\ {l[1], l[3]} \cap S # {}}
  <1>3. /\ IsGraph(h)
        /\ DOMAIN h.vertex = DOMAIN g.vertex \ S /\ \A v \in DOMAIN h.vertex : h.vertex[v] = g.vertex[v]
        /\ DOMAIN h.link = DOMAIN g.link \ gone /\ \A l \in DOMAIN h.link : h.link[l] = g.link[l]
    BY <1>1 DEF IsGraph, Without, Restrict
  <1>4. \A v \in S : Head(v) = x
    BY <1>2, CopiesFacts
  <1>5. ASSUME NEW l \in gone PROVE {Head(l[1]), Head(l[3])} \subseteq {x, "txmaster"} /\ Head(l[3]) = x
    <2>1. CASE l[3] = <<x>>
      <3>1. LinkInPlace(l) /\ <<x>> \notin PlainId
        BY CopiesFacts DEF InPlace
      <3>2. ASSUME NEW y \in Tx, TxLink(y, l) PROVE FALSE
        <4>1. l[3] \in Owned(y)
          BY <3>2, CopiesFacts DEF TxLink
        <4>2. Len(l[3]) = 1 /\ ~ (1 > 1)
          BY <2>1
        <4> QED
          BY <4>1, <4>2 DEF Owned
      <3>3. \E y \in Tx : MasterLink(y, l)
        BY <2>1, <3>1, <3>2 DEF LinkInPlace, PlainLink
      <3>4. l[1] = txmaster
        BY <3>3 DEF MasterLink
      <3> QED
        BY <2>1, <3>4 DEF txmaster
    <2>2. CASE l[3] # <<x>>
      <3>1. TxLink(x, l)
        BY <2>2, <1>2, TxLinksStay
      <3> QED
        BY <3>1, CopiesFacts DEF TxLink
    <2> QED
      BY <2>1, <2>2
  <1> HIDE DEF gone
  <1>6. Differ(g.vertex, h.vertex) \subseteq S /\ Differ(g.link, h.link) \subseteq gone
    BY <1>3 DEF Differ
  <1>7. InPlace(h)
    BY <1>3, FewerLinksInPlace
  <1>8. KeepsMain(g, h)
    BY <1>3, <1>4, <1>5 DEF KeepsMain, InMain
  <1> QED
    BY <1>3, <1>4, <1>5, <1>6, <1>7, <1>8 DEF PartsThatChange

-----------------------------------------------------------------------------
(* Where every part of the graph is, throughout *)

PushRecord(p) ==
    /\ p = [session |-> p.session, tx |-> p.tx, mode |-> p.mode, main |-> p.main, vertex |-> p.vertex,
            link |-> p.link, deleted |-> p.deleted, before |-> p.before, exact |-> p.exact]
    /\ p.tx \in Tx

\* What is merged is of the transaction.
MergedInPlace(p) ==
    /\ p.vertex \subseteq Copies(p.tx)
    /\ \A l \in p.link : IsLink(l) /\ l[1] \in Copies(p.tx) /\ l[3] \in Copies(p.tx)

Records == DOMAIN toCopy = Session /\ (push # None => PushRecord(push))

Apart ==
    {"copies", "keys"} \cap astray = {} =>
      /\ InPlace(graph)
      /\ \A s \in Session : session[s].at = "cloning" => CloneInPlace(toCopy[s])
      /\ push # None => MergedInPlace(push)

Isolated == graph' # graph /\ {"copies", "keys"} \cap astray = {} => StaysApart

\* To disturb a merge is to say so, and nothing else.
LEMMA DisturbedFields ==
    ASSUME Records, NEW x, push' = Disturbed(x)
    PROVE  /\ push = None => push' = None
           /\ push # None =>
                /\ PushRecord(push')
                /\ push'.tx = push.tx /\ push'.vertex = push.vertex /\ push'.link = push.link
                /\ push'.deleted = push.deleted /\ push'.main = push.main
  <1>1. push' = push \/ (push # None /\ push' = [push EXCEPT !.exact = FALSE])
    BY DEF Disturbed
  <1> QED
    BY <1>1 DEF Records, PushRecord

LEMMA MergeUndisturbed ==
    ASSUME Records, NEW x, push' = Disturbed(x), push # None => MergedInPlace(push)
    PROVE  push' # None => MergedInPlace(push')
  BY DisturbedFields DEF MergedInPlace

\* Every action keeps the parts apart, and alters those that it may alter.
LEMMA BeginApart ==
    ASSUME IInv, Records, Apart, NEW s \in Session, NEW x \in Tx, NEW clone \in Clones, Begin(s, x, clone)
    PROVE  Records' /\ Apart' /\ Isolated /\ ({"copies", "keys"} \cap astray = {} => KeepsMain(graph, graph'))
  <1>1. /\ graph' = CreateLink(UpdateVertex(graph, <<x>>, Body(None), "merge"),
                               <<txmaster, "tx", <<x>>>>, Body(None))
        /\ toCopy' = [toCopy EXCEPT ![s] = Cloned(graph, clone)]
        /\ push' = Disturbed(x) /\ astray' = astray
        /\ session'[s].tx = x /\ session'[s].at = "cloning"
        /\ \A r \in Session \ {s} : session'[r].at = session[r].at
    <2>1. session' = [r \in Session |->
                       IF r = s THEN [at |-> "cloning", tx |-> x, fresh |-> push = None,
                                      clean |-> /\ PartOf(graph, x) = EmptyGraph
                                                /\ {q \in Session : session[q].tx = x} = {}]
                       ELSE IF r \in {q \in Session : session[q].tx = x}
                            THEN [session[r] EXCEPT !.clean = FALSE] ELSE session[r]]
      BY DEF Begin
    <2>2. \A r \in Session : session[r] \in SessionType
      BY DEF IInv, TypeOK, SessionType
    <2>3. \A r \in Session : [session[r] EXCEPT !.clean = FALSE].at = session[r].at
      BY <2>2 DEF SessionType
    <2> QED
      BY <2>1, <2>3 DEF Begin
  <1>2. Records'
    BY <1>1, DisturbedFields DEF Records
  <1> SUFFICES ASSUME {"copies", "keys"} \cap astray = {} PROVE Apart' /\ Isolated /\ KeepsMain(graph, graph')
    BY <1>1, <1>2 DEF Apart, Isolated, StaysApart
  <1>3. /\ InPlace(graph) /\ InPlace(graph') /\ KeepsMain(graph, graph')
        /\ \A name \in PartsThatChange(graph, graph') : name = x
    BY <1>1, BeginEffect DEF Apart
  <1>4. \A r \in Session : session'[r].at = "cloning" => CloneInPlace(toCopy'[r])
    BY <1>1, <1>3, ClonedInPlace DEF Apart, Records
  <1>5. push' # None => MergedInPlace(push')
    BY <1>1, MergeUndisturbed DEF Apart
  <1> QED
    BY <1>1, <1>3, <1>4, <1>5 DEF Apart, Isolated, StaysApart

LEMMA CloneApart ==
    ASSUME IInv, Records, Apart, NEW s \in Session, Clone(s)
    PROVE  Records' /\ Apart' /\ Isolated /\ ({"copies", "keys"} \cap astray = {} => KeepsMain(graph, graph'))
  <1> DEFINE x == session[s].tx
             elements == toCopy[s]
             AllBut(e) == [full |-> elements.full, vertex |-> elements.vertex \ {e}, link |-> elements.link \ {e}]
  <1>1. /\ session[s].at = "cloning" /\ push' = push /\ astray' = astray
        /\ toCopy' = [toCopy EXCEPT ![s] = None]
        /\ \/ graph' = CopyInto(graph, x, elements)
           \/ \E e : graph' = CopyInto(graph, x, AllBut(e))
        /\ session'[s].at = "open"
        /\ \A r \in Session \ {s} : session'[r].at = session[r].at
    <2>1. PICK whole \in BOOLEAN :
            session' = [session EXCEPT ![s].at = "open", ![s].clean = @ /\ whole]
      BY DEF Clone
    <2>2. session'[s].at = "open" /\ \A r \in Session \ {s} : session'[r].at = session[r].at
      BY <2>1 DEF IInv, TypeOK
    <2> QED
      BY <2>2 DEF Clone
  <1>2. Records'
    BY <1>1 DEF Records
  <1> SUFFICES ASSUME {"copies", "keys"} \cap astray = {} PROVE Apart' /\ Isolated /\ KeepsMain(graph, graph')
    BY <1>1, <1>2 DEF Apart, Isolated, StaysApart
  <1>3. x \in Tx
    BY <1>1 DEF IInv, TypeOK
  <1>4. InPlace(graph) /\ CloneInPlace(elements)
    BY <1>1 DEF Apart
  <1>5. \A e : CloneInPlace(AllBut(e))
    <2> HIDE DEF elements
    <2> QED
      BY <1>4, AllButInPlace
  <1>6. InPlace(graph') /\ Alters(x, graph, graph')
    <2> HIDE DEF elements, x, AllBut
    <2> QED
      BY <1>1, <1>3, <1>4, <1>5, CopyIntoEffect
  <1>7. \A name \in PartsThatChange(graph, graph') : name = x
    BY <1>3, <1>6, PartsFacts
  <1> QED
    BY <1>1, <1>3, <1>6, <1>7, AltersKeepsMain DEF Apart, Isolated, StaysApart, Records

LEMMA BeginFailApart ==
    ASSUME IInv, Records, Apart, NEW s \in Session, BeginFail(s)
    PROVE  Records' /\ Apart' /\ Isolated
  <1>1. /\ graph' = graph /\ push' = push /\ astray' = astray
        /\ toCopy' = [toCopy EXCEPT ![s] = None] /\ session' = [session EXCEPT ![s] = Done]
    BY DEF BeginFail
  <1>2. \A r \in Session : session'[r].at = "cloning" => r # s /\ session'[r] = session[r]
    BY <1>1, DoneType DEF IInv, TypeOK
  <1> QED
    BY <1>1, <1>2 DEF Apart, Isolated, StaysApart, Records

\* A call alters its transaction, with copies of copies, too.
LEMMA CallTxApart ==
    ASSUME IInv, Records, Apart, NEW s \in Session, NEW c \in Calls, CallTx(s, c)
    PROVE  Records' /\ Apart' /\ Isolated /\ ({"copies", "keys"} \cap astray = {} => KeepsMain(graph, graph'))
  <1> DEFINE x == session[s].tx
  <1>1. /\ session[s].at = "open" /\ toCopy' = toCopy
        /\ astray' = astray \cup Strays(graph, x, c) /\ push' = Disturbed(x)
        /\ session' = session \/ session' = [session EXCEPT ![s] = Done]
    BY DEF CallTx
  <1>2. PICK plan \in TxPlans(graph, x, c) : DoneOf(graph, plan, graph')
    BY DEF CallTx, DoneOf
  <1>3. Records'
    BY <1>1, DisturbedFields DEF Records
  <1> SUFFICES ASSUME {"copies", "keys"} \cap astray = {} PROVE Apart' /\ Isolated /\ KeepsMain(graph, graph')
    BY <1>1, <1>3 DEF Apart, Isolated, StaysApart
  <1>4. x \in Tx /\ InPlace(graph)
    BY <1>1 DEF IInv, TypeOK, Apart
  <1> HIDE DEF x
  <1>13. \A r \in Session : session'[r].at = "cloning" => session'[r] = session[r]
    BY <1>1, DoneType DEF IInv, TypeOK
  <1>14. push' # None => MergedInPlace(push')
    BY <1>1, MergeUndisturbed DEF Apart
  <1>15. CASE "keys" \in Strays(graph, x, c)
    <2>1. Alters(x, graph, graph')
      BY <1>2, <1>4, <1>15, KeyedCallStays
    <2>2. \A name \in PartsThatChange(graph, graph') : name = x
      BY <1>4, <2>1, PartsFacts
    <2>3. Isolated
      BY <1>1, <2>2 DEF Isolated, StaysApart, x
    <2>4. Apart'
      BY <1>1, <1>15 DEF Apart
    <2> QED
      BY <1>4, <2>1, <2>3, <2>4, AltersKeepsMain
  <1> SUFFICES ASSUME "keys" \notin Strays(graph, x, c)
               PROVE  Apart' /\ Isolated /\ KeepsMain(graph, graph')
    BY <1>15
  <1>5. PICK I, R : \E rs \in Seq(R) :
              /\ graph' = ApplyAll(graph, rs)
              /\ Room(x, I) /\ ("copies" \notin Strays(graph, x, c) => I = Copies(x))
              /\ \A r \in R : Good(I, asked, FALSE, r)
    <2> DEFINE sure == FALSE
    <2>1. sure \in BOOLEAN /\ ~ sure
      OBVIOUS
    <2> HIDE DEF sure
    <2>2. Did(x, graph, c, asked, sure, graph')
      BY <1>2, <1>4, <2>1, CallIsProper
    <2> QED
      BY <2>2 DEF sure, Did
  <1>6. PICK rs \in Seq(R) : graph' = ApplyAll(graph, rs)
    BY <1>5
  <1>7. Copies(x) \subseteq Owned(x)
    BY <1>4, CopiesFacts
  <1>8. \A r \in R : Within(I, r) /\ Within(Owned(x), r)
    BY <1>5, <1>7 DEF Good, Within, Room
  <1>9. Alters(x, graph, graph')
    <2>1. \A r \in R : Stays(x, r)
      BY <1>8 DEF Stays
    <2>2. HeadsApart(graph) /\ x \in Tx
      BY <1>4, InPlaceIsApart
    <2> QED
      BY <1>6, <2>1, <2>2, RequestsStay
  <1>10. \A name \in PartsThatChange(graph, graph') : name = x
    BY <1>4, <1>9, PartsFacts
  <1>11. Isolated
    BY <1>1, <1>10 DEF Isolated, StaysApart, x
  <1>12. ASSUME {"copies", "keys"} \cap astray' = {} PROVE InPlace(graph')
    <2>1. I = Copies(x)
      BY <1>1, <1>5, <1>12
    <2> QED
      BY <1>4, <1>6, <1>8, <2>1, RequestsInPlace
  <1> QED
    BY <1>1, <1>4, <1>9, <1>11, <1>12, <1>13, <1>14, AltersKeepsMain DEF Apart

LEMMA CommitApart ==
    ASSUME IInv, Records, Apart, NEW s \in Session,
           CommitTimeout(s) \/ \E mode \in Modes : Commit(s, mode)
    PROVE  Records' /\ Apart' /\ Isolated
  <1>1. graph' = graph /\ push' = push /\ astray' = astray /\ toCopy' = toCopy
    BY DEF Commit, CommitTimeout
  <1>2. \A r \in Session : session'[r].at = "cloning" => session'[r] = session[r]
    BY DEF Commit, CommitTimeout, IInv, TypeOK
  <1> QED
    BY <1>1, <1>2 DEF Apart, Isolated, StaysApart, Records

-----------------------------------------------------------------------------
(* The merge keeps the parts apart *)

LEMMA PushBeginApart ==
    ASSUME IInv, Records, Apart, PushBegin
    PROVE  Records' /\ Apart' /\ Isolated
  <1> DEFINE x == Head(pushes).tx
             own == State(graph, Copy(x, root))
  <1>1. /\ pushes # << >> /\ graph' = graph /\ astray' = astray /\ toCopy' = toCopy
        /\ \A r \in Session : session'[r].at = session[r].at
    <2>1. session' = [r \in Session |->
                       IF r = Head(pushes).session THEN session[r] ELSE [session[r] EXCEPT !.fresh = FALSE]]
      BY DEF PushBegin
    <2>2. \A r \in Session : session[r] \in SessionType
      BY DEF IInv, TypeOK, SessionType
    <2>3. \A r \in Session : [session[r] EXCEPT !.fresh = FALSE].at = session[r].at
      BY <2>2 DEF SessionType
    <2>4. \A r \in Session : session'[r].at = session[r].at
      BY <2>1, <2>3
    <2> QED
      BY <2>4 DEF PushBegin
  <1>2. x \in Tx
    <2> DEFINE Waiting == [session : Session, tx : Tx, mode : Modes]
    <2>1. pushes \in Seq(Waiting) /\ pushes # << >>
      BY <1>1 DEF IInv, PushesAreOfSessions
    <2> HIDE DEF Waiting
    <2>2. Head(pushes) \in Waiting
      BY <2>1
    <2> QED
      BY <2>2 DEF Waiting
  <1>3. PushRecord(push') /\ push'.tx = x /\ push'.vertex = own.vertex /\ push'.link = own.link
    BY <1>2 DEF PushBegin, PushRecord
  <1> HIDE DEF own
  <1>4. Records'
    BY <1>1, <1>3 DEF Records
  <1>5. ASSUME {"copies", "keys"} \cap astray = {} PROVE MergedInPlace(push')
    BY <1>2, <1>3, <1>5, StateInPlace DEF Apart, MergedInPlace, TxLink, own
  <1> QED
    BY <1>1, <1>4, <1>5 DEF Apart, Isolated, StaysApart

\* What a step of a merge changes, and takes from what is left to do.
LEMMA PushVertexDoes ==
    ASSUME Records, push # None, NEW k \in push.vertex, PushVertex(k)
    PROVE  /\ graph' = Apply(graph, VertexRequest(k))
           /\ PushRecord(push') /\ push'.tx = push.tx /\ push'.vertex = push.vertex \ {k}
           /\ push'.link = push.link /\ push'.main = push.main
           /\ push'.deleted = IF VertexRequest(k).op = "vertexDelete"
                              THEN push.deleted \cup {VertexRequest(k).at} ELSE push.deleted
  BY DEF PushVertex, Records, PushRecord

LEMMA PushLinkDoes ==
    ASSUME Records, push # None, NEW l \in push.link, PushLink(l)
    PROVE  /\ graph' = Apply(graph, LinkRequest(l))
           /\ PushRecord(push') /\ push'.tx = push.tx /\ push'.vertex = {}
           /\ push'.link = push.link \ {l} /\ push'.main = push.main /\ push'.deleted = push.deleted
  BY DEF PushLink, Records, PushRecord

LEMMA VertexRequestMerges ==
    ASSUME Records, push # None, MergedInPlace(push), NEW k \in push.vertex
    PROVE  Merges(VertexRequest(k)) /\ VertexRequest(k).at = Tail(k) /\ Tail(k) \in PlainId
  <1>1. Normal(push.tx, k) = Tail(k) /\ Tail(k) \in PlainId
    BY CopiesFacts DEF Records, PushRecord, MergedInPlace
  <1>2. /\ VertexRequest(k).op \in {"vertexCreate", "vertexUpdate", "vertexDelete"}
        /\ VertexRequest(k).at = Normal(push.tx, k)
    BY DEF VertexRequest, VCreate, VUpdate, VDelete
  <1> QED
    BY <1>1, <1>2 DEF Merges

LEMMA LinkRequestMerges ==
    ASSUME Records, push # None, MergedInPlace(push), NEW l \in push.link
    PROVE  /\ Merges(LinkRequest(l)) /\ LinkRequest(l).at = NormalLink(push.tx, l)
           /\ NormalLink(push.tx, l) = <<Tail(l[1]), l[2], Tail(l[3])>>
           /\ Tail(l[1]) \in PlainId /\ Tail(l[3]) \in PlainId
  <1> DEFINE m == NormalLink(push.tx, l)
  <1>1. /\ m = <<Tail(l[1]), l[2], Tail(l[3])>>
        /\ Tail(l[1]) \in PlainId /\ Tail(l[3]) \in PlainId
    BY CopiesFacts DEF Records, PushRecord, MergedInPlace, NormalLink
  <1>2. PlainLink(m)
    BY <1>1, PlainTriple
  <1>3. LinkRequest(l).op \in {"linkCreate", "linkUpdate", "linkDelete"} /\ LinkRequest(l).at = m
    BY DEF LinkRequest, LCreate, LUpdate, LDelete
  <1> QED
    BY <1>1, <1>2, <1>3 DEF Merges

LEMMA PushStepApart ==
    ASSUME IInv, Records, Apart, push # None,
           \/ \E k \in push.vertex : PushVertex(k)
           \/ \E l \in push.link : PushLink(l)
    PROVE  Records' /\ Apart' /\ Isolated
  <1>1. /\ PushRecord(push') /\ push'.tx = push.tx
        /\ push'.vertex \subseteq push.vertex /\ push'.link \subseteq push.link
    BY PushVertexDoes, PushLinkDoes
  <1>2. toCopy' = toCopy /\ session' = session /\ astray' = astray
    BY DEF PushVertex, PushLink
  <1>3. Records'
    BY <1>1, <1>2 DEF Records
  <1> SUFFICES ASSUME {"copies", "keys"} \cap astray = {} PROVE Apart' /\ Isolated
    BY <1>2, <1>3 DEF Apart, Isolated, StaysApart
  <1>4. InPlace(graph) /\ MergedInPlace(push)
    BY DEF Apart
  <1>5. \E r : Merges(r) /\ graph' = Apply(graph, r)
    BY <1>4, PushVertexDoes, PushLinkDoes, VertexRequestMerges, LinkRequestMerges
  <1>6. InPlace(graph') /\ AltersMain(graph, graph')
    BY <1>4, <1>5, MergeInPlace
  <1>7. \A name \in PartsThatChange(graph, graph') : name \notin Tx
    BY <1>6, PartsFacts
  <1>8. MergedInPlace(push')
    BY <1>1, <1>4 DEF MergedInPlace
  <1> QED
    BY <1>2, <1>6, <1>7, <1>8 DEF Apart, Isolated, StaysApart

LEMMA PushOverApart ==
    ASSUME IInv, Records, Apart, PushAbort \/ PushEnd
    PROVE  /\ Records' /\ Apart' /\ Isolated
           /\ {"copies", "keys"} \cap astray = {} /\ graph' # graph =>
                /\ KeepsMain(graph, graph')
                /\ \A v \in DOMAIN graph'.vertex : v \in DOMAIN graph.vertex /\ graph'.vertex[v] = graph.vertex[v]
                /\ \A l \in DOMAIN graph'.link : l \in DOMAIN graph.link /\ graph'.link[l] = graph.link[l]
  <1> DEFINE x == push.tx
  <1>1. /\ push # None /\ push' = None /\ astray' = astray /\ toCopy' = toCopy
        /\ session' = [session EXCEPT ![push.session] = Done]
        /\ graph' = graph \/ graph' \in CascadeOutcomes(graph, <<x>>)
    BY DEF PushAbort, PushEnd, Committed
  <1>2. \A r \in Session : session'[r].at = "cloning" => session'[r] = session[r]
    BY <1>1, DoneType DEF IInv, TypeOK
  <1>3. Records'
    BY <1>1 DEF Records
  <1>4. x \in Tx
    BY <1>1 DEF Records, PushRecord
  <1> HIDE DEF x
  <1>5. ASSUME {"copies", "keys"} \cap astray = {}, graph' # graph
        PROVE  /\ InPlace(graph') /\ \A name \in PartsThatChange(graph, graph') : name = x
               /\ KeepsMain(graph, graph')
               /\ \A v \in DOMAIN graph'.vertex : v \in DOMAIN graph.vertex /\ graph'.vertex[v] = graph.vertex[v]
               /\ \A l \in DOMAIN graph'.link : l \in DOMAIN graph.link /\ graph'.link[l] = graph.link[l]
    BY <1>1, <1>4, <1>5, CascadeEffect DEF Apart
  <1> QED
    BY <1>1, <1>2, <1>3, <1>5 DEF Apart, Isolated, StaysApart, x

-----------------------------------------------------------------------------
(* The theorem *)

LEMMA InitApart == Init => Records /\ Apart
  <1> SUFFICES ASSUME Init PROVE Records /\ Apart
    OBVIOUS
  <1>1. /\ graph \in Start /\ DOMAIN toCopy = Session /\ push = None
        /\ \A s \in Session : session[s].at = "idle"
    BY DEF Init, Idle
  <1>2. InPlace(graph)
    BY <1>1, StartIsUnmarked DEF Unmarked, InPlace, IsGraph, LinkInPlace, PlainLink
  <1> QED
    BY <1>1, <1>2 DEF Records, Apart

\* The parts stay apart, and no step alters what is not its own.
LEMMA StepApart ==
    ASSUME IInv, Records, Apart, [Next]_vars
    PROVE  Records' /\ Apart' /\ (Next => Isolated)
  <1>1. CASE UNCHANGED vars
    BY <1>1 DEF vars, Records, Apart, Isolated, StaysApart
  <1>2. CASE Next
    BY <1>2, BeginApart, CloneApart, BeginFailApart, CallTxApart, CommitApart,
       PushBeginApart, PushStepApart, PushOverApart DEF Next
  <1> QED
    BY <1>1, <1>2

\* Isolation: a call, copying or the beginning of a session changes its own
\* transaction only, and a merge the main graph and the transaction that is
\* merged; as long as no call has cloned copies of copies or made keys with
\* dots.
THEOREM PartsStayApart ==
    Spec => [][graph' # graph /\ {"copies", "keys"} \cap astray = {} => StaysApart]_vars
  <1>1. Spec => [](IInv /\ Records /\ Apart)
    <2>1. IInv /\ Records /\ Apart /\ [Next]_vars => Records' /\ Apart'
      BY StepApart
    <2> QED
      BY <2>1, InitApart, Inductive, PTL DEF Spec
  <1>2. IInv /\ Records /\ Apart /\ [Next]_vars =>
          [graph' # graph /\ {"copies", "keys"} \cap astray = {} => StaysApart]_vars
    BY StepApart DEF Isolated
  <1> QED
    BY <1>1, <1>2, PTL DEF Spec

-----------------------------------------------------------------------------
(* Marks are asked for *)

\* A body merged from two has no mark that they have not.
LEMMA MergedMark ==
    ASSUME NEW D, NEW at, NEW a, NEW b
    PROVE  /\ VertexMark(D, at, a) /\ VertexMark(D, at, b) => VertexMark(D, at, Merged(a, b))
           /\ LinkMark(D, at, a) /\ LinkMark(D, at, b) => LinkMark(D, at, Merged(a, b))
  BY DEF VertexMark, LinkMark, Merged

LEMMA MoreAsked ==
    ASSUME NEW g, NEW D, NEW E, MarksAsked(g, D), D.vertex \subseteq E.vertex, D.link \subseteq E.link
    PROVE  MarksAsked(g, E)
  BY DEF MarksAsked, VertexMark, LinkMark

LEMMA LessMarked ==
    ASSUME NEW g, NEW D, MarksAsked(g, D), NEW h,
           \A v \in DOMAIN h.vertex : v \in DOMAIN g.vertex /\ h.vertex[v] = g.vertex[v],
           \A l \in DOMAIN h.link : l \in DOMAIN g.link /\ h.link[l] = g.link[l]
    PROVE  MarksAsked(h, D)
  BY DEF MarksAsked

\* No request brings a mark that nobody asked for,
LEMMA RequestMarks ==
    ASSUME NEW g, IsGraph(g), NEW D, MarksAsked(g, D), NEW I, NEW r, Within(I, r), Harmless(D, r),
           NEW h, h = Apply(g, r)
    PROVE  IsGraph(h) /\ MarksAsked(h, D)
  <1>1. CASE r.op \in {"vertexCreate", "vertexUpdate"}
    <2>1. /\ IsGraph(h)
          /\ DOMAIN h.vertex = DOMAIN g.vertex \cup {r.at}
          /\ h.vertex[r.at] \in {r.body} \cup
               {Merged(b, r.body) : b \in {g.vertex[u] : u \in DOMAIN g.vertex \cap {r.at}}}
          /\ \A u \in DOMAIN g.vertex \ {r.at} : h.vertex[u] = g.vertex[u]
          /\ DOMAIN h.link \subseteq DOMAIN g.link
          /\ \A l \in DOMAIN h.link : h.link[l] = g.link[l]
      BY <1>1, ApplyEffect
    <2>2. VertexMark(D, r.at, r.body)
      BY <1>1 DEF Harmless
    <2>3. h.vertex[r.at] = r.body \/ (r.at \in DOMAIN g.vertex /\ h.vertex[r.at] = Merged(g.vertex[r.at], r.body))
      BY <2>1
    <2>4. VertexMark(D, r.at, h.vertex[r.at])
      BY <2>2, <2>3, MergedMark DEF MarksAsked
    <2> QED
      BY <2>1, <2>4 DEF MarksAsked
  <1>2. CASE r.op \in {"linkCreate", "linkUpdate"}
    <2>1. /\ IsGraph(h) /\ h.vertex = g.vertex
          /\ DOMAIN h.link = DOMAIN g.link \cup {r.at}
          /\ h.link[r.at] \in {r.body} \cup
               {Merged(b, r.body) : b \in {g.link[l] : l \in DOMAIN g.link \cap {r.at}}}
          /\ \A l \in DOMAIN g.link \ {r.at} : h.link[l] = g.link[l]
      BY <1>2, ApplyEffect
    <2>2. LinkMark(D, r.at, r.body)
      BY <1>2 DEF Harmless
    <2>3. h.link[r.at] = r.body \/ (r.at \in DOMAIN g.link /\ h.link[r.at] = Merged(g.link[r.at], r.body))
      BY <2>1
    <2>4. LinkMark(D, r.at, h.link[r.at])
      BY <2>2, <2>3, MergedMark DEF MarksAsked
    <2> QED
      BY <2>1, <2>4 DEF MarksAsked
  <1> QED
    BY <1>1, <1>2 DEF Within

\* nor do requests one after the other,
LEMMA RequestsMark ==
    ASSUME NEW g, IsGraph(g), NEW D, MarksAsked(g, D), NEW I, NEW R, NEW rs \in Seq(R),
           \A r \in R : Within(I, r) /\ Harmless(D, r)
    PROVE  MarksAsked(ApplyAll(g, rs), D)
  <1> DEFINE n == Len(rs)
  <1>1. n \in Nat /\ \A i \in 1 .. n : rs[i] \in R
    BY LenProperties, ElementOfSeq
  <1>2. PICK f : /\ f[0] = g /\ ApplyAll(g, rs) = f[n]
                 /\ \A i \in 0 .. n : i < n => f[i + 1] = Apply(f[i], rs[i + 1])
    BY <1>1, ApplyAllGoesOn
  <1> HIDE DEF n
  <1> DEFINE G == {i \in 0 .. n : IsGraph(f[i]) /\ MarksAsked(f[i], D)}
  <1>3. 0 \in G
    BY <1>1, <1>2
  <1>4. ASSUME NEW i \in 0 .. n, i \in G, i < n PROVE i + 1 \in G
    <2>1. i + 1 \in 1 .. n
      BY <1>4, <1>1
    <2>2. f[i + 1] = Apply(f[i], rs[i + 1]) /\ rs[i + 1] \in R
      BY <1>1, <1>2, <1>4, <2>1
    <2>3. IsGraph(f[i + 1]) /\ MarksAsked(f[i + 1], D)
      BY <2>2, <1>4, RequestMarks
    <2> QED
      BY <2>1, <2>3
  <1> HIDE DEF G
  <1>5. n \in 0 .. n /\ \A i \in 0 .. n : i \in G
    BY <1>1, <1>3, <1>4, Upwards
  <1> QED
    BY <1>2, <1>5 DEF G

\* nor does Begin,
LEMMA BeginMarks ==
    ASSUME NEW x \in Tx, NEW g, IsGraph(g), NEW D, MarksAsked(g, D), NEW h,
           h = CreateLink(UpdateVertex(g, <<x>>, Body(None), "merge"), <<txmaster, "tx", <<x>>>>, Body(None))
    PROVE  MarksAsked(h, D)
  <1> DEFINE k == <<txmaster, "tx", <<x>>>>
             first == VUpdate(<<x>>, Body(None), "merge")
             second == LCreate(k, Body(None))
             between == Apply(g, first)
  <1>1. between = UpdateVertex(g, <<x>>, Body(None), "merge") /\ h = Apply(between, second)
    BY DEF Apply, VUpdate, LCreate
  <1>2. Within({<<x>>}, first) /\ Harmless(D, first)
    BY NoMarkIn DEF Within, Harmless, VUpdate
  <1>3. Within({txmaster, <<x>>}, second) /\ Harmless(D, second)
    BY NoMarkIn DEF Within, Harmless, LCreate, IsLink
  <1> HIDE DEF first, second, between
  <1>4. IsGraph(between) /\ MarksAsked(between, D)
    BY <1>2, RequestMarks DEF between
  <1> QED
    BY <1>1, <1>3, <1>4, RequestMarks

\* nor its copying, from a graph without such marks,
LEMMA PasteMarks ==
    ASSUME NEW x \in Tx, NEW g, NEW D, MarksAsked(g, D), NEW e, ElementsInPlace(e),
           NEW source, MarksAsked(source, D), NEW h, h = Paste(g, x, e, source)
    PROVE  MarksAsked(h, D)
  <1> DEFINE copies == {Copy(x, v) : v \in e.vertex}
             BodyIn(f, i) == IF i \in DOMAIN f THEN f[i] ELSE Body(None)
             ToLink(l) == <<Copy(x, l[1]), l[2], Copy(x, l[3])>>
             linked == {ToLink(l) : l \in e.link}
             again == copies \cap DOMAIN g.vertex
             kept == {l \in DOMAIN g.link : IsLink(l) => {l[1], l[3]} \cap again = {}}
             V == [v \in copies |-> BodyIn(source.vertex, Tail(v))]
             L == [l \in linked |-> BodyIn(source.link, <<Tail(l[1]), l[2], Tail(l[3])>>)]
             K == Restrict(g.link, kept)
  <1>1. h = [vertex |-> Over(V, g.vertex), link |-> Over(L, K)]
    BY DEF Paste
  <1>2. \A p \in PlainId : Original(Copy(x, p)) = p /\ Original(p) = p /\ Tail(Copy(x, p)) = p
    BY RoomFacts, PlainIsOriginal, CopyFacts, PlainFacts DEF Room
  <1>3. \A v \in copies : VertexMark(D, v, V[v])
    <2> SUFFICES ASSUME NEW v \in copies PROVE VertexMark(D, v, V[v])
      OBVIOUS
    <2>1. PICK p \in e.vertex : v = Copy(x, p)
      OBVIOUS
    <2>2. Original(v) = p /\ Original(p) = p /\ V[v] = BodyIn(source.vertex, p)
      BY <1>2, <2>1 DEF ElementsInPlace
    <2>3. CASE p \in DOMAIN source.vertex
      <3>1. VertexMark(D, p, source.vertex[p]) /\ V[v] = source.vertex[p]
        BY <2>2, <2>3 DEF MarksAsked
      <3> HIDE DEF V
      <3> QED
        BY <2>2, <3>1 DEF VertexMark
    <2>4. CASE p \notin DOMAIN source.vertex
      <3>1. V[v] = Body(None)
        BY <2>2, <2>4
      <3> HIDE DEF V
      <3> QED
        BY <3>1, NoMarkIn
    <2> QED
      BY <2>3, <2>4
  <1>4. \A l \in linked : LinkMark(D, l, L[l])
    <2> SUFFICES ASSUME NEW l \in linked PROVE LinkMark(D, l, L[l])
      OBVIOUS
    <2>1. PICK m \in e.link : l = ToLink(m)
      OBVIOUS
    <2>2. m[1] \in PlainId /\ m[3] \in PlainId /\ IsLink(m)
      BY DEF ElementsInPlace, PlainLink
    <2>3. <<Tail(l[1]), l[2], Tail(l[3])>> = m /\ OriginalLink(l) = m /\ OriginalLink(m) = m
      BY <1>2, <2>1, <2>2 DEF OriginalLink, IsLink
    <2>4. L[l] = BodyIn(source.link, m)
      BY <2>3
    <2> HIDE DEF L
    <2>5. CASE m \in DOMAIN source.link
      <3>1. LinkMark(D, m, source.link[m]) /\ L[l] = source.link[m]
        BY <2>4, <2>5 DEF MarksAsked
      <3> QED
        BY <2>3, <3>1 DEF LinkMark
    <2>6. CASE m \notin DOMAIN source.link
      <3>1. L[l] = Body(None)
        BY <2>4, <2>6
      <3> QED
        BY <3>1, NoMarkIn
    <2> QED
      BY <2>5, <2>6
  <1>5. DOMAIN V = copies /\ DOMAIN L = linked /\ DOMAIN K = kept
        /\ \A l \in kept : l \in DOMAIN g.link /\ K[l] = g.link[l]
    BY DEF Restrict
  <1> HIDE DEF copies, linked, kept, V, L, K
  <1>6. h.vertex = Over(V, g.vertex) /\ h.link = Over(L, K)
    BY <1>1
  <1>7. \A v \in DOMAIN h.vertex : VertexMark(D, v, h.vertex[v])
    BY <1>3, <1>5, <1>6 DEF Over, MarksAsked
  <1>8. \A l \in DOMAIN h.link : LinkMark(D, l, h.link[l])
    BY <1>4, <1>5, <1>6 DEF Over, MarksAsked
  <1> QED
    BY <1>7, <1>8 DEF MarksAsked

LEMMA CopyIntoMarks ==
    ASSUME NEW x \in Tx, NEW g, InPlace(g), NEW D, MarksAsked(g, D), NEW e, CloneInPlace(e),
           NEW h, h = CopyInto(g, x, e)
    PROVE  MarksAsked(h, D)
  <1> DEFINE builtIn == [vertex |-> DOMAIN BuiltIn.vertex, link |-> BuiltInLinks]
             all == [vertex |-> g.vertex, link |-> Over(BuiltIn.link, g.link)]
             first == <<<<x>>, "graph", Copy(x, root)>>
             half == Paste(g, x, builtIn, BuiltIn)
             pasted == IF e.full THEN Paste(g, x, e, all) ELSE Paste(half, x, e, g)
  <1>1. h = [pasted EXCEPT !.link = Put(@, first, Body(None))]
    BY DEF CopyInto
  <1>2. ElementsInPlace(builtIn) /\ ElementsInPlace(e)
    BY BuiltInInPlace DEF ElementsInPlace, CloneInPlace
  <1>3. MarksAsked(BuiltIn, D)
    <2>1. \A v \in DOMAIN BuiltIn.vertex : BuiltIn.vertex[v] = Body(None)
      BY DEF BuiltIn
    <2>2. \A l \in DOMAIN BuiltIn.link : BuiltIn.link[l] = Body("group") \/ BuiltIn.link[l] = Body(None)
      BY DEF BuiltIn
    <2> QED
      BY <2>1, <2>2, NoMarkIn DEF MarksAsked
  <1>4. MarksAsked(all, D)
    BY <1>3 DEF MarksAsked, Over
  <1> HIDE DEF builtIn, all
  <1>5. MarksAsked(half, D)
    BY <1>2, <1>3, PasteMarks
  <1>6. MarksAsked(pasted, D) /\ IsGraph(pasted)
    <2>1. CASE e.full
      <3>1. MarksAsked(Paste(g, x, e, all), D)
        BY <1>2, <1>4, PasteMarks
      <3> QED
        BY <2>1, <3>1 DEF IsGraph, Paste
    <2>2. CASE ~ e.full
      <3> HIDE DEF half
      <3>1. MarksAsked(Paste(half, x, e, g), D)
        BY <1>2, <1>5, PasteMarks
      <3> QED
        BY <2>2, <3>1 DEF IsGraph, Paste
    <2> QED
      BY <2>1, <2>2
  <1> HIDE DEF pasted, first
  <1>7. h = CreateLink(pasted, first, Body(None))
    BY <1>1 DEF CreateLink
  <1>8. LinkMark(D, first, Body(None))
    BY NoMarkIn
  <1>9. /\ h.vertex = pasted.vertex /\ DOMAIN h.link = DOMAIN pasted.link \cup {first}
        /\ h.link[first] = Body(None) /\ \A l \in DOMAIN pasted.link \ {first} : h.link[l] = pasted.link[l]
    BY <1>6, <1>7, CreateLinkEffect
  <1> QED
    BY <1>6, <1>8, <1>9 DEF MarksAsked

\* nor a merge.
LEMMA MergeMarks ==
    ASSUME NEW g, IsGraph(g), NEW D, MarksAsked(g, D), NEW r, Merges(r), Harmless(D, r),
           NEW h, h = Apply(g, r)
    PROVE  MarksAsked(h, D)
  <1>1. CASE r.op \in {"vertexCreate", "vertexUpdate"}
    <2>1. Within({r.at}, r)
      BY <1>1 DEF Within
    <2> QED
      BY <2>1, RequestMarks
  <1>2. CASE r.op \in {"linkCreate", "linkUpdate"}
    <2>1. IsLink(r.at)
      BY <1>2 DEF Merges, PlainLink
    <2>2. Within({r.at[1], r.at[3]}, r)
      BY <1>2, <2>1 DEF Within
    <2> QED
      BY <2>2, RequestMarks
  <1>3. CASE r.op = "vertexDelete"
    <2>1. h = DeleteVertex(g, r.at)
      BY <1>3 DEF Apply
    <2>2. /\ \A v \in DOMAIN h.vertex : v \in DOMAIN g.vertex /\ h.vertex[v] = g.vertex[v]
          /\ \A l \in DOMAIN h.link : l \in DOMAIN g.link /\ h.link[l] = g.link[l]
      BY <2>1, DeleteVertexEffect
    <2> QED
      BY <2>2, LessMarked
  <1>4. CASE r.op = "linkDelete"
    <2>1. h = DeleteLink(g, r.at)
      BY <1>4 DEF Apply
    <2>2. /\ \A v \in DOMAIN h.vertex : v \in DOMAIN g.vertex /\ h.vertex[v] = g.vertex[v]
          /\ \A l \in DOMAIN h.link : l \in DOMAIN g.link /\ h.link[l] = g.link[l]
      BY <2>1, DeleteLinkEffect
    <2> QED
      BY <2>2, LessMarked
  <1> QED
    BY <1>1, <1>2, <1>3, <1>4 DEF Merges

-----------------------------------------------------------------------------
(* What is in the main graph stays, unless somebody asked for its deletion *)

Sure == astray = {} /\ root \notin asked.vertex

MainWhole(g) ==
    /\ root \in DOMAIN g.vertex
    /\ \A l \in DOMAIN g.link : PlainLink(l) => {l[1], l[3]} \subseteq DOMAIN g.vertex

\* What a merge counts on: the ends of a link are there by the time it is
\* merged, or known to be deleted; and until the vertices are merged, it knows
\* what the root leads to.
Foreseen(g, p) ==
    /\ \A l \in p.link : \A e \in {l[1], l[3]} :
         e \in p.vertex \/ Tail(e) \in DOMAIN g.vertex \cup p.deleted
    /\ p.vertex # {} => Reachable(g, root) \subseteq p.main.vertex

Kept ==
    Sure => /\ MarksAsked(graph, asked) /\ MainWhole(graph)
            /\ push # None => Foreseen(graph, push)

\* OnlyAskedIsDeleted, of a step.
OnlyAsked ==
    graph' # graph /\ astray = {} /\ root \notin asked.vertex =>
      LET lost == {v \in DOMAIN graph.vertex \ DOMAIN graph'.vertex : InMain(v)}
          lostLinks == {l \in DOMAIN graph.link \ DOMAIN graph'.link :
                          /\ InMain(l[1]) /\ InMain(l[3]) /\ {l[1], l[3]} \cap lost = {}}
      IN  /\ lost \subseteq asked.vertex
          /\ \A l \in lostLinks \ asked.link :
               {l[1], l[3]} \ Reachable(graph, root) # {}

\* As long as the main graph has what it had, nothing is lost.
LEMMA NothingLost ==
    ASSUME KeepsMain(graph, graph') \/ graph' = graph
    PROVE  OnlyAsked
  <1>1. CASE graph' = graph
    BY <1>1 DEF OnlyAsked
  <1>2. CASE KeepsMain(graph, graph')
    <2> DEFINE lost == {v \in DOMAIN graph.vertex \ DOMAIN graph'.vertex : InMain(v)}
               lostLinks == {l \in DOMAIN graph.link \ DOMAIN graph'.link :
                              /\ InMain(l[1]) /\ InMain(l[3]) /\ {l[1], l[3]} \cap lost = {}}
    <2>1. lost = {} /\ lostLinks = {}
      BY <1>2 DEF KeepsMain
    <2> HIDE DEF lost, lostLinks
    <2>2. /\ lost \subseteq asked.vertex
          /\ \A l \in lostLinks \ asked.link : {l[1], l[3]} \ Reachable(graph, root) # {}
      BY <2>1
    <2> QED
      BY <2>2 DEF OnlyAsked, lost, lostLinks
  <1> QED
    BY <1>1, <1>2

LEMMA PlainStays ==
    ASSUME NEW g, NEW h, KeepsMain(g, h)
    PROVE  /\ \A v \in PlainId : v \in DOMAIN g.vertex <=> v \in DOMAIN h.vertex
           /\ \A l : PlainLink(l) => (l \in DOMAIN g.link <=> l \in DOMAIN h.link)
  BY PlainFacts DEF KeepsMain, PlainLink

\* Fewer links lead to fewer vertices.
LEMMA ReachableShrinks ==
    ASSUME NEW g, InPlace(g), NEW h, InPlace(h), \A l \in DOMAIN h.link : PlainLink(l) => l \in DOMAIN g.link
    PROVE  Reachable(h, root) \subseteq Reachable(g, root)
  <1> DEFINE S == Reachable(g, root)
  <1>1. root \in S /\ Closed(g, S) /\ S \subseteq PlainId
    BY ReachableIsLeast, StateInPlace DEF InPlace
  <1> HIDE DEF S
  <1>2. Closed(h, S)
    BY <1>1, PlainLinksStay DEF Closed
  <1>3. Reachable(h, root) \subseteq S
    BY <1>1, <1>2, ReachableIsLeast DEF InPlace
  <1> QED
    BY <1>3 DEF S

\* What holds of the main graph holds on, and so does what a merge counts on.
LEMMA MainKept ==
    ASSUME NEW g, InPlace(g), NEW h, InPlace(h), KeepsMain(g, h), MainWhole(g)
    PROVE  /\ MainWhole(h)
           /\ \A p : p.tx \in Tx /\ MergedInPlace(p) /\ Foreseen(g, p) => Foreseen(h, p)
  <1>1. /\ \A v \in PlainId : v \in DOMAIN g.vertex <=> v \in DOMAIN h.vertex
        /\ \A l : PlainLink(l) => (l \in DOMAIN g.link <=> l \in DOMAIN h.link)
    BY PlainStays
  <1>2. MainWhole(h)
    BY <1>1, NamedIds DEF MainWhole, PlainLink
  <1>3. Reachable(h, root) \subseteq Reachable(g, root)
    BY <1>1, ReachableShrinks
  <1>4. ASSUME NEW p, p.tx \in Tx, MergedInPlace(p), Foreseen(g, p) PROVE Foreseen(h, p)
    <2>1. ASSUME NEW l \in p.link, NEW e \in {l[1], l[3]}, e \notin p.vertex
          PROVE  Tail(e) \in DOMAIN h.vertex \cup p.deleted
      <3>1. Tail(e) \in DOMAIN g.vertex \cup p.deleted
        BY <1>4, <2>1 DEF Foreseen
      <3>2. e \in Copies(p.tx)
        BY <1>4 DEF MergedInPlace
      <3>3. Tail(e) \in PlainId
        BY <1>4, <3>2, CopiesFacts
      <3> QED
        BY <1>1, <3>1, <3>3
    <2>2. p.vertex # {} => Reachable(h, root) \subseteq p.main.vertex
      BY <1>3, <1>4 DEF Foreseen
    <2> QED
      BY <2>1, <2>2 DEF Foreseen
  <1> QED
    BY <1>2, <1>4

\* Nothing changes of the main graph.
LEMMA KeptOn ==
    ASSUME Records, Apart, Apart', Kept, KeepsMain(graph, graph') \/ graph' = graph,
           astray \subseteq astray', asked.vertex \subseteq asked'.vertex,
           Sure' => MarksAsked(graph', asked'),
           push' # None => /\ push # None /\ push'.tx = push.tx /\ push'.vertex = push.vertex
                           /\ push'.link = push.link /\ push'.deleted = push.deleted /\ push'.main = push.main
    PROVE  Kept' /\ OnlyAsked
  <1>1. OnlyAsked
    BY NothingLost
  <1>2. ASSUME Sure' PROVE MainWhole(graph') /\ (push' # None => Foreseen(graph', push'))
    <2>1. Sure /\ {"copies", "keys"} \cap astray = {} /\ {"copies", "keys"} \cap astray' = {}
      BY <1>2 DEF Sure
    <2>2. InPlace(graph) /\ InPlace(graph') /\ MainWhole(graph)
      BY <2>1 DEF Apart, Kept
    <2>3. push' # None => push.tx \in Tx /\ MergedInPlace(push) /\ Foreseen(graph, push)
      BY <2>1 DEF Records, PushRecord, Apart, Kept
    <2>4. MainWhole(graph') /\ (push' # None => Foreseen(graph', push))
      BY <2>2, <2>3, MainKept
    <2> QED
      BY <2>4 DEF Foreseen
  <1> QED
    BY <1>1, <1>2 DEF Kept

LEMMA BeginKept ==
    ASSUME IInv, Records, Apart, Kept, NEW s \in Session, NEW x \in Tx, NEW clone \in Clones,
           Begin(s, x, clone)
    PROVE  Kept' /\ OnlyAsked
  <1>1. /\ graph' = CreateLink(UpdateVertex(graph, <<x>>, Body(None), "merge"),
                               <<txmaster, "tx", <<x>>>>, Body(None))
        /\ push' = Disturbed(x) /\ astray' = astray /\ asked' = asked
    BY DEF Begin
  <1>2. Apart' /\ ({"copies", "keys"} \cap astray = {} => KeepsMain(graph, graph'))
    BY BeginApart
  <1> SUFFICES ASSUME Sure PROVE Kept' /\ OnlyAsked
    BY <1>1 DEF Kept, OnlyAsked, Sure
  <1>3. {"copies", "keys"} \cap astray = {}
    BY DEF Sure
  <1>4. InPlace(graph) /\ MarksAsked(graph, asked)
    BY <1>3 DEF Apart, Kept
  <1>5. MarksAsked(graph', asked')
    BY <1>1, <1>4, BeginMarks DEF InPlace
  <1>6. push' # None => /\ push # None /\ push'.tx = push.tx /\ push'.vertex = push.vertex
                        /\ push'.link = push.link /\ push'.deleted = push.deleted /\ push'.main = push.main
    BY <1>1, DisturbedFields
  <1> QED
    BY <1>1, <1>2, <1>3, <1>5, <1>6, KeptOn

LEMMA CloneKept ==
    ASSUME IInv, Records, Apart, Kept, NEW s \in Session, Clone(s)
    PROVE  Kept' /\ OnlyAsked
  <1> DEFINE x == session[s].tx
             elements == toCopy[s]
             AllBut(e) == [full |-> elements.full, vertex |-> elements.vertex \ {e}, link |-> elements.link \ {e}]
  <1>1. /\ session[s].at = "cloning" /\ push' = push /\ astray' = astray /\ asked' = asked
        /\ \/ graph' = CopyInto(graph, x, elements)
           \/ \E e : graph' = CopyInto(graph, x, AllBut(e))
    BY DEF Clone
  <1>2. Apart' /\ ({"copies", "keys"} \cap astray = {} => KeepsMain(graph, graph'))
    BY CloneApart
  <1> SUFFICES ASSUME Sure PROVE Kept' /\ OnlyAsked
    BY <1>1 DEF Kept, OnlyAsked, Sure
  <1>3. {"copies", "keys"} \cap astray = {} /\ x \in Tx
    BY <1>1 DEF Sure, IInv, TypeOK
  <1>4. InPlace(graph) /\ MarksAsked(graph, asked) /\ CloneInPlace(elements)
    BY <1>1, <1>3 DEF Apart, Kept
  <1>5. \A e : CloneInPlace(AllBut(e))
    <2> HIDE DEF elements
    <2> QED
      BY <1>4, AllButInPlace
  <1>6. MarksAsked(graph', asked')
    <2> HIDE DEF elements, x, AllBut
    <2> QED
      BY <1>1, <1>3, <1>4, <1>5, CopyIntoMarks
  <1> QED
    BY <1>1, <1>2, <1>3, <1>6, KeptOn

\* A call brings the marks that it asks for.
LEMMA CallTxKept ==
    ASSUME IInv, Records, Apart, Kept, NEW s \in Session, NEW c \in Calls, CallTx(s, c)
    PROVE  Kept' /\ OnlyAsked
  <1> DEFINE x == session[s].tx
             asks == Asks(graph, x, c)
  <1>1. /\ session[s].at = "open" /\ push' = Disturbed(x)
        /\ astray' = astray \cup Strays(graph, x, c)
        /\ asked'.vertex = asked.vertex \cup asks.vertex
        /\ asked'.link = asked.link \cup asks.link
    BY DEF CallTx
  <1>2. PICK plan \in TxPlans(graph, x, c) : DoneOf(graph, plan, graph')
    BY DEF CallTx, DoneOf
  <1>3. Apart' /\ ({"copies", "keys"} \cap astray = {} => KeepsMain(graph, graph'))
    BY CallTxApart
  <1> SUFFICES ASSUME Sure PROVE Kept' /\ OnlyAsked
    BY <1>1 DEF Kept, OnlyAsked, Sure
  <1>4. {"copies", "keys"} \cap astray = {} /\ x \in Tx
    BY <1>1 DEF Sure, IInv, TypeOK
  <1>5. InPlace(graph) /\ MarksAsked(graph, asked)
    BY <1>4 DEF Apart, Kept
  <1> HIDE DEF x, asks
  <1>6. MarksAsked(graph, asked')
    BY <1>1, <1>5, MoreAsked
  <1>7. ASSUME Sure' PROVE MarksAsked(graph', asked')
    <2>1. Strays(graph, x, c) = {}
      BY <1>1, <1>7 DEF Sure
    <2> DEFINE sure == TRUE
               D == asked'
    <2>2. sure \in BOOLEAN /\ sure
      OBVIOUS
    <2>3. asks.vertex \subseteq D.vertex /\ asks.link \subseteq D.link
      BY <1>1
    <2>4. Asks(graph, x, c).vertex \subseteq D.vertex /\ Asks(graph, x, c).link \subseteq D.link
      BY <2>3 DEF asks
    <2>5. MarksAsked(graph, D)
      BY <1>6
    <2> HIDE DEF sure, D
    <2>6. Did(x, graph, c, D, sure, graph')
      BY <1>2, <1>4, <1>5, <2>1, <2>2, <2>4, <2>5, CallIsProper
    <2>7. PICK I, R : \E rs \in Seq(R) :
             graph' = ApplyAll(graph, rs) /\ \A r \in R : Good(I, D, sure, r)
      BY <2>6 DEF Did
    <2>8. \A r \in R : Within(I, r) /\ Harmless(D, r)
      BY <2>2, <2>7 DEF Good
    <2>9. MarksAsked(graph', D)
      BY <1>5, <2>5, <2>7, <2>8, RequestsMark DEF InPlace
    <2> QED
      BY <2>9 DEF D
  <1>8. push' # None => /\ push # None /\ push'.tx = push.tx /\ push'.vertex = push.vertex
                        /\ push'.link = push.link /\ push'.deleted = push.deleted /\ push'.main = push.main
    BY <1>1, DisturbedFields
  <1> QED
    BY <1>1, <1>3, <1>4, <1>7, <1>8, KeptOn

\* The graph stays as it is.
LEMMA OthersKept ==
    ASSUME IInv, Records, Apart, Kept, NEW s \in Session,
           BeginFail(s) \/ CommitTimeout(s) \/ \E mode \in Modes : Commit(s, mode)
    PROVE  Kept' /\ OnlyAsked
  <1>1. graph' = graph /\ push' = push /\ astray' = astray /\ asked' = asked
    BY DEF BeginFail, Commit, CommitTimeout
  <1> QED
    BY <1>1 DEF Kept, OnlyAsked, Sure, Foreseen

\* A merge begins with all that the two roots lead to.
LEMMA PushBeginKept ==
    ASSUME IInv, Records, Apart, Kept, PushBegin
    PROVE  Kept' /\ OnlyAsked
  <1> DEFINE x == Head(pushes).tx
             own == State(graph, Copy(x, root))
             main == State(graph, root)
  <1>1. /\ graph' = graph /\ astray' = astray /\ asked' = asked
        /\ push'.vertex = own.vertex /\ push'.link = own.link /\ push'.main = main
    BY DEF PushBegin
  <1> SUFFICES ASSUME Sure PROVE Foreseen(graph, push')
    BY <1>1 DEF Kept, OnlyAsked, Sure
  <1>2. IsFiniteSet(DOMAIN graph.link) /\ root \in DOMAIN graph.vertex
    BY DEF Sure, Apart, InPlace, Kept, MainWhole
  <1>3. main.vertex = Reachable(graph, root)
    BY <1>2 DEF State
  <1>4. \A l \in own.link : l[1] \in own.vertex /\ l[3] \in own.vertex
    <2> DEFINE S == Reachable(graph, Copy(x, root))
    <2>1. own.vertex = {} \/ own.vertex = S
      BY DEF State
    <2>2. Closed(graph, S)
      BY <1>2, ReachableIsLeast
    <2>3. \A l \in own.link : l \in DOMAIN graph.link /\ l[1] \in own.vertex
      BY DEF State
    <2> HIDE DEF S, own
    <2> QED
      BY <2>1, <2>2, <2>3 DEF Closed
  <1> HIDE DEF own, main
  <1> QED
    BY <1>1, <1>3, <1>4 DEF Foreseen

\* The request that merges a vertex, by what it does.
LEMMA VertexRequestIs ==
    ASSUME Records, push # None, MergedInPlace(push), NEW k \in push.vertex,
           NEW v, v = Tail(k), NEW r, r = VertexRequest(k)
    PROVE  /\ v \in PlainId /\ Original(k) = v /\ Original(v) = v
           /\ \/ v \notin push.main.vertex /\ r = VCreate(v, graph.vertex[k])
              \/ graph.vertex[k].gone /\ r = VDelete(v)
              \/ r = VUpdate(v, graph.vertex[k], push.mode)
  <1>1. push.tx \in Tx /\ k \in Copies(push.tx)
    BY DEF Records, PushRecord, MergedInPlace
  <1>2. Normal(push.tx, k) = v /\ v \in PlainId /\ k = Copy(push.tx, v)
    BY <1>1, CopiesFacts
  <1>3. Original(k) = v /\ Original(v) = v
    BY <1>1, <1>2, RoomFacts, PlainIsOriginal DEF Room
  <1>4. r = IF v \notin push.main.vertex THEN VCreate(v, graph.vertex[k])
            ELSE IF graph.vertex[k].gone THEN VDelete(v)
            ELSE VUpdate(v, graph.vertex[k], push.mode)
    BY <1>2 DEF VertexRequest
  <1> QED
    BY <1>2, <1>3, <1>4

-----------------------------------------------------------------------------
(* A merge deletes what is marked *)

\* A vertex goes with a mark; one that is created again is not led to by the root.
LEMMA PushVertexKept ==
    ASSUME IInv, Records, Apart, Kept, push # None, NEW k \in push.vertex, PushVertex(k)
    PROVE  Kept' /\ OnlyAsked
  <1> DEFINE v == Tail(k)
             r == VertexRequest(k)
             body == graph.vertex[k]
  <1>1. astray' = astray /\ asked' = asked /\ k \in DOMAIN graph.vertex
    BY DEF PushVertex
  <1> SUFFICES ASSUME Sure PROVE Kept' /\ OnlyAsked
    BY <1>1 DEF Kept, OnlyAsked, Sure
  <1>2. /\ InPlace(graph) /\ IsGraph(graph) /\ MergedInPlace(push) /\ MarksAsked(graph, asked)
        /\ MainWhole(graph) /\ Foreseen(graph, push) /\ root \notin asked.vertex
    BY DEF Sure, Apart, Kept, InPlace
  <1>3. /\ graph' = Apply(graph, r)
        /\ push'.tx = push.tx /\ push'.vertex = push.vertex \ {k}
        /\ push'.link = push.link /\ push'.main = push.main
        /\ push'.deleted = IF r.op = "vertexDelete" THEN push.deleted \cup {r.at} ELSE push.deleted
    BY PushVertexDoes
  <1>4. /\ v \in PlainId /\ Original(k) = v /\ Original(v) = v
        /\ \/ v \notin push.main.vertex /\ r = VCreate(v, body)
           \/ body.gone /\ r = VDelete(v)
           \/ r = VUpdate(v, body, push.mode)
    BY <1>2, VertexRequestIs
  <1>5. VertexMark(asked, v, body) /\ (body.gone => v \in asked.vertex)
    BY <1>1, <1>2, <1>4 DEF MarksAsked, VertexMark
  <1> HIDE DEF v, r, body
  <1>6. Merges(r) /\ Harmless(asked, r)
    BY <1>4, <1>5 DEF Merges, Harmless, VCreate, VDelete, VUpdate
  <1>7. InPlace(graph') /\ MarksAsked(graph', asked)
    BY <1>2, <1>3, <1>6, MergeInPlace, MergeMarks
  \* The three cases, by what becomes of the vertices and links.
  <1>8. /\ DOMAIN graph'.link \subseteq DOMAIN graph.link
        /\ \/ /\ v \notin push.main.vertex /\ r.op # "vertexDelete"
              /\ DOMAIN graph'.vertex = DOMAIN graph.vertex \cup {v}
              /\ DOMAIN graph.link \ DOMAIN graph'.link \subseteq Severed(graph, v)
           \/ /\ v \in asked.vertex /\ r.op = "vertexDelete" /\ r.at = v
              /\ DOMAIN graph'.vertex = DOMAIN graph.vertex \ {v}
              /\ DOMAIN graph'.link = DOMAIN graph.link \ Severed(graph, v)
           \/ /\ r.op # "vertexDelete"
              /\ DOMAIN graph'.vertex = DOMAIN graph.vertex \cup {v} /\ graph'.link = graph.link
    <2>1. CASE v \notin push.main.vertex /\ r = VCreate(v, body)
      <3>1. graph' = CreateVertex(graph, v, body) /\ r.op # "vertexDelete"
        BY <1>3, <2>1 DEF Apply, VCreate
      <3>2. /\ DOMAIN graph'.vertex = DOMAIN graph.vertex \cup {v}
            /\ v \in DOMAIN graph.vertex => DOMAIN graph'.link = DOMAIN graph.link \ Severed(graph, v)
            /\ v \notin DOMAIN graph.vertex => DOMAIN graph'.link = DOMAIN graph.link
        BY <1>2, <3>1, CreateVertexEffect
      <3> QED
        BY <2>1, <3>1, <3>2
    <2>2. CASE body.gone /\ r = VDelete(v)
      <3>1. graph' = DeleteVertex(graph, v) /\ r.op = "vertexDelete" /\ r.at = v
        BY <1>3, <2>2 DEF Apply, VDelete
      <3>2. /\ DOMAIN graph'.vertex = DOMAIN graph.vertex \ {v}
            /\ DOMAIN graph'.link = DOMAIN graph.link \ Severed(graph, v)
        BY <3>1, DeleteVertexEffect
      <3> QED
        BY <1>5, <2>2, <3>1, <3>2
    <2>3. CASE r = VUpdate(v, body, push.mode)
      <3>1. graph' = UpdateVertex(graph, v, body, push.mode) /\ r.op # "vertexDelete"
        BY <1>3, <2>3 DEF Apply, VUpdate
      <3>2. DOMAIN graph'.vertex = DOMAIN graph.vertex \cup {v} /\ graph'.link = graph.link
        BY <1>2, <3>1, UpdateVertexEffect
      <3> QED
        BY <3>1, <3>2
    <2> QED
      BY <1>4, <2>1, <2>2, <2>3
  <1>9. MainWhole(graph')
    BY <1>2, <1>8 DEF MainWhole, Severed, PlainLink, Touching
  <1>10. Foreseen(graph', push')
    <2>1. push'.vertex # {} => Reachable(graph', root) \subseteq push'.main.vertex
      <3>1. Reachable(graph', root) \subseteq Reachable(graph, root)
        BY <1>2, <1>7, <1>8, ReachableShrinks
      <3> QED
        BY <1>2, <1>3, <3>1 DEF Foreseen
    <2>2. ASSUME NEW l \in push'.link, NEW e \in {l[1], l[3]}, e \notin push'.vertex
          PROVE  Tail(e) \in DOMAIN graph'.vertex \cup push'.deleted
      <3>1. CASE e = k
        BY <3>1, <1>3, <1>8 DEF v
      <3>2. CASE e # k
        <4>1. Tail(e) \in DOMAIN graph.vertex \cup push.deleted
          BY <3>2, <2>2, <1>2, <1>3 DEF Foreseen
        <4> QED
          BY <4>1, <1>3, <1>8
      <3> QED
        BY <3>1, <3>2
    <2> QED
      BY <2>1, <2>2 DEF Foreseen
  <1>11. OnlyAsked
    <2> DEFINE lost == {u \in DOMAIN graph.vertex \ DOMAIN graph'.vertex : InMain(u)}
               lostLinks == {l \in DOMAIN graph.link \ DOMAIN graph'.link :
                              /\ InMain(l[1]) /\ InMain(l[3]) /\ {l[1], l[3]} \cap lost = {}}
    <2>1. lost \subseteq asked.vertex
      BY <1>8
    <2>2. ASSUME NEW l \in lostLinks PROVE {l[1], l[3]} \ Reachable(graph, root) # {}
      <3>1. l \in DOMAIN graph.link \ DOMAIN graph'.link /\ {l[1], l[3]} \cap lost = {}
        OBVIOUS
      <3>2. l \in Severed(graph, v)
        BY <1>8, <3>1
      <3>3. v \in {l[1], l[3]}
        BY <3>2 DEF Severed, Touching
      <3>4. ASSUME DOMAIN graph'.vertex = DOMAIN graph.vertex \ {v} PROVE FALSE
        <4>1. v \in DOMAIN graph.vertex
          <5>1. PlainLink(l)
            BY <1>2, <1>4, <3>1, <3>3, PlainLinksStay
          <5> QED
            BY <1>2, <3>1, <3>3, <5>1 DEF MainWhole
        <4>2. v \in lost
          BY <1>4, <3>4, <4>1, PlainFacts
        <4> QED
          BY <3>1, <3>3, <4>2
      <3>5. v \notin push.main.vertex
        BY <1>8, <3>1, <3>4
      <3>6. v \notin Reachable(graph, root)
        BY <1>2, <3>5 DEF Foreseen
      <3> QED
        BY <3>3, <3>6
    <2> HIDE DEF lost, lostLinks
    <2>3. /\ lost \subseteq asked.vertex
          /\ \A l \in lostLinks \ asked.link : {l[1], l[3]} \ Reachable(graph, root) # {}
      BY <2>1, <2>2
    <2> QED
      BY <2>3 DEF OnlyAsked, lost, lostLinks
  <1> QED
    BY <1>1, <1>7, <1>9, <1>10, <1>11 DEF Kept

\* A link goes with a mark, and is created between vertices that are there.
LEMMA PushLinkKept ==
    ASSUME IInv, Records, Apart, Kept, push # None, NEW l \in push.link, PushLink(l)
    PROVE  Kept' /\ OnlyAsked
  <1> DEFINE m == NormalLink(push.tx, l)
             r == LinkRequest(l)
             body == graph.link[l]
  <1>1. /\ astray' = astray /\ asked' = asked /\ l \in DOMAIN graph.link
        /\ \A k \in push.vertex : VertexRequest(k).at \in DOMAIN graph.vertex
        /\ {Normal(push.tx, l[1]), Normal(push.tx, l[3])} \cap push.deleted = {}
    BY DEF PushLink, IdleVertex, IdleLink
  <1> SUFFICES ASSUME Sure PROVE Kept' /\ OnlyAsked
    BY <1>1 DEF Kept, OnlyAsked, Sure
  <1>2. /\ InPlace(graph) /\ IsGraph(graph) /\ MergedInPlace(push) /\ MarksAsked(graph, asked)
        /\ MainWhole(graph) /\ Foreseen(graph, push) /\ push.tx \in Tx
    BY DEF Sure, Apart, Kept, InPlace, Records, PushRecord
  <1>3. /\ graph' = Apply(graph, r)
        /\ push'.tx = push.tx /\ push'.vertex = {} /\ push'.link = push.link \ {l}
        /\ push'.main = push.main /\ push'.deleted = push.deleted
    BY PushLinkDoes
  <1>4. /\ Merges(r) /\ r.at = m /\ m = <<Tail(l[1]), l[2], Tail(l[3])>>
        /\ Tail(l[1]) \in PlainId /\ Tail(l[3]) \in PlainId
    BY <1>2, LinkRequestMerges
  <1>5. \A e : e \in push.vertex => Tail(e) \in DOMAIN graph.vertex
    BY <1>1, <1>2, VertexRequestMerges
  <1>6. Tail(l[1]) \in DOMAIN graph.vertex /\ Tail(l[3]) \in DOMAIN graph.vertex
    <2>1. Tail(l[1]) \notin push.deleted /\ Tail(l[3]) \notin push.deleted
      BY <1>1, <1>4 DEF NormalLink
    <2> QED
      BY <1>2, <1>5, <2>1 DEF Foreseen
  <1>7. LinkMark(asked, m, body) /\ (body.gone => m \in asked.link)
    <2>1. LinkMark(asked, l, body)
      BY <1>1, <1>2 DEF MarksAsked
    <2>2. /\ l[1] = Copy(push.tx, Tail(l[1])) /\ l[3] = Copy(push.tx, Tail(l[3]))
      BY <1>2, CopiesFacts DEF MergedInPlace
    <2>3. /\ Original(l[1]) = Tail(l[1]) /\ Original(l[3]) = Tail(l[3])
          /\ Original(Tail(l[1])) = Tail(l[1]) /\ Original(Tail(l[3])) = Tail(l[3])
      BY <1>2, <1>4, <2>2, RoomFacts, PlainIsOriginal DEF Room
    <2> HIDE DEF m
    <2>4. OriginalLink(l) = m /\ OriginalLink(m) = m
      BY <1>4, <2>3 DEF OriginalLink
    <2> HIDE DEF body
    <2> QED
      BY <2>1, <2>4 DEF LinkMark
  <1>8. \/ r = LCreate(m, body) \/ r = LUpdate(m, body)
        \/ body.gone /\ r = LDelete(m)
    BY DEF LinkRequest
  <1> HIDE DEF m, r, body
  <1>9. Harmless(asked, r)
    BY <1>7, <1>8 DEF Harmless, LCreate, LUpdate, LDelete
  <1>10. InPlace(graph') /\ MarksAsked(graph', asked)
    BY <1>2, <1>3, <1>4, <1>9, MergeInPlace, MergeMarks
  <1>11. /\ graph'.vertex = graph.vertex
         /\ DOMAIN graph'.link \subseteq DOMAIN graph.link \cup {m}
         /\ DOMAIN graph.link \ DOMAIN graph'.link \subseteq asked.link
    <2>1. CASE r = LCreate(m, body)
      <3>1. graph' = CreateLink(graph, m, body)
        BY <1>3, <2>1 DEF Apply, LCreate
      <3> QED
        BY <1>2, <3>1, CreateLinkEffect
    <2>2. CASE r = LUpdate(m, body)
      <3>1. graph' = UpdateLink(graph, m, body)
        BY <1>3, <2>2 DEF Apply, LUpdate
      <3> QED
        BY <1>2, <3>1, UpdateLinkEffect
    <2>3. CASE body.gone /\ r = LDelete(m)
      <3>1. graph' = DeleteLink(graph, m)
        BY <1>3, <2>3 DEF Apply, LDelete
      <3>2. graph'.vertex = graph.vertex /\ DOMAIN graph'.link = DOMAIN graph.link \ {m}
        BY <1>2, <3>1, DeleteLinkEffect
      <3> QED
        BY <1>7, <2>3, <3>2
    <2> QED
      BY <1>8, <2>1, <2>2, <2>3
  <1>12. MainWhole(graph')
    <2>1. m[1] \in DOMAIN graph.vertex /\ m[3] \in DOMAIN graph.vertex
      BY <1>4, <1>6
    <2> QED
      BY <1>2, <1>11, <2>1 DEF MainWhole
  <1>13. Foreseen(graph', push')
    BY <1>2, <1>3, <1>5, <1>11 DEF Foreseen
  <1>14. OnlyAsked
    <2> DEFINE lost == {u \in DOMAIN graph.vertex \ DOMAIN graph'.vertex : InMain(u)}
               lostLinks == {k \in DOMAIN graph.link \ DOMAIN graph'.link :
                              /\ InMain(k[1]) /\ InMain(k[3]) /\ {k[1], k[3]} \cap lost = {}}
    <2>1. lost = {} /\ lostLinks \subseteq asked.link
      BY <1>11
    <2> HIDE DEF lost, lostLinks
    <2>2. /\ lost \subseteq asked.vertex
          /\ \A k \in lostLinks \ asked.link : {k[1], k[3]} \ Reachable(graph, root) # {}
      BY <2>1
    <2> QED
      BY <2>2 DEF OnlyAsked, lost, lostLinks
  <1> QED
    BY <1>1, <1>10, <1>12, <1>13, <1>14 DEF Kept

LEMMA PushOverKept ==
    ASSUME IInv, Records, Apart, Kept, PushAbort \/ PushEnd
    PROVE  Kept' /\ OnlyAsked
  <1>1. push' = None /\ astray' = astray /\ asked' = asked
    BY DEF PushAbort, PushEnd, Committed
  <1> SUFFICES ASSUME Sure PROVE Kept' /\ OnlyAsked
    BY <1>1 DEF Kept, OnlyAsked, Sure
  <1>2. {"copies", "keys"} \cap astray = {} /\ MarksAsked(graph, asked)
    BY DEF Sure, Kept
  <1>3. /\ Apart'
        /\ graph' # graph =>
             /\ KeepsMain(graph, graph')
             /\ \A v \in DOMAIN graph'.vertex : v \in DOMAIN graph.vertex /\ graph'.vertex[v] = graph.vertex[v]
             /\ \A l \in DOMAIN graph'.link : l \in DOMAIN graph.link /\ graph'.link[l] = graph.link[l]
    BY <1>2, PushOverApart
  <1>4. MarksAsked(graph', asked')
    BY <1>1, <1>2, <1>3, LessMarked
  <1> QED
    BY <1>1, <1>3, <1>4, KeptOn

LEMMA InitKept == Init => Kept
  <1> SUFFICES ASSUME Init PROVE Kept
    OBVIOUS
  <1>1. graph \in Start /\ push = None /\ Unmarked(graph)
    BY StartIsUnmarked DEF Init
  <1>2. MainWhole(graph)
    BY <1>1 DEF Unmarked, MainWhole
  <1>3. MarksAsked(graph, asked)
    <2>1. /\ \A v \in DOMAIN graph.vertex : graph.vertex[v].gone = FALSE
          /\ \A l \in DOMAIN graph.link : graph.link[l].gone = FALSE
      BY <1>1 DEF Unmarked, Body
    <2> QED
      BY <2>1 DEF MarksAsked, VertexMark, LinkMark
  <1> QED
    BY <1>1, <1>2, <1>3 DEF Kept

\* What a merge counts on holds throughout, and nothing else is deleted.
LEMMA StepKept ==
    ASSUME IInv, Records, Apart, Kept, [Next]_vars
    PROVE  Kept' /\ (Next => OnlyAsked)
  <1>1. CASE UNCHANGED vars
    BY <1>1 DEF vars, Kept, OnlyAsked, Sure, Foreseen
  <1>2. CASE Next
    BY <1>2, BeginKept, CloneKept, CallTxKept, OthersKept, PushBeginKept, PushVertexKept,
       PushLinkKept, PushOverKept DEF Next
  <1> QED
    BY <1>1, <1>2

\* Whatever commits follow each other and wherever one of them breaks off, an
\* element of the main graph goes only if a session asked for that, or with a
\* vertex that goes or that the root does not lead to; as long as no call has
\* strayed, and nobody asked for the deletion of the root.
THEOREM OthersAreNotDeleted == Spec => OnlyAskedIsDeleted
  <1>1. Spec => [](IInv /\ Records /\ Apart /\ Kept)
    <2>1. IInv /\ Records /\ Apart /\ Kept /\ [Next]_vars => Records' /\ Apart' /\ Kept'
      BY StepApart, StepKept
    <2> QED
      BY <2>1, InitApart, InitKept, Inductive, PTL DEF Spec
  <1>2. IInv /\ Records /\ Apart /\ Kept /\ [Next]_vars =>
          [graph' # graph /\ astray = {} /\ root \notin asked.vertex =>
             LET lost == {v \in DOMAIN graph.vertex \ DOMAIN graph'.vertex : InMain(v)}
                 lostLinks == {l \in DOMAIN graph.link \ DOMAIN graph'.link :
                                 /\ InMain(l[1]) /\ InMain(l[3]) /\ {l[1], l[3]} \cap lost = {}}
             IN  /\ lost \subseteq asked.vertex
                 /\ \A l \in lostLinks \ asked.link :
                      {l[1], l[3]} \ Reachable(graph, root) # {}]_vars
    BY StepKept DEF OnlyAsked
  <1> QED
    BY <1>1, <1>2, PTL DEF Spec, OnlyAskedIsDeleted
=============================================================================
