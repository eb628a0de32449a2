---------------------------- MODULE DemuxQueueProofs ----------------------------
(***************************************************************************)
(* Theorems about DemuxQueue for every set of consumers and closers and    *)
(* every number of pushes: its types, the two wake-up invariants, the      *)
(* order of delivery, and that each step is a step of EventStream.         *)
(***************************************************************************)
EXTENDS DemuxQueue, FiniteSetTheorems, TLAPS

USE DQAssumption DEF DQAssumption

\* Every variable keeps its type and no value is in two places (TypeOK is
\* inductive by itself).
THEOREM TypeCorrect == Spec => []TypeOK
<1>1. ASSUME Init PROVE TypeOK
  <2>1. q \in Seq(Nat) /\ taken \in Seq(Nat)
    BY <1>1 DEF Init
  <2>2. pushed \in 0..MaxPush /\ Len(taken) + Len(q) <= pushed
    BY <1>1 DEF Init
  <2>3. /\ closed \in BOOLEAN /\ notifying \in BOOLEAN /\ closing \in SUBSET Closers
        /\ pc \in [Consumers -> {"idle", "check", "wait"}]
    BY <1>1 DEF Init
  <2> QED
    BY <2>1, <2>2, <2>3 DEF TypeOK
<1>2. TypeOK /\ [Next]_vars => TypeOK'
  <2> SUFFICES ASSUME TypeOK, [Next]_vars PROVE TypeOK'
    OBVIOUS
  <2> USE DEF TypeOK
  <2>1. CASE Push
    <3>1. CASE closed
      BY <2>1, <3>1 DEF Push
    <3>2. CASE ~closed
      <4>1. q' = Append(q, pushed + 1) /\ pushed' = pushed + 1 /\ taken' = taken
        BY <2>1, <3>2 DEF Push, Stored
      <4>2. pushed + 1 \in Nat /\ pushed' \in 0..MaxPush
        BY <2>1, <4>1 DEF Push
      <4>3. Append(q, pushed + 1) \in Seq(Nat) /\ Len(q') = Len(q) + 1
        BY <4>1, <4>2
      <4>4. Len(taken') + Len(q') <= pushed'
        BY <4>1, <4>3
      <4> QED
        BY <2>1, <4>1, <4>2, <4>3, <4>4 DEF Push
    <3> QED
      BY <3>1, <3>2
  <2>2. CASE NotifyOne
    BY <2>2 DEF NotifyOne, Waiting
  <2>3. ASSUME NEW k \in Closers, Close(k) \/ NotifyAll(k)
        PROVE  TypeOK'
    BY <2>3 DEF Close, NotifyAll, Woken
  <2>4. ASSUME NEW c \in Consumers, Take(c)
        PROVE  TypeOK'
    BY <2>4 DEF Take, MayTake, Popped
  <2>5. ASSUME NEW c \in Consumers,
               Pull(c) \/ ReturnNull(c) \/ Block(c) \/ SpuriousWakeup(c)
        PROVE  TypeOK'
    BY <2>5 DEF Pull, ReturnNull, Block, SpuriousWakeup
  <2>6. CASE UNCHANGED vars
    BY <2>6 DEF vars
  <2> QED
    BY <2>1, <2>2, <2>3, <2>4, <2>5, <2>6 DEF Next
<1> QED
  BY <1>1, <1>2, PTL DEF Spec

-----------------------------------------------------------------------------
\* The consumers about to evaluate the predicate are finitely many, so they
\* can be counted.
LEMMA CheckingFinite == IsFiniteSet(Checking) /\ Cardinality(Checking) \in Nat
<1>1. Checking \subseteq Consumers
  BY DEF Checking
<1> QED
  BY <1>1, FS_Subset, FS_CardinalityType

\* When one more consumer is about to check, the count grows by one.
LEMMA CheckerJoins ==
  ASSUME TypeOK, NEW c \in Consumers, pc[c] # "check",
         pc' = [pc EXCEPT ![c] = "check"]
  PROVE  Cardinality(Checking') = Cardinality(Checking) + 1
<1>1. Checking' = Checking \cup {c} /\ c \notin Checking
  BY DEF Checking, TypeOK
<1> QED
  BY <1>1, CheckingFinite, FS_AddElement

\* When a consumer that was about to check no longer is, the count shrinks by
\* one.
LEMMA CheckerLeaves ==
  ASSUME TypeOK, NEW c \in Consumers, pc[c] = "check", NEW s \in {"idle", "wait"},
         pc' = [pc EXCEPT ![c] = s]
  PROVE  Cardinality(Checking') = Cardinality(Checking) - 1
<1>1. Checking' = Checking \ {c} /\ c \in Checking
  BY DEF Checking, TypeOK
<1> QED
  BY <1>1, CheckingFinite, FS_RemoveElement

\* No value is left behind while a thread is blocked: push() may notify late
\* and wake only one thread, for any number of consumers.
THEOREM NoLostWakeup == Spec => []NoValueStranded
<1>1. Init => NoValueStranded
  BY DEF Init, NoValueStranded, Waiting
<1>2. TypeOK /\ TypeOK' /\ NoValueStranded /\ [Next]_vars => NoValueStranded'
  <2> SUFFICES ASSUME TypeOK, TypeOK', NoValueStranded, [Next]_vars
               PROVE  NoValueStranded'
    OBVIOUS
  <2>0. Len(q) \in Nat /\ Len(q') \in Nat /\ notifying \in BOOLEAN
        /\ Cardinality(Checking) \in Nat
    BY CheckingFinite DEF TypeOK
  <2>1. CASE Push
    <3>1. Waiting' = Waiting /\ Checking' = Checking
      BY <2>1 DEF Push, Waiting, Checking
    <3>2. \/ q' = q /\ notifying' = notifying
          \/ Len(q') = Len(q) + 1 /\ ~notifying /\ notifying'
      BY <2>1 DEF Push, Stored, TypeOK
    <3> QED
      BY <2>0, <3>1, <3>2 DEF NoValueStranded
  <2>2. CASE NotifyOne
    <3>1. CASE Waiting = {}
      <4>1. pc' = pc
        BY <2>2, <3>1 DEF NotifyOne
      <4> QED
        BY <3>1, <4>1 DEF NoValueStranded, Waiting
    <3>2. CASE Waiting # {}
      <4>1. PICK c \in Waiting : pc' = [pc EXCEPT ![c] = "check"]
        BY <2>2, <3>2 DEF NotifyOne
      <4>2. c \in Consumers /\ pc[c] # "check"
        BY DEF Waiting
      <4>3. Cardinality(Checking') = Cardinality(Checking) + 1
        BY <4>1, <4>2, CheckerJoins
      <4> QED
        BY <2>0, <2>2, <3>2, <4>3 DEF NotifyOne, NoValueStranded
    <3> QED
      BY <3>1, <3>2
  <2>3. ASSUME NEW k \in Closers, Close(k)
        PROVE  NoValueStranded'
    BY <2>3 DEF Close, NoValueStranded, Waiting, Checking
  <2>4. ASSUME NEW k \in Closers, NotifyAll(k)
        PROVE  NoValueStranded'
    <3>1. Waiting' = {}
      BY <2>4 DEF NotifyAll, Woken, Waiting
    <3> QED
      BY <3>1 DEF NoValueStranded
  <2>5. ASSUME NEW c \in Consumers, Pull(c) \/ SpuriousWakeup(c)
        PROVE  NoValueStranded'
    <3>1. Cardinality(Checking') = Cardinality(Checking) + 1
      BY <2>5, CheckerJoins DEF Pull, SpuriousWakeup
    <3>2. Waiting' \subseteq Waiting /\ q' = q /\ notifying' = notifying
      BY <2>5 DEF Pull, SpuriousWakeup, Waiting, TypeOK
    <3> QED
      BY <2>0, <3>1, <3>2 DEF NoValueStranded
  <2>6. ASSUME NEW c \in Consumers, Take(c)
        PROVE  NoValueStranded'
    <3>1. Cardinality(Checking') = Cardinality(Checking) - 1
      BY <2>6, CheckerLeaves DEF Take
    <3>2. Waiting' = Waiting /\ notifying' = notifying
      BY <2>6 DEF Take, Waiting, TypeOK
    <3>3. Len(q') = Len(q) - 1
      BY <2>6 DEF Take, MayTake, Popped, TypeOK
    <3> QED
      BY <2>0, <3>1, <3>2, <3>3 DEF NoValueStranded
  <2>7. ASSUME NEW c \in Consumers, ReturnNull(c) \/ Block(c)
        PROVE  NoValueStranded'
    <3>1. Len(q') = 0
      BY <2>7 DEF ReturnNull, Block, MayTake, TypeOK
    <3>2. Cardinality(Checking') \in Nat
      <4>1. Checking' \subseteq Consumers
        BY DEF Checking
      <4> QED
        BY <4>1, FS_Subset, FS_CardinalityType
    <3> QED
      BY <3>1, <3>2 DEF NoValueStranded
  <2>8. CASE UNCHANGED vars
    BY <2>8 DEF vars, NoValueStranded, Waiting, Checking
  <2> QED
    BY <2>1, <2>2, <2>3, <2>4, <2>5, <2>6, <2>7, <2>8 DEF Next
<1> QED
  BY <1>1, <1>2, TypeCorrect, PTL DEF Spec

-----------------------------------------------------------------------------
\* Nobody stays blocked on a closed queue without a notify_all() to come.
THEOREM NoCloseIsMissed == Spec => []NoCloseMissed
<1>1. Init => NoCloseMissed
  BY DEF Init, NoCloseMissed
<1>2. TypeOK /\ NoCloseMissed /\ [Next]_vars => NoCloseMissed'
  <2> SUFFICES ASSUME TypeOK, NoCloseMissed, [Next]_vars
               PROVE  NoCloseMissed'
    OBVIOUS
  <2> USE DEF NoCloseMissed, Waiting, TypeOK
  <2>1. CASE Push
    BY <2>1 DEF Push
  <2>2. CASE NotifyOne
    BY <2>2 DEF NotifyOne
  <2>3. ASSUME NEW k \in Closers, Close(k)
        PROVE  NoCloseMissed'
    BY <2>3 DEF Close
  <2>4. ASSUME NEW k \in Closers, NotifyAll(k)
        PROVE  NoCloseMissed'
    BY <2>4 DEF NotifyAll, Woken
  <2>5. ASSUME NEW c \in Consumers,
               Pull(c) \/ Take(c) \/ ReturnNull(c) \/ Block(c) \/ SpuriousWakeup(c)
        PROVE  NoCloseMissed'
    BY <2>5 DEF Pull, Take, ReturnNull, Block, SpuriousWakeup
  <2>6. CASE UNCHANGED vars
    BY <2>6 DEF vars
  <2> QED
    BY <2>1, <2>2, <2>3, <2>4, <2>5, <2>6 DEF Next
<1> QED
  BY <1>1, <1>2, TypeCorrect, PTL DEF Spec

\* Values come out once each, in the order they went in, for any number of
\* consumers.
THEOREM DeliveredOnceInOrder == Spec => []EachOnceInOrder
<1>1. Init => EachOnceInOrder
  BY DEF Init, EachOnceInOrder
<1>2. TypeOK /\ EachOnceInOrder /\ [Next]_vars => EachOnceInOrder'
  <2> SUFFICES ASSUME TypeOK, EachOnceInOrder, [Next]_vars
               PROVE  EachOnceInOrder'
    OBVIOUS
  <2> USE DEF EachOnceInOrder, TypeOK
  <2>1. CASE Push
    <3>1. CASE closed
      BY <2>1, <3>1 DEF Push
    <3>2. CASE ~closed
      <4>1. q' = Append(q, pushed + 1) /\ taken' = taken /\ closed' = closed
            /\ pushed' = pushed + 1 /\ pushed \in Nat
        BY <2>1, <3>2 DEF Push, Stored
      <4>2. /\ Len(q) \in Nat /\ Len(taken) \in Nat /\ Len(taken') = Len(taken)
            /\ Len(q') = Len(q) + 1 /\ Len(taken) + Len(q) = pushed
        BY <3>2, <4>1
      <4>3. ASSUME NEW i \in 1..Len(q')
            PROVE  q'[i] = Len(taken') + i
        <5>1. CASE i \in 1..Len(q)
          <6>1. q'[i] = q[i]
            BY <4>1, <5>1
          <6> QED
            BY <4>1, <5>1, <6>1
        <5>2. CASE i = Len(q) + 1
          <6>1. q'[i] = pushed + 1
            BY <4>1, <5>2
          <6> HIDE DEF TypeOK, EachOnceInOrder
          <6> QED
            BY <4>2, <5>2, <6>1
        <5> QED
          BY <4>2, <5>1, <5>2
      <4>4. Len(taken') + Len(q') = pushed'
        <5> HIDE DEF TypeOK, EachOnceInOrder
        <5> QED
          BY <4>1, <4>2
      <4> QED
        BY <4>1, <4>3, <4>4
    <3> QED
      BY <3>1, <3>2
  <2>2. CASE NotifyOne
    BY <2>2 DEF NotifyOne
  <2>3. ASSUME NEW k \in Closers, Close(k) \/ NotifyAll(k)
        PROVE  EachOnceInOrder'
    BY <2>3 DEF Close, NotifyAll
  <2>4. ASSUME NEW c \in Consumers, Take(c)
        PROVE  EachOnceInOrder'
    <3>1. q # <<>> /\ taken' = Append(taken, Head(q)) /\ q' = Tail(q)
          /\ closed' = closed /\ pushed' = pushed
      BY <2>4 DEF Take, MayTake, Popped
    <3>2. Len(taken') = Len(taken) + 1 /\ Len(q') = Len(q) - 1
      BY <3>1
    <3>3. Head(q) = Len(taken) + 1
      BY <3>1
    <3>4. \A i \in 1..Len(taken') : taken'[i] = i
      BY <3>1, <3>2, <3>3
    <3>5. \A i \in 1..Len(q') : q'[i] = q[i + 1]
      BY <3>1, <3>2
    <3>6. \A i \in 1..Len(q') : q'[i] = Len(taken') + i
      BY <3>2, <3>5
    <3>7. Len(taken') + Len(q') = Len(taken) + Len(q)
      BY <3>2
    <3> QED
      BY <3>1, <3>4, <3>6, <3>7
  <2>5. ASSUME NEW c \in Consumers,
               Pull(c) \/ ReturnNull(c) \/ Block(c) \/ SpuriousWakeup(c)
        PROVE  EachOnceInOrder'
    BY <2>5 DEF Pull, ReturnNull, Block, SpuriousWakeup
  <2>6. CASE UNCHANGED vars
    BY <2>6 DEF vars
  <2> QED
    BY <2>1, <2>2, <2>3, <2>4, <2>5, <2>6 DEF Next
<1> QED
  BY <1>1, <1>2, TypeCorrect, PTL DEF Spec

\* Whatever the number of threads, nobody sleeps in pull() through the push or the
\* close that should have woken it.
THEOREM NoWakeupIsLost == Spec => []NoWakeupLost
<1>1. NoValueStranded /\ NoCloseMissed => NoWakeupLost
  BY DEF NoWakeupLost
<1> QED
  BY <1>1, NoLostWakeup, NoCloseIsMissed, PTL

-----------------------------------------------------------------------------
\* The queue never does what the stream of EventStream may not do: the
\* detailed specification implements the safety part of the abstract one.
THEOREM QueueIsStream == Spec => ImplementsStreamSafety
<1> DEFINE pulling == [c \in Consumers |->
                         IF pc[c] = "idle" THEN "idle" ELSE "pulling"]
<1>1. Init => ES!ESInit
  BY DEF Init, ES!ESInit
<1>2. TypeOK /\ [Next]_vars => [ES!ESNext]_(ES!esVars)
  <2> SUFFICES ASSUME TypeOK, [Next]_vars
               PROVE  ES!ESNext \/ UNCHANGED ES!esVars
    OBVIOUS
  <2> USE DEF TypeOK
  <2>1. CASE Push
    BY <2>1 DEF Push, Stored, ES!ESNext, ES!Offer
  <2>2. CASE NotifyOne
    <3>1. pulling' = pulling
      BY <2>2 DEF NotifyOne, Waiting
    <3> QED
      BY <2>2, <3>1 DEF NotifyOne, ES!esVars
  <2>3. ASSUME NEW k \in Closers, Close(k)
        PROVE  ES!Shut
    BY <2>3 DEF Close, ES!Shut
  <2>4. ASSUME NEW k \in Closers, NotifyAll(k)
        PROVE  UNCHANGED ES!esVars
    <3>1. pulling' = pulling
      BY <2>4 DEF NotifyAll, Woken
    <3> QED
      BY <2>4, <3>1 DEF NotifyAll, ES!esVars
  <2>5. ASSUME NEW c \in Consumers, Pull(c)
        PROVE  ES!Ask(c)
    <3>1. pulling' = [pulling EXCEPT ![c] = "pulling"] /\ pulling[c] = "idle"
      BY <2>5 DEF Pull
    <3> QED
      BY <2>5, <3>1 DEF Pull, ES!Ask
  <2>6. ASSUME NEW c \in Consumers, Take(c)
        PROVE  ES!Receive(c)
    <3>1. pulling' = [pulling EXCEPT ![c] = "idle"] /\ pulling[c] = "pulling"
      BY <2>6 DEF Take
    <3> QED
      BY <2>6, <3>1 DEF Take, MayTake, Popped, ES!Receive
  <2>7. ASSUME NEW c \in Consumers, ReturnNull(c)
        PROVE  ES!End(c)
    <3>1. pulling' = [pulling EXCEPT ![c] = "idle"] /\ pulling[c] = "pulling"
      BY <2>7 DEF ReturnNull
    <3> QED
      BY <2>7, <3>1 DEF ReturnNull, MayTake, ES!End
  <2>8. ASSUME NEW c \in Consumers, Block(c) \/ SpuriousWakeup(c)
        PROVE  UNCHANGED ES!esVars
    <3>1. pulling' = pulling
      BY <2>8 DEF Block, SpuriousWakeup
    <3> QED
      BY <2>8, <3>1 DEF Block, SpuriousWakeup, ES!esVars
  <2>9. CASE UNCHANGED vars
    BY <2>9 DEF vars, ES!esVars
  <2> QED
    BY <2>1, <2>2, <2>3, <2>4, <2>5, <2>6, <2>7, <2>8, <2>9 DEF Next, ES!ESNext
<1> QED
  BY <1>1, <1>2, TypeCorrect, PTL DEF Spec, ImplementsStreamSafety, ES!ESSafety
=================================================================================
