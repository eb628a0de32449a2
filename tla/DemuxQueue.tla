------------------------------- MODULE DemuxQueue -------------------------------
(***************************************************************************)
(* DemuxQueue<T> of src/longpoll.cpp: a std::queue, a closed_ flag, a      *)
(* mutex and a condition variable.  The longpoll worker pushes, any number *)
(* of threads pull, any number of threads close.                           *)
(*                                                                         *)
(* Every critical section of m_ is one action, so the mutex needs no       *)
(* variable.  What the code does OUTSIDE the mutex is an action of its     *)
(* own: the notify_one() after a push and the notify_all() after a close   *)
(* come later than the change they announce, and any thread may run in     *)
(* between.                                                                *)
(***************************************************************************)
EXTENDS Naturals, Sequences, FiniteSets

CONSTANTS Consumers,   \* the threads that call pull()
          Closers,     \* the threads that call close()
          MaxPush      \* bound: how many times push() is called

ASSUME DQAssumption == IsFiniteSet(Consumers) /\ MaxPush \in Nat

VARIABLES q,           \* q_; the n-th value ever pushed is the number n
          closed,      \* closed_
          pc,          \* per consumer: "idle", "check" (holds or wants m_, about
                       \*   to evaluate the predicate) or "wait" (blocked in cv_)
          notifying,   \* push() has released m_ and not yet called notify_one()
          closing,     \* closers that released m_ and not yet called notify_all()
          pushed,      \* how often push() was called
          taken        \* the values pull() returned, in that order

vars == <<q, closed, pc, notifying, closing, pushed, taken>>

Waiting == {c \in Consumers : pc[c] = "wait"}
Checking == {c \in Consumers : pc[c] = "check"}

Init ==
  /\ q = <<>>
  /\ closed = FALSE
  /\ pc = [c \in Consumers |-> "idle"]
  /\ notifying = FALSE
  /\ closing = {}
  /\ pushed = 0
  /\ taken = <<>>

-----------------------------------------------------------------------------
(* push(): one thread, the poll's worker. *)

\* Mutant: notify only on the transition from empty to non-empty.
PushNotifiesIfEmpty ==
  /\ ~notifying
  /\ pushed < MaxPush
  /\ pushed' = pushed + 1
  /\ q' = IF closed THEN q ELSE Append(q, pushed + 1)
  /\ notifying' = (~closed /\ q = <<>>)
  /\ UNCHANGED <<closed, pc, closing, taken>>

\* Mutant: the newest value is served first.
StoredInFront(v) == <<v>> \o q

\* Where a new value goes.
Stored(v) == Append(q, v)

\* The locked half of push(): a closed queue drops the value and returns
\* without notifying anybody.
Push ==
  /\ ~notifying
  /\ pushed < MaxPush
  /\ pushed' = pushed + 1
  /\ \/ /\ closed
        /\ UNCHANGED <<q, notifying>>
     \/ /\ ~closed
        /\ q' = Stored(pushed + 1)
        /\ notifying' = TRUE
  /\ UNCHANGED <<closed, pc, closing, taken>>

\* cv_.notify_one(): wakes one waiter if there is one.
NotifyOne ==
  /\ notifying
  /\ notifying' = FALSE
  /\ \/ /\ Waiting = {}
        /\ UNCHANGED pc
     \/ \E c \in Waiting : pc' = [pc EXCEPT ![c] = "check"]
  /\ UNCHANGED <<q, closed, closing, pushed, taken>>

-----------------------------------------------------------------------------
(* close() *)

\* The locked half of close(); idempotent, and it notifies every time.
Close(k) ==
  /\ k \notin closing
  /\ closed' = TRUE
  /\ closing' = closing \cup {k}
  /\ UNCHANGED <<q, pc, notifying, pushed, taken>>

\* Mutant: notify_one() where notify_all() is needed.
WokenOne ==
  IF Waiting = {} THEN pc
  ELSE [pc EXCEPT ![CHOOSE c \in Waiting : TRUE] = "check"]

\* cv_.notify_all() wakes every waiter.
Woken == [c \in Consumers |-> IF pc[c] = "wait" THEN "check" ELSE pc[c]]

NotifyAll(k) ==
  /\ k \in closing
  /\ closing' = closing \ {k}
  /\ pc' = Woken
  /\ UNCHANGED <<q, closed, notifying, pushed, taken>>

-----------------------------------------------------------------------------
(* pull() *)

Pull(c) ==
  /\ pc[c] = "idle"
  /\ pc' = [pc EXCEPT ![c] = "check"]
  /\ UNCHANGED <<q, closed, notifying, closing, pushed, taken>>

\* pull() takes a value whenever there is one, closed or not.
MayTake == q # <<>>

\* Mutant: the front is returned and stays queued.
NotPopped == q

\* q_.pop() removes the value that was returned.
Popped == Tail(q)

\* The predicate of cv_.wait holds and there is a value: pop the front.
Take(c) ==
  /\ pc[c] = "check"
  /\ MayTake
  /\ taken' = Append(taken, Head(q))
  /\ q' = Popped
  /\ pc' = [pc EXCEPT ![c] = "idle"]
  /\ UNCHANGED <<closed, notifying, closing, pushed>>

\* The predicate holds because the queue is closed: return nullopt.
ReturnNull(c) ==
  /\ pc[c] = "check"
  /\ ~MayTake
  /\ closed
  /\ pc' = [pc EXCEPT ![c] = "idle"]
  /\ UNCHANGED <<q, closed, notifying, closing, pushed, taken>>

\* The predicate is false: release m_ and block in one step.
Block(c) ==
  /\ pc[c] = "check"
  /\ q = <<>>
  /\ ~closed
  /\ pc' = [pc EXCEPT ![c] = "wait"]
  /\ UNCHANGED <<q, closed, notifying, closing, pushed, taken>>

\* A condition variable may wake a waiter nobody notified.
SpuriousWakeup(c) ==
  /\ pc[c] = "wait"
  /\ pc' = [pc EXCEPT ![c] = "check"]
  /\ UNCHANGED <<q, closed, notifying, closing, pushed, taken>>

-----------------------------------------------------------------------------
Next ==
  \/ Push \/ NotifyOne
  \/ \E k \in Closers : Close(k) \/ NotifyAll(k)
  \/ \E c \in Consumers :
       Pull(c) \/ Take(c) \/ ReturnNull(c) \/ Block(c) \/ SpuriousWakeup(c)

\* A thread inside push, close or pull keeps running; nobody is obliged to
\* call them.
Fairness ==
  /\ WF_vars(NotifyOne)
  /\ \A k \in Closers : WF_vars(NotifyAll(k))
  /\ \A c \in Consumers : WF_vars(Take(c) \/ ReturnNull(c) \/ Block(c))

Spec == Init /\ [][Next]_vars /\ Fairness

-----------------------------------------------------------------------------
(* Properties *)

\* Every variable has its type, and no value is in two places: the values
\* returned and the values queued are never more than the values pushed.
TypeOK ==
  /\ q \in Seq(Nat)
  /\ closed \in BOOLEAN
  /\ pc \in [Consumers -> {"idle", "check", "wait"}]
  /\ notifying \in BOOLEAN
  /\ closing \in SUBSET Closers
  /\ pushed \in 0..MaxPush
  /\ taken \in Seq(Nat)
  /\ Len(taken) + Len(q) <= pushed

\* While a thread is blocked in pull(), every queued value already has a
\* thread on its way to it, or the notify_one() of its push is still to come:
\* push() notifies after it released the mutex and wakes ONE thread, which is
\* only enough if no wake-up is ever wasted.
NoValueStranded ==
  Waiting # {} =>
    Len(q) <= Cardinality(Checking) + (IF notifying THEN 1 ELSE 0)

\* While a thread is blocked on a closed queue, some close() has its
\* notify_all() still to come: nobody can fall asleep after the last one.
NoCloseMissed ==
  closed /\ Waiting # {} => closing # {}

\* No thread sleeps in pull() through what should have woken it, although push()
\* and close() notify only after they released the mutex.
NoWakeupLost == NoValueStranded /\ NoCloseMissed

\* What pull() returned so far, followed by what is still queued, is every
\* accepted value once and in the order of the pushes, however many threads
\* pull at the same time.
EachOnceInOrder ==
  /\ \A i \in 1..Len(taken) : taken[i] = i
  /\ \A i \in 1..Len(q) : q[i] = Len(taken) + i
  /\ ~closed => Len(taken) + Len(q) = pushed

\* The queue behaves as the stream of module EventStream: the wait, the
\* wake-ups and the re-checks of the predicate are invisible outside.
ES == INSTANCE EventStream
        WITH items <- q, shut <- closed, offered <- pushed, received <- taken,
             pull <- [c \in Consumers |->
                        IF pc[c] = "idle" THEN "idle" ELSE "pulling"]

ImplementsStream == ES!ESSpec

\* The part of it that says what the queue never does.
ImplementsStreamSafety == ES!ESSafety
=================================================================================
