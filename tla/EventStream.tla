------------------------------ MODULE EventStream ------------------------------
(***************************************************************************)
(* What one stream of a longpoll subscription (matches, notifications or   *)
(* errors) promises to the threads that pull from it, with nothing said    *)
(* about locks, condition variables or wake-ups: values come out in the    *)
(* order they were put in, each to exactly one pull; once the stream is    *)
(* shut nothing more goes in; and a pull is told "no more" only when the   *)
(* stream is shut and everything that went in has come out.                *)
(*                                                                         *)
(* DemuxQueue implements this specification, and LongpollPoll composes     *)
(* three streams that behave this way.                                     *)
(***************************************************************************)
EXTENDS Naturals, Sequences

CONSTANTS Consumers,   \* the threads that pull
          MaxPush      \* bound: how many values are ever offered

VARIABLES items,       \* offered, accepted and not yet pulled, oldest first
          shut,        \* nothing more is accepted
          pull,        \* per consumer: "idle" or "pulling"
          offered,     \* how many values were offered; the n-th value is n
          received     \* every value pulled so far, in the order it was pulled

esVars == <<items, shut, pull, offered, received>>

ESInit ==
  /\ items = <<>>
  /\ shut = FALSE
  /\ pull = [c \in Consumers |-> "idle"]
  /\ offered = 0
  /\ received = <<>>

\* A value is offered; a stream that is shut drops it.
Offer ==
  /\ offered < MaxPush
  /\ offered' = offered + 1
  /\ items' = IF shut THEN items ELSE Append(items, offered + 1)
  /\ UNCHANGED <<shut, pull, received>>

Shut ==
  /\ shut' = TRUE
  /\ UNCHANGED <<items, pull, offered, received>>

Ask(c) ==
  /\ pull[c] = "idle"
  /\ pull' = [pull EXCEPT ![c] = "pulling"]
  /\ UNCHANGED <<items, shut, offered, received>>

\* A pull is answered with the oldest value.
Receive(c) ==
  /\ pull[c] = "pulling"
  /\ items # <<>>
  /\ received' = Append(received, Head(items))
  /\ items' = Tail(items)
  /\ pull' = [pull EXCEPT ![c] = "idle"]
  /\ UNCHANGED <<shut, offered>>

\* A pull is told that there is nothing left and never will be.
End(c) ==
  /\ pull[c] = "pulling"
  /\ items = <<>>
  /\ shut
  /\ pull' = [pull EXCEPT ![c] = "idle"]
  /\ UNCHANGED <<items, shut, offered, received>>

ESNext ==
  \/ Offer
  \/ Shut
  \/ \E c \in Consumers : Ask(c) \/ Receive(c) \/ End(c)

\* Available values reach some pull that waits for one, and every pull on a
\* stream that stays shut and empty is released.
ESFairness ==
  /\ WF_esVars(\E c \in Consumers : Receive(c))
  /\ \A c \in Consumers : WF_esVars(End(c))

ESSafety == ESInit /\ [][ESNext]_esVars
ESSpec == ESSafety /\ ESFairness
================================================================================
