------------------------------ MODULE Subscription ------------------------------
(***************************************************************************)
(* What a longpoll subscription promises, with no requests, cursors,       *)
(* failures or reconnects in sight: from some moment on (the first, when   *)
(* the caller says where to resume) every event the server records is      *)
(* handed on exactly once and in order, or skipped if it makes no sense,   *)
(* until the subscription ends.  LongpollDelivery implements it.           *)
(***************************************************************************)
EXTENDS Naturals, Sequences

CONSTANTS Events,       \* what may happen at the server
          Readable      \* the events that make sense to the client

VARIABLES log,          \* what happened at the server, oldest first
          next,         \* the position in log to hand on next; 0: not begun
          delivered,    \* what was handed on
          ended         \* the subscription is over

subVars == <<log, next, delivered, ended>>

SubInit ==
  /\ log = <<>>
  /\ next \in {0, 1}
  /\ delivered = <<>>
  /\ ended = FALSE

Happens ==
  /\ \E e \in Events : log' = Append(log, e)
  /\ UNCHANGED <<next, delivered, ended>>

\* "Start from now", where now is any moment up to the present.
Begin ==
  /\ ~ended
  /\ next = 0
  /\ next' \in 1..(Len(log) + 1)
  /\ UNCHANGED <<log, delivered, ended>>

\* The event at position i is handed on, or skipped when nobody can read it.
HandOn(i) ==
  /\ ~ended
  /\ i \in 1..Len(log)
  /\ next' = i + 1
  /\ delivered' = IF log[i] \in Readable THEN Append(delivered, log[i]) ELSE delivered
  /\ UNCHANGED <<log, ended>>

HandOnNext == next > 0 /\ HandOn(next)

\* The first event the subscription sees may also be where it begins.
HandOnFirst == next = 0 /\ \E i \in 1..Len(log) : HandOn(i)

Finish ==
  /\ ended' = TRUE
  /\ UNCHANGED <<log, next, delivered>>

SubNext == Happens \/ Begin \/ HandOnNext \/ HandOnFirst \/ Finish

SubSafety == SubInit /\ [][SubNext]_subVars

\* An event that makes sense does not wait for ever; the client is not promised
\* to get past one that does not.
HandOnReadable == HandOnNext /\ log[next] \in Readable
SubFair == WF_subVars(HandOnReadable)
SubSpec == SubSafety /\ SubFair
=================================================================================
