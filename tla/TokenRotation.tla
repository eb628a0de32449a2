------------------------------ MODULE TokenRotation -----------------------------
(***************************************************************************)
(* Rotating the API token while requests are made: AudD::set_api_token and *)
(* AudD::api_token (src/client.cpp), HttpClient::set_api_token and the     *)
(* injection of the token into each HTTP request (src/http_client.cpp).    *)
(*                                                                         *)
(* The token is kept three times: by the client itself, under its          *)
(* token_mutex, and by each of its two HttpClients, each under a mutex of  *)
(* its own.  set_api_token holds token_mutex while it writes all three.    *)
(* Tokens are numbered in the order of the rotations, so an older token is *)
(* a smaller number.  An empty new token is rejected before any of this.   *)
(***************************************************************************)
EXTENDS Integers

CONSTANTS Rotators,     \* threads inside set_api_token
          Callers,      \* threads that make requests or ask for the token
          Nobody,
          MaxRotations  \* bound on the number of rotations

ASSUME TokenAssumption ==
  /\ Nobody \notin Rotators
  /\ MaxRotations \in Nat

Copies == {"api_token", "standard", "enterprise"}

VARIABLES token,    \* the three copies
          holder,   \* the rotator that holds token_mutex, or Nobody
          stage,    \* the copy each rotator writes next
          new,      \* the token it was given
          rotations,\* rotations begun
          returned, \* the newest token whose set_api_token has returned
          pc, copy, \* where a caller is, and the copy it reads
          promised, \* returned, when the caller's call began
          sent      \* the token the caller's HTTP request carries

rotationVars == <<token, holder, stage, new, rotations, returned>>
callerVars == <<pc, copy, promised, sent>>
vars == <<rotationVars, callerVars>>

Init ==
  /\ token = [c \in Copies |-> 0]
  /\ holder = Nobody
  /\ stage = [w \in Rotators |-> "idle"]
  /\ new = [w \in Rotators |-> 0]
  /\ rotations = 0
  /\ returned = 0
  /\ pc = [c \in Callers |-> "idle"]
  /\ copy = [c \in Callers |-> "standard"]
  /\ promised = [c \in Callers |-> 0]
  /\ sent = [c \in Callers |-> 0]

---------------------------------------------------------------------------------
(* set_api_token *)

\* Mutant: the three copies are written without the mutex.
LockNothing(w) ==
  /\ stage[w] = "idle"
  /\ rotations < MaxRotations
  /\ holder' = w
  /\ rotations' = rotations + 1
  /\ new' = [new EXCEPT ![w] = rotations + 1]
  /\ token' = [token EXCEPT !["api_token"] = rotations + 1]
  /\ stage' = [stage EXCEPT ![w] = "standard"]
  /\ UNCHANGED <<returned, callerVars>>

\* The first copy is read under the same mutex: taking it and writing are one step.
Lock(w) ==
  /\ holder = Nobody
  /\ stage[w] = "idle"
  /\ rotations < MaxRotations
  /\ holder' = w
  /\ rotations' = rotations + 1
  /\ new' = [new EXCEPT ![w] = rotations + 1]
  /\ token' = [token EXCEPT !["api_token"] = rotations + 1]
  /\ stage' = [stage EXCEPT ![w] = "standard"]
  /\ UNCHANGED <<returned, callerVars>>

SetStandard(w) ==
  /\ stage[w] = "standard"
  /\ token' = [token EXCEPT !["standard"] = new[w]]
  /\ stage' = [stage EXCEPT ![w] = "enterprise"]
  /\ UNCHANGED <<holder, new, rotations, returned, callerVars>>

\* Mutant: the enterprise client keeps its token.
SetEnterpriseForgotten(w) ==
  /\ stage[w] = "enterprise"
  /\ token' = token
  /\ stage' = [stage EXCEPT ![w] = "unlock"]
  /\ UNCHANGED <<holder, new, rotations, returned, callerVars>>

SetEnterprise(w) ==
  /\ stage[w] = "enterprise"
  /\ token' = [token EXCEPT !["enterprise"] = new[w]]
  /\ stage' = [stage EXCEPT ![w] = "unlock"]
  /\ UNCHANGED <<holder, new, rotations, returned, callerVars>>

Unlock(w) ==
  /\ stage[w] = "unlock"
  /\ holder' = Nobody
  /\ returned' = IF new[w] > returned THEN new[w] ELSE returned
  /\ stage' = [stage EXCEPT ![w] = "idle"]
  /\ UNCHANGED <<token, new, rotations, callerVars>>

---------------------------------------------------------------------------------
(* Requests, and api_token() as it is read for the longpoll category *)

Begin(c) ==
  /\ pc[c] = "idle"
  /\ copy' \in {[copy EXCEPT ![c] = which] : which \in Copies}
  /\ promised' = [promised EXCEPT ![c] = returned]
  /\ pc' = [pc EXCEPT ![c] = "called"]
  /\ UNCHANGED <<rotationVars, sent>>

\* The token is copied into the request, or to the caller of api_token(), under
\* the mutex of the copy.
Inject(c) ==
  /\ pc[c] = "called"
  /\ copy[c] = "api_token" => holder = Nobody
  /\ sent' = [sent EXCEPT ![c] = token[copy[c]]]
  /\ pc' = [pc EXCEPT ![c] = "in flight"]
  /\ UNCHANGED <<rotationVars, copy, promised>>

\* Each attempt of a retried call injects the token anew.
Retry(c) ==
  /\ pc[c] = "in flight"
  /\ copy[c] # "api_token"
  /\ pc' = [pc EXCEPT ![c] = "called"]
  /\ UNCHANGED <<rotationVars, copy, promised, sent>>

\* What the call kept goes with it.
Done(c) ==
  /\ pc[c] = "in flight"
  /\ pc' = [pc EXCEPT ![c] = "idle"]
  /\ copy' = [copy EXCEPT ![c] = "standard"]
  /\ promised' = [promised EXCEPT ![c] = 0]
  /\ sent' = [sent EXCEPT ![c] = 0]
  /\ UNCHANGED rotationVars

---------------------------------------------------------------------------------

Rotate(w) == Lock(w) \/ SetStandard(w) \/ SetEnterprise(w) \/ Unlock(w)
Call(c) == Begin(c) \/ Inject(c) \/ Retry(c) \/ Done(c)

Next == (\E w \in Rotators : Rotate(w)) \/ (\E c \in Callers : Call(c))

Spec == Init /\ [][Next]_vars

---------------------------------------------------------------------------------
(* Properties *)

\* Every variable has its type; the rotator inside set_api_token holds the mutex.
TypeOK ==
  /\ token \in [Copies -> Nat]
  /\ holder \in Rotators \cup {Nobody}
  /\ stage \in [Rotators -> {"idle", "standard", "enterprise", "unlock"}]
  /\ \A w \in Rotators : stage[w] # "idle" <=> holder = w
  /\ new \in [Rotators -> Nat]
  /\ rotations \in 0..MaxRotations
  /\ returned \in Nat
  /\ pc \in [Callers -> {"idle", "called", "in flight"}]
  /\ copy \in [Callers -> Copies]
  /\ promised \in [Callers -> Nat]
  /\ sent \in [Callers -> Nat]

\* The three copies are the same whenever nobody is rotating the token, however
\* many threads rotated it at once: none of them is left behind for good.
CopiesAgree ==
  holder = Nobody => \A c, d \in Copies : token[c] = token[d]

\* "The token used for subsequent requests": a request, or a retry of one, that
\* began after set_api_token had returned carries that token or a newer one.
NoStaleToken ==
  \A c \in Callers : pc[c] = "in flight" => sent[c] >= promised[c]

\* No copy ever goes back to an older token.
CopiesMoveForward == [][\A c \in Copies : token'[c] >= token[c]]_vars
=================================================================================
