--------------------------- MODULE ClientObjectProofs ---------------------------
(***************************************************************************)
(* Proofs about ClientObject, and about TokenRotation inside it, for any   *)
(* number of builders, rotators, callers, rotations and failures.          *)
(***************************************************************************)
EXTENDS ClientObject, TLAPS

USE TokenAssumption, ClientAssumption DEF TokenAssumption, ClientAssumption

\* How far the rotation that holds the mutex has come: the copies it has written
\* have the newest token, and no copy is older than what set_api_token returned.
StageTells ==
  /\ holder = Nobody => \A c \in Copies : token[c] = rotations
  /\ \A w \in Rotators : stage[w] # "idle" =>
       new[w] = rotations /\ token["api_token"] = rotations
  /\ \A w \in Rotators : stage[w] \in {"enterprise", "unlock"} =>
       token["standard"] = rotations
  /\ \A w \in Rotators : stage[w] = "unlock" => token["enterprise"] = rotations
  /\ \A c \in Copies : token[c] <= rotations
  /\ \A c \in Copies : returned <= token[c]

PromisesKept ==
  \A c \in Callers :
    promised[c] <= returned /\ (pc[c] = "in flight" => sent[c] >= promised[c])

\* The part of TypeOK a rotation can touch, and the part a caller can.
RotationTypes ==
  /\ token \in [Copies -> Nat]
  /\ holder \in Rotators \cup {Nobody}
  /\ stage \in [Rotators -> {"idle", "standard", "enterprise", "unlock"}]
  /\ \A w \in Rotators : stage[w] # "idle" <=> holder = w
  /\ new \in [Rotators -> Nat]
  /\ rotations \in Nat /\ rotations <= MaxRotations
  /\ returned \in Nat

CallerTypes ==
  /\ pc \in [Callers -> {"idle", "called", "in flight"}]
  /\ copy \in [Callers -> Copies]
  /\ promised \in [Callers -> Nat]
  /\ sent \in [Callers -> Nat]

LEMMA TypesSplit == TypeOK <=> RotationTypes /\ CallerTypes
<1>1. rotations \in 0..MaxRotations <=> rotations \in Nat /\ rotations <= MaxRotations
  OBVIOUS
<1>2. QED BY <1>1, Zenon DEF TypeOK, RotationTypes, CallerTypes

RotationInv == RotationTypes /\ StageTells
IInv == RotationInv /\ CallerTypes /\ PromisesKept

LEMMA InitInv == Init => IInv
<1> SUFFICES ASSUME Init PROVE IInv
  OBVIOUS
<1>1. RotationTypes
  BY DEF Init, RotationTypes, Copies
<1>2. StageTells
  BY DEF Init, StageTells
<1>3. CallerTypes /\ PromisesKept
  BY DEF Init, CallerTypes, PromisesKept, Copies
<1>4. QED BY <1>1, <1>2, <1>3 DEF IInv, RotationInv

LEMMA LockStep ==
  ASSUME RotationInv, NEW w \in Rotators, Lock(w)
  PROVE  RotationInv' /\ returned' = returned /\ \A c \in Copies : token'[c] >= token[c]
<1> USE DEF RotationInv
<1>1. \A v \in Rotators : stage[v] = "idle"
  BY DEF Lock, RotationTypes
<1>2. \A c \in Copies : token[c] = rotations
  BY DEF Lock, StageTells
<1>3. rotations \in Nat /\ rotations' = rotations + 1 /\ returned' = returned /\ holder' = w
  BY DEF Lock, RotationTypes
<1>4. \A c \in Copies : token'[c] = IF c = "api_token" THEN rotations + 1 ELSE rotations
  BY <1>2 DEF Lock, RotationTypes, Copies
<1>5. \A v \in Rotators : stage'[v] = IF v = w THEN "standard" ELSE "idle"
  BY <1>1 DEF Lock, RotationTypes
<1>6. new'[w] = rotations + 1
  BY DEF Lock, RotationTypes
<1>7. RotationTypes'
  <2>1. token' \in [Copies -> Nat] /\ new' \in [Rotators -> Nat]
    <3>1. rotations + 1 \in Nat
      BY <1>3
    <3>2. token' = [token EXCEPT !["api_token"] = rotations + 1]
          /\ new' = [new EXCEPT ![w] = rotations + 1]
      BY DEF Lock
    <3>3. token \in [Copies -> Nat] /\ new \in [Rotators -> Nat]
      BY DEF RotationTypes
    <3>4. QED BY <3>1, <3>2, <3>3
  <2>2. stage' \in [Rotators -> {"idle", "standard", "enterprise", "unlock"}]
    BY DEF Lock, RotationTypes
  <2>3. \A v \in Rotators : stage'[v] # "idle" <=> holder' = v
    BY <1>3, <1>5
  <2>4. rotations' <= MaxRotations
    BY <1>3 DEF Lock
  <2>5. QED BY <1>3, <2>1, <2>2, <2>3, <2>4 DEF RotationTypes
<1>8. StageTells'
  <2>1. returned <= rotations
    BY <1>2 DEF StageTells, Copies
  <2>2. \A c \in Copies : token'[c] <= rotations' /\ returned' <= token'[c]
    BY <1>3, <1>4, <2>1 DEF RotationTypes
  <2>3. holder' # Nobody /\ token'["api_token"] = rotations'
    BY <1>3, <1>4 DEF Copies
  <2>4. \A v \in Rotators : stage'[v] # "idle" => v = w /\ stage'[v] = "standard"
    BY <1>5
  <2>5. QED BY <1>3, <1>6, <2>2, <2>3, <2>4 DEF StageTells
<1>9. QED BY <1>2, <1>3, <1>4, <1>7, <1>8

LEMMA WriteStep ==
  ASSUME RotationInv, NEW w \in Rotators, SetStandard(w) \/ SetEnterprise(w)
  PROVE  RotationInv' /\ returned' = returned /\ \A c \in Copies : token'[c] >= token[c]
<1> USE DEF RotationInv
<1>1. UNCHANGED <<holder, new, rotations, returned>>
  BY DEF SetStandard, SetEnterprise
<1>2. stage[w] \in {"standard", "enterprise"}
  BY DEF SetStandard, SetEnterprise
<1>3. holder = w /\ new[w] = rotations /\ token["api_token"] = rotations
  BY <1>2 DEF RotationTypes, StageTells
<1>4. \A v \in Rotators : v # w => stage[v] = "idle"
  BY <1>3 DEF RotationTypes
<1> DEFINE which == stage[w]
<1>5. \A c \in Copies : token'[c] = IF c = which THEN rotations ELSE token[c]
  BY <1>3 DEF SetStandard, SetEnterprise, RotationTypes, Copies
<1>6. \A v \in Rotators :
        stage'[v] = IF v # w THEN "idle" ELSE IF which = "standard" THEN "enterprise" ELSE "unlock"
  BY <1>4 DEF SetStandard, SetEnterprise, RotationTypes
<1>7. which = "enterprise" => token["standard"] = rotations
  BY DEF StageTells
<1>8. RotationTypes'
  <2>1. token' \in [Copies -> Nat]
    BY <1>3 DEF SetStandard, SetEnterprise, RotationTypes
  <2>2. stage' \in [Rotators -> {"idle", "standard", "enterprise", "unlock"}]
    BY DEF SetStandard, SetEnterprise, RotationTypes
  <2>3. \A v \in Rotators : stage'[v] # "idle" <=> holder' = v
    BY <1>1, <1>3, <1>6
  <2>4. QED BY <1>1, <2>1, <2>2, <2>3 DEF RotationTypes
<1>9. \A c \in Copies : token'[c] >= token[c] /\ token'[c] <= rotations /\ returned <= token'[c]
  <2> TAKE c \in Copies
  <2>1. /\ token[c] <= rotations /\ returned <= token[c]
        /\ token[c] \in Nat /\ rotations \in Nat /\ returned \in Nat
    BY DEF StageTells, RotationTypes
  <2>2. QED BY <1>5, <2>1
<1>10. StageTells'
  <2>1. holder' # Nobody
    BY <1>1, <1>3
  <2>2. /\ token'["api_token"] = rotations
        /\ token'["standard"] = rotations
        /\ which = "enterprise" => token'["enterprise"] = rotations
    BY <1>2, <1>3, <1>5, <1>7 DEF Copies
  <2>3. \A v \in Rotators : stage'[v] # "idle" =>
          v = w /\ (stage'[v] = "unlock" => which = "enterprise")
    BY <1>2, <1>6
  <2>4. QED BY <1>1, <1>3, <1>9, <2>1, <2>2, <2>3 DEF StageTells
<1>11. QED BY <1>1, <1>8, <1>9, <1>10

LEMMA UnlockStep ==
  ASSUME RotationInv, NEW w \in Rotators, Unlock(w)
  PROVE  RotationInv' /\ returned' >= returned /\ token' = token
<1> USE DEF RotationInv
<1>1. token' = token /\ rotations' = rotations /\ new' = new /\ holder' = Nobody
  BY DEF Unlock
<1>2. holder = w /\ new[w] = rotations
  BY DEF Unlock, StageTells, RotationTypes
<1>3. \A c \in Copies : token[c] = rotations
  BY DEF Unlock, StageTells, Copies
<1>4. returned <= rotations /\ rotations \in Nat /\ returned \in Nat
  BY <1>3 DEF StageTells, RotationTypes, Copies
<1>5. returned' = rotations
  BY <1>2, <1>4 DEF Unlock
<1>6. \A v \in Rotators : stage'[v] = "idle"
  BY <1>2 DEF Unlock, RotationTypes
<1>7. RotationTypes'
  <2>1. stage' \in [Rotators -> {"idle", "standard", "enterprise", "unlock"}]
    BY DEF Unlock, RotationTypes
  <2>2. QED BY <1>1, <1>4, <1>5, <1>6, <2>1 DEF RotationTypes
<1>8. StageTells'
  BY <1>1, <1>3, <1>4, <1>5, <1>6 DEF StageTells
<1>9. QED BY <1>1, <1>4, <1>5, <1>7, <1>8

LEMMA CallStep ==
  ASSUME IInv, NEW c \in Callers, Call(c)
  PROVE  IInv'
<1>1. UNCHANGED rotationVars
  BY DEF Call, Begin, Inject, Retry, Done
<1>2. RotationInv'
  BY <1>1 DEF IInv, RotationInv, RotationTypes, StageTells, rotationVars
<1>3. copy[c] \in Copies /\ token[copy[c]] \in Nat /\ returned <= token[copy[c]]
      /\ returned \in Nat
  BY DEF IInv, RotationInv, RotationTypes, CallerTypes, StageTells
<1>4. promised[c] \in Nat /\ promised[c] <= returned
  BY DEF IInv, CallerTypes, PromisesKept
<1>5. token[copy[c]] >= promised[c]
  BY <1>3, <1>4
<1>6. CallerTypes'
  <2> USE DEF IInv, CallerTypes
  <2>1. CASE Begin(c)
    <3>1. PICK which \in Copies : copy' = [copy EXCEPT ![c] = which]
      BY <2>1 DEF Begin
    <3>2. copy' \in [Callers -> Copies]
      BY <3>1
    <3>3. QED BY <1>3, <2>1, <3>2 DEF Begin
  <2>2. CASE Inject(c)
    BY <1>3, <2>2 DEF Inject
  <2>3. CASE Retry(c)
    BY <2>3 DEF Retry
  <2>4. CASE Done(c)
    BY <2>4 DEF Done, Copies
  <2>5. QED BY <2>1, <2>2, <2>3, <2>4 DEF Call
<1>7. PromisesKept'
  <2>0. returned \in Nat /\ returned <= returned /\ 0 <= returned
    BY <1>3
  <2>1. returned' = returned
    BY <1>1 DEF rotationVars
  <2> USE DEF IInv, CallerTypes, PromisesKept
  <2>2. CASE Begin(c)
    <3>1. \A b \in Callers :
            /\ promised'[b] = IF b = c THEN returned ELSE promised[b]
            /\ pc'[b] = IF b = c THEN "called" ELSE pc[b]
            /\ sent'[b] = sent[b]
      BY <2>2 DEF Begin
    <3>2. \A b \in Callers : promised[b] <= returned /\ (pc[b] = "in flight" => sent[b] >= promised[b])
      OBVIOUS
    <3>3. \A b \in Callers : promised'[b] <= returned'
      BY <2>0, <2>1, <3>1, <3>2
    <3>4. \A b \in Callers : pc'[b] = "in flight" => sent'[b] >= promised'[b]
      BY <3>1, <3>2
    <3>5. QED BY <3>3, <3>4
  <2>3. CASE Inject(c)
    BY <1>5, <2>1, <2>3 DEF Inject
  <2>4. CASE Retry(c)
    BY <2>1, <2>4 DEF Retry
  <2>5. CASE Done(c)
    <3>1. \A b \in Callers :
            /\ promised'[b] = IF b = c THEN 0 ELSE promised[b]
            /\ pc'[b] = IF b = c THEN "idle" ELSE pc[b]
            /\ b # c => sent'[b] = sent[b]
      BY <2>5 DEF Done
    <3>2. \A b \in Callers : promised[b] <= returned /\ (pc[b] = "in flight" => sent[b] >= promised[b])
      OBVIOUS
    <3>3. \A b \in Callers : promised'[b] <= returned'
      BY <2>0, <2>1, <3>1, <3>2, Zenon
    <3>4. \A b \in Callers : pc'[b] = "in flight" => sent'[b] >= promised'[b]
      BY <3>1, <3>2
    <3>5. QED BY <3>3, <3>4
  <2>6. QED BY <2>2, <2>3, <2>4, <2>5 DEF Call
<1>8. QED BY <1>2, <1>6, <1>7 DEF IInv

LEMMA RotateStep ==
  ASSUME IInv, NEW w \in Rotators, Rotate(w)
  PROVE  IInv' /\ \A c \in Copies : token'[c] >= token[c]
<1>1. /\ RotationInv' /\ returned' >= returned
      /\ \A c \in Copies : token'[c] >= token[c]
  <2>1. returned \in Nat /\ \A c \in Copies : token[c] \in Nat
    BY DEF IInv, RotationInv, RotationTypes
  <2>2. QED
    BY <2>1, LockStep, WriteStep, UnlockStep DEF Rotate, IInv
<1>2. UNCHANGED callerVars
  BY DEF Rotate, Lock, SetStandard, SetEnterprise, Unlock
<1>3. PromisesKept'
  <2>1. \A c \in Callers : promised[c] \in Nat /\ promised[c] <= returned
    BY DEF IInv, CallerTypes, PromisesKept
  <2>2. returned \in Nat /\ returned' \in Nat
    BY <1>1 DEF IInv, RotationInv, RotationTypes
  <2>3. \A c \in Callers : promised'[c] <= returned'
    BY <1>1, <1>2, <2>1, <2>2 DEF callerVars
  <2>4. QED BY <1>2, <2>3 DEF IInv, PromisesKept, callerVars
<1>4. CallerTypes'
  BY <1>2 DEF IInv, CallerTypes, callerVars
<1>5. QED BY <1>1, <1>3, <1>4 DEF IInv

LEMMA NextInv == IInv /\ [Next]_vars => IInv'
<1> SUFFICES ASSUME IInv, [Next]_vars PROVE IInv'
  OBVIOUS
<1>1. CASE Next
  BY <1>1, RotateStep, CallStep DEF Next
<1>2. CASE UNCHANGED vars
  BY <1>2 DEF vars, rotationVars, callerVars, IInv, RotationInv, RotationTypes,
     CallerTypes, StageTells, PromisesKept
<1>3. QED BY <1>1, <1>2

---------------------------------------------------------------------------------
(* The construction of clients *)

Inside == {"recheck", "initialising", "store", "unlock"}

InitTypes ==
  /\ initialized \in BOOLEAN
  /\ initHolder \in Builders \cup {Nobody}
  /\ at \in [Builders -> {"idle", "check", "lock", "recheck", "initialising", "store",
                          "unlock", "built"}]
  /\ \A b \in Builders : at[b] \in Inside <=> initHolder = b
  /\ clients \in [Builders -> 0..2]
  /\ inits \in Nat
  /\ failures \in Nat /\ failures <= MaxFailures

\* What each place of global_init knows about the flag and about libcurl.
FlagTells ==
  /\ initialized => inits = 1
  /\ \A b \in Builders : at[b] = "initialising" => ~initialized /\ inits = 0
  /\ \A b \in Builders : at[b] = "store" => ~initialized /\ inits = 1
  /\ \A b \in Builders : at[b] = "unlock" => initialized
  /\ ~initialized /\ (\A b \in Builders : at[b] # "store") => inits = 0
  /\ \A b \in Builders : clients[b] > 0 \/ at[b] = "built" => initialized
  /\ \A b \in Builders : at[b] # "built" => clients[b] < 2

BuildInv == InitTypes /\ FlagTells

\* Nobody uses the shared client before it is built.
UsedWhenBuilt == \A c \in Callers : pc[c] # "idle" => at[Owner] = "built"

LEMMA ClientInitInv == ClientInit => BuildInv /\ UsedWhenBuilt
<1> SUFFICES ASSUME ClientInit PROVE BuildInv /\ UsedWhenBuilt
  OBVIOUS
<1>1. InitTypes
  <2>1. \A b \in Builders : at[b] = "idle" /\ clients[b] = 0 /\ initHolder # b
    BY DEF ClientInit
  <2>2. at \in [Builders -> {"idle", "check", "lock", "recheck", "initialising", "store",
                           "unlock", "built"}]
        /\ clients \in [Builders -> 0..2]
    BY DEF ClientInit
  <2>3. initialized \in BOOLEAN /\ initHolder \in Builders \cup {Nobody}
    BY Zenon DEF ClientInit
  <2>4. inits \in Nat /\ failures \in Nat /\ failures <= MaxFailures
    BY DEF ClientInit
  <2>5. QED BY <2>1, <2>2, <2>3, <2>4 DEF InitTypes, Inside
<1>2. FlagTells
  BY DEF ClientInit, FlagTells
<1>3. UsedWhenBuilt
  BY DEF ClientInit, Init, UsedWhenBuilt
<1>4. QED BY <1>1, <1>2, <1>3 DEF BuildInv

\* A client more, seen with the flag set and outside the mutex or on the way out.
LEMMA OneMoreClient ==
  ASSUME BuildInv, NEW b \in Builders, NextHttpClient(b), initialized', inits' = 1,
         at[b] \notin {"idle", "built"},
         \A a \in Builders : at[a] = "store" => a = b,
         \A a \in Builders : at[a] = "initialising" => a = b,
         inits' = inits, failures' = failures,
         initHolder' = IF at[b] \in Inside THEN Nobody ELSE initHolder
  PROVE  BuildInv'
<1> USE DEF BuildInv
<1>1. clients[b] \in 0..1
  BY DEF InitTypes, FlagTells
<1>2. /\ \A a \in Builders : clients'[a] = IF a = b THEN clients[b] + 1 ELSE clients[a]
      /\ clients' \in [Builders -> 0..2]
  BY <1>1 DEF NextHttpClient, InitTypes
<1>3. /\ \A a \in Builders : at'[a] = IF a # b THEN at[a] ELSE IF clients[b] = 0 THEN "check" ELSE "built"
      /\ at' \in [Builders -> {"idle", "check", "lock", "recheck", "initialising", "store",
                               "unlock", "built"}]
  BY DEF NextHttpClient, Move, InitTypes
<1>4. \A a \in Builders : at'[a] \in Inside <=> initHolder' = a
  BY <1>3 DEF InitTypes, Inside
<1>5. InitTypes'
  BY <1>2, <1>3, <1>4 DEF InitTypes
<1>6. FlagTells'
  BY <1>1, <1>2, <1>3, <1>5 DEF FlagTells, InitTypes
<1>7. QED BY <1>5, <1>6

LEMMA BuildStep ==
  ASSUME BuildInv, NEW b \in Builders, Build(b)
  PROVE  BuildInv'
<1> USE DEF BuildInv
<1>1. \A a \in Builders : at[a] \in Inside /\ at[b] \in Inside => a = b
  BY DEF InitTypes
<1>2. CASE Construct(b)
  <2>1. InitTypes'
    BY <1>2 DEF Construct, Move, InitTypes, Inside
  <2>2. FlagTells'
    BY <1>2 DEF Construct, Move, InitTypes, FlagTells
  <2>3. QED BY <2>1, <2>2
<1>3. CASE Check(b)
  <2>1. CASE initialized
    <3>1. NextHttpClient(b) /\ initialized' /\ inits' = inits /\ failures' = failures
          /\ initHolder' = initHolder /\ at[b] = "check"
      BY <1>3, <2>1 DEF Check
    <3>2. inits' = 1 /\ \A a \in Builders : at[a] \notin {"store", "initialising"}
      BY <2>1, <3>1 DEF FlagTells
    <3>3. QED BY <3>1, <3>2, OneMoreClient DEF Inside
  <2>2. CASE ~initialized
    <3>1. InitTypes'
      BY <1>3, <2>2 DEF Check, Move, InitTypes, Inside
    <3>2. /\ at[b] = "check" /\ clients' = clients /\ initialized' = initialized /\ inits' = inits
          /\ \A a \in Builders : at'[a] = IF a = b THEN "lock" ELSE at[a]
      BY <1>3, <2>2 DEF Check, Move, InitTypes
    <3>3. FlagTells'
      BY <2>2, <3>2 DEF FlagTells
    <3>4. QED BY <3>1, <3>3
  <2>3. QED BY <2>1, <2>2
<1>4. CASE LockInit(b)
  <2>1. InitTypes'
    BY <1>4 DEF LockInit, Move, InitTypes, Inside
  <2>2. FlagTells'
    BY <1>4 DEF LockInit, Move, InitTypes, FlagTells
  <2>3. QED BY <2>1, <2>2
<1>5. CASE Recheck(b)
  <2>1. CASE initialized
    <3>1. NextHttpClient(b) /\ initialized' /\ inits' = inits /\ failures' = failures
          /\ initHolder' = Nobody /\ at[b] = "recheck"
      BY <1>5, <2>1 DEF Recheck
    <3>2. inits' = 1 /\ \A a \in Builders : at[a] \notin {"store", "initialising"}
      BY <2>1, <3>1 DEF FlagTells
    <3>3. QED BY <3>1, <3>2, OneMoreClient DEF Inside
  <2>2. CASE ~initialized
    <3>1. at[b] = "recheck" /\ \A a \in Builders : at[a] # "store"
      BY <1>1, <1>5 DEF Recheck, Inside
    <3>2. inits = 0
      BY <2>2, <3>1 DEF FlagTells
    <3>3. InitTypes'
      BY <1>5, <2>2 DEF Recheck, Move, InitTypes, Inside
    <3>4. FlagTells'
      BY <1>5, <2>2, <3>1, <3>2 DEF Recheck, Move, InitTypes, FlagTells
    <3>5. QED BY <3>3, <3>4
  <2>3. QED BY <2>1, <2>2
<1>6. CASE CurlInitialised(b)
  <2>1. at[b] = "initialising" /\ ~initialized /\ inits = 0
    BY <1>6 DEF CurlInitialised, FlagTells
  <2>2. \A a \in Builders : a # b => at[a] \notin Inside
    BY <1>1, <2>1 DEF Inside
  <2>3. InitTypes'
    BY <1>6, <2>1 DEF CurlInitialised, Move, InitTypes, Inside
  <2>4. FlagTells'
    BY <1>6, <2>1, <2>2 DEF CurlInitialised, Move, InitTypes, FlagTells, Inside
  <2>5. QED BY <2>3, <2>4
<1>7. CASE CurlFails(b)
  <2>1. at[b] = "initialising" /\ ~initialized /\ inits = 0
    BY <1>7 DEF CurlFails, FlagTells
  <2>2. \A a \in Builders : a # b => at[a] \notin Inside
    BY <1>1, <2>1 DEF Inside
  <2>3. InitTypes'
    BY <1>7, <2>1, <2>2 DEF CurlFails, Move, InitTypes, Inside
  <2>4. FlagTells'
    BY <1>7, <2>1, <2>2 DEF CurlFails, Move, InitTypes, FlagTells
  <2>5. QED BY <2>3, <2>4
<1>8. CASE Store(b)
  <2>1. at[b] = "store" /\ ~initialized /\ inits = 1
    BY <1>8 DEF Store, FlagTells
  <2>2. \A a \in Builders : a # b => at[a] \notin Inside
    BY <1>1, <2>1 DEF Inside
  <2>3. InitTypes'
    BY <1>8, <2>1 DEF Store, Move, InitTypes, Inside
  <2>4. FlagTells'
    BY <1>8, <2>1, <2>2 DEF Store, Move, InitTypes, FlagTells, Inside
  <2>5. QED BY <2>3, <2>4
<1>9. CASE UnlockInit(b)
  <2>1. NextHttpClient(b) /\ inits' = inits /\ failures' = failures /\ initialized' = initialized
        /\ initHolder' = Nobody /\ at[b] = "unlock"
    BY <1>9 DEF UnlockInit
  <2>2. initialized /\ inits = 1 /\ \A a \in Builders : at[a] \notin {"store", "initialising"}
    BY <2>1 DEF FlagTells
  <2>3. QED BY <2>1, <2>2, OneMoreClient DEF Inside
<1>10. QED BY <1>2, <1>3, <1>4, <1>5, <1>6, <1>7, <1>8, <1>9 DEF Build

\* A client that is built stays built.
LEMMA BuiltStays ==
  ASSUME BuildInv, NEW b \in Builders, Build(b)
  PROVE  \A a \in Builders : at[a] = "built" => at'[a] = "built"
<1>1. at[b] # "built"
  BY DEF Build, Construct, Check, LockInit, Recheck, CurlInitialised, CurlFails, Store, UnlockInit
<1>2. \E there : at' = [at EXCEPT ![b] = there]
  BY DEF Build, Construct, Check, LockInit, Recheck, CurlInitialised, CurlFails, Store,
     UnlockInit, NextHttpClient, Move
<1>3. QED BY <1>1, <1>2 DEF BuildInv, InitTypes
---------------------------------------------------------------------------------
(* The sub-clients *)

SubTypes ==
  /\ subs \in [Kinds -> Nat]
  /\ subsHolder \in Callers \cup {Nobody}
  /\ access \in [Callers -> {"none", "asked", "missing", "there"}]
  /\ \A c \in Callers : access[c] \in {"missing", "there"} <=> subsHolder = c
  /\ kind \in [Callers -> Kinds]
  /\ held \in [Callers -> Nat]

\* Whoever is about to build one has seen that there is none, which nobody can
\* change before it does.
SubsTell ==
  /\ \A c \in Callers : access[c] = "missing" => subs[kind[c]] = 0
  /\ \A c \in Callers : held[c] > 0 => held[c] = subs[kind[c]]

SubInv == SubTypes /\ SubsTell

LEMMA AccessStep ==
  ASSUME SubInv, NEW c \in Callers, Access(c)
  PROVE  SubInv'
<1> USE DEF SubInv
<1>1. CASE Ask(c)
  <2>1. PICK k \in Kinds : kind' = [kind EXCEPT ![c] = k]
    BY <1>1 DEF Ask
  <2>2. SubTypes'
    BY <1>1, <2>1 DEF Ask, SubTypes
  <2>3. SubsTell'
    BY <1>1, <2>1 DEF Ask, SubTypes, SubsTell
  <2>4. QED BY <2>2, <2>3
<1>2. CASE LockSubs(c)
  <2>1. SubTypes'
    BY <1>2 DEF LockSubs, SubTypes
  <2>2. SubsTell'
    BY <1>2 DEF LockSubs, SubTypes, SubsTell
  <2>3. QED BY <2>1, <2>2
<1>3. CASE BuildSub(c)
  <2>1. subs[kind[c]] = 0 /\ kind[c] \in Kinds
    BY <1>3 DEF BuildSub, SubTypes, SubsTell
  <2>2. \A d \in Callers : access[d] = "missing" => d = c
    BY <1>3 DEF BuildSub, SubTypes
  <2>3. \A d \in Callers : held[d] > 0 => kind[d] # kind[c]
    BY <2>1 DEF SubsTell, SubTypes
  <2>4. /\ \A k \in Kinds : subs'[k] = IF k = kind[c] THEN 1 ELSE subs[k]
        /\ subs' \in [Kinds -> Nat]
    BY <1>3, <2>1 DEF BuildSub, SubTypes
  <2>5. \A d \in Callers : access'[d] = IF d = c THEN "there" ELSE access[d]
    BY <1>3 DEF BuildSub, SubTypes
  <2>6. UNCHANGED <<subsHolder, kind, held>>
    BY <1>3 DEF BuildSub
  <2>7. SubTypes'
    BY <1>3, <2>4, <2>5, <2>6 DEF BuildSub, SubTypes
  <2>8. SubsTell'
    BY <2>2, <2>3, <2>4, <2>5, <2>6 DEF SubsTell, SubTypes
  <2>9. QED BY <2>7, <2>8
<1>4. CASE ReturnSub(c)
  <2>1. kind[c] \in Kinds /\ subs[kind[c]] \in Nat
    BY DEF SubTypes
  <2>2. SubTypes'
    BY <1>4, <2>1 DEF ReturnSub, SubTypes
  <2>3. SubsTell'
    BY <1>4, <2>1 DEF ReturnSub, SubTypes, SubsTell
  <2>4. QED BY <2>2, <2>3
<1>5. QED BY <1>1, <1>2, <1>3, <1>4 DEF Access

---------------------------------------------------------------------------------
(* Together *)

ClientInv == IInv /\ BuildInv /\ UsedWhenBuilt /\ SubInv

LEMMA ClientInvInit == ClientInit => ClientInv
<1> SUFFICES ASSUME ClientInit PROVE ClientInv
  OBVIOUS
<1>1. SubTypes
  BY DEF ClientInit, SubTypes
<1>2. SubsTell
  BY DEF ClientInit, SubsTell
<1>3. Init
  BY DEF ClientInit
<1>4. QED BY <1>1, <1>2, <1>3, InitInv, ClientInitInv DEF ClientInv, SubInv

LEMMA ClientInvNext == ClientInv /\ [ClientNext]_clientVars => ClientInv'
<1> SUFFICES ASSUME ClientInv, [ClientNext]_clientVars PROVE ClientInv'
  OBVIOUS
<1>1. ASSUME UNCHANGED vars PROVE IInv'
  BY <1>1, NextInv DEF ClientInv
<1>2. ASSUME UNCHANGED initVars PROVE BuildInv'
  BY <1>2 DEF initVars, ClientInv, BuildInv, InitTypes, FlagTells
<1>3. ASSUME UNCHANGED subVars PROVE SubInv'
  BY <1>3 DEF subVars, ClientInv, SubInv, SubTypes, SubsTell
<1>4. ASSUME NEW b \in Builders, Build(b) PROVE ClientInv'
  <2>1. UNCHANGED vars /\ UNCHANGED subVars
    BY <1>4 DEF Build
  <2>2. UsedWhenBuilt'
    BY <1>4, <2>1, BuiltStays DEF ClientInv, UsedWhenBuilt, vars, callerVars
  <2>3. QED BY <1>1, <1>3, <1>4, <2>1, <2>2, BuildStep DEF ClientInv
<1>5. ASSUME Use PROVE ClientInv'
  <2>1. UNCHANGED initVars
    BY <1>5 DEF Use, Access
  <2>2. UsedWhenBuilt'
    BY <1>5, <2>1 DEF Use, UsedWhenBuilt, initVars
  <2>3. IInv' /\ SubInv'
    <3>1. CASE \E w \in Rotators : Rotate(w) /\ UNCHANGED <<initVars, subVars>>
      BY <1>3, <3>1, RotateStep DEF ClientInv
    <3>2. CASE \E c \in Callers : access[c] = "none" /\ Call(c) /\ UNCHANGED <<initVars, subVars>>
      BY <1>3, <3>2, CallStep DEF ClientInv
    <3>3. CASE \E c \in Callers : Access(c)
      <4>1. UNCHANGED vars
        BY <3>3 DEF Access
      <4>2. QED BY <1>1, <3>3, <4>1, AccessStep DEF ClientInv
    <3>4. QED BY <1>5, <3>1, <3>2, <3>3 DEF Use
  <2>4. QED BY <1>2, <2>1, <2>2, <2>3 DEF ClientInv
<1>6. CASE UNCHANGED clientVars
  <2>1. UNCHANGED vars /\ UNCHANGED initVars /\ UNCHANGED subVars
    BY <1>6 DEF clientVars
  <2>2. UsedWhenBuilt'
    BY <2>1 DEF ClientInv, UsedWhenBuilt, vars, callerVars, initVars
  <2>3. QED BY <1>1, <1>2, <1>3, <2>1, <2>2 DEF ClientInv
<1>7. QED BY <1>4, <1>5, <1>6 DEF ClientNext

LEMMA ClientInvAlways == ClientSpec => []ClientInv
BY ClientInvInit, ClientInvNext, PTL DEF ClientSpec

\* The types, and that each mutex is held by whoever is between its lock and its
\* unlock: global_init's, set_api_token's and that of the sub-clients.
THEOREM TypeCorrect == ClientSpec => []ClientTypeOK
<1>1. ClientInv => ClientTypeOK
  <2> SUFFICES ASSUME ClientInv PROVE ClientTypeOK
    OBVIOUS
  <2>1. TypeOK
    BY TypesSplit DEF ClientInv, IInv, RotationInv
  <2>2. failures \in 0..MaxFailures
    BY DEF ClientInv, BuildInv, InitTypes
  <2>3. QED BY <2>1, <2>2 DEF ClientTypeOK, ClientInv, BuildInv, InitTypes, SubInv, SubTypes, Inside
<1>2. QED BY <1>1, ClientInvAlways, PTL

\* However many threads rotate the token, no copy of it is left behind.
THEOREM NoCopyLeftBehind == ClientSpec => []CopiesAgree
<1>1. ClientInv => CopiesAgree
  BY DEF ClientInv, IInv, RotationInv, StageTells, CopiesAgree
<1>2. QED BY <1>1, ClientInvAlways, PTL

\* Every request that began after a rotation returned carries its token or a
\* newer one, on either client and also when it is retried.
THEOREM RequestsAreFresh == ClientSpec => []NoStaleToken
<1>1. ClientInv => NoStaleToken
  BY DEF ClientInv, IInv, PromisesKept, NoStaleToken
<1>2. QED BY <1>1, ClientInvAlways, PTL

\* However many threads build clients, curl_global_init runs by itself: no other
\* thread is inside it, none makes a request, and it has not succeeded before.
THEOREM GlobalInitAlone == ClientSpec => []InitAlone
<1>1. ClientInv => InitAlone
  <2> SUFFICES ASSUME ClientInv, NEW b \in Builders, at[b] = "initialising"
               PROVE  /\ inits = 0
                      /\ \A a \in Builders \ {b} : at[a] # "initialising"
                      /\ \A c \in Callers : pc[c] = "idle"
    BY DEF InitAlone
  <2>1. inits = 0 /\ ~initialized
    BY DEF ClientInv, BuildInv, FlagTells
  <2>2. \A a \in Builders \ {b} : at[a] # "initialising"
    BY DEF ClientInv, BuildInv, InitTypes, Inside
  <2>3. at[Owner] # "built"
    BY <2>1 DEF ClientInv, BuildInv, FlagTells
  <2>4. QED BY <2>1, <2>2, <2>3 DEF ClientInv, UsedWhenBuilt
<1>2. QED BY <1>1, ClientInvAlways, PTL

\* No HttpClient is built before curl_global_init has succeeded, once.
THEOREM NoClientWithoutCurl == ClientSpec => []BuiltOnInitialised
<1>1. ClientInv => BuiltOnInitialised
  BY DEF ClientInv, BuildInv, FlagTells, BuiltOnInitialised
<1>2. QED BY <1>1, ClientInvAlways, PTL

\* Whatever the number of threads that build clients at once, libcurl is initialised
\* once, alone and before anything uses it.
THEOREM LibcurlInitialisedOnce == ClientSpec => []InitOnceBeforeUse
<1>1. InitAlone /\ BuiltOnInitialised => InitOnceBeforeUse
  BY DEF InitOnceBeforeUse
<1>2. QED BY <1>1, GlobalInitAlone, NoClientWithoutCurl, PTL

\* The first uses of a sub-client by any number of threads build one instance,
\* and every reference to it stays good.
THEOREM SubClientsStay == ClientSpec => []ReferencesStay
<1>1. ClientInv => ReferencesStay
  BY DEF ClientInv, SubInv, SubsTell, ReferencesStay
<1>2. QED BY <1>1, ClientInvAlways, PTL

\* No copy of the token ever goes back, whatever is built meanwhile.
THEOREM NeverBack == ClientSpec => CopiesMoveForward
<1>1. ClientInv /\ [ClientNext]_clientVars => [\A c \in Copies : token'[c] >= token[c]]_vars
  <2> SUFFICES ASSUME ClientInv, [ClientNext]_clientVars, ~UNCHANGED vars
               PROVE  \A c \in Copies : token'[c] >= token[c]
    OBVIOUS
  <2>1. Use
    BY DEF ClientNext, Build, clientVars
  <2>2. CASE \E w \in Rotators : Rotate(w)
    BY <2>2, RotateStep DEF ClientInv
  <2>3. CASE \E c \in Callers : Call(c)
    <3>1. token' = token
      BY <2>3 DEF Call, Begin, Inject, Retry, Done, rotationVars
    <3>2. QED BY <3>1 DEF ClientInv, IInv, RotationInv, RotationTypes
  <2>4. QED BY <2>1, <2>2, <2>3 DEF Use, Access
<1>2. QED BY <1>1, ClientInvAlways, PTL DEF ClientSpec, CopiesMoveForward

=================================================================================
