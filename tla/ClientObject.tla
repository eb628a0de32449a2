------------------------------ MODULE ClientObject ------------------------------
(***************************************************************************)
(* The life of an AudD object around TokenRotation: clients are built by   *)
(* several threads at once, each through internal::global_init, whose      *)
(* double-checked locking guards curl_global_init (src/http_client.cpp);   *)
(* one of them is then shared by threads that rotate its token, make       *)
(* requests and ask it for its sub-clients, which are built on first use   *)
(* under sub_clients_mutex_ (src/client.cpp).                              *)
(***************************************************************************)
EXTENDS TokenRotation

CONSTANTS Builders,   \* threads that build a client
          Owner,      \* the one whose client the others share
          Kinds,      \* the sub-clients: streams, custom_catalog, advanced
          MaxFailures \* bound on the failures of curl_global_init

ASSUME ClientAssumption ==
  /\ Owner \in Builders /\ Nobody \notin Builders \cup Callers
  /\ MaxFailures \in Nat

VARIABLES initialized, \* g_initialized
          initHolder,  \* the builder that holds g_init_mutex, or Nobody
          at,          \* where each builder is in its constructor
          clients,     \* the HttpClients it has built
          inits,       \* calls of curl_global_init that succeeded
          failures,    \* and that failed
          subs,        \* each sub-client: 0 for null, or which instance it is
          subsHolder,  \* the caller that holds sub_clients_mutex_, or Nobody
          access, kind,\* where a caller is in streams() and the like, and which it is
          held         \* the instance it was given a reference to, 0 for none

initVars == <<initialized, initHolder, at, clients, inits, failures>>
subVars == <<subs, subsHolder, access, kind, held>>
clientVars == <<vars, initVars, subVars>>

ClientInit ==
  /\ Init
  /\ initialized = FALSE /\ initHolder = Nobody
  /\ at = [b \in Builders |-> "idle"]
  /\ clients = [b \in Builders |-> 0]
  /\ inits = 0 /\ failures = 0
  /\ subs = [k \in Kinds |-> 0] /\ subsHolder = Nobody
  /\ access = [c \in Callers |-> "none"]
  /\ kind \in [Callers -> Kinds]
  /\ held = [c \in Callers |-> 0]

---------------------------------------------------------------------------------
(* The constructor of AudD: two HttpClients, and global_init in each *)

Move(b, there) == at' = [at EXCEPT ![b] = there]

Construct(b) ==
  /\ at[b] = "idle"
  /\ Move(b, "check")
  /\ UNCHANGED <<initialized, initHolder, clients, inits, failures>>

\* One more HttpClient; after the second the client is there.
NextHttpClient(b) ==
  /\ clients' = [clients EXCEPT ![b] = clients[b] + 1]
  /\ Move(b, IF clients[b] = 0 THEN "check" ELSE "built")

Check(b) ==
  /\ at[b] = "check"
  /\ IF initialized THEN NextHttpClient(b) ELSE Move(b, "lock") /\ UNCHANGED clients
  /\ UNCHANGED <<initialized, initHolder, inits, failures>>

LockInit(b) ==
  /\ at[b] = "lock" /\ initHolder = Nobody
  /\ initHolder' = b
  /\ Move(b, "recheck")
  /\ UNCHANGED <<initialized, clients, inits, failures>>

\* Mutant: no second look at the flag.
RecheckNot(b) ==
  /\ at[b] = "recheck"
  /\ Move(b, "initialising") /\ UNCHANGED <<initHolder, clients>>
  /\ UNCHANGED <<initialized, inits, failures>>

\* Another builder may have been here first.
Recheck(b) ==
  /\ at[b] = "recheck"
  /\ IF initialized
     THEN initHolder' = Nobody /\ NextHttpClient(b)
     ELSE Move(b, "initialising") /\ UNCHANGED <<initHolder, clients>>
  /\ UNCHANGED <<initialized, inits, failures>>

CurlInitialised(b) ==
  /\ at[b] = "initialising"
  /\ inits' = inits + 1
  /\ Move(b, "store")
  /\ UNCHANGED <<initialized, initHolder, clients, failures>>

\* The constructor throws, which gives the mutex back; the application may try again.
CurlFails(b) ==
  /\ at[b] = "initialising"
  /\ failures < MaxFailures
  /\ failures' = failures + 1
  /\ initHolder' = Nobody
  /\ clients' = [clients EXCEPT ![b] = 0]
  /\ Move(b, "idle")
  /\ UNCHANGED <<initialized, inits>>

Store(b) ==
  /\ at[b] = "store"
  /\ initialized' = TRUE
  /\ Move(b, "unlock")
  /\ UNCHANGED <<initHolder, clients, inits, failures>>

UnlockInit(b) ==
  /\ at[b] = "unlock"
  /\ initHolder' = Nobody
  /\ NextHttpClient(b)
  /\ UNCHANGED <<initialized, inits, failures>>

Build(b) ==
  /\ \/ Construct(b) \/ Check(b) \/ LockInit(b) \/ Recheck(b)
     \/ CurlInitialised(b) \/ CurlFails(b) \/ Store(b) \/ UnlockInit(b)
  /\ UNCHANGED <<vars, subVars>>

---------------------------------------------------------------------------------
(* streams(), custom_catalog() and advanced() of the shared client *)

Ask(c) ==
  /\ access[c] = "none" /\ pc[c] = "idle"
  /\ \E k \in Kinds : kind' = [kind EXCEPT ![c] = k]
  /\ access' = [access EXCEPT ![c] = "asked"]
  /\ held' = [held EXCEPT ![c] = 0]
  /\ UNCHANGED <<subs, subsHolder>>

\* Mutant: sub_clients_mutex_ is not waited for.
LockSubsNot(c) ==
  /\ access[c] = "asked"
  /\ subsHolder' = c
  /\ access' = [access EXCEPT ![c] = IF subs[kind[c]] = 0 THEN "missing" ELSE "there"]
  /\ UNCHANGED <<subs, kind, held>>

\* Under the mutex the pointer is looked at once.
LockSubs(c) ==
  /\ access[c] = "asked" /\ subsHolder = Nobody
  /\ subsHolder' = c
  /\ access' = [access EXCEPT ![c] = IF subs[kind[c]] = 0 THEN "missing" ELSE "there"]
  /\ UNCHANGED <<subs, kind, held>>

\* Assigning to the pointer destroys what it had.
BuildSub(c) ==
  /\ access[c] = "missing"
  /\ subs' = [subs EXCEPT ![kind[c]] = subs[kind[c]] + 1]
  /\ access' = [access EXCEPT ![c] = "there"]
  /\ UNCHANGED <<subsHolder, kind, held>>

ReturnSub(c) ==
  /\ access[c] = "there"
  /\ held' = [held EXCEPT ![c] = subs[kind[c]]]
  /\ subsHolder' = Nobody
  /\ access' = [access EXCEPT ![c] = "none"]
  /\ UNCHANGED <<subs, kind>>

Access(c) ==
  /\ Ask(c) \/ LockSubs(c) \/ BuildSub(c) \/ ReturnSub(c)
  /\ UNCHANGED <<vars, initVars>>

---------------------------------------------------------------------------------

\* The others have the client once its constructor is through.
Use ==
  /\ at[Owner] = "built"
  /\ \/ \E w \in Rotators : Rotate(w) /\ UNCHANGED <<initVars, subVars>>
     \/ \E c \in Callers :
          access[c] = "none" /\ Call(c) /\ UNCHANGED <<initVars, subVars>>
     \/ \E c \in Callers : Access(c)

ClientNext == (\E b \in Builders : Build(b)) \/ Use

ClientSpec == ClientInit /\ [][ClientNext]_clientVars

---------------------------------------------------------------------------------
(* Properties *)

\* Every variable has its type; each mutex is held by whoever is between its lock
\* and its unlock, and by nobody else.
ClientTypeOK ==
  /\ TypeOK
  /\ initialized \in BOOLEAN
  /\ initHolder \in Builders \cup {Nobody}
  /\ at \in [Builders -> {"idle", "check", "lock", "recheck", "initialising", "store",
                          "unlock", "built"}]
  /\ \A b \in Builders :
       at[b] \in {"recheck", "initialising", "store", "unlock"} <=> initHolder = b
  /\ clients \in [Builders -> 0..2]
  /\ inits \in Nat /\ failures \in 0..MaxFailures
  /\ subs \in [Kinds -> Nat]
  /\ subsHolder \in Callers \cup {Nobody}
  /\ access \in [Callers -> {"none", "asked", "missing", "there"}]
  /\ \A c \in Callers : access[c] \in {"missing", "there"} <=> subsHolder = c
  /\ kind \in [Callers -> Kinds]
  /\ held \in [Callers -> Nat]

\* curl_global_init is not safe beside any other use of libcurl: while a thread
\* is inside it no other thread is, no request is under way on any client, and it
\* has not succeeded before.
InitAlone ==
  \A b \in Builders : at[b] = "initialising" =>
    /\ inits = 0
    /\ \A a \in Builders \ {b} : at[a] # "initialising"
    /\ \A c \in Callers : pc[c] = "idle"

\* No HttpClient without libcurl: a client that is built, and each half of one
\* still being built, has seen curl_global_init succeed.
BuiltOnInitialised ==
  \A b \in Builders : clients[b] > 0 \/ at[b] = "built" => inits = 1

\* The double-checked locking of global_init does its work: libcurl is initialised
\* once, alone, and before any client of it exists.
InitOnceBeforeUse == InitAlone /\ BuiltOnInitialised

\* A reference a caller was given stays good: no other thread's first use of the
\* sub-client replaces it.
ReferencesStay ==
  \A c \in Callers : held[c] > 0 => held[c] = subs[kind[c]]
=================================================================================
