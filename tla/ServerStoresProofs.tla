--------------------------- MODULE ServerStoresProofs ---------------------------
(***************************************************************************)
(* Proofs about what a server keeps (ServerStores), part by part:          *)
(* ClientRegistry, for any number of clients, sources and requests, any    *)
(* limits, and any number of deaths of the Durable Object; FileStore (F),  *)
(* for every set of callers and every bound on the changes; HostedCalls    *)
(* (H), for any requests, calls and deaths of the process; then of all     *)
(* together.                                                               *)
(***************************************************************************)
EXTENDS ServerStores, Sequences, FiniteSetTheorems, TLAPS

-----------------------------------------------------------------------------
(* ClientRegistry *)

\* A touch is of a client.
TouchesClients == \A r \in Requests : At(r, "touch") => req[r].client \in Clients

\* The requests that may still put a new client.
Pending == {r \in Requests : At(r, "increment") \/ At(r, "put")}

\* The requests that may put a client back, and these clients.
Touching == {r \in Requests : At(r, "touch")}
Touched  == {c \in Clients : \E r \in Touching : req[r].client = c}

\* A client that is about to be put back counts as one that is stored: so the
\* cap cannot be passed by clients that are swept and touched by turns.
CapKept ==
    Cardinality(Stored \cup Touched) + Cardinality(Pending)
        <= MaxClients - 1 + Cardinality(Requests)

\* There is nothing to drift before the counter is built.
NoDriftBefore == counter = None => drift = 0

RegistryInv == TypeOK /\ TouchesClients /\ NoDriftBefore /\ CounterExact /\ CapKept

-----------------------------------------------------------------------------
(* Sizes. *)

LEMMA Finite ==
    /\ IsFiniteSet(Clients) /\ IsFiniteSet(Requests)
    /\ IsFiniteSet(Stored) /\ IsFiniteSet(Expired) /\ IsFiniteSet(Touched)
    /\ IsFiniteSet(Stored \cup Touched) /\ IsFiniteSet(Pending) /\ IsFiniteSet(Touching)
    /\ {Cardinality(Requests), Cardinality(Stored), Cardinality(Expired), Cardinality(Touched),
        Cardinality(Stored \cup Touched), Cardinality(Pending), Cardinality(Touching)}
         \subseteq Nat
  <1>1. IsFiniteSet(Clients) /\ IsFiniteSet(Requests)
    BY RegistryAssumption
  <1>2. /\ Stored \in SUBSET Clients /\ Expired \in SUBSET Clients
        /\ Touched \in SUBSET Clients /\ Stored \cup Touched \in SUBSET Clients
        /\ Pending \in SUBSET Requests /\ Touching \in SUBSET Requests
    BY DEF Stored, Expired, Touched, Pending, Touching
  <1>3. /\ IsFiniteSet(Stored) /\ IsFiniteSet(Expired) /\ IsFiniteSet(Touched)
        /\ IsFiniteSet(Stored \cup Touched) /\ IsFiniteSet(Pending) /\ IsFiniteSet(Touching)
    BY <1>1, <1>2, FS_Subset
  <1> QED BY <1>1, <1>3, FS_CardinalityType

\* The same of the next state.
LEMMA FiniteNext ==
    /\ IsFiniteSet(Stored') /\ IsFiniteSet(Touched')
    /\ IsFiniteSet((Stored \cup Touched)') /\ IsFiniteSet(Pending') /\ IsFiniteSet(Touching')
    /\ {Cardinality(Stored'), Cardinality(Touched'), Cardinality((Stored \cup Touched)'),
        Cardinality(Pending'), Cardinality(Touching')} \subseteq Nat
  <1>1. IsFiniteSet(Clients) /\ IsFiniteSet(Requests)
    BY RegistryAssumption
  <1>2. /\ Stored' \in SUBSET Clients
        /\ Touched' \in SUBSET Clients /\ (Stored \cup Touched)' \in SUBSET Clients
        /\ Pending' \in SUBSET Requests /\ Touching' \in SUBSET Requests
    BY DEF Stored, Touched, Pending, Touching
  <1>3. /\ IsFiniteSet(Stored') /\ IsFiniteSet(Touched')
        /\ IsFiniteSet((Stored \cup Touched)') /\ IsFiniteSet(Pending') /\ IsFiniteSet(Touching')
    BY <1>1, <1>2, FS_Subset
  <1> QED BY <1>3, FS_CardinalityType

-----------------------------------------------------------------------------
(* Types. *)

LEMMA AdjustedTyped ==
    ASSUME NEW delta \in Int, counter \in Nat \cup {None}
    PROVE  Adjusted(delta) \in Nat \cup {None}
  BY RegistryAssumption DEF Adjusted, LargerOf

LEMMA RegistryInitInv == Init => RegistryInv
  <1> SUFFICES ASSUME Init PROVE RegistryInv
    OBVIOUS
  <1>1. \A r \in Requests : req[r].stage = "idle"
    BY DEF Init, Idle
  <1>2. TypeOK
    <2>1. Idle \in Locals
      BY RegistryAssumption DEF Idle, Locals, Stages
    <2>2. (\E c \in Clients : client[c] = "live") \in BOOLEAN
      BY Zenon
    <2>3. alarm \in BOOLEAN
      BY <2>2 DEF Init
    <2>4. client \in [Clients -> States]
      BY DEF Init, States
    <2>5. /\ hour \in 0 .. MaxHour /\ deaths \in 0 .. MaxDeaths
          /\ spent \in [Sources -> Nat] /\ req \in [Requests -> Locals]
      BY <2>1, RegistryAssumption DEF Init
    <2> QED BY <2>3, <2>4, <2>5 DEF Init, TypeOK
  <1>3. TouchesClients /\ NoDriftBefore /\ CounterExact
    BY <1>1 DEF Init, TouchesClients, NoDriftBefore, CounterExact, At
  <1>4. CapKept
    <2>1. Touched = {} /\ Pending = {}
      BY <1>1 DEF Touched, Touching, Pending, At
    <2>2. Stored \cup Touched = Stored /\ Cardinality(Pending) = 0
      BY <2>1, FS_EmptySet
    <2>3. Cardinality(Requests) \in Nat /\ Cardinality(Requests) # 0
      BY RegistryAssumption, FS_EmptySet, FS_CardinalityType
    <2>4. Cardinality(Stored) \in Nat /\ Cardinality(Stored) <= MaxClients /\ MaxClients \in Nat
      BY Finite, RegistryAssumption DEF Init
    <2>5. Cardinality(Stored \cup Touched) = Cardinality(Stored)
      BY <2>2
    <2> HIDE DEF Touched, Pending, Stored
    <2> QED BY <2>2, <2>3, <2>4, <2>5 DEF CapKept
  <1> QED BY <1>2, <1>3, <1>4 DEF RegistryInv

LEMMA RegistryTypeStep ==
    TypeOK /\ TouchesClients /\ [Next]_vars => TypeOK' /\ TouchesClients'
  <1> SUFFICES ASSUME TypeOK, TouchesClients, [Next]_vars PROVE TypeOK' /\ TouchesClients'
    OBVIOUS
  <1>a. /\ client \in [Clients -> States] /\ counter \in Nat \cup {None}
        /\ alarm \in BOOLEAN /\ hour \in 0 .. MaxHour /\ spent \in [Sources -> Nat]
        /\ req \in [Requests -> Locals]
        /\ deaths \in 0 .. MaxDeaths /\ drift \in Nat /\ unswept \in BOOLEAN
    BY DEF TypeOK
  <1>b. /\ {MaxClients, MaxPerHour, MaxHour, MaxDeaths} \subseteq Nat
        /\ {None, "legacy", "live", "expired"} \subseteq States
    BY RegistryAssumption DEF States
  \* A request that ends, or goes on as one that touches no client.
  <1>c. ASSUME NEW r \in Requests, End(r)
        PROVE  req' \in [Requests -> Locals] /\ TouchesClients'
    <2>1. Idle \in Locals /\ Idle.stage # "touch"
      BY <1>b DEF Idle, Locals, Stages
    <2>2. req' = [req EXCEPT ![r] = Idle]
      BY <1>c DEF End
    <2> QED BY <1>a, <2>1, <2>2 DEF TouchesClients, At
  <1>d. ASSUME NEW r \in Requests, NEW l \in Locals, req' = [req EXCEPT ![r] = l],
               l.stage = "touch" => l.client \in Clients
        PROVE  req' \in [Requests -> Locals] /\ TouchesClients'
    BY <1>a, <1>d DEF TouchesClients, At
  <1>e. UNCHANGED req => req' \in [Requests -> Locals] /\ TouchesClients'
    BY <1>a DEF TouchesClients, At
  <1>f. \A gone : [c \in Clients |-> IF c \in gone THEN None ELSE client[c]]
                     \in [Clients -> States]
    BY <1>a, <1>b
  <1>g. ASSUME NEW c \in Clients, StorePut(c)
        PROVE  /\ client' \in [Clients -> States] /\ counter' \in Nat \cup {None}
               /\ alarm' \in BOOLEAN /\ unswept' \in BOOLEAN /\ UNCHANGED <<deaths, drift>>
    <2>1. (IF client[c] = None THEN 1 ELSE 0) \in Int
      OBVIOUS
    <2>2. Adjusted(IF client[c] = None THEN 1 ELSE 0) \in Nat \cup {None}
      BY <1>a, <2>1, AdjustedTyped
    <2> QED BY <1>a, <1>b, <1>g, <2>2 DEF StorePut, ScheduleSweep
  <1>1. CASE UNCHANGED vars
    BY <1>1, <1>e DEF TypeOK, vars, died
  <1>2. CASE Alarm
    <2>1. -Cardinality(Expired) \in Int
      BY Finite
    <2>2. Adjusted(-Cardinality(Expired)) \in Nat \cup {None}
      BY <1>a, <2>1, AdjustedTyped
    <2> QED BY <1>2, <1>a, <1>e, <1>f, <2>2 DEF Alarm, TypeOK, died
  <1>3. CASE NewHour
    BY <1>3, <1>a, <1>b, <1>e DEF NewHour, TypeOK, died
  <1>4. ASSUME NEW c \in Clients, Expire(c) PROVE TypeOK' /\ TouchesClients'
    BY <1>4, <1>a, <1>b, <1>e DEF Expire, TypeOK, died
  <1>5. ASSUME NEW r \in Requests, NEW s \in Sources, Count(r, s)
        PROVE  TypeOK' /\ TouchesClients'
    <2>1. Cardinality(Stored \ Expired) \in Nat
      BY Finite, FS_Difference, FS_CardinalityType
    <2>2. counter' \in Nat \cup {None} /\ client' \in [Clients -> States]
      BY <1>5, <1>a, <1>f, <2>1 DEF Count
    <2>3. \/ UNCHANGED req
          \/ \E stage \in {"put", "increment"} : req' = [req EXCEPT ![r] =
                [stage |-> stage, client |-> None, source |-> s, hour |-> hour]]
      BY <1>5 DEF Count, Idle
    <2>4. \A stage \in {"put", "increment"} :
            [stage |-> stage, client |-> None, source |-> s, hour |-> hour] \in Locals
      BY <1>a DEF Locals, Stages
    <2>5. req' \in [Requests -> Locals] /\ TouchesClients'
      BY <1>d, <1>e, <2>3, <2>4
    <2> QED BY <1>5, <1>a, <2>2, <2>5 DEF Count, TypeOK, died
  <1>6. ASSUME NEW r \in Requests, Increment(r) PROVE TypeOK' /\ TouchesClients'
    <2>1. CASE End(r) /\ UNCHANGED <<spent, alarm, died, client, counter, hour>>
      BY <2>1, <1>a, <1>c DEF TypeOK, died
    <2>2. CASE /\ spent' = [spent EXCEPT ![req[r].source] =
                              IF req[r].hour = hour THEN @ + 1 ELSE @]
               /\ ScheduleSweep /\ UNCHANGED <<client, counter, hour>>
               /\ req' = [req EXCEPT ![r].stage = "put"]
      <3>1. req[r] \in Locals
        BY <1>a
      <3>2. [req[r] EXCEPT !.stage = "put"] \in Locals /\ [req[r] EXCEPT !.stage = "put"].stage = "put"
        BY <3>1 DEF Locals, Stages
      <3>3. req' = [req EXCEPT ![r] = [req[r] EXCEPT !.stage = "put"]]
        BY <2>2, <1>a
      <3>4. req' \in [Requests -> Locals] /\ TouchesClients'
        BY <1>d, <3>2, <3>3
      <3>5. spent' \in [Sources -> Nat]
        <4>1. \/ spent' = spent
              \/ spent' = [spent EXCEPT ![req[r].source] = @ + 1]
          BY <2>2, <1>a
        <4>2. ASSUME NEW x, spent' = [spent EXCEPT ![x] = @ + 1]
              PROVE  spent' \in [Sources -> Nat]
          <5>1. \A s \in Sources : spent'[s] = IF s = x THEN spent[s] + 1 ELSE spent[s]
            BY <1>a, <4>2
          <5>2. spent' = [s \in Sources |-> spent'[s]]
            BY <1>a, <4>2
          <5>3. \A s \in Sources : spent'[s] \in Nat
            BY <1>a, <5>1
          <5> QED BY <5>2, <5>3
        <4> QED BY <1>a, <4>1, <4>2
      <3> QED BY <2>2, <1>a, <3>4, <3>5 DEF ScheduleSweep, TypeOK
    <2> QED BY <1>6, <2>1, <2>2 DEF Increment
  <1>7. ASSUME NEW r \in Requests, NEW c \in Clients, PutClient(r, c)
        PROVE  TypeOK' /\ TouchesClients'
    BY <1>7, <1>a, <1>c, <1>g DEF PutClient, TypeOK
  <1>8. ASSUME NEW r \in Requests, NEW c \in Clients, GetClient(r, c)
        PROVE  TypeOK' /\ TouchesClients'
    <2>1. Adjusted(-1) \in Nat \cup {None}
      BY <1>a, AdjustedTyped
    <2>2. client' \in [Clients -> States] /\ counter' \in Nat \cup {None}
      BY <1>8, <1>a, <1>b, <2>1 DEF GetClient
    <2>3. \/ UNCHANGED req
          \/ req' = [req EXCEPT ![r] =
                [stage |-> "touch", client |-> c, source |-> None, hour |-> 0]]
      BY <1>8 DEF GetClient, Idle
    <2>4. [stage |-> "touch", client |-> c, source |-> None, hour |-> 0] \in Locals
      BY <1>b DEF Locals, Stages
    <2>5. req' \in [Requests -> Locals] /\ TouchesClients'
      BY <1>d, <1>e, <2>3, <2>4
    <2> QED BY <1>8, <1>a, <2>2, <2>5 DEF GetClient, TypeOK, died
  <1>9. ASSUME NEW r \in Requests, Touch(r) PROVE TypeOK' /\ TouchesClients'
    <2>1. req[r].client \in Clients
      BY <1>9 DEF Touch, TouchesClients
    <2> QED BY <1>9, <1>a, <1>c, <1>g, <2>1 DEF Touch, TypeOK
  <1>10. ASSUME NEW r \in Requests, Leave(r) PROVE TypeOK' /\ TouchesClients'
    BY <1>10, <1>a, <1>c DEF Leave, TypeOK, died
  <1>h. Die => deaths' \in 0 .. MaxDeaths /\ UNCHANGED <<hour, spent>>
    BY <1>a, <1>b DEF Die
  <1>i. \A n \in Nat : Drifts(n) => drift' \in Nat
    BY <1>a DEF Drifts
  <1>11. CASE DieDeleted
    <2>1. PICK gone \in SUBSET Expired \ {{}} :
            /\ client' = [c \in Clients |-> IF c \in gone THEN None ELSE client[c]]
            /\ Drifts(Cardinality(gone))
      BY <1>11 DEF DieDeleted
    <2>2. Cardinality(gone) \in Nat
      BY Finite, FS_Subset, FS_CardinalityType
    <2> QED BY <1>11, <1>a, <1>e, <1>f, <1>h, <1>i, <2>1, <2>2 DEF DieDeleted, TypeOK
  <1>12. ASSUME NEW r \in Requests, NEW c \in Clients, DieCounted(r, c)
         PROVE  TypeOK' /\ TouchesClients'
    <2>1. Adjusted(1) \in Nat \cup {None}
      BY <1>a, AdjustedTyped
    <2> QED BY <1>12, <1>a, <1>c, <1>h, <1>i, <2>1 DEF DieCounted, TypeOK
  <1>13. ASSUME NEW r \in Requests, NEW c \in Clients, DieUnscheduled(r, c)
         PROVE  TypeOK' /\ TouchesClients'
    <2>1. (IF client[c] = None THEN 1 ELSE 0) \in Int
      OBVIOUS
    <2>2. Adjusted(IF client[c] = None THEN 1 ELSE 0) \in Nat \cup {None}
      BY <1>a, <2>1, AdjustedTyped
    <2>3. client' \in [Clients -> States] /\ unswept' \in BOOLEAN
      BY <1>13, <1>a, <1>b DEF DieUnscheduled
    <2> QED BY <1>13, <1>a, <1>c, <1>h, <2>2, <2>3 DEF DieUnscheduled, TypeOK
  <1> QED BY <1>1, <1>2, <1>3, <1>4, <1>5, <1>6, <1>7, <1>8, <1>9, <1>10, <1>11, <1>12,
             <1>13 DEF Next, Register, Resolve

-----------------------------------------------------------------------------
(* The counter. *)

\* What a put adds.
LEMMA PutCounts ==
    ASSUME TypeOK, NEW c \in Clients, client' = [client EXCEPT ![c] = "live"]
    PROVE  /\ Stored' = Stored \cup {c}
           /\ Cardinality(Stored') = Cardinality(Stored) + (IF client[c] = None THEN 1 ELSE 0)
  <1>1. client \in [Clients -> States] /\ None # "live"
    BY RegistryAssumption DEF TypeOK
  <1>2. Stored' = Stored \cup {c}
    BY <1>1 DEF Stored
  <1>3. c \in Stored <=> client[c] # None
    BY DEF Stored
  <1>4. Cardinality(Stored \cup {c}) = Cardinality(Stored) + (IF c \in Stored THEN 0 ELSE 1)
    <2>1. CASE c \in Stored
      <3>1. Stored \cup {c} = Stored
        BY <2>1
      <3> QED BY <2>1, <3>1, Finite
    <2>2. CASE c \notin Stored
      BY <2>2, Finite, FS_AddElement
    <2> QED BY <2>1, <2>2
  <1> QED BY <1>2, <1>3, <1>4

\* What dropping expired records takes away.
LEMMA DropCounts ==
    ASSUME NEW gone \in SUBSET Expired,
           client' = [c \in Clients |-> IF c \in gone THEN None ELSE client[c]]
    PROVE  /\ Stored' = Stored \ gone
           /\ Cardinality(gone) \in Nat
           /\ Cardinality(Stored') = Cardinality(Stored) - Cardinality(gone)
  <1>1. gone \subseteq Stored
    BY RegistryAssumption DEF Expired, Stored
  <1>2. Stored' = Stored \ gone
    BY DEF Stored
  <1>3. IsFiniteSet(gone) /\ Cardinality(gone) \in Nat
    BY Finite, FS_Subset, FS_CardinalityType
  <1>4. Cardinality(Stored \ gone) = Cardinality(Stored) - Cardinality(Stored \cap gone)
    BY Finite, FS_Difference
  <1>5. Stored \cap gone = gone
    BY <1>1
  <1> QED BY <1>2, <1>3, <1>4, <1>5

\* An adjustment by what changed keeps the counter exact, and never meets its
\* lower bound.
LEMMA CounterMoves ==
    ASSUME TypeOK, TypeOK', CounterExact, NEW delta \in Int, counter' = Adjusted(delta),
           counter # None =>
             Cardinality(Stored') + drift' = Cardinality(Stored) + drift + delta
    PROVE  CounterExact'
  <1>1. /\ counter \in Nat \cup {None} /\ drift \in Nat /\ drift' \in Nat
        /\ Cardinality(Stored) \in Nat /\ Cardinality(Stored') \in Nat
    BY Finite, FiniteNext DEF TypeOK
  <1>2. CASE counter = None
    BY <1>2 DEF CounterExact, Adjusted
  <1>3. CASE counter # None
    <2>1. counter = Cardinality(Stored) + drift
      BY <1>3 DEF CounterExact
    <2>2. counter + delta = Cardinality(Stored') + drift'
      BY <1>1, <1>3, <2>1
    <2>3. counter' = counter + delta
      BY <1>1, <1>3, <2>2 DEF Adjusted, LargerOf
    <2> QED BY <2>2, <2>3 DEF CounterExact
  <1> QED BY <1>2, <1>3

\* Neither the counter nor the set of stored clients changes.
LEMMA CounterStays ==
    ASSUME CounterExact, counter' = counter, drift' = drift, Stored' = Stored
    PROVE  CounterExact'
  BY DEF CounterExact

LEMMA CounterStep ==
    TypeOK /\ TypeOK' /\ TouchesClients /\ NoDriftBefore /\ CounterExact /\ [Next]_vars
      => NoDriftBefore' /\ CounterExact'
  <1> SUFFICES ASSUME TypeOK, TypeOK', TouchesClients, NoDriftBefore, CounterExact, [Next]_vars
               PROVE  NoDriftBefore' /\ CounterExact'
    OBVIOUS
  <1>a. /\ client \in [Clients -> States] /\ counter \in Nat \cup {None} /\ drift \in Nat
        /\ None \notin Nat
    BY RegistryAssumption DEF TypeOK
  <1>b. UNCHANGED <<client, counter, drift>> => NoDriftBefore' /\ CounterExact'
    BY CounterStays DEF NoDriftBefore, Stored
  <1>c. ASSUME NEW delta \in Int, counter' = Adjusted(delta), drift' = drift \/ counter # None
        PROVE  NoDriftBefore'
    <2>1. counter # None => counter' # None
      BY <1>a, <1>c DEF Adjusted, LargerOf
    <2> QED BY <1>c, <2>1 DEF NoDriftBefore
  <1>d. ASSUME NEW c \in Clients, client' = [client EXCEPT ![c] = "live"],
               counter' = Adjusted(IF client[c] = None THEN 1 ELSE 0), drift' = drift
        PROVE  NoDriftBefore' /\ CounterExact'
    <2>1. (IF client[c] = None THEN 1 ELSE 0) \in Int
      OBVIOUS
    <2>2. Cardinality(Stored') = Cardinality(Stored) + (IF client[c] = None THEN 1 ELSE 0)
      BY <1>d, PutCounts
    <2>3. Cardinality(Stored') + drift'
            = Cardinality(Stored) + drift + (IF client[c] = None THEN 1 ELSE 0)
      BY <1>a, <1>d, <2>1, <2>2, Finite
    <2> QED BY <1>c, <1>d, <2>1, <2>3, CounterMoves
  <1>e. ASSUME NEW gone \in SUBSET Expired, counter' = Adjusted(-Cardinality(gone)),
               client' = [c \in Clients |-> IF c \in gone THEN None ELSE client[c]],
               drift' = drift
        PROVE  NoDriftBefore' /\ CounterExact'
    <2>1. /\ Cardinality(gone) \in Nat
          /\ Cardinality(Stored') = Cardinality(Stored) - Cardinality(gone)
      BY <1>e, DropCounts
    <2>2. Cardinality(Stored') + drift' = Cardinality(Stored) + drift + (-Cardinality(gone))
      BY <1>a, <1>e, <2>1, Finite
    <2>3. -Cardinality(gone) \in Int
      BY <2>1
    <2> QED BY <1>c, <1>e, <2>2, <2>3, CounterMoves
  <1>1. CASE UNCHANGED vars
    BY <1>1, <1>b DEF vars, died
  <1>2. CASE Alarm
    BY <1>2, <1>e DEF Alarm, died
  <1>3. CASE NewHour
    BY <1>3, <1>b DEF NewHour, died
  <1>4. ASSUME NEW c \in Clients, Expire(c) PROVE NoDriftBefore' /\ CounterExact'
    <2>1. Stored' = Stored
      BY <1>4, <1>a, RegistryAssumption DEF Expire, Stored
    <2> QED BY <1>4, <2>1, CounterStays DEF Expire, NoDriftBefore, died
  <1>5. ASSUME NEW r \in Requests, NEW s \in Sources, Count(r, s)
        PROVE  NoDriftBefore' /\ CounterExact'
    <2>1. CASE counter = None
      <3>1. /\ counter' = Cardinality(Stored \ Expired) /\ drift' = 0
            /\ client' = [c \in Clients |-> IF c \in Expired THEN None ELSE client[c]]
        BY <1>5, <2>1 DEF Count, died, NoDriftBefore
      <3>2. Stored' = Stored \ Expired
        BY <3>1, DropCounts
      <3>3. Cardinality(Stored') \in Nat
        BY FiniteNext
      <3> QED BY <3>1, <3>2, <3>3 DEF NoDriftBefore, CounterExact
    <2>2. CASE counter # None
      BY <1>5, <2>2, <1>b DEF Count, died
    <2> QED BY <2>1, <2>2
  <1>6. ASSUME NEW r \in Requests, Increment(r) PROVE NoDriftBefore' /\ CounterExact'
    BY <1>6, <1>b DEF Increment, ScheduleSweep, died
  <1>7. ASSUME NEW r \in Requests, NEW c \in Clients, PutClient(r, c)
        PROVE  NoDriftBefore' /\ CounterExact'
    BY <1>7, <1>d DEF PutClient, StorePut, ScheduleSweep
  <1>8. ASSUME NEW r \in Requests, NEW c \in Clients, GetClient(r, c)
        PROVE  NoDriftBefore' /\ CounterExact'
    <2>1. CASE client[c] = "expired"
      <3>1. {c} \in SUBSET Expired /\ Cardinality({c}) = 1
        BY <2>1, FS_Singleton DEF Expired
      <3>2. /\ client' = [d \in Clients |-> IF d \in {c} THEN None ELSE client[d]]
            /\ counter' = Adjusted(-1) /\ drift' = drift
        BY <1>8, <1>a, <2>1 DEF GetClient, died
      <3>3. counter' = Adjusted(-Cardinality({c}))
        BY <3>1, <3>2
      <3> QED BY <1>e, <3>1, <3>2, <3>3
    <2>2. CASE client[c] # "expired"
      BY <1>8, <2>2, <1>b DEF GetClient, died
    <2> QED BY <2>1, <2>2
  <1>9. ASSUME NEW r \in Requests, Touch(r) PROVE NoDriftBefore' /\ CounterExact'
    <2>1. req[r].client \in Clients
      BY <1>9 DEF Touch, TouchesClients
    <2> QED BY <1>9, <1>d, <2>1 DEF Touch, StorePut, ScheduleSweep
  <1>10. ASSUME NEW r \in Requests, Leave(r) PROVE NoDriftBefore' /\ CounterExact'
    BY <1>10, <1>b DEF Leave, died
  <1>11. CASE DieDeleted
    <2>1. PICK gone \in SUBSET Expired \ {{}} :
            /\ client' = [c \in Clients |-> IF c \in gone THEN None ELSE client[c]]
            /\ Drifts(Cardinality(gone))
      BY <1>11 DEF DieDeleted
    <2>2. /\ Cardinality(gone) \in Nat
          /\ Cardinality(Stored') = Cardinality(Stored) - Cardinality(gone)
      BY <2>1, DropCounts
    <2>3. counter' = counter
      BY <1>11 DEF DieDeleted
    <2>4. counter # None => Cardinality(Stored') + drift' = Cardinality(Stored) + drift
      BY <1>a, <2>1, <2>2, Finite DEF Drifts
    <2> QED BY <2>1, <2>3, <2>4 DEF Drifts, NoDriftBefore, CounterExact
  <1>12. ASSUME NEW r \in Requests, NEW c \in Clients, DieCounted(r, c)
         PROVE  NoDriftBefore' /\ CounterExact'
    <2>1. counter' = Adjusted(1) /\ Drifts(1) /\ Stored' = Stored
      BY <1>12 DEF DieCounted, Stored
    <2>2. counter # None => Cardinality(Stored') + drift' = Cardinality(Stored) + drift + 1
      BY <1>a, <2>1, Finite DEF Drifts
    <2>3. drift' = drift \/ counter # None
      BY <2>1 DEF Drifts
    <2> QED BY <1>c, <2>1, <2>2, <2>3, CounterMoves
  <1>13. ASSUME NEW r \in Requests, NEW c \in Clients, DieUnscheduled(r, c)
         PROVE  NoDriftBefore' /\ CounterExact'
    BY <1>13, <1>d DEF DieUnscheduled
  <1> QED BY <1>1, <1>2, <1>3, <1>4, <1>5, <1>6, <1>7, <1>8, <1>9, <1>10, <1>11, <1>12,
             <1>13 DEF Next, Register, Resolve

-----------------------------------------------------------------------------
(* The cap. *)

\* No client is claimed and no request begins to register.
LEMMA CapShrinks ==
    ASSUME CapKept, (Stored \cup Touched)' \subseteq Stored \cup Touched,
           Pending' \subseteq Pending
    PROVE  CapKept'
  <1>1. Cardinality((Stored \cup Touched)') <= Cardinality(Stored \cup Touched)
    BY Finite, FS_Subset
  <1>2. Cardinality(Pending') <= Cardinality(Pending)
    BY Finite, FS_Subset
  <1> QED BY <1>1, <1>2, Finite, FiniteNext, RegistryAssumption DEF CapKept

\* A request that registers ends with one more client.
LEMMA CapMoves ==
    ASSUME CapKept, NEW c, NEW r \in Pending,
           (Stored \cup Touched)' \subseteq (Stored \cup Touched) \cup {c},
           Pending' \subseteq Pending \ {r}
    PROVE  CapKept'
  <1>1. Cardinality((Stored \cup Touched)') <= Cardinality(Stored \cup Touched) + 1
    <2>1. /\ IsFiniteSet((Stored \cup Touched) \cup {c})
          /\ Cardinality((Stored \cup Touched) \cup {c})
               \in {Cardinality(Stored \cup Touched), Cardinality(Stored \cup Touched) + 1}
      BY Finite, FS_AddElement
    <2>2. Cardinality((Stored \cup Touched)') <= Cardinality((Stored \cup Touched) \cup {c})
      BY <2>1, FS_Subset
    <2> QED BY <2>1, <2>2, Finite, FiniteNext
  <1>2. Cardinality(Pending') <= Cardinality(Pending) - 1
    <2>1. IsFiniteSet(Pending \ {r}) /\ Cardinality(Pending \ {r}) = Cardinality(Pending) - 1
      BY Finite, FS_RemoveElement
    <2> QED BY <2>1, FS_Subset
  <1> QED BY <1>1, <1>2, Finite, FiniteNext, RegistryAssumption DEF CapKept

\* A request begins to register only below the cap: then the cap is kept however
\* many requests register and touch already, as each does one or the other.
LEMMA CapStarts ==
    ASSUME TypeOK', CounterExact', counter' # None, counter' < MaxClients
    PROVE  CapKept'
  <1>1. Cardinality(Stored') <= MaxClients - 1
    <2>1. counter' = Cardinality(Stored') + drift' /\ drift' \in Nat
      BY DEF CounterExact, TypeOK
    <2> QED BY <2>1, FiniteNext, RegistryAssumption
  <1>2. Cardinality(Touched') <= Cardinality(Touching')
    <2> DEFINE S == {r \in Touching' : req'[r].client \in Clients}
               f == [r \in S |-> req'[r].client]
    <2>1. Touched' = {c \in Clients : \E r \in Touching' : req'[r].client = c}
      BY DEF Touched
    <2>2. f \in Surjection(S, Touched')
      BY <2>1 DEF Surjection
    <2>3. IsFiniteSet(S) /\ Cardinality(S) <= Cardinality(Touching') /\ Cardinality(S) \in Nat
      BY FiniteNext, FS_Subset, FS_CardinalityType
    <2>4. Cardinality(Touched') <= Cardinality(S)
      <3> HIDE DEF S, f
      <3> QED BY <2>2, <2>3, FS_Surjection
    <2> QED BY <2>3, <2>4, FiniteNext
  <1>3. Cardinality((Stored \cup Touched)') <= Cardinality(Stored') + Cardinality(Touched')
    <2>1. Cardinality(Stored' \cup Touched')
            = Cardinality(Stored') + Cardinality(Touched') - Cardinality(Stored' \cap Touched')
      BY FiniteNext, FS_Union
    <2>2. Cardinality(Stored' \cap Touched') \in Nat
      BY FiniteNext, FS_Intersection, FS_CardinalityType
    <2> QED BY <2>1, <2>2, FiniteNext
  <1>4. Cardinality(Pending') + Cardinality(Touching') <= Cardinality(Requests)
    <2>1. Pending' \cap Touching' = {}
      BY DEF Pending, Touching, At
    <2>2. Pending' \cup Touching' \in SUBSET Requests
      BY DEF Pending, Touching
    <2>3. Cardinality(Pending' \cup Touching')
            = Cardinality(Pending') + Cardinality(Touching')
      <3>1. Cardinality(Pending' \cup Touching')
              = Cardinality(Pending') + Cardinality(Touching') - Cardinality(Pending' \cap Touching')
        BY FiniteNext, FS_Union
      <3>2. Cardinality(Pending' \cap Touching') = 0
        BY <2>1, FS_EmptySet
      <3> QED BY <3>1, <3>2, FiniteNext
    <2>4. Cardinality(Pending' \cup Touching') <= Cardinality(Requests)
      BY <2>2, Finite, FS_Subset
    <2> QED BY <2>3, <2>4
  <1> QED BY <1>1, <1>2, <1>3, <1>4, Finite, FiniteNext, RegistryAssumption DEF CapKept

LEMMA CapStep ==
    TypeOK /\ TypeOK' /\ TouchesClients /\ CounterExact' /\ CapKept /\ [Next]_vars => CapKept'
  <1> SUFFICES ASSUME TypeOK, TypeOK', TouchesClients, CounterExact', CapKept, [Next]_vars
               PROVE  CapKept'
    OBVIOUS
  <1>a. client \in [Clients -> States] /\ req \in [Requests -> Locals]
    BY DEF TypeOK
  \* What happens to the requests.
  <1>b. UNCHANGED req => Pending' = Pending /\ Touched' = Touched
    BY DEF Pending, Touched, Touching, At
  <1>c. ASSUME NEW r \in Requests, End(r)
        PROVE  Pending' \subseteq Pending \ {r} /\ Touched' \subseteq Touched
    BY <1>a, <1>c DEF End, Pending, Touched, Touching, At, Idle
  \* What happens to the clients.
  <1>d. UNCHANGED client => Stored' = Stored
    BY DEF Stored
  <1>e. \A gone :
          client' = [c \in Clients |-> IF c \in gone THEN None ELSE client[c]]
            => Stored' \subseteq Stored
    BY DEF Stored
  <1>f. \A c \in Clients : client' = [client EXCEPT ![c] = "live"] => Stored' \subseteq Stored \cup {c}
    BY <1>a DEF Stored
  \* A put by a request that registers, and by one that touches.
  <1>g. ASSUME NEW r \in Requests, NEW c \in Clients, Puts(r, c), End(r),
               client' = [client EXCEPT ![c] = "live"]
        PROVE  CapKept'
    <2>1. Pending' \subseteq Pending \ {r} /\ Touched' \subseteq Touched
      BY <1>c, <1>g
    <2>2. Stored' \subseteq Stored \cup {c}
      BY <1>f, <1>g
    <2>3. CASE At(r, "put")
      <3>1. r \in Pending
        BY <2>3 DEF Pending
      <3> QED BY <2>1, <2>2, <3>1, CapMoves
    <2>4. CASE At(r, "touch") /\ req[r].client = c
      <3>1. c \in Touched
        BY <2>4 DEF Touched, Touching
      <3> QED BY <2>1, <2>2, <3>1, CapShrinks
    <2> QED BY <1>g, <2>3, <2>4 DEF Puts
  <1>1. CASE UNCHANGED vars
    BY <1>1, <1>b, <1>d, CapShrinks DEF vars
  <1>2. CASE Alarm
    BY <1>2, <1>b, <1>e, CapShrinks DEF Alarm
  <1>3. CASE NewHour
    BY <1>3, <1>b, <1>d, CapShrinks DEF NewHour
  <1>4. ASSUME NEW c \in Clients, Expire(c) PROVE CapKept'
    <2>1. Stored' = Stored
      BY <1>4, <1>a, RegistryAssumption DEF Expire, Stored
    <2> QED BY <1>4, <1>b, <2>1, CapShrinks DEF Expire
  <1>5. ASSUME NEW r \in Requests, NEW s \in Sources, Count(r, s) PROVE CapKept'
    <2>1. CASE UNCHANGED req
      <3>1. Stored' \subseteq Stored
        BY <1>5, <1>d, <1>e DEF Count
      <3> QED BY <1>b, <2>1, <3>1, CapShrinks
    <2>2. CASE ~UNCHANGED req
      <3>1. counter' \in Nat
        <4>1. Cardinality(Stored \ Expired) \in Nat
          BY Finite, FS_Difference, FS_CardinalityType
        <4> QED BY <1>5, <4>1 DEF Count, TypeOK
      <3>2. counter' < MaxClients /\ counter' # None
        BY <1>5, <2>2, <3>1, RegistryAssumption DEF Count, Full
      <3> QED BY <3>2, CapStarts
    <2> QED BY <2>1, <2>2
  <1>6. ASSUME NEW r \in Requests, Increment(r) PROVE CapKept'
    <2>1. CASE End(r) /\ UNCHANGED client
      BY <2>1, <1>c, <1>d, CapShrinks
    <2>2. CASE req' = [req EXCEPT ![r].stage = "put"] /\ UNCHANGED client /\ At(r, "increment")
      <3>1. \A q \in Requests : q # r => req'[q] = req[q]
        BY <2>2, <1>a
      <3>2. req'[r].stage = "put"
        BY <2>2, <1>a DEF Locals
      <3>3. Pending' \subseteq Pending /\ Touched' \subseteq Touched
        BY <2>2, <3>1, <3>2 DEF Pending, Touched, Touching, At
      <3> QED BY <2>2, <1>d, <3>3, CapShrinks
    <2> QED BY <1>6, <2>1, <2>2 DEF Increment
  <1>7. ASSUME NEW r \in Requests, NEW c \in Clients, PutClient(r, c) PROVE CapKept'
    BY <1>7, <1>g DEF PutClient, StorePut, Puts
  <1>8. ASSUME NEW r \in Requests, NEW c \in Clients, GetClient(r, c) PROVE CapKept'
    <2>1. CASE UNCHANGED req
      <3>1. client' = [client EXCEPT ![c] = None] \/ client' = client
        BY <1>8 DEF GetClient
      <3>2. Stored' \subseteq Stored
        BY <1>a, <3>1 DEF Stored
      <3> QED BY <1>b, <2>1, <3>2, CapShrinks
    <2>2. CASE /\ req' = [req EXCEPT ![r] = [Idle EXCEPT !.stage = "touch", !.client = c]]
               /\ UNCHANGED client
      <3>1. \A q \in Requests : q # r => req'[q] = req[q]
        BY <2>2, <1>a
      <3>2. req'[r].stage = "touch" /\ req'[r].client = c
        BY <2>2, <1>a DEF Idle
      <3>3. c \in Stored
        BY <1>8 DEF GetClient, Stored
      <3>4. Pending' \subseteq Pending /\ Touched' \subseteq Touched \cup {c}
        BY <3>1, <3>2 DEF Pending, Touched, Touching, At
      <3> QED BY <2>2, <1>d, <3>3, <3>4, CapShrinks
    <2> QED BY <1>8, <2>1, <2>2 DEF GetClient
  <1>9. ASSUME NEW r \in Requests, Touch(r) PROVE CapKept'
    <2>1. req[r].client \in Clients
      BY <1>9 DEF Touch, TouchesClients
    <2> QED BY <1>9, <1>g, <2>1 DEF Touch, StorePut, Puts
  <1>10. ASSUME NEW r \in Requests, Leave(r) PROVE CapKept'
    BY <1>10, <1>c, <1>d, CapShrinks DEF Leave
  <1>11. CASE DieDeleted
    BY <1>11, <1>b, <1>e, CapShrinks DEF DieDeleted
  <1>12. ASSUME NEW r \in Requests, NEW c \in Clients, DieCounted(r, c) PROVE CapKept'
    BY <1>12, <1>c, <1>d, CapShrinks DEF DieCounted
  <1>13. ASSUME NEW r \in Requests, NEW c \in Clients, DieUnscheduled(r, c) PROVE CapKept'
    BY <1>13, <1>g DEF DieUnscheduled
  <1> QED BY <1>1, <1>2, <1>3, <1>4, <1>5, <1>6, <1>7, <1>8, <1>9, <1>10, <1>11, <1>12,
             <1>13 DEF Next, Register, Resolve

-----------------------------------------------------------------------------
LEMMA RegistryInductive == RegistryInv /\ [Next]_vars => RegistryInv'
  BY RegistryTypeStep, CounterStep, CapStep DEF RegistryInv

\* Stored clients are among those the cap counts.
LEMMA RegistryInvCounts == RegistryInv => RegistryCounts
  <1> SUFFICES ASSUME RegistryInv PROVE RegistryCounts
    OBVIOUS
  <1>1. Cardinality(Stored) <= Cardinality(Stored \cup Touched)
    BY Finite, FS_Subset
  <1>2. Pending = {r \in Requests : At(r, "increment") \/ At(r, "put")}
    BY DEF Pending
  <1>3. CapHolds
    <2> HIDE DEF Stored
    <2>1. CapKept
      BY DEF RegistryInv
    <2> QED BY <1>1, <1>2, <2>1, Finite, RegistryAssumption DEF CapHolds, CapKept
  <1> QED BY <1>3 DEF RegistryInv, RegistryCounts

\* Every variable keeps its type (register, resolveClient and the store kind
\* "client" of the Durable Object).
THEOREM RegistryTypeCorrect == Spec => []TypeOK
  <1>1. RegistryInv => TypeOK
    BY DEF RegistryInv
  <1> QED BY RegistryInitInv, RegistryInductive, <1>1, PTL DEF Spec

\* The kept counter is the number of stored clients but for what deaths of the
\* object left it too high, and the cap that is read from it is overshot by the
\* requests in flight only (count, adjustCount, register).
THEOREM RegistryCountsHolds == Spec => []RegistryCounts
  BY RegistryInitInv, RegistryInductive, RegistryInvCounts, PTL DEF Spec

-----------------------------------------------------------------------------
(* FileStore: the type invariant, that no crash loses an acknowledged change, *)
(* and, step by step, that the store does nothing its abstract specification  *)
(* DurableStore does not allow.                                               *)

\* A restart finds no more than the map held, and what the path names is never
\* older than what a power loss leaves of it.
Kernel ==
    /\ disk.holds <= file.holds /\ file.holds <= mem
    /\ file.synced /\ disk.synced

\* The data being written holds the head's change and replaces nothing newer.
Writing ==
    phase # "idle" =>
        /\ chain # <<>>
        /\ want[Head(chain)] <= snap
        /\ file.holds <= snap /\ snap <= mem
        /\ ~dirty => snap = mem
        /\ phase \in {"close", "rename"} => synced
        /\ phase \in {"dir_open", "dir_sync"} => file.holds = snap

\* Nothing dirty and a flush still queued: the flush before it wrote all.
Coalesced == phase = "idle" /\ ~dirty /\ chain # <<>> => F!Kept = mem

\* The queue: callers that wait, each once, for changes the map holds.
Queue ==
    /\ \A i \in 1..Len(chain) :
         /\ outcome[chain[i]] = "waiting"
         /\ want[chain[i]] <= mem
    /\ \A i, j \in 1..Len(chain) : i # j => chain[i] # chain[j]

FileInv == F!TypeOK /\ Kernel /\ Writing /\ Coalesced /\ Queue /\ F!AckedIsDurable

-----------------------------------------------------------------------------
LEMMA FileInitInv == F!Init => FileInv
  <1> SUFFICES ASSUME F!Init PROVE FileInv
    OBVIOUS
  <1> USE DEF F!Init
  <1>1. F!TypeOK
    <2>1. {mem, snap, promised} \subseteq Nat
      OBVIOUS
    <2>5. {dirty, synced, dirSync, torn} \subseteq BOOLEAN
      BY Zenon
    <2>2. chain \in Seq(Callers) /\ want \in [Callers -> Nat]
      OBVIOUS
    <2>3. outcome \in [Callers -> F!Outcomes] /\ phase \in F!Phases
      BY DEF F!Outcomes, F!Phases
    <2>4. {file, disk} \subseteq F!Files
      BY DEF F!Files
    <2> QED BY <2>1, <2>2, <2>3, <2>4, <2>5 DEF F!TypeOK
  <1>2. Kernel /\ Writing /\ Coalesced /\ Queue
    BY DEF Kernel, Writing, Coalesced, Queue
  <1>3. F!AckedIsDurable
    BY DEF F!AckedIsDurable, F!Kept
  <1> QED BY <1>1, <1>2, <1>3 DEF FileInv

\* The first of a queue and the rest of it.
LEMMA QueueShift ==
    ASSUME NEW S, NEW q \in Seq(S), q # <<>>
    PROVE  /\ Head(q) \in S /\ Head(q) = q[1] /\ 1 \in 1..Len(q)
           /\ Tail(q) \in Seq(S)
           /\ Len(Tail(q)) = Len(q) - 1
           /\ \A i \in 1..Len(Tail(q)) : i + 1 \in 1..Len(q) /\ Tail(q)[i] = q[i + 1]
  OBVIOUS

\* A caller joins the queue behind the others.
LEMMA QueueGrow ==
    ASSUME NEW S, NEW q \in Seq(S), NEW c \in S
    PROVE  /\ Append(q, c) \in Seq(S) /\ Append(q, c) # <<>>
           /\ Len(Append(q, c)) = Len(q) + 1
           /\ Append(q, c)[Len(q) + 1] = c
           /\ \A i \in 1..Len(q) : Append(q, c)[i] = q[i]
           /\ q # <<>> => Head(Append(q, c)) = Head(q)
  <1> DEFINE a == Append(q, c)
  <1>1. a \in Seq(S) /\ Len(a) = Len(q) + 1
    OBVIOUS
  <1>2. a[Len(q) + 1] = c /\ \A i \in 1..Len(q) : a[i] = q[i]
    OBVIOUS
  <1>3. a # <<>>
    <2> HIDE DEF a
    <2>1. Len(a) # 0
      BY <1>1
    <2> QED BY <2>1
  <1>4. q # <<>> => Head(a) = Head(q)
    <2> HIDE DEF a
    <2> SUFFICES ASSUME q # <<>> PROVE Head(a) = Head(q)
      OBVIOUS
    <2>1. 1 \in 1..Len(q) /\ Head(q) = q[1] /\ Head(a) = a[1]
      BY <1>1
    <2> QED BY <1>2, <2>1
  <1> QED BY <1>1, <1>2, <1>3, <1>4

\* What the answer to the head of the queue leaves behind.
LEMMA SettleLeaves ==
    ASSUME F!TypeOK, Queue, chain # <<>>, NEW o \in {"saved", "failed"}, F!Settle(o),
           UNCHANGED <<mem, want>>
    PROVE  /\ Head(chain) \in Callers /\ outcome[Head(chain)] = "waiting"
           /\ want[Head(chain)] <= mem
           /\ phase' = "idle"
           /\ chain' \in Seq(Callers) /\ Queue'
           /\ outcome' = [outcome EXCEPT ![Head(chain)] = o]
           /\ outcome' \in [Callers -> F!Outcomes]
           /\ promised' \in {promised, want[Head(chain)]}
           /\ o = "failed" => promised' = promised
           /\ promised' \in Nat
  <1> DEFINE c == Head(chain)
  <1>1. /\ chain \in Seq(Callers) /\ outcome \in [Callers -> F!Outcomes]
        /\ want \in [Callers -> Nat] /\ promised \in Nat
    BY DEF F!TypeOK
  <1>2. /\ c \in Callers /\ c = chain[1] /\ 1 \in 1..Len(chain)
        /\ Tail(chain) \in Seq(Callers)
        /\ \A i \in 1..Len(Tail(chain)) :
             i + 1 \in 1..Len(chain) /\ Tail(chain)[i] = chain[i + 1]
    BY <1>1, QueueShift
  <1>3. outcome[c] = "waiting" /\ want[c] <= mem
    BY <1>2 DEF Queue
  <1>4. /\ outcome' = [outcome EXCEPT ![c] = o] /\ chain' = Tail(chain) /\ phase' = "idle"
        /\ promised' = IF o = "saved" /\ want[c] > promised THEN want[c] ELSE promised
    BY DEF F!Settle
  <1> HIDE DEF c
  <1>5. ASSUME NEW i \in 1..Len(chain')
        PROVE  outcome'[chain'[i]] = "waiting" /\ want'[chain'[i]] <= mem'
    <2>1. i + 1 \in 1..Len(chain) /\ chain'[i] = chain[i + 1] /\ i + 1 # 1
      BY <1>2, <1>4
    <2>2. chain[i + 1] # c /\ outcome[chain[i + 1]] = "waiting" /\ want[chain[i + 1]] <= mem
      BY <1>2, <2>1 DEF Queue
    <2>3. chain[i + 1] \in Callers
      BY <1>1, <2>1
    <2> QED BY <1>1, <1>2, <1>4, <2>1, <2>2, <2>3
  <1>6. ASSUME NEW i \in 1..Len(chain'), NEW j \in 1..Len(chain'), i # j
        PROVE  chain'[i] # chain'[j]
    <2>1. /\ i + 1 \in 1..Len(chain) /\ chain'[i] = chain[i + 1]
          /\ j + 1 \in 1..Len(chain) /\ chain'[j] = chain[j + 1]
          /\ i + 1 # j + 1
      BY <1>2, <1>4, <1>6
    <2> QED BY <2>1 DEF Queue
  <1>7. Queue'
    BY <1>5, <1>6 DEF Queue
  <1>8. outcome' \in [Callers -> F!Outcomes] /\ promised' \in Nat
    BY <1>1, <1>2, <1>4 DEF F!Outcomes
  <1> QED BY <1>2, <1>3, <1>4, <1>7, <1>8 DEF c

-----------------------------------------------------------------------------
(* One lemma per kind of step *)

\* The types, field by field, as the steps below use them.
LEMMA FileTypes ==
    F!TypeOK <=>
        /\ mem \in Nat /\ snap \in Nat /\ promised \in Nat
        /\ dirty \in BOOLEAN /\ synced \in BOOLEAN /\ dirSync \in BOOLEAN /\ torn \in BOOLEAN
        /\ chain \in Seq(Callers) /\ want \in [Callers -> Nat]
        /\ outcome \in [Callers -> F!Outcomes] /\ phase \in F!Phases
        /\ file \in F!Files /\ disk \in F!Files
  BY DEF F!TypeOK

LEMMA ChangeStep ==
    ASSUME FileInv, NEW c \in Callers, F!Change(c)
    PROVE  FileInv'
  <1>a. F!TypeOK /\ Kernel /\ Writing /\ Queue /\ F!AckedIsDurable
    BY DEF FileInv
  <1>b. /\ outcome[c] # "waiting" /\ mem' = mem + 1 /\ dirty' = TRUE
        /\ chain' = Append(chain, c)
        /\ want' = [want EXCEPT ![c] = mem + 1]
        /\ outcome' = [outcome EXCEPT ![c] = "waiting"]
        /\ UNCHANGED <<phase, snap, synced, file, disk, dirSync, torn, promised>>
    BY DEF F!Change
  <1>c. /\ chain \in Seq(Callers) /\ want \in [Callers -> Nat]
        /\ outcome \in [Callers -> F!Outcomes] /\ mem \in Nat /\ snap \in Nat
        /\ file.holds \in Nat
    BY <1>a, FileTypes DEF F!Files
  <1>d. /\ chain' \in Seq(Callers) /\ chain' # <<>> /\ Len(chain') = Len(chain) + 1
        /\ chain'[Len(chain) + 1] = c
        /\ \A i \in 1..Len(chain) : chain'[i] = chain[i]
        /\ chain # <<>> => Head(chain') = Head(chain)
    BY <1>b, <1>c, QueueGrow
  <1>e. \A i \in 1..Len(chain) : chain[i] \in Callers /\ chain[i] # c
    BY <1>a, <1>b, <1>c DEF Queue
  <1>1. F!TypeOK'
    <2>1. mem' \in Nat /\ want' \in [Callers -> Nat]
      BY <1>b, <1>c
    <2>2. outcome' \in [Callers -> F!Outcomes]
      BY <1>b, <1>c DEF F!Outcomes
    <2> QED BY <1>a, <1>b, <1>d, <2>1, <2>2, FileTypes DEF F!TypeOK
  <1>2. Kernel'
    BY <1>a, <1>b, <1>c DEF Kernel
  <1>3. Writing'
    <2> SUFFICES ASSUME phase # "idle"
                 PROVE  want'[Head(chain')] <= snap
      BY <1>a, <1>b, <1>c, <1>d DEF Writing
    <2>1. chain # <<>> /\ want[Head(chain)] <= snap
      BY <1>a DEF Writing
    <2>2. Head(chain) = chain[1] /\ 1 \in 1..Len(chain)
      BY <1>c, <2>1
    <2> QED BY <1>b, <1>c, <1>d, <1>e, <2>1, <2>2
  <1>4. Coalesced'
    BY <1>b DEF Coalesced
  <1>5. Queue'
    <2>1. ASSUME NEW i \in 1..Len(chain')
          PROVE  /\ outcome'[chain'[i]] = "waiting"
                 /\ want'[chain'[i]] <= mem'
      <3>1. CASE i = Len(chain) + 1
        BY <3>1, <1>b, <1>c, <1>d
      <3>2. CASE i \in 1..Len(chain)
        <4>1. chain[i] \in Callers /\ chain[i] # c /\ chain'[i] = chain[i]
          BY <3>2, <1>d, <1>e
        <4>2. outcome[chain[i]] = "waiting" /\ want[chain[i]] <= mem
          BY <3>2, <1>a DEF Queue
        <4> QED BY <4>1, <4>2, <1>b, <1>c
      <3> QED BY <3>1, <3>2, <1>c, <1>d
    <2>2. ASSUME NEW i \in 1..Len(chain'), NEW j \in 1..Len(chain'), i # j
          PROVE  chain'[i] # chain'[j]
      <3>1. \A k \in 1..Len(chain') : k \in 1..Len(chain) \/ k = Len(chain) + 1
        BY <1>c, <1>d
      <3>2. CASE i \in 1..Len(chain) /\ j \in 1..Len(chain)
        BY <2>2, <3>2, <1>a, <1>d DEF Queue
      <3>3. CASE i = Len(chain) + 1 \/ j = Len(chain) + 1
        BY <2>2, <3>1, <3>3, <1>d, <1>e
      <3> QED BY <3>1, <3>2, <3>3
    <2> QED BY <2>1, <2>2 DEF Queue
  <1>6. F!AckedIsDurable'
    BY <1>a, <1>b DEF F!AckedIsDurable, F!Kept
  <1> QED BY <1>1, <1>2, <1>3, <1>4, <1>5, <1>6 DEF FileInv

LEMMA BeginFlushStep ==
    ASSUME FileInv, F!BeginFlush
    PROVE  FileInv'
  <1>a. F!TypeOK /\ Kernel /\ Queue /\ F!AckedIsDurable
    BY DEF FileInv
  <1>b. /\ chain # <<>> /\ dirty' = FALSE /\ snap' = mem /\ phase' = "open" /\ synced' = FALSE
        /\ UNCHANGED <<mem, chain, want, outcome, file, disk, dirSync, torn, promised>>
    BY DEF F!BeginFlush
  <1>1. F!TypeOK'
    <2>1. snap' \in Nat /\ phase' \in F!Phases /\ dirty' \in BOOLEAN /\ synced' \in BOOLEAN
      BY <1>a, <1>b, FileTypes DEF F!Phases
    <2> QED BY <1>a, <1>b, <2>1, FileTypes DEF F!TypeOK
  <1>2. Writing'
    <2>1. Head(chain) = chain[1] /\ 1 \in 1..Len(chain)
      BY <1>a, <1>b, FileTypes
    <2>2. want[Head(chain)] <= mem /\ file.holds <= mem /\ mem <= mem
      BY <1>a, <2>1, FileTypes DEF Queue, Kernel
    <2> QED BY <1>b, <2>2 DEF Writing
  <1>3. Kernel' /\ Coalesced' /\ Queue' /\ F!AckedIsDurable'
    BY <1>a, <1>b DEF Kernel, Coalesced, Queue, F!AckedIsDurable, F!Kept
  <1> QED BY <1>1, <1>2, <1>3 DEF FileInv

LEMMA TempStepStep ==
    ASSUME FileInv, NEW next \in {"write", "sync", "close", "rename", "dir_sync"}, F!TempStep(next)
    PROVE  FileInv'
  <1>a. F!TypeOK /\ Kernel /\ Writing /\ Queue /\ F!AckedIsDurable
    BY DEF FileInv
  <1>b. /\ phase = F!Before[next] /\ phase' = next /\ synced' = (synced \/ phase = "sync")
        /\ UNCHANGED <<mem, dirty, chain, want, outcome, snap, file, disk, dirSync, torn, promised>>
    BY DEF F!TempStep
  <1>c. /\ <<phase, next>> \in {<<"open", "write">>, <<"write", "sync">>, <<"sync", "close">>,
                                <<"close", "rename">>, <<"dir_open", "dir_sync">>}
    BY <1>b DEF F!Before
  <1>1. F!TypeOK'
    <2>1. phase' \in F!Phases /\ synced' \in BOOLEAN
      BY <1>b, <1>c DEF F!Phases
    <2> QED BY <1>a, <1>b, <2>1, FileTypes DEF F!TypeOK
  <1>2. Writing'
    BY <1>a, <1>b, <1>c DEF Writing
  <1>3. Kernel' /\ Coalesced' /\ Queue' /\ F!AckedIsDurable'
    BY <1>a, <1>b, <1>c DEF Kernel, Coalesced, Queue, F!AckedIsDurable, F!Kept
  <1> QED BY <1>1, <1>2, <1>3 DEF FileInv

LEMMA RenameStep ==
    ASSUME FileInv, F!Rename
    PROVE  FileInv'
  <1>a. F!TypeOK /\ Kernel /\ Writing /\ Queue /\ F!AckedIsDurable
    BY DEF FileInv
  <1>b. /\ phase = "rename" /\ file' = [holds |-> snap, synced |-> synced] /\ phase' = "dir_open"
        /\ UNCHANGED <<mem, dirty, chain, want, outcome, snap, synced, disk, dirSync, torn, promised>>
    BY DEF F!Rename
  <1>c. /\ file'.holds = snap /\ file'.synced /\ file.holds <= snap /\ snap <= mem
        /\ {mem, snap, promised, file.holds, disk.holds} \subseteq Nat
    BY <1>a, <1>b, FileTypes DEF Writing, F!Files
  <1>1. F!TypeOK'
    <2>1. file' \in F!Files /\ phase' \in F!Phases
      BY <1>a, <1>b, FileTypes DEF F!Files, F!Phases
    <2> QED BY <1>a, <1>b, <2>1, FileTypes DEF F!TypeOK
  <1>2. Writing'
    BY <1>a, <1>b, <1>c DEF Writing
  <1>3. Kernel'
    BY <1>a, <1>b, <1>c DEF Kernel
  <1>4. Coalesced' /\ Queue'
    BY <1>a, <1>b DEF Coalesced, Queue
  <1>5. F!AckedIsDurable'
    BY <1>a, <1>b, <1>c DEF F!AckedIsDurable, F!Kept
  <1> QED BY <1>1, <1>2, <1>3, <1>4, <1>5 DEF FileInv

\* The three steps that answer the head of the queue.
LEMMA AnswerStep ==
    ASSUME FileInv, F!FlushNothing \/ F!SyncDirectory \/ F!Throw
    PROVE  /\ FileInv'
           /\ outcome[Head(chain)] = "waiting" /\ Head(chain) \in Callers
           /\ UNCHANGED <<mem, want>>
           /\ F!Kept <= F!Kept' /\ F!Kept' <= mem /\ F!Kept \in Nat /\ F!Kept' \in Nat
           /\ \E o \in {"saved", "failed"} :
                /\ o = "saved" => want[Head(chain)] <= F!Kept'
                /\ outcome' = [outcome EXCEPT ![Head(chain)] = o]
  <1> DEFINE c == Head(chain)
  <1>a. F!TypeOK /\ Kernel /\ Writing /\ Coalesced /\ Queue /\ F!AckedIsDurable
    BY DEF FileInv
  <1>b. chain # <<>> /\ UNCHANGED <<mem, want, snap, synced, file, dirSync, torn>>
    BY <1>a DEF F!FlushNothing, F!SyncDirectory, F!Throw, Writing
  <1>c. PICK o \in {"saved", "failed"} :
          /\ F!Settle(o)
          /\ o = "failed" => F!Throw
          /\ o = "saved" => F!FlushNothing \/ F!SyncDirectory
    BY DEF F!FlushNothing, F!SyncDirectory, F!Throw
  <1>d. /\ c \in Callers /\ outcome[c] = "waiting" /\ want[c] <= mem
        /\ phase' = "idle" /\ chain' \in Seq(Callers) /\ Queue'
        /\ outcome' = [outcome EXCEPT ![c] = o] /\ outcome' \in [Callers -> F!Outcomes]
        /\ promised' \in {promised, want[c]} /\ promised' \in Nat
        /\ o = "failed" => promised' = promised
    BY <1>a, <1>b, <1>c, SettleLeaves
  <1> HIDE DEF c
  <1>e. /\ disk' \in {disk, file} /\ disk' \in F!Files
        /\ ~dirSync => F!Kept' = F!Kept
        /\ {mem, promised, want[c], file.holds, disk.holds, disk'.holds} \subseteq Nat
    BY <1>a, <1>b, <1>d, FileTypes DEF F!FlushNothing, F!SyncDirectory, F!Throw, F!Files, F!Kept
  <1>f. F!Kept <= F!Kept' /\ F!Kept' <= mem /\ F!Kept \in Nat /\ F!Kept' \in Nat
    BY <1>a, <1>b, <1>e DEF Kernel, F!Kept
  <1>g. ASSUME o = "saved" PROVE want[c] <= F!Kept'
    <2>1. CASE F!FlushNothing
      <3>1. F!Kept = mem
        BY <2>1, <1>a DEF F!FlushNothing, Coalesced
      <3> QED BY <3>1, <1>d, <1>e, <1>f
    <2>2. CASE F!SyncDirectory
      <3>1. want[c] <= snap /\ file.holds = snap
        BY <2>2, <1>a DEF F!SyncDirectory, Writing, c
      <3>2. F!Kept' = file.holds
        BY <2>2, <1>b DEF F!SyncDirectory, F!Kept
      <3> QED BY <3>1, <3>2
    <2> QED BY <1>g, <1>c, <2>1, <2>2
  <1>1. F!TypeOK'
    <2>1. dirty' \in BOOLEAN /\ phase' \in F!Phases
      BY <1>a, <1>d, FileTypes DEF F!FlushNothing, F!SyncDirectory, F!Throw, F!Phases
    <2> QED BY <1>a, <1>b, <1>d, <1>e, <2>1, FileTypes DEF F!TypeOK
  <1>2. Kernel'
    BY <1>a, <1>b, <1>e DEF Kernel
  <1>3. Writing'
    BY <1>d DEF Writing
  <1>4. Coalesced'
    <2> SUFFICES ASSUME ~dirty' PROVE F!Kept' = mem
      BY <1>b DEF Coalesced
    <2>1. CASE F!FlushNothing
      BY <2>1, <1>a DEF F!FlushNothing, Coalesced, F!Kept
    <2>2. CASE F!SyncDirectory
      BY <2>2, <1>a, <1>b DEF F!SyncDirectory, Writing, F!Kept
    <2>3. CASE F!Throw
      BY <2>3 DEF F!Throw
    <2> QED BY <2>1, <2>2, <2>3
  <1>5. F!AckedIsDurable'
    <2>1. promised <= F!Kept /\ ~torn
      BY <1>a DEF F!AckedIsDurable
    <2>2. promised' <= F!Kept'
      BY <2>1, <1>c, <1>d, <1>e, <1>f, <1>g
    <2> QED BY <2>1, <2>2, <1>b DEF F!AckedIsDurable
  <1>6. FileInv'
    BY <1>d, <1>1, <1>2, <1>3, <1>4, <1>5 DEF FileInv
  <1> QED BY <1>6, <1>b, <1>c, <1>d, <1>f, <1>g DEF c

\* A new process holds what the path names, which is at least what was kept.
LEMMA CrashStep ==
    ASSUME FileInv, F!Kill \/ F!PowerLoss
    PROVE  /\ FileInv'
           /\ mem' \in F!Kept..mem /\ F!Kept' \in F!Kept..mem'
           /\ want' = [c \in Callers |-> 0]
           /\ outcome' = [c \in Callers |-> "none"]
  <1>a. F!TypeOK /\ Kernel /\ F!AckedIsDurable
    BY DEF FileInv
  <1>b. /\ dirty' = FALSE /\ chain' = <<>> /\ phase' = "idle" /\ snap' = 0 /\ synced' = FALSE
        /\ want' = [c \in Callers |-> 0] /\ outcome' = [c \in Callers |-> "none"]
        /\ UNCHANGED <<dirSync, promised>>
    BY DEF F!Kill, F!PowerLoss, F!Restart
  <1>c. /\ {mem, promised, file.holds, disk.holds} \subseteq Nat
        /\ disk.holds <= file.holds /\ file.holds <= mem /\ promised <= F!Kept
        /\ file.synced /\ disk.synced /\ ~torn /\ file \in F!Files /\ disk \in F!Files
    BY <1>a, FileTypes DEF Kernel, F!AckedIsDurable, F!Files
  <1>d. /\ file' \in F!Files /\ disk' \in F!Files /\ torn' = FALSE
        /\ file'.synced /\ disk'.synced
        /\ mem' = file'.holds
        /\ \/ file'.holds = file.holds /\ disk'.holds = disk.holds
           \/ /\ dirSync /\ file'.holds = disk'.holds
              /\ file'.holds \in {file.holds, disk.holds}
    <2>1. CASE F!Kill
      BY <2>1, <1>c DEF F!Kill, F!Restart
    <2>2. CASE F!PowerLoss
      <3>1. PICK found \in {file, disk} :
              /\ file' = [found EXCEPT !.synced = TRUE] /\ disk' = [found EXCEPT !.synced = TRUE]
              /\ mem' = file'.holds
              /\ torn' = (torn \/ ~found.synced)
        BY <2>2 DEF F!PowerLoss, F!Restart
      <3>2. found \in F!Files /\ found.synced
        BY <1>c
      <3>3. file' \in F!Files /\ file'.synced /\ file'.holds = found.holds /\ disk' = file'
        BY <3>1, <3>2 DEF F!Files
      <3> QED BY <2>2, <3>1, <3>2, <3>3, <1>c DEF F!PowerLoss
    <2> QED BY <2>1, <2>2
  <1>e. mem' \in F!Kept..mem /\ F!Kept' \in F!Kept..mem' /\ promised' <= F!Kept'
    BY <1>b, <1>c, <1>d DEF F!Kept
  <1>1. F!TypeOK'
    <2>1. mem' \in Nat /\ snap' \in Nat /\ promised' \in Nat
      BY <1>b, <1>c, <1>d
    <2>2. dirty' \in BOOLEAN /\ synced' \in BOOLEAN /\ dirSync' \in BOOLEAN /\ torn' \in BOOLEAN
      <3>1. dirSync \in BOOLEAN
        BY <1>a, FileTypes
      <3> QED BY <3>1, <1>b, <1>d
    <2>3. chain' \in Seq(Callers) /\ want' \in [Callers -> Nat]
      BY <1>b
    <2>4. outcome' \in [Callers -> F!Outcomes] /\ phase' \in F!Phases
      BY <1>b DEF F!Outcomes, F!Phases
    <2> QED BY <2>1, <2>2, <2>3, <2>4, <1>d DEF F!TypeOK
  <1>2. Kernel'
    BY <1>c, <1>d DEF Kernel
  <1>3. Writing' /\ Coalesced' /\ Queue'
    BY <1>b DEF Writing, Coalesced, Queue
  <1>4. F!AckedIsDurable'
    BY <1>d, <1>e DEF F!AckedIsDurable
  <1> QED BY <1>1, <1>2, <1>3, <1>4, <1>b, <1>e DEF FileInv

-----------------------------------------------------------------------------
LEMMA FileInductive == FileInv /\ [F!Next]_(F!vars) => FileInv'
  <1> SUFFICES ASSUME FileInv, [F!Next]_(F!vars) PROVE FileInv'
    OBVIOUS
  <1>1. CASE UNCHANGED F!vars
    BY <1>1 DEF F!vars, FileInv, F!TypeOK, Kernel, Writing, Coalesced, Queue, F!AckedIsDurable, F!Kept
  <1>2. CASE F!Flush
    BY <1>2, BeginFlushStep, TempStepStep, RenameStep, AnswerStep DEF F!Flush
  <1>3. CASE F!Kill \/ F!PowerLoss
    BY <1>3, CrashStep
  <1>4. CASE \E c \in Callers : F!Change(c)
    BY <1>4, ChangeStep
  <1> QED BY <1>1, <1>2, <1>3, <1>4 DEF F!Next

LEMMA FileInvariant == F!Spec => []FileInv
  BY FileInitInv, FileInductive, PTL DEF F!Spec

\* Every variable keeps its type.
THEOREM FileTypeCorrect == F!Spec => []F!TypeOK
  <1>1. FileInv => F!TypeOK
    BY DEF FileInv
  <1> QED BY FileInvariant, <1>1, PTL

\* No kill and no power loss, between any two filesystem calls of a flush, loses
\* a change whose caller was told that it is saved, nor leaves at the path a file
\* that was not synced (FileStore.changed, flush, writeFileDurable).
THEOREM FileAckedIsDurable == F!Spec => []F!AckedIsDurable
  <1>1. FileInv => F!AckedIsDurable
    BY DEF FileInv
  <1> QED BY FileInvariant, <1>1, PTL

-----------------------------------------------------------------------------
(* The refinement: what each step does to mem, Kept, want and outcome *)

LEMMA FileInitRefines == F!Init => F!Promise!Init
  <1> SUFFICES ASSUME F!Init PROVE F!Promise!Init
    OBVIOUS
  <1>1. F!Kept = 0
    BY DEF F!Init, F!Kept
  <1> QED BY <1>1 DEF F!Init, F!Promise!Init

\* A rename is a save where a directory cannot be synced, and else not seen.
LEMMA RenameRefines ==
    ASSUME FileInv, F!Rename
    PROVE  F!Promise!Save \/ UNCHANGED F!Promise!vars
  <1>1. /\ UNCHANGED <<mem, want, outcome, disk, dirSync>> /\ file'.holds = snap
        /\ file.holds <= snap /\ snap <= mem
        /\ {mem, snap, file.holds} \subseteq Nat
    BY FileTypes DEF F!Rename, FileInv, Writing, F!Files
  <1>2. CASE dirSync \/ file.holds = snap
    BY <1>1, <1>2 DEF F!Promise!vars, F!Kept
  <1>3. CASE ~dirSync /\ file.holds # snap
    <2>1. F!Kept' \in (F!Kept + 1)..mem
      BY <1>1, <1>3 DEF F!Kept
    <2> QED BY <1>1, <2>1 DEF F!Promise!Save
  <1> QED BY <1>2, <1>3

LEMMA FileStepRefines == FileInv /\ [F!Next]_(F!vars) => [F!Promise!Next]_(F!Promise!vars)
  <1> SUFFICES ASSUME FileInv, [F!Next]_(F!vars) PROVE F!Promise!Next \/ UNCHANGED F!Promise!vars
    OBVIOUS
  <1>1. CASE UNCHANGED F!vars
    BY <1>1 DEF F!vars, F!Promise!vars, F!Kept
  <1>2. ASSUME NEW c \in Callers, F!Change(c) PROVE F!Promise!Next
    <2>1. F!Promise!Change(c)
      BY <1>2 DEF F!Change, F!Promise!Change, F!Kept
    <2> QED BY <2>1 DEF F!Promise!Next
  <1>3. CASE F!BeginFlush \/ \E next \in {"write", "sync", "close", "rename", "dir_sync"} : F!TempStep(next)
    BY <1>3 DEF F!BeginFlush, F!TempStep, F!Promise!vars, F!Kept
  <1>4. CASE F!Rename
    BY <1>4, RenameRefines DEF F!Promise!Next
  <1>5. CASE F!FlushNothing \/ F!SyncDirectory \/ F!Throw
    <2> DEFINE c == Head(chain)
    <2>1. /\ c \in Callers /\ outcome[c] = "waiting" /\ UNCHANGED <<mem, want>>
          /\ F!Kept <= F!Kept' /\ F!Kept' <= mem /\ F!Kept \in Nat /\ F!Kept' \in Nat
          /\ \E o \in {"saved", "failed"} :
               /\ o = "saved" => want[c] <= F!Kept'
               /\ outcome' = [outcome EXCEPT ![c] = o]
      BY <1>5, AnswerStep
    <2>2. mem \in Nat
      BY FileTypes DEF FileInv
    <2> HIDE DEF c
    <2>3. F!Kept' \in F!Kept..mem
      BY <2>1, <2>2
    <2>4. F!Promise!Answer(c)
      BY <2>1, <2>3 DEF F!Promise!Answer
    <2> QED BY <2>1, <2>4 DEF F!Promise!Next
  <1>6. CASE F!Kill \/ F!PowerLoss
    <2>1. F!Promise!Crash
      BY <1>6, CrashStep DEF F!Promise!Crash
    <2> QED BY <2>1 DEF F!Promise!Next
  <1> QED BY <1>1, <1>2, <1>3, <1>4, <1>5, <1>6 DEF F!Next, F!Flush

\* The file store does nothing that DurableStore does not allow: every change is
\* answered by a step that keeps it or fails it, and every crash is one that
\* DurableStore foresees.  (That every caller is answered, the fairness of
\* Implements, is model-checked.)
THEOREM FileImplementsSafely == F!Spec => F!Promise!Init /\ [][F!Promise!Next]_(F!Promise!vars)
  BY FileInvariant, FileInitRefines, FileStepRefines, PTL DEF F!Spec

-----------------------------------------------------------------------------
(* HostedCalls: who waits for what, and what became of it.                    *)

\* The writer of a line that is being written waits for it.
Waits(line) ==
    \/ line.event = "action_run" /\ line.who \in Calls /\ call[line.who] = "audited"
    \/ line.event = "tool_call" /\ line.who \in Calls /\ call[line.who] = "lined"
    \/ /\ line.event = "request_unauthorized" /\ line.who \in Posts
       /\ request[line.who] = "unauthorized"

\* The writer of a line of the log went on, or died.
WentOn(line) ==
    \/ /\ line.event = "action_run" /\ line.who \in Calls
       /\ line.who \in RunActions \ unloaded
       /\ call[line.who] \in {"ended", "lined", "answered", "lost"}
    \/ /\ line.event = "tool_call" /\ line.who \in Calls
       /\ call[line.who] \in {"answered", "lost"}
    \/ /\ line.event = "request_unauthorized" /\ line.who \in Posts
       /\ request[line.who] \in {"over", "lost"}

\* The elements of a sequence are different from each other.
Once(s) == \A i, j \in DOMAIN s : s[i] = s[j] => i = j

WritersWait == Once(writes) /\ \A i \in DOMAIN writes : Waits(writes[i])

\* The lines of the log stand there once, that of an action before that of its call.
LogPast ==
    /\ \A i \in DOMAIN log : WentOn(log[i].line)
    /\ \A i, j \in DOMAIN log : log[i].line = log[j].line => i = j
    /\ \A i, j \in DOMAIN log :
         log[i].line.event = "action_run" /\ log[j].line.event = "tool_call"
           /\ log[i].line.who = log[j].line.who => i < j

\* No call begins before its request is authorized; a call that changed a store,
\* or that has no connections, is past them; one that is at the line of an action
\* is a run action.
CallsGoOn ==
    /\ \A c \in Calls : request[Of[c]] \in {"none", "setup"} => call[c] = "none"
    /\ \A c \in sent : call[c] \in {"run", "audited", "ended", "lined", "answered", "lost"}
    /\ \A c \in unloaded : call[c] \in {"ended", "lined", "answered", "lost"}
    /\ \A c \in Calls : call[c] \in {"run", "audited"} => c \in RunActions

\* What a call left behind it is accounted for.
CallsAccounted ==
    \A c \in Calls :
      /\ call[c] = "answered" => H!Accounted(H!Line(c, "tool_call"))
      /\ c \in RunActions \ unloaded /\ call[c] \in {"ended", "lined", "answered"} =>
           H!Accounted(H!Line(c, "action_run"))

\* Only the directory of the file log stays failed, and only its writers find it so.
NobodyJoinsFailed ==
    /\ app # "failed" /\ \A m \in Posts : loading[m] # "failed"
    /\ sink = "file" => app = "done"
    /\ sink = "d1" => ready # "failed" /\ \A x \in Posts \cup Calls : ~joined[x]
    /\ \A c \in Calls : call[c] = "load" => ~joined[c]

HostInv ==
    /\ H!TypeOK /\ WritersWait /\ LogPast /\ CallsGoOn /\ CallsAccounted
    /\ NobodyJoinsFailed /\ H!FailureNotKept

\* The types, field by field, as the steps below use them.
LEMMA HostTypes ==
    H!TypeOK <=>
        /\ sink \in {"file", "d1"} /\ app \in H!Promise /\ ready \in H!Promise
        /\ request \in [Posts -> {"none", "setup", "unauthorized", "calls", "over", "lost"}]
        /\ loading \in [Posts -> H!Promise]
        /\ call \in [Calls -> {"none", "called", "load", "run", "audited", "ended", "lined",
                               "answered", "lost"}]
        /\ writes \in Seq(H!Lines) /\ log \in Seq([line : H!Lines, whole : BOOLEAN])
        /\ printed \subseteq H!Lines /\ reported \subseteq H!Lines
        /\ joined \in [Posts \cup Calls -> BOOLEAN]
        /\ sent \subseteq Calls /\ unloaded \subseteq Calls
        /\ stale \subseteq {"app", "load", "directory", "table"} /\ kills \in 0..MaxKills
  BY DEF H!TypeOK

LEMMA HostInitInv == H!Init => HostInv
  <1> SUFFICES ASSUME H!Init PROVE HostInv
    OBVIOUS
  <1>a. /\ writes = <<>> /\ log = <<>> /\ DOMAIN writes = {} /\ DOMAIN log = {}
        /\ call = [c \in Calls |-> "none"] /\ request = [m \in Posts |-> "none"]
        /\ sent = {} /\ unloaded = {} /\ stale = {}
    BY DEF H!Init
  <1>1. H!TypeOK
    <2>1. joined \in [Posts \cup Calls -> BOOLEAN]
      BY Zenon DEF H!Init
    <2>2. kills \in 0..MaxKills
      BY CallsAssumption DEF H!Init
    <2> QED BY <2>1, <2>2, HostTypes DEF H!Init, H!Promise
  <1>2. WritersWait /\ LogPast
    BY <1>a DEF WritersWait, LogPast, Once
  <1>3. CallsGoOn /\ CallsAccounted
    BY <1>a DEF CallsGoOn, CallsAccounted
  <1>4. NobodyJoinsFailed /\ H!FailureNotKept
    BY <1>a DEF H!Init, NobodyJoinsFailed, H!FailureNotKept
  <1> QED BY <1>1, <1>2, <1>3, <1>4 DEF HostInv

-----------------------------------------------------------------------------
(* Sequences. *)

LEMMA Removed ==
    ASSUME NEW S, NEW s \in Seq(S), NEW i \in DOMAIN s, Once(s)
    PROVE  /\ H!RemoveAt(s, i) \in Seq(S) /\ Once(H!RemoveAt(s, i))
           /\ \A k \in DOMAIN H!RemoveAt(s, i) :
                H!RemoveAt(s, i)[k] # s[i] /\ \E l \in DOMAIN s : H!RemoveAt(s, i)[k] = s[l]
  <1> DEFINE r == H!RemoveAt(s, i)
  <1>1. /\ r \in Seq(S) /\ Len(r) = Len(s) - 1
        /\ \A k \in 1..Len(r) : r[k] = IF k < i THEN s[k] ELSE s[k + 1]
    <2> DEFINE a == SubSeq(s, 1, i - 1)
               b == SubSeq(s, i + 1, Len(s))
    <2>1. i \in 1..Len(s) /\ Len(s) \in Nat
      OBVIOUS
    <2>2. a \in Seq(S) /\ Len(a) = i - 1 /\ \A k \in 1..(i - 1) : a[k] = s[k]
      BY <2>1
    <2>3. /\ b \in Seq(S) /\ Len(b) = Len(s) - i
          /\ \A k \in 1..(Len(s) - i) : b[k] = s[i + k]
      BY <2>1
    <2>4. r = a \o b
      BY DEF H!RemoveAt
    <2> HIDE DEF a, b, r
    <2>5. /\ r \in Seq(S) /\ Len(r) = Len(s) - 1
          /\ \A k \in 1..Len(r) : r[k] = IF k <= Len(a) THEN a[k] ELSE b[k - Len(a)]
      BY <2>1, <2>2, <2>3, <2>4
    <2>7. \A k \in 1..Len(r) : r[k] = IF k <= i - 1 THEN a[k] ELSE b[k - (i - 1)]
      <3>1. Len(a) = i - 1
        BY <2>2
      <3> QED BY <3>1, <2>5, Zenon
    <2>6. ASSUME NEW k \in 1..Len(r)
          PROVE  r[k] = IF k < i THEN s[k] ELSE s[k + 1]
      <3>1. CASE k < i
        BY <3>1, <2>1, <2>2, <2>5
      <3>2. CASE ~(k < i)
        <4>1. k - (i - 1) \in 1..(Len(s) - i) /\ i + (k - (i - 1)) = k + 1
          BY <3>2, <2>1, <2>5
        <4>2. r[k] = b[k - (i - 1)]
          BY <3>2, <2>1, <2>2, <2>7
        <4>3. b[k - (i - 1)] = s[i + (k - (i - 1))]
          BY <4>1, <2>3
        <4> QED BY <4>1, <4>2, <4>3, <3>2
      <3> QED BY <3>1, <3>2
    <2> QED BY <2>5, <2>6
  <1> HIDE DEF r
  <1>2. DOMAIN r = 1..Len(r) /\ DOMAIN s = 1..Len(s) /\ Len(s) \in Nat /\ i \in 1..Len(s)
    BY <1>1
  <1>3. ASSUME NEW k \in DOMAIN r
        PROVE  LET l == IF k < i THEN k ELSE k + 1
               IN  l \in DOMAIN s /\ l # i /\ r[k] = s[l]
    BY <1>1, <1>2
  <1>4. \A k \in DOMAIN r : r[k] # s[i] /\ \E l \in DOMAIN s : r[k] = s[l]
    BY <1>3 DEF Once
  <1>5. ASSUME NEW j \in DOMAIN r, NEW k \in DOMAIN r, r[j] = r[k]
        PROVE  j = k
    <2>1. (IF j < i THEN j ELSE j + 1) = (IF k < i THEN k ELSE k + 1)
      BY <1>3, <1>5 DEF Once
    <2> QED BY <2>1, <1>2
  <1> QED BY <1>1, <1>4, <1>5 DEF Once, r

LEMMA RemovedFirst ==
    ASSUME NEW S, NEW s \in Seq(S), s # <<>>, Once(s)
    PROVE  /\ Tail(s) \in Seq(S) /\ Once(Tail(s)) /\ 1 \in DOMAIN s /\ Head(s) = s[1]
           /\ \A k \in DOMAIN Tail(s) :
                Tail(s)[k] # Head(s) /\ \E l \in DOMAIN s : Tail(s)[k] = s[l]
  <1>1. /\ Tail(s) \in Seq(S) /\ Len(Tail(s)) = Len(s) - 1 /\ Head(s) = s[1]
        /\ DOMAIN s = 1..Len(s) /\ DOMAIN Tail(s) = 1..Len(Tail(s)) /\ 1 \in DOMAIN s
        /\ Len(s) \in Nat
    OBVIOUS
  <1>2. \A k \in DOMAIN Tail(s) : k + 1 \in DOMAIN s /\ k + 1 # 1 /\ Tail(s)[k] = s[k + 1]
    BY <1>1
  <1>3. Once(Tail(s))
    <2> SUFFICES ASSUME NEW j \in DOMAIN Tail(s), NEW k \in DOMAIN Tail(s), Tail(s)[j] = Tail(s)[k]
                 PROVE  j = k
      BY DEF Once
    <2>1. j + 1 = k + 1
      BY <1>2 DEF Once
    <2> QED BY <2>1, <1>1
  <1> QED BY <1>1, <1>2, <1>3 DEF Once

LEMMA Appended ==
    ASSUME NEW S, NEW s \in Seq(S), NEW e \in S
    PROVE  /\ Append(s, e) \in Seq(S)
           /\ DOMAIN s = 1..Len(s) /\ DOMAIN Append(s, e) = DOMAIN s \cup {Len(s) + 1}
           /\ Len(s) \in Nat /\ Len(s) + 1 \notin DOMAIN s
           /\ Append(s, e)[Len(s) + 1] = e
           /\ \A i \in DOMAIN s : Append(s, e)[i] = s[i]
  <1>1. Append(s, e) \in Seq(S) /\ DOMAIN s = 1..Len(s) /\ Len(Append(s, e)) = Len(s) + 1
    OBVIOUS
  <1>2. DOMAIN Append(s, e) = 1..(Len(s) + 1)
    BY <1>1
  <1> QED BY <1>1, <1>2

-----------------------------------------------------------------------------
(* What the three kinds of step do to the lines: none, a new one, an answer. *)

LEMMA LineIs ==
    ASSUME NEW l \in H!Lines
    PROVE  /\ l.who \in Posts \cup Calls /\ l.event \in H!Events /\ l = H!Line(l.who, l.event)
           /\ \A x \in Posts \cup Calls, e \in H!Events :
                H!Line(x, e) \in H!Lines /\ H!Line(x, e).who = x /\ H!Line(x, e).event = e
  BY DEF H!Lines, H!Line

\* A line stays accounted for while the log, the console and the reports grow.
LEMMA AccountedKept ==
    ASSUME H!TypeOK, NEW line,
           log' = log \/ \E e \in [line : H!Lines, whole : BOOLEAN] : log' = Append(log, e),
           printed \subseteq printed', reported \subseteq reported',
           H!Accounted(line)
    PROVE  H!Accounted(line)'
  <1>1. log \in Seq([line : H!Lines, whole : BOOLEAN])
    BY HostTypes
  <1>2. DOMAIN log \subseteq DOMAIN log' /\ \A i \in DOMAIN log : log'[i] = log[i]
    <2>1. CASE log' = log
      BY <2>1
    <2>2. CASE \E e \in [line : H!Lines, whole : BOOLEAN] : log' = Append(log, e)
      <3> HIDE DEF H!Lines
      <3> QED BY <1>1, <2>2, Appended
    <2> QED BY <2>1, <2>2
  <1>3. CASE line \in printed \cup reported
    BY <1>3 DEF H!Accounted
  <1>4. CASE \E i \in H!Logs(line) : log[i].whole
    <2>1. PICK i \in DOMAIN log : log[i].line = line /\ log[i].whole
      BY <1>4 DEF H!Logs
    <2>2. i \in DOMAIN log' /\ log'[i] = log[i]
      BY <1>2
    <2> QED BY <2>1, <2>2 DEF H!Accounted, H!Logs
  <1> QED BY <1>3, <1>4 DEF H!Accounted

\* A line that was being written is at the end of the log.
LEMMA LogGrows ==
    ASSUME H!TypeOK, WritersWait, LogPast, NEW line, NEW whole \in BOOLEAN,
           \E i \in DOMAIN writes : writes[i] = line,
           log' = Append(log, H!Entry(line, whole)),
           \A l \in H!Lines : WentOn(l) => WentOn(l)', WentOn(line)'
    PROVE  log' \in Seq([line : H!Lines, whole : BOOLEAN]) /\ LogPast'
  <1> DEFINE Entries == [line : H!Lines, whole : BOOLEAN]
             n == Len(log) + 1
  <1>1. line \in H!Lines /\ Waits(line) /\ log \in Seq(Entries)
    BY HostTypes DEF WritersWait
  <1>2. H!Entry(line, whole) \in Entries /\ H!Entry(line, whole).line = line
    BY <1>1 DEF H!Entry
  <1> HIDE DEF Entries
  <1>3. /\ log' \in Seq(Entries) /\ DOMAIN log' = DOMAIN log \cup {n} /\ log'[n].line = line
        /\ DOMAIN log = 1..Len(log) /\ n \notin DOMAIN log /\ Len(log) \in Nat
        /\ \A i \in DOMAIN log : log'[i] = log[i] /\ log[i] \in Entries
    BY <1>1, <1>2, Appended
  <1>4. \A i \in DOMAIN log : WentOn(log[i].line) /\ log[i].line \in H!Lines
    BY <1>3 DEF LogPast, Entries
  <1>5. \A i \in DOMAIN log' : WentOn(log[i].line)'
    <2> SUFFICES ASSUME NEW i \in DOMAIN log' PROVE WentOn(log[i].line)'
      OBVIOUS
    <2>1. PICK l : l = log'[i].line
      OBVIOUS
    <2>2. WentOn(l)'
      BY <2>1, <1>3, <1>4
    <2> QED BY <2>1, <2>2 DEF WentOn
  <1>6. \A i \in DOMAIN log : log[i].line # line
    BY <1>1, <1>4 DEF Waits, WentOn
  <1>7. ASSUME NEW i \in DOMAIN log', NEW j \in DOMAIN log', log'[i].line = log'[j].line
        PROVE  i = j
    BY <1>3, <1>6, <1>7 DEF LogPast
  <1>8. ASSUME NEW i \in DOMAIN log', NEW j \in DOMAIN log',
               log'[i].line.event = "action_run", log'[j].line.event = "tool_call",
               log'[i].line.who = log'[j].line.who
        PROVE  i < j
    <2>1. CASE i \in DOMAIN log /\ j \in DOMAIN log
      BY <2>1, <1>3, <1>8 DEF LogPast
    <2>2. CASE i \in DOMAIN log /\ j = n
      BY <2>2, <1>3
    <2>3. CASE i = n /\ j \in DOMAIN log
      <3>1. call[line.who] = "audited" /\ call[line.who] \in {"answered", "lost"}
        BY <2>3, <1>1, <1>3, <1>4, <1>8 DEF Waits, WentOn
      <3> QED BY <3>1
    <2>4. CASE i = n /\ j = n
      BY <2>4, <1>3, <1>8
    <2> QED BY <2>1, <2>2, <2>3, <2>4, <1>3
  <1> QED BY <1>3, <1>5, <1>7, <1>8 DEF LogPast, Entries

\* No line is written; calls and requests that nobody wrote of go on.
LEMMA QuietStep ==
    ASSUME HostInv, UNCHANGED H!lines,
           \A c \in Calls :
             \/ call'[c] = call[c]
             \/ /\ call[c] \in {"none", "called", "load"}
                /\ call'[c] \in {"called", "load", "run", "ended"},
           \A m \in Posts :
             request'[m] = request[m] \/ request[m] \in {"none", "setup", "calls"},
           sent \subseteq sent', unloaded \subseteq unloaded', unloaded' \subseteq Calls,
           \A c \in sent' : c \in sent \/ call'[c] \in {"run", "ended"},
           \A c \in unloaded' : c \in unloaded \/ (call[c] = "load" /\ call'[c] = "ended"),
           \A c \in Calls : call[c] # "ended" /\ call'[c] = "ended" =>
                              c \in unloaded' \/ c \notin RunActions
    PROVE  /\ WritersWait' /\ LogPast' /\ CallsAccounted'
           /\ \A c \in sent' : call'[c] \in {"run", "audited", "ended", "lined", "answered", "lost"}
           /\ \A c \in unloaded' : call'[c] \in {"ended", "lined", "answered", "lost"}
  <1>a. UNCHANGED <<writes, log, printed, reported>>
    BY DEF H!lines
  <1>b. H!TypeOK /\ WritersWait /\ LogPast /\ CallsGoOn /\ CallsAccounted
    BY DEF HostInv
  <1>1. \A l : Waits(l) => Waits(l)'
    BY DEF Waits
  <1>2. \A l : WentOn(l) => WentOn(l)'
    BY DEF WentOn
  <1>3. WritersWait'
    BY <1>a, <1>b, <1>1 DEF WritersWait, Once
  <1>4. LogPast'
    BY <1>a, <1>b, <1>2 DEF LogPast
  <1>5. /\ \A c \in sent : call'[c] = call[c] /\ call[c] \in {"run", "audited", "ended", "lined", "answered", "lost"}
        /\ \A c \in unloaded : call'[c] = call[c] /\ call[c] \in {"ended", "lined", "answered", "lost"}
    <2>1. sent \subseteq Calls /\ unloaded \subseteq Calls
      BY <1>b, HostTypes
    <2> QED BY <2>1, <1>b DEF CallsGoOn
  <1>6. \A line : H!Accounted(line)' = H!Accounted(line)
    BY <1>a DEF H!Accounted, H!Logs
  <1>7. CallsAccounted'
    <2> SUFFICES ASSUME NEW c \in Calls
                 PROVE  /\ call'[c] = "answered" => H!Accounted(H!Line(c, "tool_call"))
                        /\ c \in RunActions \ unloaded' /\ call'[c] \in {"ended", "lined", "answered"}
                             => H!Accounted(H!Line(c, "action_run"))
      BY <1>6 DEF CallsAccounted, H!Line
    <2>1. call'[c] = "answered" => call[c] = "answered"
      OBVIOUS
    <2>2. c \in RunActions \ unloaded' /\ call'[c] \in {"ended", "lined", "answered"} =>
            c \in RunActions \ unloaded /\ call'[c] = call[c]
      OBVIOUS
    <2> QED BY <2>1, <2>2, <1>b DEF CallsAccounted
  <1>8. /\ \A c \in sent' : call'[c] \in {"run", "audited", "ended", "lined", "answered", "lost"}
        /\ \A c \in unloaded' : call'[c] \in {"ended", "lined", "answered", "lost"}
    BY <1>5
  <1> QED BY <1>3, <1>4, <1>7, <1>8

\* A line is put behind the others, by a writer that waits from then on.
LEMMA WriteStep ==
    ASSUME HostInv, NEW line \in H!Lines, H!Write(line), ~Waits(line), Waits(line)',
           UNCHANGED <<log, printed, reported, sent, unloaded>>,
           \A c \in Calls : call'[c] = call[c] \/ call[c] \in {"run", "ended", "load"},
           \A c \in Calls : call'[c] = call[c] \/ call'[c] \in {"audited", "lined"},
           \A m \in Posts : request'[m] = request[m] \/ request[m] = "setup",
           \A c \in Calls : /\ call[c] = "run" => call'[c] \in {"run", "audited"}
                            /\ call[c] = "load" => call'[c] \in {"load", "audited", "lined"}
                            /\ call[c] = "load" /\ call'[c] = "lined" => c \notin RunActions
                            /\ call[c] = "ended" => call'[c] \in {"ended", "lined"}
    PROVE  /\ writes' \in Seq(H!Lines) /\ ready' \in H!Promise
           /\ joined' \in [Posts \cup Calls -> BOOLEAN]
           /\ WritersWait' /\ LogPast' /\ CallsAccounted'
           /\ \A c \in sent' : call'[c] \in {"run", "audited", "ended", "lined", "answered", "lost"}
           /\ \A c \in unloaded' : call'[c] \in {"ended", "lined", "answered", "lost"}
  <1>a. /\ ready' = H!Joined(ready) /\ writes' = Append(writes, line)
        /\ joined' = [joined EXCEPT ![line.who] = ready = "failed"]
    BY DEF H!Write
  <1>b. H!TypeOK /\ WritersWait /\ LogPast /\ CallsGoOn /\ CallsAccounted
    BY DEF HostInv
  <1>c. /\ writes' \in Seq(H!Lines) /\ DOMAIN writes' = DOMAIN writes \cup {Len(writes) + 1}
        /\ writes'[Len(writes) + 1] = line
        /\ \A i \in DOMAIN writes : writes'[i] = writes[i]
    BY <1>a, <1>b, HostTypes, Appended
  <1>1. ready' \in H!Promise /\ joined' \in [Posts \cup Calls -> BOOLEAN]
    BY <1>a, <1>b, HostTypes DEF H!Joined, H!Promise
  <1>2. \A l : Waits(l) => Waits(l)'
    BY DEF Waits
  <1>3. \A l : WentOn(l) => WentOn(l)'
    BY DEF WentOn
  <1>4. \A i \in DOMAIN writes : writes[i] # line /\ Waits(writes[i])
    BY <1>b DEF WritersWait
  <1>5. Once(writes')
    BY <1>b, <1>c, <1>4 DEF WritersWait, Once
  <1>6. ASSUME NEW i \in DOMAIN writes'
        PROVE  Waits(writes[i])'
    <2>1. PICK l : l = writes'[i]
      OBVIOUS
    <2>2. Waits(l)'
      BY <2>1, <1>c, <1>2, <1>4
    <2> QED BY <2>1, <2>2 DEF Waits
  <1>7. WritersWait'
    BY <1>5, <1>6 DEF WritersWait, Once
  <1>8. LogPast'
    BY <1>b, <1>3 DEF LogPast
  <1>9. \A l : H!Accounted(l)' = H!Accounted(l)
    BY DEF H!Accounted, H!Logs
  <1>10. CallsAccounted'
    <2> SUFFICES ASSUME NEW c \in Calls
                 PROVE  /\ call'[c] = "answered" => H!Accounted(H!Line(c, "tool_call"))
                        /\ c \in RunActions \ unloaded' /\ call'[c] \in {"ended", "lined", "answered"}
                             => H!Accounted(H!Line(c, "action_run"))
      BY <1>9 DEF CallsAccounted, H!Line
    <2>1. call'[c] = "answered" => call[c] = "answered"
      OBVIOUS
    <2>2. ASSUME c \in RunActions, call'[c] \in {"ended", "lined", "answered"}
          PROVE  call[c] \in {"ended", "lined", "answered"}
      <3>1. call[c] # "load"
        BY <2>2
      <3>2. call[c] # "run"
        BY <2>2
      <3> QED BY <2>2, <3>1, <3>2
    <2> QED BY <2>1, <2>2, <1>b DEF CallsAccounted
  <1>11. /\ \A c \in sent' : call'[c] \in {"run", "audited", "ended", "lined", "answered", "lost"}
         /\ \A c \in unloaded' : call'[c] \in {"ended", "lined", "answered", "lost"}
    <2>1. /\ sent \subseteq Calls /\ \A c \in sent : call[c] \in {"run", "audited", "ended", "lined", "answered", "lost"}
          /\ unloaded \subseteq Calls /\ \A c \in unloaded : call[c] \in {"ended", "lined", "answered", "lost"}
      BY <1>b, HostTypes DEF CallsGoOn
    <2>2. sent' = sent /\ unloaded' = unloaded
      OBVIOUS
    <2> QED BY <2>1, <2>2
  <1> QED BY <1>c, <1>1, <1>7, <1>8, <1>10, <1>11

\* The writers of some lines that were being written go on.
LEMMA Resumed ==
    ASSUME HostInv, NEW done, \A l \in done : \E i \in DOMAIN writes : writes[i] = l,
           H!Resume(done), UNCHANGED <<sent, unloaded>>
    PROVE  /\ call' \in [Calls -> {"none", "called", "load", "run", "audited", "ended", "lined",
                                   "answered", "lost"}]
           /\ request' \in [Posts -> {"none", "setup", "unauthorized", "calls", "over", "lost"}]
           /\ \A c \in Calls :
                /\ H!Line(c, "action_run") \in done => call[c] = "audited" /\ call'[c] = "ended"
                /\ H!Line(c, "tool_call") \in done => call[c] = "lined" /\ call'[c] = "answered"
                /\ H!Line(c, "action_run") \notin done /\ H!Line(c, "tool_call") \notin done =>
                     call'[c] = call[c]
           /\ \A m \in Posts :
                /\ H!Line(m, "request_unauthorized") \in done =>
                     request[m] = "unauthorized" /\ request'[m] = "over"
                /\ H!Line(m, "request_unauthorized") \notin done => request'[m] = request[m]
           /\ \A l \in H!Lines : WentOn(l) => WentOn(l)'
           /\ \A l \in done : l \in H!Lines /\ WentOn(l)'
           /\ \A l \in H!Lines : Waits(l) /\ l \notin done => Waits(l)'
  <1>a. H!TypeOK /\ WritersWait /\ CallsGoOn
    BY DEF HostInv
  <1>b. /\ call' = [c \in Calls |-> CASE H!Line(c, "action_run") \in done -> "ended"
                                      [] H!Line(c, "tool_call") \in done  -> "answered"
                                      [] OTHER -> call[c]]
        /\ request' = [m \in Posts |->
             IF H!Line(m, "request_unauthorized") \in done THEN "over" ELSE request[m]]
    BY DEF H!Resume
  <1>c. \A l \in done : l \in H!Lines /\ Waits(l)
    BY <1>a, HostTypes DEF WritersWait
  <1>1. ASSUME NEW c \in Calls
        PROVE  /\ H!Line(c, "action_run") \in done => call[c] = "audited"
               /\ H!Line(c, "tool_call") \in done => call[c] = "lined"
    BY <1>c DEF Waits, H!Line
  <1>2. ASSUME NEW c \in Calls
        PROVE  /\ H!Line(c, "action_run") \in done => call'[c] = "ended"
               /\ H!Line(c, "tool_call") \in done => call'[c] = "answered"
               /\ H!Line(c, "action_run") \notin done /\ H!Line(c, "tool_call") \notin done =>
                    call'[c] = call[c]
    <2>1. call'[c] = CASE H!Line(c, "action_run") \in done -> "ended"
                       [] H!Line(c, "tool_call") \in done  -> "answered"
                       [] OTHER -> call[c]
      BY <1>b
    <2> HIDE DEF H!Line
    <2> QED BY <1>1, <2>1
  <1>3. ASSUME NEW m \in Posts
        PROVE  /\ H!Line(m, "request_unauthorized") \in done =>
                    request[m] = "unauthorized" /\ request'[m] = "over"
               /\ H!Line(m, "request_unauthorized") \notin done => request'[m] = request[m]
    BY <1>b, <1>c DEF Waits, H!Line
  <1>4. /\ call' \in [Calls -> {"none", "called", "load", "run", "audited", "ended", "lined",
                                "answered", "lost"}]
        /\ request' \in [Posts -> {"none", "setup", "unauthorized", "calls", "over", "lost"}]
    <2>1. ASSUME NEW c \in Calls
          PROVE  call'[c] \in {"none", "called", "load", "run", "audited", "ended", "lined",
                               "answered", "lost"}
      BY <1>2, <1>a, HostTypes
    <2>2. ASSUME NEW m \in Posts
          PROVE  request'[m] \in {"none", "setup", "unauthorized", "calls", "over", "lost"}
      BY <1>3, <1>a, HostTypes
    <2>3. call' = [c \in Calls |-> call'[c]] /\ request' = [m \in Posts |-> request'[m]]
      BY <1>b
    <2> QED BY <2>1, <2>2, <2>3
  <1>5. ASSUME NEW l \in H!Lines, WentOn(l)
        PROVE  WentOn(l)'
    <2>1. CASE l.event \in {"action_run", "tool_call"}
      <3>1. /\ l.who \in Calls
            /\ call[l.who] \in {"ended", "lined", "answered", "lost"}
            /\ l.event = "tool_call" => call[l.who] \in {"answered", "lost"}
            /\ l.event = "action_run" => l.who \in RunActions \ unloaded
        BY <1>5, <2>1 DEF WentOn
      <3>2. \/ call'[l.who] = call[l.who]
            \/ call[l.who] = "lined" /\ call'[l.who] = "answered"
        BY <3>1, <1>1, <1>2
      <3> QED BY <3>1, <3>2, <2>1 DEF WentOn
    <2>2. CASE l.event = "request_unauthorized"
      BY <2>2, <1>3, <1>5 DEF WentOn
    <2> QED BY <2>1, <2>2, LineIs DEF H!Events
  <1>6. ASSUME NEW l \in done
        PROVE  WentOn(l)'
    <2>0. l \in H!Lines /\ Waits(l)
      BY <1>c
    <2>1. l = H!Line(l.who, l.event)
      BY <2>0, LineIs
    <2>2. CASE l.event = "action_run" /\ l.who \in Calls /\ call[l.who] = "audited"
      <3>1. call'[l.who] = "ended"
        BY <2>1, <2>2, <1>2
      <3>2. l.who \in RunActions \ unloaded
        BY <2>2, <1>a DEF CallsGoOn
      <3> QED BY <2>2, <3>1, <3>2 DEF WentOn
    <2>3. CASE l.event = "tool_call" /\ l.who \in Calls /\ call[l.who] = "lined"
      <3>1. call'[l.who] = "answered"
        BY <2>1, <2>3, <1>2
      <3> QED BY <2>3, <3>1 DEF WentOn
    <2>4. CASE l.event = "request_unauthorized" /\ l.who \in Posts
      <3>1. request'[l.who] = "over"
        BY <2>1, <2>4, <1>3
      <3> QED BY <2>4, <3>1 DEF WentOn
    <2> QED BY <2>0, <2>2, <2>3, <2>4 DEF Waits
  <1>7. ASSUME NEW l \in H!Lines, Waits(l), l \notin done
        PROVE  Waits(l)'
    <2>1. l = H!Line(l.who, l.event)
      BY LineIs
    <2>2. CASE l.event = "action_run" /\ l.who \in Calls /\ call[l.who] = "audited"
      <3>1. H!Line(l.who, "action_run") \notin done /\ H!Line(l.who, "tool_call") \notin done
        BY <2>1, <2>2, <1>1, <1>7
      <3> QED BY <2>2, <3>1, <1>2 DEF Waits
    <2>3. CASE l.event = "tool_call" /\ l.who \in Calls /\ call[l.who] = "lined"
      <3>1. H!Line(l.who, "action_run") \notin done /\ H!Line(l.who, "tool_call") \notin done
        BY <2>1, <2>3, <1>1, <1>7
      <3> QED BY <2>3, <3>1, <1>2 DEF Waits
    <2>4. CASE l.event = "request_unauthorized" /\ l.who \in Posts /\ request[l.who] = "unauthorized"
      <3>1. request'[l.who] = request[l.who]
        BY <2>1, <2>4, <1>3, <1>7
      <3> QED BY <2>4, <3>1 DEF Waits
    <2> QED BY <1>7, <2>2, <2>3, <2>4 DEF Waits
  <1> QED BY <1>c, <1>1, <1>2, <1>3, <1>4, <1>5, <1>6, <1>7

\* Some lines are written, or given up: their writers go on, the others wait.
LEMMA AnsweredStep ==
    ASSUME HostInv, NEW done, \A l \in done : \E i \in DOMAIN writes : writes[i] = l,
           H!Resume(done), UNCHANGED <<sent, unloaded>>,
           writes' \in Seq(H!Lines), Once(writes'),
           \A k \in DOMAIN writes' :
             writes'[k] \notin done /\ \E i \in DOMAIN writes : writes'[k] = writes[i],
           \/ log' = log
           \/ \E l \in done, whole \in BOOLEAN : log' = Append(log, H!Entry(l, whole)),
           printed \subseteq printed', reported \subseteq reported',
           \A l \in done : H!Accounted(l)'
    PROVE  /\ log' \in Seq([line : H!Lines, whole : BOOLEAN])
           /\ WritersWait' /\ LogPast' /\ CallsGoOn' /\ CallsAccounted'
  <1>a. H!TypeOK /\ WritersWait /\ LogPast /\ CallsGoOn /\ CallsAccounted
    BY DEF HostInv
  <1>b. /\ \A c \in Calls :
             /\ H!Line(c, "action_run") \in done => call[c] = "audited" /\ call'[c] = "ended"
             /\ H!Line(c, "tool_call") \in done => call[c] = "lined" /\ call'[c] = "answered"
             /\ H!Line(c, "action_run") \notin done /\ H!Line(c, "tool_call") \notin done =>
                  call'[c] = call[c]
        /\ \A m \in Posts :
             /\ H!Line(m, "request_unauthorized") \in done =>
                  request[m] = "unauthorized" /\ request'[m] = "over"
             /\ H!Line(m, "request_unauthorized") \notin done => request'[m] = request[m]
        /\ \A l \in H!Lines : WentOn(l) => WentOn(l)'
        /\ \A l \in done : l \in H!Lines /\ WentOn(l)'
        /\ \A l \in H!Lines : Waits(l) /\ l \notin done => Waits(l)'
    BY Resumed
  <1>1. WritersWait'
    <2> SUFFICES ASSUME NEW k \in DOMAIN writes' PROVE Waits(writes[k])'
      BY DEF WritersWait, Once
    <2>1. PICK l : l = writes'[k]
      OBVIOUS
    <2>2. l \in H!Lines /\ Waits(l) /\ l \notin done
      BY <2>1, <1>a DEF WritersWait
    <2>3. Waits(l)'
      BY <2>2, <1>b
    <2> QED BY <2>1, <2>3 DEF Waits
  <1>2. log' \in Seq([line : H!Lines, whole : BOOLEAN]) /\ LogPast'
    <2>1. CASE log' = log
      <3>1. log \in Seq([line : H!Lines, whole : BOOLEAN])
        BY <1>a, HostTypes
      <3>2. ASSUME NEW i \in DOMAIN log PROVE log[i].line \in H!Lines
        <4> DEFINE Entries == [line : H!Lines, whole : BOOLEAN]
        <4>1. log \in Seq(Entries)
          BY <3>1
        <4> HIDE DEF Entries
        <4>2. log[i] \in Entries
          BY <3>2, <4>1
        <4> QED BY <4>2 DEF Entries
      <3>3. ASSUME NEW i \in DOMAIN log' PROVE WentOn(log[i].line)'
        <4>1. PICK l : l = log[i].line
          OBVIOUS
        <4>2. WentOn(l)'
          BY <2>1, <3>2, <3>3, <4>1, <1>a, <1>b DEF LogPast
        <4> QED BY <2>1, <4>1, <4>2 DEF WentOn
      <3> QED BY <2>1, <3>1, <3>3, <1>a DEF LogPast
    <2>2. CASE \E l \in done, whole \in BOOLEAN : log' = Append(log, H!Entry(l, whole))
      BY <2>2, <1>a, <1>b, LogGrows
    <2> QED BY <2>1, <2>2
  <1>3. \A l : H!Accounted(l) => H!Accounted(l)'
    <2>1. log' = log \/ \E e \in [line : H!Lines, whole : BOOLEAN] : log' = Append(log, e)
      BY <1>b DEF H!Entry
    <2> QED BY <2>1, <1>a, AccountedKept
  <1>4. CallsGoOn'
    <2>1. ASSUME NEW c \in Calls, request'[Of[c]] \in {"none", "setup"}
          PROVE  call'[c] = "none"
      <3>1. Of[c] \in Posts
        BY CallsAssumption
      <3>2. request'[Of[c]] = request[Of[c]]
        BY <3>1, <2>1, <1>b
      <3>3. call[c] = "none"
        BY <3>2, <2>1, <1>a DEF CallsGoOn
      <3> QED BY <3>3, <1>b
    <2>2. ASSUME NEW c \in sent
          PROVE  call'[c] \in {"run", "audited", "ended", "lined", "answered", "lost"}
      <3>1. c \in Calls /\ call[c] \in {"run", "audited", "ended", "lined", "answered", "lost"}
        BY <1>a, HostTypes DEF CallsGoOn
      <3> QED BY <3>1, <1>b
    <2>4. ASSUME NEW c \in unloaded
          PROVE  call'[c] \in {"ended", "lined", "answered", "lost"}
      <3>1. c \in Calls /\ call[c] \in {"ended", "lined", "answered", "lost"}
        BY <1>a, HostTypes DEF CallsGoOn
      <3> QED BY <3>1, <1>b
    <2>3. ASSUME NEW c \in Calls, call'[c] \in {"run", "audited"}
          PROVE  c \in RunActions
      <3>1. call'[c] = call[c]
        BY <2>3, <1>b
      <3> QED BY <3>1, <2>3, <1>a DEF CallsGoOn
    <2> QED BY <2>1, <2>2, <2>3, <2>4 DEF CallsGoOn
  <1>5. ASSUME NEW c \in Calls
        PROVE  /\ call'[c] = "answered" => H!Accounted(H!Line(c, "tool_call"))'
               /\ c \in RunActions \ unloaded' /\ call'[c] \in {"ended", "lined", "answered"} =>
                    H!Accounted(H!Line(c, "action_run"))'
    <2> DEFINE t == H!Line(c, "tool_call")
               a == H!Line(c, "action_run")
    <2>1. CASE t \in done
      <3>1. call[c] = "lined" /\ H!Accounted(t)'
        BY <2>1, <1>b
      <3> QED BY <3>1, <1>a, <1>3 DEF CallsAccounted
    <2>2. CASE a \in done
      <3>1. call'[c] = "ended" /\ H!Accounted(a)'
        BY <2>2, <1>b
      <3> QED BY <3>1
    <2>3. CASE t \notin done /\ a \notin done
      <3>1. call'[c] = call[c]
        BY <2>3, <1>b
      <3> QED BY <3>1, <1>a, <1>3 DEF CallsAccounted
    <2> QED BY <2>1, <2>2, <2>3
  <1>6. CallsAccounted'
    BY <1>5 DEF CallsAccounted
  <1> QED BY <1>1, <1>2, <1>4, <1>6

\* The steps that write a line to the log, or give one up.
LEMMA LogStep ==
    ASSUME HostInv,
           \/ \E i \in DOMAIN writes : H!Logged(i) \/ H!InsertFails(i)
           \/ H!AppendFails \/ H!DirectoryFails \/ H!TableFails
    PROVE  /\ writes' \in Seq(H!Lines) /\ log' \in Seq([line : H!Lines, whole : BOOLEAN])
           /\ call' \in [Calls -> {"none", "called", "load", "run", "audited", "ended", "lined",
                                   "answered", "lost"}]
           /\ request' \in [Posts -> {"none", "setup", "unauthorized", "calls", "over", "lost"}]
           /\ printed' \subseteq H!Lines /\ reported' \subseteq H!Lines
           /\ WritersWait' /\ LogPast' /\ CallsGoOn' /\ CallsAccounted'
           /\ \A c \in Calls : call'[c] = "load" => call[c] = "load"
  <1>a. /\ writes \in Seq(H!Lines) /\ Once(writes) /\ \A i \in DOMAIN writes : writes[i] \in H!Lines
        /\ printed \subseteq H!Lines /\ reported \subseteq H!Lines
        /\ log \in Seq([line : H!Lines, whole : BOOLEAN])
    BY HostTypes DEF HostInv, WritersWait
  <1>b. \A l, whole : H!Entry(l, whole).line = l /\ H!Entry(l, whole).whole = whole
    BY DEF H!Entry
  <1> DEFINE Result ==
        \E done :
          /\ \A l \in done : \E i \in DOMAIN writes : writes[i] = l
          /\ H!Resume(done) /\ UNCHANGED <<sent, unloaded>>
          /\ writes' \in Seq(H!Lines) /\ Once(writes')
          /\ \A k \in DOMAIN writes' :
               writes'[k] \notin done /\ \E i \in DOMAIN writes : writes'[k] = writes[i]
          /\ \/ log' = log
             \/ \E l \in done, whole \in BOOLEAN : log' = Append(log, H!Entry(l, whole))
          /\ printed \subseteq printed' /\ reported \subseteq reported'
          /\ printed' \subseteq H!Lines /\ reported' \subseteq H!Lines
          /\ \A l \in done : H!Accounted(l)'
  <1>1. ASSUME NEW i \in DOMAIN writes, H!Logged(i) \/ H!InsertFails(i)
        PROVE  Result
    <2> DEFINE w == writes[i]
    <2>1. PICK l : l = w
      OBVIOUS
    <2>2. /\ writes' = H!RemoveAt(writes, i) /\ H!Resume({w}) /\ UNCHANGED <<sent, unloaded, reported>>
          /\ printed' \in {printed, printed \cup {w}}
          /\ log' = log \/ log' = Append(log, H!Entry(w, TRUE))
      BY <1>1 DEF H!Logged, H!InsertFails, H!history
    <2>3. /\ writes' \in Seq(H!Lines) /\ Once(writes')
          /\ \A k \in DOMAIN writes' : writes'[k] # w /\ \E j \in DOMAIN writes : writes'[k] = writes[j]
      BY <1>a, <2>2, Removed
    <2>4. H!Accounted(l)'
      <3>1. CASE H!InsertFails(i)
        BY <2>1, <3>1 DEF H!InsertFails, H!Accounted
      <3>2. CASE H!Logged(i)
        <4>1. log' = Append(log, H!Entry(l, TRUE)) /\ H!Entry(l, TRUE) \in [line : H!Lines, whole : BOOLEAN]
          BY <2>1, <3>2, <1>a DEF H!Logged, H!Entry
        <4> DEFINE Entries == [line : H!Lines, whole : BOOLEAN]
                   n == Len(log) + 1
        <4>2. log \in Seq(Entries) /\ H!Entry(l, TRUE) \in Entries
          BY <4>1, <1>a
        <4> HIDE DEF Entries
        <4>3. n \in DOMAIN log' /\ log'[n] = H!Entry(l, TRUE)
          <5>1. PICK e : e = H!Entry(l, TRUE)
            OBVIOUS
          <5>2. e \in Entries /\ log' = Append(log, e)
            BY <4>1, <4>2, <5>1
          <5>3. n \in DOMAIN log' /\ log'[n] = e
            BY <4>2, <5>2, Appended
          <5> QED BY <5>1, <5>3
        <4>4. n \in H!Logs(l)' /\ log'[n].whole
          BY <4>3, <1>b DEF H!Logs
        <4> QED BY <4>4 DEF H!Accounted
      <3> QED BY <1>1, <3>1, <3>2
    <2> HIDE DEF w
    <2>5. H!Resume({l}) /\ (log' = log \/ log' = Append(log, H!Entry(l, TRUE)))
      BY <2>1, <2>2
    <2>6. \A x \in {l} : \E j \in DOMAIN writes : writes[j] = x
      BY <2>1 DEF w
    <2>7. l \in H!Lines /\ printed' \subseteq H!Lines /\ reported' \subseteq H!Lines
      BY <2>1, <2>2, <1>a DEF w
    <2> WITNESS {l}
    <2> QED BY <2>1, <2>2, <2>3, <2>4, <2>5, <2>6, <2>7
  <1>2. ASSUME H!AppendFails \/ H!DirectoryFails
        PROVE  Result
    <2>1. PICK l : l = Head(writes)
      OBVIOUS
    <2>2. /\ writes # <<>> /\ writes' = Tail(writes) /\ H!Resume({l}) /\ UNCHANGED <<sent, unloaded, printed>>
          /\ reported' = reported \cup {l}
          /\ log' = log \/ log' = Append(log, H!Entry(l, FALSE))
      BY <1>2, <2>1 DEF H!AppendFails, H!DirectoryFails, H!history
    <2>3. /\ writes' \in Seq(H!Lines) /\ Once(writes') /\ 1 \in DOMAIN writes /\ l = writes[1]
          /\ \A k \in DOMAIN writes' : writes'[k] # l /\ \E j \in DOMAIN writes : writes'[k] = writes[j]
      BY <1>a, <2>1, <2>2, RemovedFirst
    <2>4. H!Accounted(l)'
      BY <2>2 DEF H!Accounted
    <2> WITNESS {l}
    <2> QED BY <2>2, <2>3, <2>4, <1>a
  <1>3. ASSUME H!TableFails
        PROVE  Result
    <2>1. PICK done : done = H!ToSet(writes)
      OBVIOUS
    <2>2. /\ writes' = <<>> /\ H!Resume(done) /\ UNCHANGED <<sent, unloaded, log, reported>>
          /\ printed' = printed \cup done
      BY <1>3, <2>1 DEF H!TableFails, H!history
    <2>3. \A l \in done : \E i \in DOMAIN writes : writes[i] = l
      BY <2>1 DEF H!ToSet
    <2>4. writes' \in Seq(H!Lines) /\ Once(writes') /\ DOMAIN writes' = {}
      BY <2>2 DEF Once
    <2>5. \A l \in done : H!Accounted(l)'
      BY <2>2 DEF H!Accounted
    <2>6. done \subseteq H!Lines
      BY <2>3, <1>a
    <2> WITNESS done
    <2> QED BY <2>2, <2>3, <2>4, <2>5, <2>6, <1>a
  <1>4. Result
    BY <1>1, <1>2, <1>3
  <1>5. PICK done :
          /\ \A l \in done : \E i \in DOMAIN writes : writes[i] = l
          /\ H!Resume(done) /\ UNCHANGED <<sent, unloaded>>
          /\ writes' \in Seq(H!Lines) /\ Once(writes')
          /\ \A k \in DOMAIN writes' :
               writes'[k] \notin done /\ \E i \in DOMAIN writes : writes'[k] = writes[i]
          /\ \/ log' = log
             \/ \E l \in done, whole \in BOOLEAN : log' = Append(log, H!Entry(l, whole))
          /\ printed \subseteq printed' /\ reported \subseteq reported'
          /\ printed' \subseteq H!Lines /\ reported' \subseteq H!Lines
          /\ \A l \in done : H!Accounted(l)'
    BY <1>4
  <1> HIDE DEF Result
  <1>6. /\ log' \in Seq([line : H!Lines, whole : BOOLEAN])
        /\ WritersWait' /\ LogPast' /\ CallsGoOn' /\ CallsAccounted'
    BY <1>5, AnsweredStep
  <1>7. /\ call' \in [Calls -> {"none", "called", "load", "run", "audited", "ended", "lined",
                                "answered", "lost"}]
        /\ request' \in [Posts -> {"none", "setup", "unauthorized", "calls", "over", "lost"}]
        /\ \A c \in Calls : call'[c] = "load" => call[c] = "load"
    BY <1>5, Resumed
  <1> QED BY <1>5, <1>6, <1>7

\* What the steps that write no line do to the requests and calls.
LEMMA HostQuietStep ==
    ASSUME HostInv,
           \/ H!SetUp \/ H!SetUpFails \/ H!LogReady \/ H!LogNotReady
           \/ \E m \in Posts : \/ H!Arrive(m) \/ H!Authorize(m) \/ H!CheckFails(m)
                               \/ H!Loaded(m) \/ H!LoadFails(m) \/ H!Respond(m)
           \/ \E c \in Calls : H!Load(c) \/ H!Changes(c)
    PROVE  H!TypeOK' /\ WritersWait' /\ LogPast' /\ CallsGoOn' /\ CallsAccounted'
  <1> USE DEF H!lines, H!promises, H!history, H!Move
  <1>a. /\ H!TypeOK /\ CallsGoOn /\ UNCHANGED <<sink, writes, log, printed, reported, kills>>
        /\ UNCHANGED H!lines
    BY DEF HostInv, H!SetUp, H!SetUpFails, H!LogReady, H!LogNotReady, H!Arrive, H!Authorize,
           H!CheckFails, H!Loaded, H!LoadFails, H!Respond, H!Load, H!Changes
  <1>b. /\ app \in H!Promise /\ ready \in H!Promise
        /\ request \in [Posts -> {"none", "setup", "unauthorized", "calls", "over", "lost"}]
        /\ loading \in [Posts -> H!Promise]
        /\ call \in [Calls -> {"none", "called", "load", "run", "audited", "ended", "lined",
                               "answered", "lost"}]
        /\ joined \in [Posts \cup Calls -> BOOLEAN]
        /\ sent \subseteq Calls /\ unloaded \subseteq Calls
        /\ stale \subseteq {"app", "load", "directory", "table"}
        /\ Of \in [Calls -> Posts]
    BY <1>a, HostTypes, CallsAssumption
  <1>c. ASSUME app' \in H!Promise, ready' \in H!Promise,
               request' \in [Posts -> {"none", "setup", "unauthorized", "calls", "over", "lost"}],
               loading' \in [Posts -> H!Promise],
               call' \in [Calls -> {"none", "called", "load", "run", "audited", "ended", "lined",
                                    "answered", "lost"}],
               joined' \in [Posts \cup Calls -> BOOLEAN],
               sent' \subseteq Calls, unloaded' \subseteq Calls,
               stale' \subseteq {"app", "load", "directory", "table"}
        PROVE  H!TypeOK'
    BY <1>a, <1>c, HostTypes DEF H!TypeOK
  <1> DEFINE CallsQuiet ==
               \A c \in Calls :
                 \/ call'[c] = call[c]
                 \/ /\ call[c] \in {"none", "called", "load"}
                    /\ call'[c] \in {"called", "load", "run", "ended"}
             RequestsQuiet ==
               \A m \in Posts :
                 request'[m] = request[m] \/ request[m] \in {"none", "setup", "calls"}
             SentQuiet ==
               sent \subseteq sent' /\ \A c \in sent' : c \in sent \/ call'[c] \in {"run", "ended"}
             UnloadedQuiet ==
               /\ unloaded \subseteq unloaded' /\ unloaded' \subseteq Calls
               /\ \A c \in unloaded' : c \in unloaded \/ (call[c] = "load" /\ call'[c] = "ended")
             EndsQuiet ==
               \A c \in Calls : call[c] # "ended" /\ call'[c] = "ended" =>
                                   c \in unloaded' \/ c \notin RunActions
             InOrder ==
               \A c \in Calls : request'[Of[c]] \in {"none", "setup"} => call'[c] = "none"
             Acts ==
               \A c \in Calls : call'[c] \in {"run", "audited"} => c \in RunActions
             Quiet ==
               /\ CallsQuiet /\ RequestsQuiet /\ SentQuiet /\ UnloadedQuiet /\ EndsQuiet
               /\ InOrder /\ Acts
             Calm ==
               /\ \A c \in Calls :
                    \/ call'[c] = call[c]
                    \/ call[c] \in {"none", "called"} /\ call'[c] \in {"called", "load"}
               /\ RequestsQuiet /\ InOrder
  <1>d. ASSUME UNCHANGED <<sent, unloaded>>, Calm
        PROVE  Quiet
    <2>1. SentQuiet /\ UnloadedQuiet
      <3>1. sent' = sent /\ unloaded' = unloaded
        BY <1>d
      <3>2. unloaded \subseteq Calls
        BY <1>b
      <3> QED BY <3>1, <3>2
    <2>2. ASSUME NEW c \in Calls, call'[c] \in {"run", "audited", "ended"}
          PROVE  call'[c] = call[c]
      BY <2>2, <1>d
    <2>3. Acts
      BY <2>2, <1>a DEF CallsGoOn
    <2>4. EndsQuiet
      BY <2>2
    <2>5. CallsQuiet
      BY <1>d
    <2>6. RequestsQuiet /\ InOrder
      BY <1>d
    <2> HIDE DEF CallsQuiet, RequestsQuiet, SentQuiet, UnloadedQuiet, EndsQuiet, InOrder, Acts
    <2> QED BY <2>1, <2>3, <2>4, <2>5, <2>6
  <1>1. ASSUME H!SetUp \/ H!LogReady \/ H!LogNotReady PROVE H!TypeOK' /\ Quiet
    <2>1. UNCHANGED <<request, loading, call, joined, sent, unloaded, stale>>
      BY <1>1 DEF H!SetUp, H!LogReady, H!LogNotReady
    <2>2. app' \in H!Promise /\ ready' \in H!Promise
      BY <1>1, <1>b DEF H!SetUp, H!LogReady, H!LogNotReady, H!Promise
    <2>3. H!TypeOK'
      BY <2>1, <2>2, <1>b, <1>c
    <2>8. Calm
      BY <2>1, <2>3, <1>a, <1>b DEF CallsGoOn
    <2> QED BY <2>1, <2>3, <2>8, <1>d
  <1>2. ASSUME H!SetUpFails PROVE H!TypeOK' /\ Quiet
    <2>1. /\ UNCHANGED <<loading, ready, call, joined, sent, unloaded>>
          /\ app' \in H!Promise
          /\ request' = [m \in Posts |-> IF m \in H!InSetup THEN "over" ELSE request[m]]
          /\ stale' \subseteq {"app", "load", "directory", "table"}
      BY <1>2, <1>b DEF H!SetUpFails, H!Given, H!Forgotten, H!Promise
    <2>2. \A m \in Posts : request'[m] = request[m] \/ (request[m] = "setup" /\ request'[m] = "over")
      BY <2>1 DEF H!InSetup
    <2>3. request' \in [Posts -> {"none", "setup", "unauthorized", "calls", "over", "lost"}]
      BY <2>1, <1>b
    <2>4. H!TypeOK'
      BY <2>1, <2>3, <1>b, <1>c
    <2>8. Calm
      BY <2>1, <2>2, <2>4, <1>a, <1>b DEF CallsGoOn
    <2> QED BY <2>1, <2>2, <2>4, <2>8, <1>d
  <1>3. ASSUME NEW m \in Posts, H!Arrive(m) PROVE H!TypeOK' /\ Quiet
    <2>1. /\ UNCHANGED <<loading, ready, call, sent, unloaded, stale>>
          /\ request[m] = "none" /\ request' = [request EXCEPT ![m] = "setup"]
          /\ app' \in H!Promise /\ joined' \in [Posts \cup Calls -> BOOLEAN]
      BY <1>3, <1>b DEF H!Arrive, H!Joined, H!Promise
    <2>2. H!TypeOK'
      BY <2>1, <1>b, <1>c
    <2>3. \A c \in Calls : request'[Of[c]] \in {"none", "setup"} => call[c] = "none"
      BY <2>1, <1>a, <1>b DEF CallsGoOn
    <2>8. Calm
      BY <2>1, <2>2, <2>3, <1>a, <1>b DEF CallsGoOn
    <2> QED BY <2>1, <2>2, <2>3, <2>8, <1>d
  <1>4. ASSUME NEW m \in Posts, H!Authorize(m) PROVE H!TypeOK' /\ Quiet
    <2>1. /\ UNCHANGED <<app, loading, ready, joined, sent, unloaded, stale>>
          /\ request[m] = "setup" /\ request' = [request EXCEPT ![m] = "calls"]
          /\ call' = [c \in Calls |-> IF Of[c] = m THEN "called" ELSE call[c]]
      BY <1>4 DEF H!Authorize
    <2>2. \A c \in Calls : Of[c] = m => call[c] = "none"
      BY <2>1, <1>a DEF CallsGoOn
    <2>3. H!TypeOK'
      BY <2>1, <1>b, <1>c
    <2>4. \A c \in Calls : request'[Of[c]] \in {"none", "setup"} => Of[c] # m /\ call'[c] = "none"
      BY <2>1, <1>a, <1>b DEF CallsGoOn
    <2>5. \A c \in Calls : \/ call'[c] = call[c]
                           \/ call[c] = "none" /\ call'[c] = "called"
      BY <2>1, <2>2
    <2>8. Calm
      BY <2>1, <2>3, <2>4, <2>5, <1>a, <1>b DEF CallsGoOn
    <2> QED BY <2>1, <2>3, <2>4, <2>5, <2>8, <1>d
  <1>5. ASSUME NEW m \in Posts, H!CheckFails(m) \/ H!Respond(m) PROVE H!TypeOK' /\ Quiet
    <2>1. /\ UNCHANGED <<app, loading, ready, call, joined, sent, unloaded, stale>>
          /\ request[m] \in {"setup", "calls"} /\ request' = [request EXCEPT ![m] = "over"]
      BY <1>5 DEF H!CheckFails, H!Respond
    <2>2. H!TypeOK'
      BY <2>1, <1>b, <1>c
    <2>8. Calm
      BY <2>1, <2>2, <1>a, <1>b DEF CallsGoOn
    <2> QED BY <2>1, <2>2, <2>8, <1>d
  <1>6. ASSUME NEW m \in Posts, H!Loaded(m) PROVE H!TypeOK' /\ Quiet
    <2>1. /\ UNCHANGED <<app, ready, request, call, joined, sent, unloaded, stale>>
          /\ loading' \in [Posts -> H!Promise]
      BY <1>6, <1>b DEF H!Loaded, H!Promise
    <2>2. H!TypeOK'
      BY <2>1, <1>b, <1>c
    <2>8. Calm
      BY <2>1, <2>2, <1>a, <1>b DEF CallsGoOn
    <2> QED BY <2>1, <2>2, <2>8, <1>d
  <1>7. ASSUME NEW m \in Posts, H!LoadFails(m) PROVE H!TypeOK' /\ Quiet
    <2>1. /\ UNCHANGED <<app, ready, request, joined, sent>>
          /\ loading' \in [Posts -> H!Promise]
          /\ call' = [c \in Calls |-> IF c \in H!InLoad(m) THEN "ended" ELSE call[c]]
          /\ unloaded' = unloaded \cup H!InLoad(m) /\ H!InLoad(m) \subseteq Calls
          /\ stale' \subseteq {"app", "load", "directory", "table"}
      <3>1. /\ UNCHANGED <<app, ready, request, joined, sent>>
            /\ loading' = [loading EXCEPT ![m] = "none"]
            /\ call' = [c \in Calls |-> IF c \in H!InLoad(m) THEN "ended" ELSE call[c]]
            /\ unloaded' = unloaded \cup H!InLoad(m) /\ H!Given("load", H!InLoad(m))
        BY <1>7 DEF H!LoadFails, H!Forgotten
      <3>2. loading' \in [Posts -> H!Promise]
        BY <3>1, <1>b DEF H!Promise
      <3>3. H!InLoad(m) \subseteq Calls
        BY DEF H!InLoad
      <3>4. stale' \subseteq {"app", "load", "directory", "table"}
        BY <3>1, <1>b DEF H!Given
      <3> QED BY <3>1, <3>2, <3>3, <3>4
    <2>2. \A c \in Calls : call'[c] = call[c] \/ (call[c] = "load" /\ call'[c] = "ended")
      BY <2>1 DEF H!InLoad
    <2>3. call' \in [Calls -> {"none", "called", "load", "run", "audited", "ended", "lined",
                               "answered", "lost"}]
      BY <2>1, <1>b
    <2>4. H!TypeOK'
      BY <2>1, <2>3, <1>b, <1>c
    <2>5. \A c \in Calls : c \in H!InLoad(m) => call[c] = "load" /\ call'[c] = "ended"
      BY <2>1 DEF H!InLoad
    <2>6. UnloadedQuiet
      <3>1. unloaded' = unloaded \cup H!InLoad(m) /\ H!InLoad(m) \subseteq Calls
        BY <2>1
      <3>2. unloaded \subseteq Calls
        BY <1>b
      <3> QED BY <3>1, <3>2, <2>5
    <2>7. EndsQuiet
      BY <2>1
    <2>8. CallsQuiet /\ RequestsQuiet /\ SentQuiet
      BY <2>1, <2>2
    <2>9. InOrder
      <3>1. ASSUME NEW c \in Calls, call[c] = "none" PROVE call'[c] = "none"
        BY <2>2, <3>1
      <3> QED BY <3>1, <2>1, <1>a DEF CallsGoOn
    <2>10. Acts
      BY <2>2, <1>a DEF CallsGoOn
    <2> HIDE DEF CallsQuiet, RequestsQuiet, SentQuiet, UnloadedQuiet, EndsQuiet, InOrder, Acts
    <2> QED BY <2>4, <2>6, <2>7, <2>8, <2>9, <2>10
  <1>8. ASSUME NEW c \in Calls, H!Load(c) PROVE H!TypeOK' /\ Quiet
    <2>1. /\ UNCHANGED <<app, ready, request, sent, unloaded, stale>>
          /\ loading' \in [Posts -> H!Promise] /\ joined' \in [Posts \cup Calls -> BOOLEAN]
          /\ call[c] = "called" /\ call' = [call EXCEPT ![c] = "load"]
      BY <1>8, <1>b DEF H!Load, H!Joined, H!Promise
    <2>2. H!TypeOK'
      BY <2>1, <1>b, <1>c
    <2>8. Calm
      BY <2>1, <2>2, <1>a, <1>b DEF CallsGoOn
    <2> QED BY <2>1, <2>2, <2>8, <1>d
  <1>9. ASSUME NEW c \in Calls, H!Changes(c) PROVE H!TypeOK' /\ Quiet
    <2>1. /\ UNCHANGED <<app, loading, ready, request, joined, unloaded, stale>> /\ call[c] = "load"
          /\ sent' = sent \cup {c}
          /\ call' = [call EXCEPT ![c] = IF c \in RunActions THEN "run" ELSE "ended"]
      BY <1>9 DEF H!Changes, H!Runs
    <2>2. H!TypeOK'
      BY <2>1, <1>b, <1>c
    <2>3. \A d \in Calls :
            \/ d # c /\ call'[d] = call[d]
            \/ d = c /\ call'[d] = IF c \in RunActions THEN "run" ELSE "ended"
      BY <2>1, <1>b
    <2>4. CallsQuiet /\ RequestsQuiet
      BY <2>1, <2>3
    <2>5. SentQuiet
      BY <2>1, <2>3
    <2>6. UnloadedQuiet
      <3>1. unloaded' = unloaded
        BY <2>1
      <3>2. unloaded \subseteq Calls
        BY <1>b
      <3> QED BY <3>1, <3>2
    <2>7. EndsQuiet
      BY <2>3
    <2>8. InOrder
      BY <2>1, <2>3, <1>a, <1>b DEF CallsGoOn
    <2>9. Acts
      BY <2>3, <1>a DEF CallsGoOn
    <2> HIDE DEF CallsQuiet, RequestsQuiet, SentQuiet, UnloadedQuiet, EndsQuiet, InOrder, Acts
    <2> QED BY <2>2, <2>4, <2>5, <2>6, <2>7, <2>8, <2>9
  <1>10. H!TypeOK' /\ Quiet
    BY <1>1, <1>2, <1>3, <1>4, <1>5, <1>6, <1>7, <1>8, <1>9
  <1>11. /\ WritersWait' /\ LogPast' /\ CallsAccounted'
         /\ \A c \in sent' : call'[c] \in {"run", "audited", "ended", "lined", "answered", "lost"}
         /\ \A c \in unloaded' : call'[c] \in {"ended", "lined", "answered", "lost"}
    BY <1>a, <1>10, QuietStep
  <1> QED BY <1>10, <1>11 DEF CallsGoOn

\* The steps that write a line.
LEMMA HostWriteStep ==
    ASSUME HostInv,
           \/ \E m \in Posts : H!Unauthorized(m)
           \/ \E c \in Calls : H!AuditAction(c) \/ H!AuditCall(c)
    PROVE  H!TypeOK' /\ WritersWait' /\ LogPast' /\ CallsGoOn' /\ CallsAccounted'
  <1>a. /\ H!TypeOK /\ CallsGoOn
        /\ UNCHANGED <<sink, app, loading, log, printed, reported, sent, unloaded, stale, kills>>
    BY DEF HostInv, H!Unauthorized, H!AuditAction, H!AuditCall
  <1>b. /\ request \in [Posts -> {"none", "setup", "unauthorized", "calls", "over", "lost"}]
        /\ call \in [Calls -> {"none", "called", "load", "run", "audited", "ended", "lined",
                               "answered", "lost"}]
        /\ Of \in [Calls -> Posts]
    BY <1>a, HostTypes, CallsAssumption
  <1> DEFINE NewLine(line) ==
        /\ line \in H!Lines /\ H!Write(line) /\ ~Waits(line) /\ Waits(line)'
        /\ \A c \in Calls : call'[c] = call[c] \/ call[c] \in {"run", "ended", "load"}
        /\ \A c \in Calls : call'[c] = call[c] \/ call'[c] \in {"audited", "lined"}
        /\ \A m \in Posts : request'[m] = request[m] \/ request[m] = "setup"
        /\ \A c \in Calls : /\ call[c] = "run" => call'[c] \in {"run", "audited"}
                            /\ call[c] = "load" => call'[c] \in {"load", "audited", "lined"}
                            /\ call[c] = "load" /\ call'[c] = "lined" => c \notin RunActions
                            /\ call[c] = "ended" => call'[c] \in {"ended", "lined"}
        /\ request' \in [Posts -> {"none", "setup", "unauthorized", "calls", "over", "lost"}]
        /\ call' \in [Calls -> {"none", "called", "load", "run", "audited", "ended", "lined",
                                "answered", "lost"}]
        /\ \A c \in Calls : request'[Of[c]] \in {"none", "setup"} => call'[c] = "none"
        /\ \A c \in Calls : call'[c] \in {"run", "audited"} => c \in RunActions
  <1>1. ASSUME NEW m \in Posts, H!Unauthorized(m) PROVE \E line : NewLine(line)
    <2> DEFINE line == H!Line(m, "request_unauthorized")
    <2>1. /\ H!Write(line) /\ call' = call
          /\ request[m] = "setup" /\ request' = [request EXCEPT ![m] = "unauthorized"]
      BY <1>1 DEF H!Unauthorized
    <2>2. line \in H!Lines /\ ~Waits(line) /\ Waits(line)'
      BY <2>1, <1>b DEF H!Line, H!Lines, H!Events, Waits
    <2>3. \A c \in Calls : request'[Of[c]] \in {"none", "setup"} => call'[c] = "none"
      BY <2>1, <1>a, <1>b DEF CallsGoOn
    <2> HIDE DEF line
    <2> WITNESS line
    <2> QED BY <2>1, <2>2, <2>3, <1>a, <1>b DEF CallsGoOn
  <1>2. ASSUME NEW c \in Calls, H!AuditAction(c) PROVE \E line : NewLine(line)
    <2> DEFINE line == H!Line(c, "action_run")
    <2>1. /\ H!Write(line) /\ request' = request
          /\ c \in RunActions /\ call[c] \in {"run", "load"}
          /\ call' = [call EXCEPT ![c] = "audited"]
      BY <1>2 DEF H!AuditAction, H!Move, H!Runs
    <2>2. line \in H!Lines /\ ~Waits(line) /\ Waits(line)'
      BY <2>1, <1>b DEF H!Line, H!Lines, H!Events, Waits
    <2>3. \A d \in Calls : call'[d] \in {"run", "audited"} => d \in RunActions
      BY <2>1, <1>a, <1>b DEF CallsGoOn
    <2>4. \A d \in Calls : request'[Of[d]] \in {"none", "setup"} => call'[d] = "none"
      BY <2>1, <1>a, <1>b DEF CallsGoOn
    <2> HIDE DEF line
    <2> WITNESS line
    <2> QED BY <2>1, <2>2, <2>3, <2>4, <1>b
  <1>3. ASSUME NEW c \in Calls, H!AuditCall(c) PROVE \E line : NewLine(line)
    <2> DEFINE line == H!Line(c, "tool_call")
    <2>1. /\ H!Write(line) /\ request' = request
          /\ call[c] \in {"ended", "load"} /\ call' = [call EXCEPT ![c] = "lined"]
          /\ call[c] = "load" => c \notin RunActions
      BY <1>3 DEF H!AuditCall, H!Move, H!Runs
    <2>2. line \in H!Lines /\ ~Waits(line) /\ Waits(line)'
      BY <2>1, <1>b DEF H!Line, H!Lines, H!Events, Waits
    <2>3. \A d \in Calls : call'[d] \in {"run", "audited"} => d \in RunActions
      BY <2>1, <1>a, <1>b DEF CallsGoOn
    <2>4. \A d \in Calls : request'[Of[d]] \in {"none", "setup"} => call'[d] = "none"
      BY <2>1, <1>a, <1>b DEF CallsGoOn
    <2> HIDE DEF line
    <2> WITNESS line
    <2> QED BY <2>1, <2>2, <2>3, <2>4, <1>b
  <1>4. PICK line : NewLine(line)
    BY <1>1, <1>2, <1>3
  <1>5. /\ writes' \in Seq(H!Lines) /\ ready' \in H!Promise
        /\ joined' \in [Posts \cup Calls -> BOOLEAN]
        /\ WritersWait' /\ LogPast' /\ CallsAccounted'
        /\ \A c \in sent' : call'[c] \in {"run", "audited", "ended", "lined", "answered", "lost"}
        /\ \A c \in unloaded' : call'[c] \in {"ended", "lined", "answered", "lost"}
    BY <1>a, <1>4, WriteStep
  <1>6. H!TypeOK'
    BY <1>a, <1>4, <1>5, HostTypes DEF H!TypeOK
  <1>7. CallsGoOn'
    BY <1>a, <1>4, <1>5 DEF CallsGoOn
  <1> QED BY <1>5, <1>6, <1>7

\* The process dies; of the lines being written one may reach the log.
LEMMA HostKillStep ==
    ASSUME HostInv, H!Kill
    PROVE  H!TypeOK' /\ WritersWait' /\ LogPast' /\ CallsGoOn' /\ CallsAccounted'
  <1>a. H!TypeOK /\ WritersWait /\ LogPast /\ CallsGoOn /\ CallsAccounted
    BY DEF HostInv
  <1>b. /\ kills < MaxKills /\ kills' = kills + 1 /\ app' \in {"none", "done"}
        /\ loading' = [m \in Posts |-> "none"] /\ ready' = "none" /\ writes' = <<>>
        /\ request' = [m \in Posts |-> IF request[m] \in {"none", "over"} THEN request[m] ELSE "lost"]
        /\ call' = [c \in Calls |-> IF call[c] \in {"none", "answered"} THEN call[c] ELSE "lost"]
        /\ UNCHANGED <<sink, printed, joined, sent, unloaded, reported, stale>>
    BY DEF H!Kill, H!history
  <1>c. \/ log' = log
        \/ \E i \in DOMAIN writes, whole \in BOOLEAN : log' = Append(log, H!Entry(writes[i], whole))
    <2>1. CASE log' = log
      BY <2>1
    <2>2. CASE log' # log
      <3>1. PICK i \in H!Turn, whole \in {TRUE, sink # "file"} :
              log' = Append(log, H!Entry(writes[i], whole))
        BY <2>2 DEF H!Kill
      <3>2. i \in DOMAIN writes /\ whole \in BOOLEAN
        BY <3>1 DEF H!Turn
      <3> QED BY <3>1, <3>2
    <2> QED BY <2>1, <2>2
  <1>d. \A m \in Posts : request'[m] = IF request[m] \in {"none", "over"} THEN request[m] ELSE "lost"
    BY <1>b
  <1>e. \A c \in Calls : call'[c] = IF call[c] \in {"none", "answered"} THEN call[c] ELSE "lost"
    BY <1>b
  <1>1. \A l : WentOn(l) => WentOn(l)'
    <2> SUFFICES ASSUME NEW l, WentOn(l) PROVE WentOn(l)'
      OBVIOUS
    <2>1. CASE l.who \in Calls /\ l.event \in {"action_run", "tool_call"}
      BY <2>1, <1>b, <1>e DEF WentOn
    <2>2. CASE l.who \in Posts /\ l.event = "request_unauthorized"
      BY <2>2, <1>b, <1>d DEF WentOn
    <2> QED BY <2>1, <2>2 DEF WentOn
  <1>2. ASSUME NEW l, Waits(l) PROVE WentOn(l)'
    <2>1. CASE l.event = "action_run" /\ l.who \in Calls /\ call[l.who] = "audited"
      <3>1. call'[l.who] = "lost" /\ l.who \in RunActions \ unloaded
        BY <2>1, <1>a, <1>e DEF CallsGoOn
      <3> QED BY <3>1, <2>1, <1>b DEF WentOn
    <2>2. CASE l.event = "tool_call" /\ l.who \in Calls /\ call[l.who] = "lined"
      <3>1. call'[l.who] = "lost"
        BY <2>2, <1>e
      <3> QED BY <3>1, <2>2, <1>b DEF WentOn
    <2>3. CASE /\ l.event = "request_unauthorized" /\ l.who \in Posts
               /\ request[l.who] = "unauthorized"
      <3>1. request'[l.who] = "lost"
        BY <2>3, <1>d
      <3> QED BY <3>1, <2>3, <1>b DEF WentOn
    <2> QED BY <1>2, <2>1, <2>2, <2>3 DEF Waits
  <1>3. log' \in Seq([line : H!Lines, whole : BOOLEAN]) /\ LogPast'
    <2>1. CASE log' = log
      <3>1. ASSUME NEW i \in DOMAIN log' PROVE WentOn(log[i].line)'
        <4>1. PICK l : l = log[i].line
          OBVIOUS
        <4>2. WentOn(l)'
          BY <2>1, <3>1, <4>1, <1>1, <1>a DEF LogPast
        <4> QED BY <2>1, <4>1, <4>2 DEF WentOn
      <3>2. log \in Seq([line : H!Lines, whole : BOOLEAN])
        BY <1>a, HostTypes
      <3> QED BY <2>1, <3>1, <3>2, <1>a DEF LogPast
    <2>2. CASE \E i \in DOMAIN writes, whole \in BOOLEAN :
                 log' = Append(log, H!Entry(writes[i], whole))
      <3>1. PICK i \in DOMAIN writes, whole \in BOOLEAN :
              log' = Append(log, H!Entry(writes[i], whole))
        BY <2>2
      <3>2. PICK l : l = writes[i]
        OBVIOUS
      <3>3. WentOn(l)' /\ log' = Append(log, H!Entry(l, whole))
        BY <3>1, <3>2, <1>a, <1>2 DEF WritersWait
      <3> QED BY <3>2, <3>3, <1>1, <1>a, LogGrows
    <2> QED BY <1>c, <2>1, <2>2
  <1>4. \A l : H!Accounted(l) => H!Accounted(l)'
    <2>1. log' = log \/ \E e \in [line : H!Lines, whole : BOOLEAN] : log' = Append(log, e)
      <3>1. \A i \in DOMAIN writes : writes[i] \in H!Lines
        BY <1>a, HostTypes
      <3> QED BY <3>1, <1>c DEF H!Entry
    <2> QED BY <2>1, <1>a, <1>b, AccountedKept
  <1>5. WritersWait'
    <2>1. DOMAIN writes' = {}
      BY <1>b
    <2> QED BY <2>1 DEF WritersWait, Once
  <1>6. CallsGoOn'
    <2>1. ASSUME NEW c \in Calls, request'[Of[c]] \in {"none", "setup"}
          PROVE  call'[c] = "none"
      <3>1. Of[c] \in Posts
        BY CallsAssumption
      <3>2. request[Of[c]] = "none"
        BY <3>1, <2>1, <1>d
      <3> QED BY <3>2, <1>a, <1>e DEF CallsGoOn
    <2>2. /\ \A c \in sent : call'[c] \in {"run", "audited", "ended", "lined", "answered", "lost"}
          /\ \A c \in unloaded : call'[c] \in {"ended", "lined", "answered", "lost"}
      <3>1. sent \subseteq Calls /\ unloaded \subseteq Calls
        BY <1>a, HostTypes
      <3> QED BY <3>1, <1>a, <1>e DEF CallsGoOn
    <2> QED BY <2>1, <2>2, <1>b, <1>e DEF CallsGoOn
  <1>7. CallsAccounted'
    <2> SUFFICES ASSUME NEW c \in Calls
                 PROVE  /\ call'[c] = "answered" => H!Accounted(H!Line(c, "tool_call"))'
                        /\ c \in RunActions \ unloaded' /\ call'[c] \in {"ended", "lined", "answered"} =>
                             H!Accounted(H!Line(c, "action_run"))'
      BY DEF CallsAccounted
    <2>1. call'[c] \in {"ended", "lined", "answered"} => call[c] = "answered"
      BY <1>e
    <2> QED BY <2>1, <1>a, <1>b, <1>4 DEF CallsAccounted
  <1>8. H!TypeOK'
    <2>1. kills' \in 0..MaxKills
      BY <1>a, <1>b, CallsAssumption, HostTypes
    <2>2. request' \in [Posts -> {"none", "setup", "unauthorized", "calls", "over", "lost"}]
      BY <1>a, <1>b, HostTypes
    <2>3. call' \in [Calls -> {"none", "called", "load", "run", "audited", "ended", "lined",
                               "answered", "lost"}]
      BY <1>a, <1>b, HostTypes
    <2>4. writes' \in Seq(H!Lines) /\ app' \in H!Promise /\ ready' \in H!Promise
          /\ loading' \in [Posts -> H!Promise]
      BY <1>b DEF H!Promise
    <2> QED BY <1>3, <2>1, <2>2, <2>3, <2>4, <1>a, <1>b, HostTypes DEF H!TypeOK
  <1> QED BY <1>3, <1>5, <1>6, <1>7, <1>8

-----------------------------------------------------------------------------
(* Failures are forgotten, and nobody waits for one of before. *)

LEMMA HostFailureStep ==
    ASSUME HostInv, H!Next
    PROVE  NobodyJoinsFailed' /\ H!FailureNotKept'
  <1> USE DEF H!lines, H!promises, H!history, H!Move
  <1>a. /\ H!TypeOK /\ app # "failed" /\ \A m \in Posts : loading[m] # "failed"
        /\ sink = "file" => app = "done"
        /\ sink = "d1" => ready # "failed" /\ \A x \in Posts \cup Calls : ~joined[x]
        /\ \A c \in Calls : call[c] = "load" => ~joined[c]
        /\ stale \subseteq {"directory"}
    BY DEF HostInv, NobodyJoinsFailed, H!FailureNotKept
  <1>b. /\ sink \in {"file", "d1"} /\ Of \in [Calls -> Posts] /\ Posts \cap Calls = {}
        /\ loading \in [Posts -> H!Promise] /\ joined \in [Posts \cup Calls -> BOOLEAN]
        /\ call \in [Calls -> {"none", "called", "load", "run", "audited", "ended", "lined",
                               "answered", "lost"}]
        /\ writes \in Seq(H!Lines)
    BY <1>a, HostTypes, CallsAssumption
  <1>c. sink' = sink
    <2>1. ASSUME NEW m \in Posts,
                 \/ H!Arrive(m) \/ H!Authorize(m) \/ H!Unauthorized(m) \/ H!CheckFails(m)
                 \/ H!Loaded(m) \/ H!LoadFails(m) \/ H!Respond(m)
          PROVE  sink' = sink
      BY <2>1 DEF H!Arrive, H!Authorize, H!CheckFails, H!Loaded, H!LoadFails, H!Respond, H!Unauthorized
    <2>2. ASSUME NEW c \in Calls, H!Load(c) \/ H!Changes(c) \/ H!AuditAction(c) \/ H!AuditCall(c)
          PROVE  sink' = sink
      BY <2>2 DEF H!Load, H!Changes, H!AuditAction, H!AuditCall
    <2>3. ASSUME NEW i \in DOMAIN writes, H!Logged(i) \/ H!InsertFails(i)
          PROVE  sink' = sink
      BY <2>3 DEF H!Logged, H!InsertFails
    <2>5. ASSUME H!Kill PROVE sink' = sink
      BY <2>5 DEF H!Kill
    <2>4. ASSUME \/ H!SetUp \/ H!SetUpFails \/ H!LogReady \/ H!LogNotReady \/ H!AppendFails
                 \/ H!DirectoryFails \/ H!TableFails
          PROVE  sink' = sink
      BY <2>4 DEF H!SetUp, H!SetUpFails, H!LogReady, H!LogNotReady, H!AppendFails, H!DirectoryFails,
                  H!TableFails
    <2> QED BY <2>1, <2>2, <2>3, <2>4, <2>5 DEF H!Next, H!Step
  <1>1. ASSUME UNCHANGED <<app, loading, joined, stale>>,
               sink = "d1" => ready' # "failed",
               \A c \in Calls : call'[c] = "load" => call[c] = "load"
        PROVE  NobodyJoinsFailed' /\ H!FailureNotKept'
    BY <1>a, <1>c, <1>1 DEF NobodyJoinsFailed, H!FailureNotKept
  <1>2. CASE \/ H!LogReady \/ H!LogNotReady
             \/ \E m \in Posts : H!CheckFails(m) \/ H!Respond(m) \/ H!Authorize(m)
             \/ \E c \in Calls : H!Changes(c)
    <2>1. /\ UNCHANGED <<app, loading, joined, stale>>
          /\ sink = "d1" => ready' # "failed"
      BY <1>2, <1>a DEF H!LogReady, H!LogNotReady, H!CheckFails, H!Respond, H!Authorize, H!Changes
    <2>2. \A c \in Calls : call'[c] = "load" => call[c] = "load"
      BY <1>2, <1>b DEF H!LogReady, H!LogNotReady, H!CheckFails, H!Respond, H!Authorize, H!Changes
    <2> QED BY <1>1, <2>1, <2>2
  <1>3. CASE \/ \E i \in DOMAIN writes : H!Logged(i) \/ H!InsertFails(i)
             \/ H!AppendFails \/ H!DirectoryFails \/ H!TableFails
    <2>1. \A c \in Calls : call'[c] = "load" => call[c] = "load"
      BY <1>3, LogStep
    <2>2. UNCHANGED <<app, loading, joined>> /\ (sink = "d1" => ready' # "failed")
      BY <1>3, <1>a DEF H!Logged, H!InsertFails, H!AppendFails, H!DirectoryFails, H!TableFails,
                        H!Forgotten
    <2>3. stale' \subseteq {"directory"}
      <3>1. CASE \/ \E i \in DOMAIN writes : H!Logged(i) \/ H!InsertFails(i)
                 \/ H!AppendFails
        BY <3>1, <1>a DEF H!Logged, H!InsertFails, H!AppendFails
      <3>2. CASE H!DirectoryFails
        BY <3>2, <1>a DEF H!DirectoryFails, H!Given
      <3>3. CASE H!TableFails
        <4>1. \A x \in Posts \cup Calls : ~joined[x]
          BY <3>3, <1>a DEF H!TableFails
        <4>2. {w.who : w \in H!ToSet(writes)} \subseteq Posts \cup Calls
          <5>1. \A i \in DOMAIN writes : writes[i] \in H!Lines
            BY <1>b
          <5>2. \A w \in H!ToSet(writes) : w \in H!Lines
            BY <5>1 DEF H!ToSet
          <5> QED BY <5>2, LineIs
        <4>3. stale' = stale
          BY <3>3, <4>1, <4>2 DEF H!TableFails, H!Given
        <4> QED BY <4>3, <1>a
      <3> QED BY <1>3, <3>1, <3>2, <3>3
    <2> QED BY <1>a, <1>c, <2>1, <2>2, <2>3 DEF NobodyJoinsFailed, H!FailureNotKept
  <1>4. CASE H!SetUp
    BY <1>4, <1>a, <1>c DEF H!SetUp, NobodyJoinsFailed, H!FailureNotKept
  <1>5. CASE H!SetUpFails
    <2>1. sink = "d1"
      BY <1>5, <1>a, <1>b DEF H!SetUpFails
    <2>2. stale' = stale
      BY <1>5, <2>1, <1>a DEF H!SetUpFails, H!Given, H!InSetup
    <2> QED BY <1>5, <2>1, <2>2, <1>a, <1>c
            DEF H!SetUpFails, H!Forgotten, NobodyJoinsFailed, H!FailureNotKept
  <1>6. CASE \E m \in Posts : H!Arrive(m)
    <2>1. PICK m \in Posts : H!Arrive(m)
      BY <1>6
    <2>2. joined' = [joined EXCEPT ![m] = FALSE]
      BY <2>1, <1>a DEF H!Arrive
    <2>3. \A x \in Posts \cup Calls : joined'[x] => joined[x]
      BY <2>2, <1>b
    <2>4. app' # "failed" /\ (sink = "file" => app' = "done")
      BY <2>1, <1>a DEF H!Arrive, H!Joined
    <2> QED BY <2>1, <2>3, <2>4, <1>a, <1>c DEF H!Arrive, NobodyJoinsFailed, H!FailureNotKept
  <1>7. CASE \E m \in Posts : H!Loaded(m)
    <2>1. PICK m \in Posts : H!Loaded(m)
      BY <1>7
    <2>2. \A k \in Posts : loading'[k] # "failed"
      BY <2>1, <1>a, <1>b DEF H!Loaded
    <2> QED BY <2>1, <2>2, <1>a, <1>c DEF H!Loaded, NobodyJoinsFailed, H!FailureNotKept
  <1>8. CASE \E m \in Posts : H!LoadFails(m)
    <2>1. PICK m \in Posts : H!LoadFails(m)
      BY <1>8
    <2>2. \A k \in Posts : loading'[k] # "failed"
      BY <2>1, <1>a, <1>b DEF H!LoadFails, H!Forgotten
    <2>3. \A c \in Calls : call'[c] = "load" => call[c] = "load"
      BY <2>1, <1>b DEF H!LoadFails
    <2>4. stale' = stale
      BY <2>1, <1>a DEF H!LoadFails, H!Given, H!InLoad
    <2> QED BY <2>1, <2>2, <2>3, <2>4, <1>a, <1>c DEF H!LoadFails, NobodyJoinsFailed, H!FailureNotKept
  <1>9. CASE \E c \in Calls : H!Load(c)
    <2>1. PICK c \in Calls : H!Load(c)
      BY <1>9
    <2>2. joined' = [joined EXCEPT ![c] = FALSE]
      BY <2>1, <1>a, <1>b DEF H!Load
    <2>3. \A x \in Posts \cup Calls : joined'[x] => joined[x] /\ x # c
      BY <2>2, <1>b
    <2>4. \A k \in Posts : loading'[k] # "failed"
      BY <2>1, <1>a, <1>b DEF H!Load, H!Joined
    <2>5. \A d \in Calls : call'[d] = "load" => ~joined'[d]
      <3>1. \A d \in Calls : d # c => call'[d] = call[d]
        BY <2>1, <1>b DEF H!Load
      <3> QED BY <2>3, <3>1, <1>a
    <2> QED BY <2>1, <2>3, <2>4, <2>5, <1>a, <1>c DEF H!Load, NobodyJoinsFailed, H!FailureNotKept
  <1>10. CASE \/ \E m \in Posts : H!Unauthorized(m)
              \/ \E c \in Calls : H!AuditAction(c) \/ H!AuditCall(c)
    <2>1. PICK x \in Posts \cup Calls :
            /\ ready' = H!Joined(ready)
            /\ joined' = [joined EXCEPT ![x] = ready = "failed"]
            /\ UNCHANGED <<app, loading, stale>>
            /\ \/ x \in Posts /\ call' = call
               \/ x \in Calls /\ call' = [call EXCEPT ![x] = "audited"]
               \/ x \in Calls /\ call' = [call EXCEPT ![x] = "lined"]
      <3>1. ASSUME NEW line, H!Write(line)
            PROVE  ready' = H!Joined(ready) /\ joined' = [joined EXCEPT ![line.who] = ready = "failed"]
        BY <3>1 DEF H!Write
      <3>2. \A y, e : H!Line(y, e).who = y
        BY DEF H!Line
      <3>3. CASE \E m \in Posts : H!Unauthorized(m)
        <4>1. PICK m \in Posts : H!Unauthorized(m)
          BY <3>3
        <4> QED BY <3>1, <3>2, <4>1 DEF H!Unauthorized
      <3>4. CASE \E c \in Calls : H!AuditAction(c)
        <4>1. PICK c \in Calls : H!AuditAction(c)
          BY <3>4
        <4>2. /\ H!Write(H!Line(c, "action_run")) /\ UNCHANGED <<app, loading, stale>>
              /\ call' = [call EXCEPT ![c] = "audited"]
          BY <4>1 DEF H!AuditAction
        <4>3. ready' = H!Joined(ready) /\ joined' = [joined EXCEPT ![c] = ready = "failed"]
          BY <3>1, <3>2, <4>2
        <4> QED BY <4>2, <4>3
      <3>5. CASE \E c \in Calls : H!AuditCall(c)
        <4>1. PICK c \in Calls : H!AuditCall(c)
          BY <3>5
        <4>2. /\ H!Write(H!Line(c, "tool_call")) /\ UNCHANGED <<app, loading, stale>>
              /\ call' = [call EXCEPT ![c] = "lined"]
          BY <4>1 DEF H!AuditCall
        <4>3. ready' = H!Joined(ready) /\ joined' = [joined EXCEPT ![c] = ready = "failed"]
          BY <3>1, <3>2, <4>2
        <4> QED BY <4>2, <4>3
      <3> QED BY <1>10, <3>3, <3>4, <3>5
    <2>2. sink = "d1" => ready' # "failed" /\ \A y \in Posts \cup Calls : ~joined'[y]
      BY <2>1, <1>a, <1>b DEF H!Joined
    <2>3. ASSUME NEW d \in Calls, call'[d] = "load"
          PROVE  ~joined'[d]
      <3>1. call[d] = "load" /\ d # x
        BY <2>1, <2>3, <1>b
      <3> QED BY <3>1, <2>1, <1>a, <1>b
    <2> QED BY <2>1, <2>2, <2>3, <1>a, <1>c DEF NobodyJoinsFailed, H!FailureNotKept
  <1>11. CASE H!Kill
    <2>1. /\ app' = IF sink = "file" THEN "done" ELSE "none"
          /\ loading' = [m \in Posts |-> "none"] /\ ready' = "none"
          /\ UNCHANGED <<joined, stale>>
          /\ \A c \in Calls : call'[c] # "load"
      BY <1>11, <1>b DEF H!Kill
    <2> QED BY <2>1, <1>a, <1>c DEF NobodyJoinsFailed, H!FailureNotKept
  <1> QED BY <1>2, <1>3, <1>4, <1>5, <1>6, <1>7, <1>8, <1>9, <1>10, <1>11 DEF H!Next, H!Step

-----------------------------------------------------------------------------
LEMMA HostInductive == HostInv /\ [H!Next]_(H!vars) => HostInv'
  <1> SUFFICES ASSUME HostInv, [H!Next]_(H!vars) PROVE HostInv'
    OBVIOUS
  <1>1. CASE UNCHANGED H!vars
    <2>1. UNCHANGED hosted
      BY <1>1 DEF H!vars, H!promises, H!lines, H!history, hosted
    <2>2. H!TypeOK'
      BY <2>1, HostTypes DEF hosted, HostInv, H!TypeOK
    <2>3. WritersWait' /\ LogPast' /\ CallsGoOn' /\ NobodyJoinsFailed' /\ H!FailureNotKept'
      BY <2>1 DEF hosted, HostInv, WritersWait, LogPast, CallsGoOn, NobodyJoinsFailed,
                  H!FailureNotKept, Once, Waits, WentOn
    <2>4. CallsAccounted'
      BY <2>1 DEF hosted, HostInv, CallsAccounted, H!Accounted, H!Logs
    <2> QED BY <2>2, <2>3, <2>4 DEF HostInv
  <1>2. CASE H!Next
    <2>1. NobodyJoinsFailed' /\ H!FailureNotKept'
      BY <1>2, HostFailureStep
    <2>2. H!TypeOK' /\ WritersWait' /\ LogPast' /\ CallsGoOn' /\ CallsAccounted'
      <3>1. CASE \/ \E i \in DOMAIN writes : H!Logged(i) \/ H!InsertFails(i)
                 \/ H!AppendFails \/ H!DirectoryFails \/ H!TableFails
        <4>1. /\ writes' \in Seq(H!Lines) /\ log' \in Seq([line : H!Lines, whole : BOOLEAN])
              /\ call' \in [Calls -> {"none", "called", "load", "run", "audited", "ended", "lined",
                                      "answered", "lost"}]
              /\ request' \in [Posts -> {"none", "setup", "unauthorized", "calls", "over", "lost"}]
              /\ printed' \subseteq H!Lines /\ reported' \subseteq H!Lines
              /\ WritersWait' /\ LogPast' /\ CallsGoOn' /\ CallsAccounted'
          BY <3>1, LogStep
        <4>2. /\ UNCHANGED <<sink, app, loading, joined, sent, unloaded, kills>>
              /\ ready' \in {ready, "none"}
          BY <3>1 DEF H!Logged, H!InsertFails, H!AppendFails, H!DirectoryFails, H!TableFails,
                      H!promises, H!history, H!Forgotten
        <4>3. stale' \subseteq {"app", "load", "directory", "table"}
          BY <2>1 DEF H!FailureNotKept
        <4>4. H!TypeOK
          BY DEF HostInv
        <4>5. ready' \in H!Promise
          BY <4>2, <4>4, HostTypes DEF H!Promise
        <4>6. H!TypeOK'
          BY <4>1, <4>2, <4>3, <4>4, <4>5, HostTypes DEF H!TypeOK
        <4> QED BY <4>1, <4>6
      <3>2. CASE \/ \E m \in Posts : H!Unauthorized(m)
                 \/ \E c \in Calls : H!AuditAction(c) \/ H!AuditCall(c)
        BY <3>2, HostWriteStep
      <3>3. CASE H!Kill
        BY <3>3, HostKillStep
      <3>4. CASE \/ H!SetUp \/ H!SetUpFails \/ H!LogReady \/ H!LogNotReady
                 \/ \E m \in Posts : \/ H!Arrive(m) \/ H!Authorize(m) \/ H!CheckFails(m)
                                     \/ H!Loaded(m) \/ H!LoadFails(m) \/ H!Respond(m)
                 \/ \E c \in Calls : H!Load(c) \/ H!Changes(c)
        BY <3>4, HostQuietStep
      <3> QED BY <1>2, <3>1, <3>2, <3>3, <3>4 DEF H!Next, H!Step
    <2> QED BY <2>1, <2>2 DEF HostInv
  <1> QED BY <1>1, <1>2

LEMMA HostInvAudited == HostInv => H!EveryCallAudited
  <1> SUFFICES ASSUME HostInv PROVE H!EveryCallAudited
    OBVIOUS
  <1>a. H!TypeOK /\ LogPast /\ CallsGoOn /\ CallsAccounted
    BY DEF HostInv
  <1>b. \A x, e : H!Line(x, e).who = x /\ H!Line(x, e).event = e
    BY DEF H!Line
  <1>c. \A line : \A i \in H!Logs(line) : i \in DOMAIN log /\ log[i].line = line
    BY DEF H!Logs
  <1>1. ASSUME NEW c \in Calls
        PROVE  /\ H!Logs(H!Line(c, "action_run")) # {} => c \in RunActions \ unloaded
               /\ \A i \in H!Logs(H!Line(c, "action_run")), j \in H!Logs(H!Line(c, "tool_call")) : i < j
               /\ H!Logs(H!Line(c, "tool_call")) # {} => call[c] \in {"lined", "answered", "lost"}
    <2>1. ASSUME NEW i \in H!Logs(H!Line(c, "action_run"))
          PROVE  c \in RunActions \ unloaded
      <3>1. WentOn(H!Line(c, "action_run"))
        BY <2>1, <1>a, <1>c DEF LogPast
      <3> QED BY <3>1, <1>b DEF WentOn
    <2>2. ASSUME NEW i \in H!Logs(H!Line(c, "action_run")), NEW j \in H!Logs(H!Line(c, "tool_call"))
          PROVE  i < j
      <3>1. /\ i \in DOMAIN log /\ log[i].line.event = "action_run" /\ log[i].line.who = c
            /\ j \in DOMAIN log /\ log[j].line.event = "tool_call" /\ log[j].line.who = c
        BY <1>b, <1>c
      <3> QED BY <3>1, <1>a DEF LogPast
    <2>3. ASSUME NEW i \in H!Logs(H!Line(c, "tool_call"))
          PROVE  call[c] \in {"lined", "answered", "lost"}
      <3>1. WentOn(H!Line(c, "tool_call"))
        BY <2>3, <1>a, <1>c DEF LogPast
      <3> QED BY <3>1, <1>b DEF WentOn
    <2> QED BY <2>1, <2>2, <2>3
  <1>2. ASSUME NEW c \in sent
        PROVE  \/ call[c] \in {"run", "audited", "ended", "lined", "lost"}
               \/ H!Accounted(H!Line(c, "tool_call"))
    <2>1. c \in Calls
      BY <1>a, HostTypes
    <2> QED BY <2>1, <1>a DEF CallsGoOn, CallsAccounted
  <1>3. \A i, j \in DOMAIN log : log[i].line = log[j].line => i = j
    BY <1>a DEF LogPast
  <1> QED BY <1>1, <1>2, <1>3, <1>a DEF CallsAccounted, H!EveryCallAudited

\* Whatever fails and whoever else writes, a call that was answered has its line
\* in the log, on the console or reported as lost, and so has a run action that
\* ended, refused or dry run too, before it; no line is there twice, or of a call that was not made; and a store is
\* changed without a line only by a call that goes on or died (guard, auditAction,
\* FileAuditLog.write, D1AuditLog.write).
THEOREM HostEveryCallAudited == H!Spec => []H!EveryCallAudited
  BY HostInitInv, HostInductive, HostInvAudited, PTL DEF H!Spec

\* Nobody is given a failure from before it came, but by the directory of the
\* audit file (setUp of workers/app.ts, accessFor, FileAuditLog, D1AuditLog).
THEOREM HostFailureNotKept == H!Spec => []H!FailureNotKept
  <1>1. HostInv => H!FailureNotKept
    BY DEF HostInv
  <1> QED BY HostInitInv, HostInductive, <1>1, PTL DEF H!Spec

-----------------------------------------------------------------------------
(* All together: each part begins and goes on as it does alone, or rests. *)

StoresInv == RegistryInv /\ FileInv /\ HostInv

LEMMA RegistryRests == NoRegistry => RegistryInv
  <1> SUFFICES ASSUME NoRegistry PROVE RegistryInv
    OBVIOUS
  <1>a. /\ client = [c \in Clients |-> None] /\ counter = None /\ alarm = FALSE /\ hour = 0
        /\ spent = [s \in Sources |-> 0] /\ req = [r \in Requests |-> Idle]
        /\ deaths = 0 /\ drift = 0 /\ unswept = FALSE
    BY DEF NoRegistry
  <1>b. \A r \in Requests : req[r].stage = "idle"
    BY <1>a DEF Idle
  <1>1. TypeOK
    <2>1. Idle \in Locals
      BY RegistryAssumption DEF Idle, Locals, Stages
    <2>2. client \in [Clients -> States] /\ req \in [Requests -> Locals]
      BY <1>a, <2>1 DEF States
    <2>3. hour \in 0 .. MaxHour /\ deaths \in 0 .. MaxDeaths /\ spent \in [Sources -> Nat]
      BY <1>a, RegistryAssumption
    <2> QED BY <1>a, <2>2, <2>3 DEF TypeOK
  <1>2. TouchesClients /\ NoDriftBefore /\ CounterExact
    BY <1>a, <1>b DEF TouchesClients, NoDriftBefore, CounterExact, At
  <1>3. CapKept
    <2>1. Touched = {} /\ Pending = {} /\ Stored = {}
      BY <1>a, <1>b, RegistryAssumption DEF Touched, Touching, Pending, At, Stored
    <2>2. Cardinality(Stored \cup Touched) = 0 /\ Cardinality(Pending) = 0
      BY <2>1, FS_EmptySet
    <2>3. Cardinality(Requests) \in Nat /\ Cardinality(Requests) # 0
      BY RegistryAssumption, FS_EmptySet, FS_CardinalityType
    <2> HIDE DEF Touched, Pending, Stored
    <2> QED BY <2>2, <2>3, RegistryAssumption DEF CapKept
  <1> QED BY <1>1, <1>2, <1>3 DEF RegistryInv

LEMMA StoresInitInv == StoreInit => StoresInv
  BY RegistryInitInv, RegistryRests, FileInitInv, HostInitInv
  DEF StoreInit, StoresInv, NoFile, NoHosted

\* A step of the whole is one of each part, or leaves it alone.
LEMMA StoresSteps ==
    ASSUME [StoreNext]_<<kind, vars, fileStore, hosted>>
    PROVE  [Next]_vars /\ [F!Next]_(F!vars) /\ [H!Next]_(H!vars)
  <1>1. UNCHANGED fileStore => UNCHANGED F!vars
    BY DEF fileStore, F!vars
  <1>2. UNCHANGED hosted => UNCHANGED H!vars
    BY DEF hosted, H!vars, H!promises, H!lines, H!history
  <1> QED BY <1>1, <1>2 DEF StoreNext

LEMMA StoresInductive == StoresInv /\ [StoreNext]_<<kind, vars, fileStore, hosted>> => StoresInv'
  BY StoresSteps, RegistryInductive, FileInductive, HostInductive DEF StoresInv

LEMMA StoresInvariant == StoreSpec => []StoresInv
  BY StoresInitInv, StoresInductive, PTL DEF StoreSpec

\* Every variable of every part keeps its type.
THEOREM StoresTypeCorrect == StoreSpec => []StoreTypes
  <1>1. StoresInv => StoreTypes
    BY DEF StoresInv, RegistryInv, FileInv, HostInv, StoreTypes
  <1> QED BY StoresInvariant, <1>1, PTL

\* No crash loses what a caller was told is saved (FileStore.changed, flush,
\* writeFileDurable).
THEOREM StoresAckedIsDurable == StoreSpec => []AckedIsDurable
  <1>1. StoresInv => AckedIsDurable
    BY DEF StoresInv, FileInv, AckedIsDurable
  <1> QED BY StoresInvariant, <1>1, PTL

\* The kept counter and the cap on clients (count, adjustCount, register).
THEOREM StoresRegistryCounts == StoreSpec => []RegistryCounts
  <1>1. StoresInv => RegistryCounts
    BY RegistryInvCounts DEF StoresInv
  <1> QED BY StoresInvariant, <1>1, PTL

\* Each call that was answered left its lines, a run action that was refused or
\* only a dry run its own line too (guard, auditAction, audit.write).
THEOREM StoresEveryCallAudited == StoreSpec => []EveryCallAudited
  <1>1. StoresInv => EveryCallAudited
    BY HostInvAudited DEF StoresInv, EveryCallAudited
  <1> QED BY StoresInvariant, <1>1, PTL

\* Nobody is given a failure from before it came, but by the directory of the
\* audit file (setUp, accessFor, FileAuditLog, D1AuditLog).
THEOREM StoresFailureNotKept == StoreSpec => []FailureNotKept
  <1>1. StoresInv => FailureNotKept
    BY DEF StoresInv, HostInv, FailureNotKept
  <1> QED BY StoresInvariant, <1>1, PTL

\* In the whole, too, the file store does nothing that DurableStore does not allow.
THEOREM StoresImplementSafely ==
    StoreSpec => F!Promise!Init /\ [][F!Promise!Next]_(F!Promise!vars)
  <1>1. StoreInit => F!Promise!Init
    BY FileInitRefines DEF StoreInit, NoFile
  <1>2. StoresInv /\ [StoreNext]_<<kind, vars, fileStore, hosted>>
          => [F!Promise!Next]_(F!Promise!vars)
    BY StoresSteps, FileStepRefines DEF StoresInv
  <1> QED BY StoresInvariant, <1>1, <1>2, PTL DEF StoreSpec
=============================================================================
