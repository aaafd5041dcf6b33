---------------------------- MODULE ClientRegistry ----------------------------
(***************************************************************************)
(* Dynamic client registration (register and resolveClient of              *)
(* src/src/hosted/oauth.ts) over the store kind "client" of the Durable    *)
(* Object (src/src/workers/do-store.ts): the cap on clients reads a        *)
(* counter that is built once and then kept, clients expire when idle, a   *)
(* use pushes the expiry back, and an alarm sweeps the expired ones.       *)
(*                                                                         *)
(* The Durable Object runs one operation at a time, so an operation is one *)
(* action; but it writes the counter and the record apart, and may die in  *)
(* between.  Time is abstracted to its effects: a client expires, an hour  *)
(* ends, the alarm fires.                                                  *)
(***************************************************************************)
EXTENDS Integers, FiniteSets

CONSTANTS
    Clients,     \* client ids
    Sources,     \* request sources, for the hourly limit
    Requests,    \* requests in flight at once
    None,        \* no record, no counter, no choice
    MaxClients,  \* maxRegisteredClients
    MaxPerHour,  \* maxRegistrationsPerSourcePerHour, 0 for no limit
    MaxHour,     \* bound on the hours of the model
    MaxDeaths    \* bound: how often the object dies between two writes

ASSUME RegistryAssumption ==
    /\ {MaxClients, MaxPerHour, MaxHour, MaxDeaths} \subseteq Nat
    /\ MaxClients > 0
    /\ IsFiniteSet(Clients) /\ IsFiniteSet(Requests) /\ Requests # {}
    /\ None \notin Clients \cup Sources \cup Nat \cup {"legacy", "live", "expired"}

VARIABLES
    client,   \* the stored clients: "legacy" ones have no expiry yet
    counter,  \* the counter key of the kind, None until count() builds it
    alarm,    \* whether a sweep is scheduled
    hour,     \* the clock hour
    spent,    \* store kind "counter": this hour's registrations per source
    req,      \* requests in flight
    (* history *)
    deaths,   \* how often the object died between two writes
    drift,    \* what the counter was left too high by then
    unswept   \* it died before it scheduled its first sweep

died == <<deaths, drift, unswept>>
vars == <<client, counter, alarm, hour, spent, req, died>>

States == {None, "legacy", "live", "expired"}
Stages == {"idle", "increment", "put", "touch"}
Locals == [stage : Stages, client : Clients \cup {None}, source : Sources \cup {None},
           hour : 0 .. MaxHour]
Idle   == [stage |-> "idle", client |-> None, source |-> None, hour |-> 0]

Stored  == {c \in Clients : client[c] # None}
Expired == {c \in Clients : client[c] = "expired"}

At(r, stage) == req[r].stage = stage
End(r)       == req' = [req EXCEPT ![r] = Idle]

-----------------------------------------------------------------------------
(* A store left by any earlier version: its clients may lack an expiry, its
   counter is not built. *)
Init ==
    /\ client \in [Clients -> {None, "legacy", "live"}]
    /\ Cardinality(Stored) <= MaxClients
    /\ counter = None
    /\ alarm = (\E c \in Clients : client[c] = "live")
    /\ hour = 0
    /\ spent = [s \in Sources |-> 0]
    /\ req = [r \in Requests |-> Idle]
    /\ deaths = 0 /\ drift = 0 /\ unswept = FALSE

Expire(c) ==
    /\ client[c] = "live"
    /\ client' = [client EXCEPT ![c] = "expired"]
    /\ UNCHANGED <<counter, alarm, hour, spent, req, died>>

NewHour ==
    /\ hour < MaxHour
    /\ hour' = hour + 1
    /\ spent' = [s \in Sources |-> 0]
    /\ UNCHANGED <<client, counter, alarm, req, died>>

LargerOf(a, b) == IF a > b THEN a ELSE b

\* Mutant: a counter not yet built counts as 0.
AdjustedFrom0(delta) == IF counter = None THEN delta ELSE counter + delta

\* adjustCount: a counter not yet built is left alone.
Adjusted(delta) == IF counter = None THEN None ELSE LargerOf(0, counter + delta)

ScheduleSweep == alarm' = TRUE /\ unswept' = FALSE /\ UNCHANGED <<deaths, drift>>

-----------------------------------------------------------------------------
(* register *)

\* Mutant: one client too many.
FullPast(total) == total > MaxClients

Full(total) == total >= MaxClients

\* count("client"): the first one drops what expired and builds the counter,
\* later ones only read it.
Count(r, s) ==
    LET built == counter = None
        total == IF built THEN Cardinality(Stored \ Expired) ELSE counter
    IN  /\ At(r, "idle")
        /\ counter' = total
        /\ client' = IF built THEN [c \in Clients |-> IF c \in Expired THEN None ELSE client[c]]
                     ELSE client
        /\ IF Full(total) THEN UNCHANGED req
           ELSE req' = [req EXCEPT ![r] =
                  [Idle EXCEPT !.stage = IF MaxPerHour = 0 THEN "put" ELSE "increment",
                               !.source = s, !.hour = hour]]
        /\ UNCHANGED <<alarm, hour, spent, died>>

\* The counter record is named for the hour read before the call: one of an
\* hour that has ended meanwhile has expired and counts as 0.
Increment(r) ==
    LET s == req[r].source
    IN  /\ At(r, "increment")
        /\ \/ /\ req[r].hour = hour
              /\ spent[s] >= MaxPerHour
              /\ End(r) /\ UNCHANGED <<spent, alarm, died>>
           \/ /\ req[r].hour # hour \/ spent[s] < MaxPerHour
              /\ spent' = [spent EXCEPT ![s] = IF req[r].hour = hour THEN @ + 1 ELSE @]
              /\ ScheduleSweep
              /\ req' = [req EXCEPT ![r].stage = "put"]
        /\ UNCHANGED <<client, counter, hour>>

\* Mutant: a put over a record that is there counts it again.
StorePutCounted(c) ==
    /\ client' = [client EXCEPT ![c] = "live"]
    /\ counter' = Adjusted(1)
    /\ ScheduleSweep

\* put: live() drops an expired record first, a record that is new counts.
StorePut(c) ==
    /\ client' = [client EXCEPT ![c] = "live"]
    /\ counter' = Adjusted(IF client[c] = None THEN 1 ELSE 0)
    /\ ScheduleSweep

\* A fresh id every time.
PutClient(r, c) ==
    /\ At(r, "put")
    /\ client[c] = None
    /\ \A q \in Requests : req[q].client # c
    /\ StorePut(c)
    /\ End(r)
    /\ UNCHANGED <<hour, spent>>

-----------------------------------------------------------------------------
(* resolveClient: read the client, push its expiry back once a day *)

GetClient(r, c) ==
    /\ At(r, "idle")
    /\ client[c] # None
    /\ IF client[c] = "expired"
       THEN /\ client' = [client EXCEPT ![c] = None]
            /\ counter' = Adjusted(-1)
            /\ UNCHANGED req
       ELSE /\ req' = [req EXCEPT ![r] = [Idle EXCEPT !.stage = "touch", !.client = c]]
            /\ UNCHANGED <<client, counter>>
    /\ UNCHANGED <<alarm, hour, spent, died>>

\* The put after the read: the client may have expired or been swept since.
Touch(r) ==
    /\ At(r, "touch")
    /\ StorePut(req[r].client)
    /\ End(r)
    /\ UNCHANGED <<hour, spent>>

\* The client was used today already, or the request died.
Leave(r) ==
    /\ ~At(r, "idle")
    /\ End(r)
    /\ UNCHANGED <<client, counter, alarm, hour, spent, died>>

-----------------------------------------------------------------------------
\* Mutant: the sweep does not schedule the next one.
AlarmOnce ==
    /\ alarm
    /\ client' = [c \in Clients |-> IF c \in Expired THEN None ELSE client[c]]
    /\ counter' = Adjusted(-Cardinality(Expired))
    /\ alarm' = FALSE
    /\ UNCHANGED <<hour, spent, req, died>>

\* alarm: drop the expired records of every kind, schedule the next sweep.
Alarm ==
    /\ alarm
    /\ client' = [c \in Clients |-> IF c \in Expired THEN None ELSE client[c]]
    /\ counter' = Adjusted(-Cardinality(Expired))
    /\ UNCHANGED <<alarm, hour, spent, req, died>>

-----------------------------------------------------------------------------
(* The object dies between two writes of an operation; its caller has an error. *)

Die ==
    /\ deaths < MaxDeaths
    /\ deaths' = deaths + 1
    /\ UNCHANGED <<hour, spent>>

\* The adjustment that was lost, or was for nothing, once there is a counter.
Drifts(delta) == drift' = IF counter = None THEN drift ELSE drift + delta

\* live or all deleted expired records, some of them if there are many, and
\* did not adjust the counter.
DieDeleted ==
    /\ Die
    /\ \E gone \in SUBSET Expired \ {{}} :
         /\ client' = [c \in Clients |-> IF c \in gone THEN None ELSE client[c]]
         /\ Drifts(Cardinality(gone))
    /\ UNCHANGED <<counter, alarm, unswept, req>>

\* A request puts client c.
Puts(r, c) == (At(r, "put") /\ client[c] = None) \/ (At(r, "touch") /\ req[r].client = c)

\* Mutant: put puts a new record before it adjusts the counter.
DieStored(r, c) ==
    /\ Die
    /\ Puts(r, c) /\ client[c] = None
    /\ client' = [client EXCEPT ![c] = "live"]
    /\ End(r)
    /\ UNCHANGED <<counter, alarm, drift, unswept>>

\* put adjusted the counter and did not put the new record.
DieCounted(r, c) ==
    /\ Die
    /\ Puts(r, c) /\ client[c] = None
    /\ counter' = Adjusted(1)
    /\ Drifts(1)
    /\ End(r)
    /\ UNCHANGED <<client, alarm, unswept>>

\* put put the record and did not schedule a sweep.
DieUnscheduled(r, c) ==
    /\ Die
    /\ Puts(r, c)
    /\ client' = [client EXCEPT ![c] = "live"]
    /\ counter' = Adjusted(IF client[c] = None THEN 1 ELSE 0)
    /\ unswept' = ~alarm
    /\ End(r)
    /\ UNCHANGED <<alarm, drift>>

Register(r) ==
    \/ \E s \in Sources : Count(r, s)
    \/ Increment(r)
    \/ \E c \in Clients : PutClient(r, c)

Resolve(r) == (\E c \in Clients : GetClient(r, c)) \/ Touch(r)

Next ==
    \/ Alarm \/ NewHour
    \/ DieDeleted \/ \E r \in Requests, c \in Clients : DieCounted(r, c) \/ DieUnscheduled(r, c)
    \/ \E c \in Clients : Expire(c)
    \/ \E r \in Requests : Register(r) \/ Resolve(r) \/ Leave(r)

\* A scheduled alarm of a Durable Object fires, and is retried until it ends.
Spec == Init /\ [][Next]_vars /\ WF_vars(Alarm)

-----------------------------------------------------------------------------
\* Every variable has its type.
TypeOK ==
    /\ client \in [Clients -> States]
    /\ counter \in Nat \cup {None}
    /\ alarm \in BOOLEAN
    /\ hour \in 0 .. MaxHour
    /\ spent \in [Sources -> Nat]
    /\ req \in [Requests -> Locals]
    /\ deaths \in 0 .. MaxDeaths /\ drift \in Nat /\ unswept \in BOOLEAN

\* The kept counter is the number of stored clients, expired ones that were
\* not swept yet included, so a server that refuses a registration really is
\* full: no sequence of expiries, reads that drop a record, touches, sweeps and
\* puts makes it drift (adjustCount).  When the object dies between two writes
\* the counter is left too high by what was lost, for ever, but it never is too
\* low: it stays the "upper bound" that the cap needs.
CounterExact == counter # None => counter = Cardinality(Stored) + drift

\* "The server also stops registering at 10,000 stored clients": the check and
\* the put are apart, and a use brings back a client that was swept since, so
\* each request in flight may overshoot the cap by one, and no more.
CapHolds ==
    Cardinality(Stored) + Cardinality({r \in Requests : At(r, "increment") \/ At(r, "put")})
        <= MaxClients - 1 + Cardinality(Requests)

\* Both: the count agrees with the stored clients, and the cap that is read from
\* it is overshot by requests in flight only (register, count, adjustCount).
RegistryCounts == CounterExact /\ CapHolds

\* An idle client does not hold its place for ever: once expired it is swept,
\* or used again (scheduleSweep, alarm).  Only when the object died before its
\* first sweep was scheduled does it wait for the next put or increment.
ExpiredAreSwept == \A c \in Clients : client[c] = "expired" ~> client[c] # "expired" \/ unswept
=============================================================================
