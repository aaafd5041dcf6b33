----------------------------- MODULE ServerStores -----------------------------
(***************************************************************************)
(* What a server keeps, each with those who wait for it: the OAuth records *)
(* in the file of a Node server (FileStore), or in a Durable Object, whose *)
(* kept counter serves the registration of clients (ClientRegistry), and   *)
(* the audit log of its tool calls (HostedCalls).  They share no state;    *)
(* one of them runs, the others rest as they began.                        *)
(***************************************************************************)
EXTENDS ClientRegistry

CONSTANTS
    Callers, MaxChanges,                     \* of FileStore
    Posts, Calls, RunActions, Of, MaxKills   \* of HostedCalls; Posts are its Requests

\* A tool call comes in one request, and is not a request itself.
ASSUME CallsAssumption ==
    Of \in [Calls -> Posts] /\ RunActions \subseteq Calls /\ Posts \cap Calls = {} /\ MaxKills \in Nat

VARIABLES
    kind, \* what runs
    mem, dirty, chain, want, outcome, phase, snap, synced, file, disk, dirSync, torn, promised,
    sink, app, request, loading, call, ready, writes, log, printed, joined, sent, unloaded,
    reported, stale, kills

fileStore == <<mem, dirty, chain, want, outcome, phase, snap, synced, file, disk,
               dirSync, torn, promised>>
hosted == <<sink, app, request, loading, call, ready, writes, log, printed, joined,
            sent, unloaded, reported, stale, kills>>

F == INSTANCE FileStore
H == INSTANCE HostedCalls WITH Requests <- Posts

NoRegistry ==
    /\ client = [c \in Clients |-> None] /\ counter = None /\ alarm = FALSE /\ hour = 0
    /\ spent = [s \in Sources |-> 0] /\ req = [r \in Requests |-> Idle]
    /\ deaths = 0 /\ drift = 0 /\ unswept = FALSE
NoFile   == F!Init /\ dirSync
NoHosted == H!Init /\ sink = "file"

StoreInit ==
    \/ kind = "file" /\ F!Init /\ NoRegistry /\ NoHosted
    \/ kind = "durable object" /\ Init /\ NoFile /\ NoHosted
    \/ kind = "hosted calls" /\ H!Init /\ NoRegistry /\ NoFile

StoreNext ==
    /\ \/ kind = "file" /\ F!Next /\ UNCHANGED <<vars, hosted>>
       \/ kind = "durable object" /\ Next /\ UNCHANGED <<fileStore, hosted>>
       \/ kind = "hosted calls" /\ H!Next /\ UNCHANGED <<vars, fileStore>>
    /\ UNCHANGED kind

\* The fairness of all.
StoreSpec ==
    /\ StoreInit /\ [][StoreNext]_<<kind, vars, fileStore, hosted>>
    /\ WF_fileStore(kind = "file" /\ F!Flush /\ UNCHANGED <<kind, vars, hosted>>)
    /\ WF_vars(kind = "durable object" /\ Alarm /\ UNCHANGED <<kind, fileStore, hosted>>)
    /\ WF_hosted(kind = "hosted calls" /\ H!Step /\ UNCHANGED <<kind, vars, fileStore>>)

\* The type invariants of all.
StoreTypes == TypeOK /\ F!TypeOK /\ H!TypeOK

\* AckedIsDurable of FileStore: no crash loses what a caller was told is saved.
AckedIsDurable == F!AckedIsDurable

\* Implements of FileStore: it keeps the promises of DurableStore.
Implements == F!Implements

\* EveryCallAudited of HostedCalls: each call that was answered left its lines, a
\* run action that did not run included.
EveryCallAudited == H!EveryCallAudited

\* FailureNotKept of HostedCalls: nobody is given a failure from before it came.
FailureNotKept == H!FailureNotKept

\* ExpiredAreSwept of ClientRegistry and EveryRequestAnswered of HostedCalls: no
\* idle client keeps its place, and no request waits, for ever.
NothingWaitsForEver == ExpiredAreSwept /\ H!EveryRequestAnswered
===============================================================================
