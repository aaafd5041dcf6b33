----------------------------- MODULE DurableStore -----------------------------
(***************************************************************************)
(* What the file-backed OAuth store promises its callers                   *)
(* (src/src/hosted/store.ts): a change is in memory at once, its caller is *)
(* answered only later, "saved" means a restart finds the change, and every *)
(* caller is answered.  The contents are abstracted to the number of       *)
(* changes they hold, since every save is of the whole data.               *)
(***************************************************************************)
EXTENDS Naturals

CONSTANTS
    Callers,    \* store operations that may wait at once
    MaxChanges  \* bound on the changes of one behaviour

VARIABLES
    mem,      \* changes the running process holds
    saved,    \* changes a restart is sure to find
    want,     \* the last change each caller made
    outcome   \* what each caller was told of it

vars == <<mem, saved, want, outcome>>

Outcomes == {"none", "waiting", "saved", "failed"}

Init ==
    /\ mem = 0
    /\ saved = 0
    /\ want = [c \in Callers |-> 0]
    /\ outcome = [c \in Callers |-> "none"]

Change(c) ==
    /\ outcome[c] # "waiting"
    /\ mem < MaxChanges
    /\ mem' = mem + 1
    /\ want' = [want EXCEPT ![c] = mem + 1]
    /\ outcome' = [outcome EXCEPT ![c] = "waiting"]
    /\ UNCHANGED saved

Save ==
    /\ saved' \in (saved + 1)..mem
    /\ UNCHANGED <<mem, want, outcome>>

Answer(c) ==
    /\ outcome[c] = "waiting"
    /\ saved' \in saved..mem
    /\ \E o \in {"saved", "failed"} :
         /\ o = "saved" => want[c] <= saved'
         /\ outcome' = [outcome EXCEPT ![c] = o]
    /\ UNCHANGED <<mem, want>>

\* The process is gone with its callers; a new one finds at least what was saved.
Crash ==
    /\ mem' \in saved..mem
    /\ saved' \in saved..mem'
    /\ want' = [c \in Callers |-> 0]
    /\ outcome' = [c \in Callers |-> "none"]

Next ==
    \/ Save
    \/ Crash
    \/ \E c \in Callers : Change(c) \/ Answer(c)

Spec == Init /\ [][Next]_vars /\ \A c \in Callers : WF_vars(Answer(c))
===============================================================================
