------------------------------ MODULE FileStore ------------------------------
(***************************************************************************)
(* The file-backed OAuth store of a single Node process: FileStore and     *)
(* writeFileDurable in src/src/hosted/store.ts.                            *)
(*                                                                         *)
(* An operation changes the map in memory and chains one flush; flushes    *)
(* run one after the other and write the whole map, so the contents of     *)
(* memory and of a file are abstracted to the number of changes they hold. *)
(* Each filesystem call of a write is a step that succeeds or throws.  The *)
(* process may be killed between any two steps, and the machine may lose   *)
(* power: what was not synced may then be missing.                         *)
(***************************************************************************)
EXTENDS Naturals, Sequences

CONSTANTS
    Callers,    \* store operations that may wait at once
    MaxChanges  \* bound on the changes of one behaviour

VARIABLES
    mem,      \* changes the map in memory holds
    dirty,    \* FileStore.dirty
    chain,    \* the callers whose flush has not ended, in order
    want,     \* the last change each caller made
    outcome,  \* what each caller was told of it
    phase,    \* the filesystem call the flush at the head of chain is at
    snap,     \* the changes the data being written holds
    synced,   \* whether the temporary file was fsynced
    file,     \* what the path names: its changes, and whether they are synced
    disk,     \* what the path names after a power loss at the worst time
    dirSync,  \* whether the directory can be fsynced here
    torn,     \* (history) a restart found a file that was never synced
    promised  \* (history) the newest change a caller was told is saved

vars == <<mem, dirty, chain, want, outcome, phase, snap, synced, file, disk,
          dirSync, torn, promised>>

Files    == [holds : Nat, synced : BOOLEAN]
Outcomes == {"none", "waiting", "saved", "failed"}
Phases   == {"idle", "open", "write", "sync", "close", "rename", "dir_open", "dir_sync"}
Before   == [write |-> "open", sync |-> "write", close |-> "sync",
             rename |-> "close", dir_open |-> "rename", dir_sync |-> "dir_open"]

Init ==
    /\ mem = 0 /\ dirty = FALSE /\ chain = <<>>
    /\ want = [c \in Callers |-> 0]
    /\ outcome = [c \in Callers |-> "none"]
    /\ phase = "idle" /\ snap = 0 /\ synced = FALSE
    /\ file = [holds |-> 0, synced |-> TRUE]
    /\ disk = file
    /\ dirSync \in BOOLEAN
    /\ torn = FALSE /\ promised = 0

-----------------------------------------------------------------------------
(* The map and the chain of flushes *)

\* put, take, claim, increment or a delete that removes something, up to and
\* with the synchronous part of changed().
Change(c) ==
    /\ outcome[c] # "waiting" /\ mem < MaxChanges
    /\ mem' = mem + 1
    /\ dirty' = TRUE
    /\ chain' = Append(chain, c)
    /\ want' = [want EXCEPT ![c] = mem + 1]
    /\ outcome' = [outcome EXCEPT ![c] = "waiting"]
    /\ UNCHANGED <<phase, snap, synced, file, disk, dirSync, torn, promised>>

\* Mutant: the writer is not put back to rest.
SettleClosed(o) ==
    LET c == Head(chain)
    IN  /\ outcome' = [outcome EXCEPT ![c] = o]
        /\ chain' = Tail(chain)
        /\ phase' = "closed"
        /\ promised' = IF o = "saved" /\ want[c] > promised THEN want[c] ELSE promised

\* The flush at the head of the chain settles: its caller is answered, and the
\* next one may run whatever the outcome was.
Settle(o) ==
    LET c == Head(chain)
    IN  /\ outcome' = [outcome EXCEPT ![c] = o]
        /\ chain' = Tail(chain)
        /\ phase' = "idle"
        /\ promised' = IF o = "saved" /\ want[c] > promised THEN want[c] ELSE promised

\* An earlier flush wrote this caller's change already.
FlushNothing ==
    /\ phase = "idle" /\ chain # <<>> /\ ~dirty
    /\ Settle("saved")
    /\ UNCHANGED <<mem, dirty, want, snap, synced, file, disk, dirSync, torn>>

BeginFlush ==
    /\ phase = "idle" /\ chain # <<>> /\ dirty
    /\ dirty' = FALSE
    /\ snap' = mem
    /\ phase' = "open"
    /\ synced' = FALSE
    /\ UNCHANGED <<mem, chain, want, outcome, file, disk, dirSync, torn, promised>>

-----------------------------------------------------------------------------
(* writeFileDurable *)

\* open, write, sync and close of the temporary file.
TempStep(next) ==
    /\ phase = Before[next]
    /\ phase' = next
    /\ synced' = (synced \/ phase = "sync")
    /\ UNCHANGED <<mem, dirty, chain, want, outcome, snap, file, disk,
                   dirSync, torn, promised>>

Rename ==
    /\ phase = "rename"
    /\ file' = [holds |-> snap, synced |-> synced]
    /\ phase' = "dir_open"
    /\ UNCHANGED <<mem, dirty, chain, want, outcome, snap, synced, disk,
                   dirSync, torn, promised>>

\* Mutant: answered without a sync of the directory.
SyncDirectorySkipped ==
    /\ phase = "dir_sync"
    /\ Settle("saved")
    /\ UNCHANGED <<mem, dirty, want, snap, synced, file, disk, dirSync, torn>>

\* The rename survives a power loss from here on.  Where a directory cannot be
\* fsynced (Windows, some filesystems) the step is skipped or its error ignored.
SyncDirectory ==
    /\ phase = "dir_sync"
    /\ disk' = IF dirSync THEN file ELSE disk
    /\ Settle("saved")
    /\ UNCHANGED <<mem, dirty, want, snap, synced, file, dirSync, torn>>

\* Mutant: the write is tried again at once, the caller left waiting.
ThrowRetried ==
    /\ phase # "idle"
    /\ phase' = "open"
    /\ UNCHANGED <<mem, dirty, chain, want, outcome, snap, synced, file, disk,
                   dirSync, torn, promised>>

\* The current call throws.  The temporary file, if still there, is unlinked;
\* a rename that was done stays, and so does a directory sync if it is the
\* close after it that throws.  The next write retries the change.
Throw ==
    /\ phase # "idle"
    /\ dirty' = TRUE
    /\ disk' \in IF phase = "dir_sync" /\ dirSync THEN {disk, file} ELSE {disk}
    /\ Settle("failed")
    /\ UNCHANGED <<mem, want, snap, synced, file, dirSync, torn>>

-----------------------------------------------------------------------------
\* FileStore.open of a new process reads what the path names.
Restart(found) ==
    /\ file' = found
    /\ mem' = found.holds
    /\ dirty' = FALSE /\ chain' = <<>>
    /\ want' = [c \in Callers |-> 0]
    /\ outcome' = [c \in Callers |-> "none"]
    /\ phase' = "idle" /\ snap' = 0 /\ synced' = FALSE
    /\ UNCHANGED <<dirSync, promised>>

\* The process dies; the operating system keeps its files.
Kill == Restart(file) /\ UNCHANGED <<disk, torn>>

\* The machine dies: a rename not yet synced may be undone.  Where directories
\* cannot be fsynced, what a power loss leaves is the filesystem's affair.
PowerLoss ==
    /\ dirSync
    /\ \E found \in {file, disk} :
         /\ Restart([found EXCEPT !.synced = TRUE])
         /\ disk' = [found EXCEPT !.synced = TRUE]
         /\ torn' = (torn \/ ~found.synced)

Flush ==
    \/ FlushNothing
    \/ BeginFlush
    \/ \E next \in {"write", "sync", "close", "rename"} : TempStep(next)
    \/ Rename
    \/ phase = "dir_open" /\ TempStep("dir_sync")
    \/ SyncDirectory
    \/ Throw

Next == Flush \/ Kill \/ PowerLoss \/ \E c \in Callers : Change(c)

\* Promises settle and filesystem calls return or throw.
Spec == Init /\ [][Next]_vars /\ WF_vars(Flush)

-----------------------------------------------------------------------------
\* Every variable has its type.
TypeOK ==
    /\ {mem, snap, promised} \subseteq Nat
    /\ {dirty, synced, dirSync, torn} \subseteq BOOLEAN
    /\ chain \in Seq(Callers)
    /\ want \in [Callers -> Nat]
    /\ outcome \in [Callers -> Outcomes]
    /\ phase \in Phases
    /\ {file, disk} \subseteq Files

\* What a restart is sure to find.
Kept == IF dirSync THEN disk.holds ELSE file.holds

\* "Every caller waits until its change is on disk", and "a crash never leaves
\* a partial file": no crash loses a change its caller was told is saved, and
\* what the path names was synced under its temporary name first (changed,
\* flush, writeFileDurable).
AckedIsDurable == promised <= Kept /\ ~torn

\* The file store keeps the promises of DurableStore, with its fairness:
\* every caller is answered even when writes fail.
Promise == INSTANCE DurableStore WITH saved <- Kept
Implements == Promise!Spec
=============================================================================
