----------------------------- MODULE WatchLoop -----------------------------
(***************************************************************************)
(* harness-lint --watch (watch.py): an initial lint, then one lint per     *)
(* batch of file events, while a user edits the setup at any moment.       *)
(*                                                                         *)
(* The watchfiles library is external: from the moment `watch` is iterated *)
(* it collects the paths changed below the watched directories, also while *)
(* the loop body runs, and hands a batch that passed the filter to the     *)
(* loop.                                                                   *)
(***************************************************************************)
EXTENDS Naturals, FiniteSets

CONSTANTS
    Files,       \* files that are, or may become, part of the setup
    Initially,   \* those present when the command starts
    Dir,         \* Dir[f]: directory of f as the inventory lists it
    Home,        \* Home[f]: directory f resolves to (differs for a symlink)
    Below,       \* Below[d]: directories at or below d
    MaxChanges   \* bound on what the user does

Dirs == DOMAIN Below

ASSUME WatchConstants ==
    /\ Initially \subseteq Files
    /\ Dir \in [Files -> Dirs] /\ Home \in [Files -> Dirs]
    /\ Below \in [Dirs -> SUBSET Dirs]
    /\ \A d \in Dirs : d \in Below[d]
    /\ MaxChanges \in Nat

VARIABLES
    stage,     \* "start", "scan", "read", "listen", "wait", "dead"
    initial,   \* whether the current run is the one before the loop
    present,   \* files that exist
    version,   \* version[f]: how often f was written
    changes,   \* what the user has done so far
    watched,   \* watch_paths
    listening, \* whether the iterator over watch() exists
    events,    \* changed paths the library has collected and not yet given out
    toRead,    \* files the current run has found and not read yet
    read,      \* read[f]: version the current run read
    shown,     \* shown[f]: version behind the results on the terminal
    failed     \* the terminal shows an error instead of results

watchVars == <<stage, initial, present, version, changes, watched, listening, events,
          toRead, read, shown, failed>>

user == <<present, version, changes>>
watcher == <<watched, listening>>

(* _get_watch_directories *)
WatchDirs == {Dir[f] : f \in watched}

(***************************************************************************)
(* A change of f reaches the loop when the directory it resolves to lies   *)
(* below a watched one and the filter knows the resolved path.             *)
(***************************************************************************)
Heard(f) ==
    /\ listening
    /\ f \in watched
    /\ \E d \in WatchDirs : Home[f] \in Below[d]

WatchInit ==
    /\ stage = "start"
    /\ initial = TRUE
    /\ present = Initially
    /\ version = [f \in Files |-> 0]
    /\ changes = 0
    /\ watched = {} /\ listening = FALSE /\ events = {}
    /\ toRead = {}
    /\ read = [f \in Files |-> 0]
    /\ shown = [f \in Files |-> 0]
    /\ failed = FALSE

-----------------------------------------------------------------------------
(* The user *)

Notify(f) == events' = IF Heard(f) THEN events \cup {f} ELSE events

Touch(f) ==
    /\ changes < MaxChanges
    /\ changes' = changes + 1
    /\ Notify(f)
    /\ UNCHANGED <<stage, initial, watcher, toRead, read, shown, failed>>

(* Writing a file that may not exist yet. *)
Write(f) ==
    /\ Touch(f)
    /\ present' = present \cup {f}
    /\ version' = [version EXCEPT ![f] = @ + 1]

Delete(f) ==
    /\ f \in present
    /\ Touch(f)
    /\ present' = present \ {f}
    /\ UNCHANGED version

User == \E f \in Files : Write(f) \/ Delete(f)

-----------------------------------------------------------------------------
(* The command *)

(* run_watch collects the inventory, then calls _run_lint once.  An empty  *)
(* inventory ends the command.                                             *)
CollectPaths ==
    /\ stage = "start"
    /\ watched' = present
    /\ stage' = IF present = {} THEN "dead" ELSE "scan"
    /\ UNCHANGED <<initial, user, listening, events, toRead, read, shown, failed>>

(* _run_lint: discover_setup lists the tree ... *)
ScanTree ==
    /\ stage = "scan"
    /\ toRead' = present
    /\ stage' = "read"
    /\ UNCHANGED <<initial, user, watcher, events, read, shown, failed>>

(* ... and reads one file after the other. *)
ReadFile(f) ==
    /\ stage = "read"
    /\ f \in toRead \cap present
    /\ read' = [read EXCEPT ![f] = version[f]]
    /\ toRead' = toRead \ {f}
    /\ UNCHANGED <<stage, initial, user, watcher, events, shown, failed>>

(* A listed file that is gone raises.  The loop catches it and goes on     *)
(* waiting; the initial run is not inside the try and ends the command.    *)
ReadMissing(f) ==
    /\ stage = "read"
    /\ f \in toRead \ present
    /\ stage' = IF initial THEN "dead" ELSE "wait"
    /\ failed' = TRUE
    /\ toRead' = {}
    /\ UNCHANGED <<initial, user, watcher, events, read, shown>>

(* Mutant of ShowResults: the batch is emptied when the run is over, with  *)
(* everything that was collected meanwhile.                                *)
ShowResultsThenClear ==
    /\ stage = "read"
    /\ toRead = {}
    /\ shown' = read
    /\ failed' = FALSE
    /\ events' = {}
    /\ stage' = IF initial THEN "listen" ELSE "wait"
    /\ UNCHANGED <<initial, user, watcher, toRead, read>>

ShowResults ==
    /\ stage = "read"
    /\ toRead = {}
    /\ shown' = read
    /\ failed' = FALSE
    /\ stage' = IF initial THEN "listen" ELSE "wait"
    /\ UNCHANGED <<initial, user, watcher, events, toRead, read>>

(* The for statement creates the iterator, after the initial run. *)
Listen ==
    /\ stage = "listen"
    /\ listening' = TRUE
    /\ initial' = FALSE
    /\ stage' = "wait"
    /\ UNCHANGED <<user, watched, events, toRead, read, shown, failed>>

(* The library hands out a batch and the loop body starts a run. *)
TakeBatch ==
    /\ stage = "wait"
    /\ events # {}
    /\ events' = {}
    /\ stage' = "scan"
    /\ UNCHANGED <<initial, user, watcher, toRead, read, shown, failed>>

Command ==
    \/ CollectPaths \/ ScanTree \/ ShowResults \/ Listen \/ TakeBatch
    \/ \E f \in Files : ReadFile(f) \/ ReadMissing(f)

WatchNext == User \/ Command

(* The command is one thread that only ever blocks in watch(); the user    *)
(* owes it nothing.                                                        *)
WatchSpec == WatchInit /\ [][WatchNext]_watchVars /\ WF_watchVars(Command)

-----------------------------------------------------------------------------
(* Properties *)

(* Every variable keeps its type; only watched files are ever reported    *)
(* (_build_filter).                                                        *)
WatchTypes ==
    /\ stage \in {"start", "scan", "read", "listen", "wait", "dead"}
    /\ initial \in BOOLEAN /\ listening \in BOOLEAN /\ failed \in BOOLEAN
    /\ present \subseteq Files /\ watched \subseteq Files
    /\ events \subseteq watched /\ toRead \subseteq Files
    /\ changes \in 0 .. MaxChanges
    /\ version \in [Files -> 0 .. MaxChanges]
    /\ read \in [Files -> 0 .. MaxChanges]
    /\ shown \in [Files -> 0 .. MaxChanges]

Stale(f) == f \in present /\ shown[f] # version[f]

(***************************************************************************)
(* A change of a heard file made while the command listens is eventually   *)
(* on the terminal, or the terminal says that the lint failed, or the file *)
(* was deleted: an edit during a run triggers another run.                 *)
(***************************************************************************)
HeardChangeShown ==
    \A f \in Files :
        (Heard(f) /\ f \in events) ~> (~Stale(f) \/ failed)

(***************************************************************************)
(* The safety of it: from the moment a change has been heard, whenever the *)
(* command waits with nothing collected and no error on the terminal, the  *)
(* results there are those of the present content.  However the batches    *)
(* are cut and whatever is edited meanwhile, it never settles on old ones. *)
(***************************************************************************)
Quiet == stage = "wait" /\ events = {} /\ ~failed
QuietMeansCurrent ==
    \A f \in Files : [](Heard(f) /\ f \in events => [](Quiet => ~Stale(f)))
=============================================================================
