---------------------------- MODULE PanelRelease ----------------------------
(***************************************************************************)
(* Releases of the panel itself on its server (scripts/release-manager.sh, *)
(* backup-production.sh, restore-production.sh): installation, activation  *)
(* with the health check and the way back, manual rollback, bounded        *)
(* automatic recovery, backup and restore.                                 *)
(*                                                                         *)
(* One flock admits one command at a time, so a command is a sequence of   *)
(* steps without interference, cut where a kill leaves a different disk.   *)
(* What a release contains and whether it gets healthy are choices of the  *)
(* environment.                                                            *)
(***************************************************************************)
EXTENDS Naturals, FiniteSets

CONSTANTS PanelReleases, None, SpareReleases

ASSUME PanelAssumption == None \notin PanelReleases /\ SpareReleases \in Nat

VARIABLES
  installed,  \* directories under releases/
  current,    \* target of the symbolic link
  previous,   \* target of the symbolic link
  state,      \* state.env: current_release, last_good_release, and the cooldown
  snapshot,   \* the state.env inside a snapshot the operator may restore
  command,    \* the command that holds the lock, and the releases it is about
  drifted     \* history: a command was killed or a snapshot restored since the last activation

panelVars == <<installed, current, previous, state, snapshot, command, drifted>>

Link == PanelReleases \cup {None}
StateFile == [current : Link, lastGood : Link, cooling : BOOLEAN]
NoCommand == [step |-> "idle", to |-> None, from |-> None]

PanelTypeOK ==
  /\ installed \subseteq PanelReleases
  /\ current \in Link /\ previous \in Link
  /\ state \in StateFile /\ snapshot \in StateFile
  /\ command \in [to : Link, from : Link,
       step : {"idle", "built", "switched", "linked", "recorded", "returned",
               "swapped", "tried", "undone"}]
  /\ drifted \in BOOLEAN

PanelInit ==
  /\ installed = {} /\ current = None /\ previous = None
  /\ state = [current |-> None, lastGood |-> None, cooling |-> FALSE]
  /\ snapshot = state /\ command = NoCommand /\ drifted = FALSE

Step(name) == command' = [command EXCEPT !.step = name]
Leave == command' = NoCommand
NoOneElse == command.step = "idle"

-----------------------------------------------------------------------------
\* install_archive: a release is installed once; the unpacked directory is renamed.
InstallArchive(r) ==
  /\ NoOneElse /\ r \notin installed
  /\ installed' = installed \cup {r}
  /\ UNCHANGED <<current, previous, state, snapshot, command, drifted>>

\* run_backup, and the backup that precedes an activation: state.env is in the
\* snapshot.  The operator may keep any of them for a restore.
Saved == snapshot' \in {snapshot, state}

RunBackup ==
  /\ NoOneElse /\ current # None
  /\ Saved
  /\ UNCHANGED <<installed, current, previous, state, command, drifted>>

\* activate_release up to the switch: environment, backup and build succeed.
Activate(r) ==
  /\ NoOneElse /\ r \in installed
  /\ IF current # None THEN Saved ELSE UNCHANGED snapshot
  /\ command' = [step |-> "built", to |-> r, from |-> current]
  /\ UNCHANGED <<installed, current, previous, state, drifted>>

\* Any of them fails.
FailBeforeSwitch ==
  /\ command.step = "built"
  /\ Leave /\ UNCHANGED <<installed, current, previous, state, snapshot, drifted>>

SwitchCurrent ==
  /\ command.step = "built"
  /\ current' = command.to /\ Step("switched")
  /\ UNCHANGED <<installed, previous, state, snapshot, drifted>>

\* Healthy: the old release becomes the previous one ...
LinkPreviousRelease ==
  /\ command.step = "switched"
  /\ previous' = IF command.from # None THEN command.from ELSE previous
  /\ Step("linked")
  /\ UNCHANGED <<installed, current, state, snapshot, drifted>>

\* ... and the state file is written key by key, each by a rename.
RecordCurrent ==
  /\ command.step = "linked"
  /\ state' = [state EXCEPT !.current = command.to] /\ Step("recorded")
  /\ UNCHANGED <<installed, current, previous, snapshot, drifted>>

\* Mutant of LinkedReleases: the release of the way back is cleaned up.
CurrentOnly == {current}

LinkedReleases == {current, previous}

\* cleanup_old_releases keeps what is linked and the newest of the rest: as
\* many as RELEASE_RETENTION says, which ones is the order of their times.
CleanedUp(kept) ==
  LET rest == installed \ LinkedReleases IN
  /\ kept \subseteq rest
  /\ Cardinality(kept) = IF Cardinality(rest) > SpareReleases THEN SpareReleases
                         ELSE Cardinality(rest)
  /\ installed' = kept \cup (installed \cap LinkedReleases)

CrownAndCleanUp(kept) ==
  /\ command.step = "recorded" /\ CleanedUp(kept)
  /\ state' = [state EXCEPT !.lastGood = command.to] /\ drifted' = FALSE
  /\ Leave /\ UNCHANGED <<current, previous, snapshot>>

\* Not healthy in time: back to the old release, or stay where there is none.
SwitchBack ==
  /\ command.step = "switched"
  /\ IF command.from = None
     THEN Leave /\ state' = [state EXCEPT !.current = command.to] /\ UNCHANGED current
     ELSE current' = command.from /\ Step("returned") /\ UNCHANGED state
  /\ UNCHANGED <<installed, previous, snapshot, drifted>>

\* The old release is started and recorded whether it gets healthy or not.
RecordReturn ==
  /\ command.step = "returned"
  /\ state' = [state EXCEPT !.current = command.from]
  /\ Leave /\ UNCHANGED <<installed, current, previous, snapshot, drifted>>

-----------------------------------------------------------------------------
(* rollback_release exchanges the links, and exchanges them back when the  *)
(* previous release does not get healthy.                                  *)

BeginRollback ==
  /\ current # None /\ previous # None
  /\ command' = [step |-> "swapped", to |-> previous, from |-> current]
  /\ current' = previous

RollbackRelease ==
  /\ NoOneElse /\ BeginRollback
  /\ UNCHANGED <<installed, previous, state, snapshot, drifted>>

SwapPrevious ==
  /\ command.step = "swapped"
  /\ previous' = command.from /\ Step("tried")
  /\ UNCHANGED <<installed, current, state, snapshot, drifted>>

RecordRollback ==
  /\ command.step = "tried"
  /\ state' = [state EXCEPT !.current = command.to]
  /\ Leave /\ UNCHANGED <<installed, current, previous, snapshot, drifted>>

UndoCurrent ==
  /\ command.step = "tried"
  /\ current' = command.from /\ Step("undone")
  /\ UNCHANGED <<installed, previous, state, snapshot, drifted>>

UndoPrevious ==
  /\ command.step = "undone"
  /\ previous' = command.to
  /\ Leave /\ UNCHANGED <<installed, current, state, snapshot, drifted>>

\* auto_recover of an unhealthy release: nothing within the cooldown, else a
\* restart, and when that does not help a rollback.
AutoRecover(restartHelps) ==
  /\ NoOneElse /\ current # None /\ ~state.cooling
  /\ state' = [state EXCEPT !.cooling = TRUE]
  /\ IF restartHelps \/ previous = None THEN UNCHANGED <<current, command>> ELSE BeginRollback
  /\ UNCHANGED <<installed, previous, snapshot, drifted>>

EndCooldown ==
  /\ NoOneElse /\ state.cooling
  /\ state' = [state EXCEPT !.cooling = FALSE]
  /\ UNCHANGED <<installed, current, previous, snapshot, command, drifted>>

\* restore-production.sh brings the snapshot's state.env back with the data and
\* leaves the links, after a backup of what it replaces.
RunRestore ==
  /\ NoOneElse /\ current # None
  /\ state' = snapshot /\ drifted' = TRUE
  /\ Saved
  /\ UNCHANGED <<installed, current, previous, command>>

\* The command is killed, or the server stops: the lock goes with it.
KillCommand ==
  /\ command.step # "idle"
  /\ drifted' = TRUE /\ Leave
  /\ UNCHANGED <<installed, current, previous, state, snapshot>>

PanelNext ==
  \/ \E r \in PanelReleases : InstallArchive(r) \/ Activate(r)
  \/ FailBeforeSwitch \/ SwitchCurrent \/ LinkPreviousRelease \/ RecordCurrent
  \/ \E kept \in SUBSET installed : CrownAndCleanUp(kept)
  \/ SwitchBack \/ RecordReturn
  \/ RollbackRelease \/ SwapPrevious \/ RecordRollback \/ UndoCurrent \/ UndoPrevious
  \/ \E helps \in BOOLEAN : AutoRecover(helps)
  \/ EndCooldown \/ RunBackup \/ RunRestore \/ KillCommand

PanelSpec == PanelInit /\ [][PanelNext]_panelVars

-----------------------------------------------------------------------------
\* There is a way back: both links always lead to a directory, also after a
\* kill between any two steps; and while no command was killed and no snapshot
\* restored, the state file names the linked release, and the last release
\* that was accepted is the current or the previous one (activate_release,
\* rollback_release, cleanup_old_releases).
WayBack ==
  /\ {current, previous} \ {None} \subseteq installed
  /\ NoOneElse /\ ~drifted =>
       /\ state.current = current
       /\ state.lastGood # None => state.lastGood \in {current, previous}
=============================================================================
