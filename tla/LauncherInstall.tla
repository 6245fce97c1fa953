--------------------------- MODULE LauncherInstall ---------------------------
(***************************************************************************)
(* The launcher: its views and handlers on the UI thread, the tasks they   *)
(* spawn (install or repair, uninstall, verify, self-update, the game and  *)
(* the probes of a recovered game), what identity.json and the install     *)
(* directories hold, and a launcher that is killed or that replaces itself *)
(* while tasks are under way.                                              *)
(*                                                                         *)
(* The completion message a task posts is the task's last stage: the       *)
(* handler that takes it ends the task.  This is the Linux and macOS       *)
(* build: pressing Play asks the firewall nothing.  Every release carries  *)
(* a files.json, and a live game answers the probe.                        *)
(***************************************************************************)
EXTENDS Naturals, FiniteSets

CONSTANTS
    Channels,
    MaxVersion,   \* bound: releases of a channel
    MaxPolls,     \* bound: probes of a recovered game under way together
    MaxRequests,  \* bound: confirmed jobs, plays, checks and restarts
    MaxFaults     \* bound: failed steps, withdrawn releases, kills

ASSUME LauncherAssumption ==
    {MaxVersion, MaxPolls, MaxRequests, MaxFaults} \subseteq Nat

VARIABLES
    published,  \* GitHub's newest release of a channel; 0 is none
    offered,    \* available_versions
    view,       \* center_view: what is shown, for which channel
    job,        \* install_in_progress, and its task
    removal,    \* uninstall_in_progress, and its task
    verifying,  \* the channels verify_in_progress names
    updating,   \* the launcher's own update: what the last check found, the check or
                \* the task under way
    playing,    \* game_running
    recovered,  \* recovered_game_running
    probing,    \* the boot probe has not answered
    polls,      \* answers under way that found the recovered game gone
    exits,      \* GameExited messages under way
    game,       \* the game process: this launcher's child, or an earlier one's
    creds,      \* installed_version in memory; 0 is not installed
    saved,      \* and in identity.json
    live,       \* the tree at the channel's install directory
    torn,       \* channels whose record a listed mishap has spoiled
    hasty,      \* the user started something before the boot probe answered,
                \* with a game already running
    requests, faults

disk == <<creds, saved, live, torn>>
process == <<playing, recovered, probing, polls, exits, game, hasty>>
tasks == <<job, removal, verifying, updating>>
vars == <<published, offered, view, tasks, process, disk, requests, faults>>

NoTree == 0
Partial == MaxVersion + 1    \* a tree with files missing or damaged
Trees == 0 .. Partial
Home == [of |-> "default"]
NoJob == [stage |-> "none"]
NoGame == [is |-> "none"]

Stages == {"resolve", "stage", "aside", "swap", "clean", "ok", "failed"}
RemovalStages == {"check", "remove", "ok", "failed"}

JobOf(c) == job # NoJob /\ job.chan = c
RemovalOf(c) == removal # NoJob /\ removal.chan = c

Request == requests < MaxRequests /\ requests' = requests + 1
Fault == faults < MaxFaults /\ faults' = faults + 1
Free == UNCHANGED <<requests, faults>>
Spends == Request /\ UNCHANGED faults
Fails == Fault /\ UNCHANGED requests

Init ==
    /\ published = [c \in Channels |-> 0] /\ offered = published
    /\ view = Home /\ job = NoJob /\ removal = NoJob /\ verifying = {} /\ updating = "checking"
    /\ playing = FALSE /\ recovered = FALSE /\ probing = TRUE /\ hasty = FALSE
    /\ polls = 0 /\ exits = 0 /\ game = NoGame
    /\ creds = [c \in Channels |-> 0] /\ saved = creds
    /\ live = [c \in Channels |-> NoTree] /\ torn = {}
    /\ requests = 0 /\ faults = 0

-----------------------------------------------------------------------------
(* GitHub, and what the launcher knows of it.                              *)

Publish(c) ==
    /\ published[c] < MaxVersion
    /\ published' = [published EXCEPT ![c] = @ + 1]
    /\ Free /\ UNCHANGED <<offered, view, tasks, process, disk>>

Withdraw(c) ==
    /\ published[c] > 0
    /\ published' = [published EXCEPT ![c] = 0]
    /\ Fails /\ UNCHANGED <<offered, view, tasks, process, disk>>

\* A check answers: with no release on GitHub it forgets the one it offered.
LatestReleaseFetched(c) ==
    /\ offered[c] # published[c]
    /\ offered' = [offered EXCEPT ![c] = published[c]]
    /\ Free /\ UNCHANGED <<published, view, tasks, process, disk>>

-----------------------------------------------------------------------------
(* Moving between views, and the prompts they open.                        *)

Shows(v) ==
    /\ view # v
    /\ view' = v
    /\ Free /\ UNCHANGED <<published, offered, tasks, process, disk>>

Busy == job # NoJob \/ removal # NoJob \/ playing

\* self_update_in_flight.
Replacing == updating \in {"running", "found", "swapped", "failed"}

Navigate == Shows(Home) \/ Shows([of |-> "settings"]) \/ Shows([of |-> "launcher"])

UpdatePressed(c) ==
    /\ ~playing /\ ~Replacing /\ job = NoJob
    /\ offered[c] > creds[c]
    /\ Shows([of |-> "install", chan |-> c])

UninstallChannel(c) ==
    /\ view.of = "settings"
    /\ ~Busy /\ verifying = {} /\ creds[c] # 0
    /\ Shows([of |-> "uninstall", chan |-> c])

RepairChannel(c) ==
    /\ view.of = "settings"
    /\ ~Busy /\ verifying = {} /\ creds[c] # 0
    /\ Shows([of |-> "repair", chan |-> c])

-----------------------------------------------------------------------------
(* A download that replaces a tree: install_confirmed and repair_confirmed *)
(* start it, download_and_install runs it.                                 *)

\* Something starts before the boot probe could say that a game runs.
Hasty == hasty' = (hasty \/ (probing /\ game.is = "orphan"))

Starts(kind, c) ==
    /\ job' = [kind |-> kind, chan |-> c, stage |-> "resolve", alone |-> ~RemovalOf(c),
               target |-> IF kind = "repair" THEN creds[c] ELSE NoTree, old |-> NoTree]
    /\ Spends /\ Hasty
    /\ UNCHANGED <<published, offered, view, verifying, updating,
                   playing, recovered, probing, polls, exits, game, creds, saved, live>>

InstallConfirmed ==
    /\ view.of = "install"
    /\ job = NoJob /\ ~Replacing
    /\ LET c == view.chan IN
       /\ Starts("install", c)
       /\ removal' = IF RemovalOf(c) THEN [removal EXCEPT !.alone = FALSE] ELSE removal
       /\ torn' = IF RemovalOf(c) THEN torn \cup {c} ELSE torn

RepairConfirmed ==
    /\ view.of = "repair"
    /\ ~Busy /\ verifying = {} /\ ~Replacing
    /\ creds[view.chan] # 0
    /\ Starts("repair", view.chan)
    /\ UNCHANGED <<removal, torn>>

JobStep(s) == job # NoJob /\ job.stage = s
JobGoes(s) == job' = [job EXCEPT !.stage = s]
InTask == UNCHANGED <<published, offered, view, removal, verifying, updating, process, creds, saved>>

\* An install takes the latest release of now, a repair the version recorded.
Resolved == IF job.kind = "install" THEN published[job.chan] ELSE job.target
Obtainable == Resolved # 0 /\ Resolved <= published[job.chan]

Resolve ==
    /\ JobStep("resolve")
    /\ job' = IF Obtainable THEN [job EXCEPT !.stage = "stage", !.target = Resolved]
              ELSE [job EXCEPT !.stage = "failed"]
    /\ Free /\ InTask /\ UNCHANGED <<live, torn>>

\* verify_staged lets a tree through.
Accepts(tree) == tree # Partial

\* The download and the extraction, into a directory of their own.
Stage ==
    /\ JobStep("stage")
    /\ \E tree \in {job.target, Partial} :
          /\ job' = IF Accepts(tree) THEN [job EXCEPT !.stage = "aside", !.target = tree]
                    ELSE [job EXCEPT !.stage = "failed"]
          /\ IF tree = Partial THEN Fails ELSE Free
    /\ InTask /\ UNCHANGED <<live, torn>>

MoveAside ==
    /\ JobStep("aside")
    /\ \/ /\ live' = [live EXCEPT ![job.chan] = NoTree]
          /\ job' = [job EXCEPT !.stage = "swap", !.old = live[job.chan]]
          /\ Free
       \/ /\ live[job.chan] # NoTree
          /\ JobGoes("failed") /\ Fails /\ UNCHANGED live
    /\ InTask /\ UNCHANGED torn

\* Faulty: nothing is moved back.
NothingRestored == NoTree

\* What a failed swap puts back.
Restored == job.old

Swap ==
    /\ JobStep("swap")
    /\ \/ /\ live' = [live EXCEPT ![job.chan] = job.target]
          /\ JobGoes("clean") /\ Free /\ UNCHANGED torn
       \/ /\ live' = [live EXCEPT ![job.chan] = Restored]
          /\ JobGoes("failed") /\ Fails /\ UNCHANGED torn
       \/ /\ job.old # NoTree
          /\ torn' = torn \cup {job.chan}
          /\ JobGoes("failed") /\ Fails /\ UNCHANGED live
    /\ InTask

RemoveAside ==
    /\ JobStep("clean")
    /\ JobGoes("ok")
    /\ Free /\ InTask /\ UNCHANGED <<live, torn>>

\* identity::save, of one channel's new version; a failure is only logged.
Records(c, v, sound) ==
    /\ creds' = [creds EXCEPT ![c] = v]
    /\ \/ /\ saved' = creds'
          /\ torn' = IF sound THEN torn \ {c} ELSE torn
          /\ Free
       \/ /\ saved' = saved /\ torn' = torn \cup {c} /\ Fails

CompleteJob ==
    /\ job' = NoJob
    /\ UNCHANGED <<published, offered, removal, updating, process, live>>

InstallComplete ==
    /\ job # NoJob /\ job.kind = "install"
    /\ \/ /\ job.stage = "ok"
          /\ view' = Home
          /\ Records(job.chan, job.target, job.alone /\ ~RemovalOf(job.chan))
       \/ /\ job.stage = "failed"
          /\ Free /\ UNCHANGED <<view, creds, saved, torn>>
    /\ CompleteJob /\ UNCHANGED verifying

RepairComplete ==
    /\ job # NoJob /\ job.kind = "repair"
    /\ \/ /\ job.stage = "ok"
          /\ view' = [of |-> "settings"]
          /\ verifying' = IF verifying = {} THEN {job.chan} ELSE verifying
          /\ Records(job.chan, job.target, job.alone)
       \/ /\ job.stage = "failed"
          /\ Free /\ UNCHANGED <<view, verifying, creds, saved, torn>>
    /\ CompleteJob

-----------------------------------------------------------------------------
(* Uninstall and verify.                                                   *)

UninstallConfirmed ==
    /\ view.of = "uninstall"
    /\ ~Busy
    /\ removal' = [chan |-> view.chan, stage |-> "check", alone |-> TRUE]
    /\ Spends /\ Hasty
    /\ UNCHANGED <<published, offered, view, job, verifying, updating,
                   playing, recovered, probing, polls, exits, game, disk>>

RemovalStep(s) == removal # NoJob /\ removal.stage = s
RemovalGoes(s) == removal' = [removal EXCEPT !.stage = s]
InRemoval == UNCHANGED <<published, offered, view, job, verifying, updating, process, creds, saved>>

\* Nothing on disk is a success; the saves that cannot be moved end it.
UninstallChecks ==
    /\ RemovalStep("check")
    /\ \/ /\ live[removal.chan] = NoTree
          /\ RemovalGoes("ok") /\ Free /\ UNCHANGED live
       \/ /\ live[removal.chan] # NoTree
          /\ RemovalGoes("failed") /\ Fails /\ UNCHANGED live
       \/ /\ live[removal.chan] # NoTree
          /\ live' = [live EXCEPT ![removal.chan] = Partial]
          /\ RemovalGoes("remove") /\ Free
    /\ InRemoval /\ UNCHANGED torn

\* remove_dir_all ends, or gives up with part of the tree gone.
UninstallRemoves ==
    /\ RemovalStep("remove")
    /\ \/ /\ live' = [live EXCEPT ![removal.chan] = NoTree]
          /\ RemovalGoes("ok") /\ Free /\ UNCHANGED torn
       \/ /\ torn' = torn \cup {removal.chan}
          /\ RemovalGoes("failed") /\ Fails /\ UNCHANGED live
    /\ InRemoval

UninstallComplete ==
    /\ removal # NoJob
    /\ \/ /\ removal.stage = "ok"
          /\ view' = Home
          /\ Records(removal.chan, 0, removal.alone)
       \/ /\ removal.stage = "failed"
          /\ Free /\ UNCHANGED <<view, creds, saved, torn>>
    /\ removal' = NoJob
    /\ UNCHANGED <<published, offered, job, verifying, updating, process, live>>

VerifyChannel(c) ==
    /\ view.of = "settings"
    /\ ~Busy /\ verifying = {} /\ creds[c] # 0
    /\ verifying' = {c}
    /\ Spends
    /\ UNCHANGED <<published, offered, view, job, removal, updating, process, disk>>

VerifyComplete ==
    /\ verifying # {}
    /\ verifying' = {}
    /\ Free
    /\ UNCHANGED <<published, offered, view, job, removal, updating, process, disk>>

-----------------------------------------------------------------------------
(* The game: this launcher's child, or one an earlier launcher left.       *)

\* A second game finds the first one's banner and quits at once.
LaunchGame(c) ==
    /\ playing' = TRUE
    /\ IF game = NoGame THEN game' = [is |-> "starting", chan |-> c] /\ UNCHANGED exits
       ELSE exits' = exits + 1 /\ UNCHANGED game

PlayPressed(c) ==
    /\ ~playing /\ job = NoJob /\ creds[c] # 0
    /\ LaunchGame(c)
    /\ Spends /\ Hasty
    /\ UNCHANGED <<published, offered, view, tasks, recovered, probing, polls, disk>>

InGame == UNCHANGED <<published, offered, view, tasks, hasty, disk>>

\* spawn_and_wait: with no manifest or no executable the game never starts.
GameSpawns ==
    /\ game.is = "starting"
    /\ \/ /\ live[game.chan] # NoTree
          /\ game' = [game EXCEPT !.is = "child"] /\ UNCHANGED exits
       \/ /\ live[game.chan] \in {NoTree, Partial}
          /\ game' = NoGame /\ exits' = exits + 1
    /\ Free /\ InGame /\ UNCHANGED <<playing, recovered, probing, polls>>

GameEnds ==
    /\ game.is \in {"child", "orphan"}
    /\ exits' = IF game.is = "child" THEN exits + 1 ELSE exits
    /\ game' = NoGame
    /\ Free /\ InGame /\ UNCHANGED <<playing, recovered, probing, polls>>

GameExited ==
    /\ exits > 0
    /\ exits' = exits - 1
    /\ playing' = FALSE
    /\ Free /\ InGame /\ UNCHANGED <<recovered, probing, polls, game>>

\* What a probe of the game's discovery file finds: a process that answers the banner.
GameAnswers == game.is = "orphan"

BootGameProbe ==
    /\ probing
    /\ probing' = FALSE
    /\ recovered' = (recovered \/ GameAnswers)
    /\ playing' = (playing \/ GameAnswers)
    /\ Free /\ InGame /\ UNCHANGED <<polls, exits, game>>

\* A tick's probe; one that finds the game alive changes nothing.
RecoveredGamePoll ==
    /\ recovered /\ ~GameAnswers /\ polls < MaxPolls
    /\ polls' = polls + 1
    /\ Free /\ InGame /\ UNCHANGED <<playing, recovered, probing, exits, game>>

\* Faulty: an answer about a recovered game is taken for one about any game.
RecoveredGameProbeAlways ==
    /\ polls > 0
    /\ polls' = polls - 1
    /\ playing' = FALSE
    /\ recovered' = FALSE
    /\ Free /\ InGame /\ UNCHANGED <<probing, exits, game>>

RecoveredGameProbe ==
    /\ polls > 0
    /\ polls' = polls - 1
    /\ playing' = (playing /\ ~recovered)
    /\ recovered' = FALSE
    /\ Free /\ InGame /\ UNCHANGED <<probing, exits, game>>

-----------------------------------------------------------------------------
(* The launcher replacing itself, or being killed.                         *)

InUpdate == UNCHANGED <<published, offered, view, job, removal, verifying, process, disk>>

\* Asked for by hand; a start checks by itself.
CheckForUpdatesPressed ==
    /\ view.of = "launcher"
    /\ updating \in {"none", "offered"}
    /\ updating' = IF updating = "offered" THEN "rechecking" ELSE "checking"
    /\ Spends /\ InUpdate

\* UpToDate, or Available.
CheckForUpdate == {"none", "offered"}

\* What the check found, or nothing at all: a failed check leaves what the one
\* before it found.
UpdateCheckDone ==
    /\ updating \in {"checking", "rechecking"}
    /\ \/ updating' \in CheckForUpdate /\ Free
       \/ updating' = (IF updating = "rechecking" THEN "offered" ELSE "none") /\ Fails
    /\ InUpdate

\* Faulty: an install under way does not stop it.
StartUpdateDuringInstall ==
    /\ view.of = "launcher"
    /\ ~playing /\ updating = "offered"
    /\ updating' = "running"
    /\ Spends /\ InUpdate

StartUpdatePressed ==
    /\ view.of = "launcher"
    /\ ~playing /\ job = NoJob /\ updating = "offered"
    /\ updating' = "running"
    /\ Spends /\ InUpdate

UpdateGoes(from, to) ==
    /\ updating = from
    /\ \/ updating' = to /\ Free
       \/ updating' = "failed" /\ Fails
    /\ InUpdate

\* The release may be gone, or may not have this platform's asset.
FindReleaseAsset == UpdateGoes("running", "found")

\* Fetched, unpacked and renamed over the running binary.
SwapBinary == UpdateGoes("found", "swapped")

RunSelfUpdate == FindReleaseAsset \/ SwapBinary

SelfUpdateFailed ==
    /\ updating = "failed"
    /\ updating' = "offered"
    /\ Free /\ InUpdate

\* What ending the process now would leave half done.
Tears ==
    {c \in Channels : \/ JobOf(c) /\ job.stage \in {"swap", "clean", "ok"}
                      \/ RemovalOf(c) /\ removal.stage \in {"remove", "ok"}}

\* The process ends with its tasks; the next one boots from identity.json.
\* The game is a process of its own and goes on.
Reboot ==
    /\ torn' = torn \cup Tears
    /\ creds' = saved
    /\ offered' = [c \in Channels |-> 0]
    /\ view' = Home /\ job' = NoJob /\ removal' = NoJob /\ verifying' = {} /\ updating' = "checking"
    /\ playing' = FALSE /\ recovered' = FALSE /\ probing' = TRUE /\ hasty' = FALSE
    /\ polls' = 0 /\ exits' = 0
    /\ game' = IF game.is = "child" THEN [game EXCEPT !.is = "orphan"]
               ELSE IF game.is = "starting" THEN NoGame ELSE game
    /\ UNCHANGED <<published, saved, live>>

SelfUpdateSwapped == updating = "swapped" /\ Free /\ Reboot

Killed == Fails /\ Reboot

Closed == Spends /\ Reboot

-----------------------------------------------------------------------------
Next ==
    \/ \E c \in Channels :
          \/ Publish(c) \/ Withdraw(c) \/ LatestReleaseFetched(c)
          \/ UpdatePressed(c) \/ UninstallChannel(c) \/ RepairChannel(c)
          \/ VerifyChannel(c) \/ PlayPressed(c)
    \/ Navigate
    \/ InstallConfirmed \/ RepairConfirmed
    \/ Resolve \/ Stage \/ MoveAside \/ Swap \/ RemoveAside
    \/ InstallComplete \/ RepairComplete
    \/ UninstallConfirmed \/ UninstallChecks \/ UninstallRemoves \/ UninstallComplete
    \/ VerifyComplete
    \/ GameSpawns \/ GameEnds \/ GameExited
    \/ BootGameProbe \/ RecoveredGamePoll \/ RecoveredGameProbe
    \/ CheckForUpdatesPressed \/ UpdateCheckDone
    \/ StartUpdatePressed \/ RunSelfUpdate \/ SelfUpdateFailed \/ SelfUpdateSwapped
    \/ Killed \/ Closed

Spec == Init /\ [][Next]_vars

-----------------------------------------------------------------------------
(* Properties.                                                             *)

\* A self-update and a download that replaces a game never run together, to
\* the end of both: the exit a finished self-update ends in would kill the
\* other partway through its swap (install_confirmed, start_update_pressed).
UpdateRunsAlone == Replacing => job = NoJob

\* While a repair's task lives nobody else holds the directory it renames: no
\* uninstall, no verify, and no game, unless the user outran the boot probe.
RepairRunsAlone ==
    job # NoJob /\ job.kind = "repair"
        => removal = NoJob /\ verifying = {} /\ (game = NoGame \/ hasty)

\* The launcher's jobs never run over each other.
JobsExclude == UpdateRunsAlone /\ RepairRunsAlone

\* What identity.json is believed to hold is what the directory holds, whole and
\* of that version, all the way to the swap of a new one, across failed
\* downloads, failed renames that were undone, and restarts.  The mishaps that
\* spoil it, until a later install or uninstall of the channel mends it: the
\* process ending inside the swap or the removal or before their record was
\* written, a restore that failed, a removal that failed partway, a record that
\* could not be written, and an install confirmed over a running uninstall.
RecordMatchesDisk ==
    \A c \in Channels \ torn :
        \/ RemovalOf(c)
        \/ JobOf(c) /\ job.stage \in {"swap", "clean", "ok"}
        \/ live[c] = creds[c]

\* From the boot probe on, a live game keeps game_running set, also a game that
\* an earlier launcher left and whatever stale probe answers are under way, so
\* that what game_running locks stays locked.
FlagCoversGame == game # NoGame /\ ~probing /\ ~hasty => playing
=============================================================================
