------------------------- MODULE LauncherInstallProofs -------------------------
(***************************************************************************)
(* LauncherInstall, proved for any channels, releases and number of jobs,  *)
(* games, checks, restarts and faults: the jobs that share a directory     *)
(* exclude each other, a live game keeps game_running set, and             *)
(* identity.json tells what the install directories hold.                  *)
(***************************************************************************)
EXTENDS LauncherInstall, TLAPS

-----------------------------------------------------------------------------
(* Types *)

Versions == 0 .. MaxVersion
Views == {Home, [of |-> "settings"], [of |-> "launcher"]}
         \cup [of : {"install", "uninstall", "repair"}, chan : Channels]
Jobs == [kind : {"install", "repair"}, chan : Channels, stage : Stages, alone : BOOLEAN,
         target : Trees, old : Trees]
Removals == [chan : Channels, stage : RemovalStages, alone : BOOLEAN]
Games == [is : {"starting", "child", "orphan"}, chan : Channels]
Updatings == {"none", "checking", "offered", "rechecking", "running", "found", "swapped", "failed"}
Resolved2 == {"stage", "aside", "swap", "clean", "ok"}

TypeOK ==
    /\ published \in [Channels -> Versions] /\ offered \in [Channels -> Versions]
    /\ view \in Views
    /\ job \in {NoJob} \cup Jobs
    /\ removal \in {NoJob} \cup Removals
    /\ verifying \in SUBSET Channels
    /\ updating \in Updatings
    /\ playing \in BOOLEAN /\ recovered \in BOOLEAN /\ probing \in BOOLEAN /\ hasty \in BOOLEAN
    /\ polls \in Nat /\ exits \in Nat
    /\ game \in {NoGame} \cup Games
    /\ creds \in [Channels -> Versions] /\ saved \in [Channels -> Versions]
    /\ live \in [Channels -> Trees] /\ torn \in SUBSET Channels
    /\ job # NoJob /\ job.stage \in Resolved2 => job.target \in 1 .. MaxVersion

LEMMA Bounds == /\ MaxVersion \in Nat /\ 0 \in Versions /\ Versions \subseteq Trees
                /\ NoTree \in Trees /\ Partial \in Trees /\ Partial \notin Versions
BY LauncherAssumption DEF Versions, Trees, Partial, NoTree

LEMMA TypeInit == Init => TypeOK
<1> SUFFICES ASSUME Init PROVE TypeOK
  OBVIOUS
<1>1. /\ published \in [Channels -> Versions] /\ offered \in [Channels -> Versions]
      /\ creds \in [Channels -> Versions] /\ saved \in [Channels -> Versions]
      /\ live \in [Channels -> Trees]
  BY Bounds DEF Init
<1>2. /\ view \in Views /\ job = NoJob /\ removal = NoJob /\ game = NoGame
      /\ verifying = {} /\ updating \in Updatings /\ torn = {}
  BY DEF Init, Views, Updatings
<1>3. /\ playing \in BOOLEAN /\ recovered \in BOOLEAN /\ probing \in BOOLEAN /\ hasty \in BOOLEAN
      /\ polls \in Nat /\ exits \in Nat
  BY DEF Init
<1> QED BY <1>1, <1>2, <1>3 DEF TypeOK

LEMMA SomeJob == job \in {NoJob} \cup Jobs => (job # NoJob <=> job \in Jobs)
BY DEF Jobs, NoJob, Stages

LEMMA SomeRemoval == removal \in {NoJob} \cup Removals => (removal # NoJob <=> removal \in Removals)
BY DEF Removals, NoJob, RemovalStages

\* A job's record, with the fields a step gives it.
JobIs(kind, chan, stage, alone, target, old) ==
    /\ job' \in Jobs /\ job' # NoJob
    /\ job'.kind = kind /\ job'.chan = chan /\ job'.stage = stage
    /\ job'.alone = alone /\ job'.target = target /\ job'.old = old

LEMMA JobMoves ==
    ASSUME job \in Jobs, NEW stage \in Stages, NEW target \in Trees, NEW old \in Trees
    PROVE  /\ job' = [job EXCEPT !.stage = stage]
                 => JobIs(job.kind, job.chan, stage, job.alone, job.target, job.old)
           /\ job' = [job EXCEPT !.stage = stage, !.target = target]
                 => JobIs(job.kind, job.chan, stage, job.alone, target, job.old)
           /\ job' = [job EXCEPT !.stage = stage, !.old = old]
                 => JobIs(job.kind, job.chan, stage, job.alone, job.target, old)
<1>1. ASSUME NEW j \in Jobs PROVE j # NoJob
  BY <1>1 DEF Jobs, NoJob, Stages
<1>2. /\ [job EXCEPT !.stage = stage] \in Jobs
      /\ [job EXCEPT !.stage = stage, !.target = target] \in Jobs
      /\ [job EXCEPT !.stage = stage, !.old = old] \in Jobs
  BY DEF Jobs
<1> QED BY <1>1, <1>2 DEF JobIs, Jobs

LEMMA JobStarts ==
    ASSUME NEW kind \in {"install", "repair"}, NEW c \in Channels, Starts(kind, c), TypeOK
    PROVE  JobIs(kind, c, "resolve", ~RemovalOf(c), IF kind = "repair" THEN creds[c] ELSE NoTree, NoTree)
<1> DEFINE j == [kind |-> kind, chan |-> c, stage |-> "resolve", alone |-> ~RemovalOf(c),
                 target |-> IF kind = "repair" THEN creds[c] ELSE NoTree, old |-> NoTree]
<1>1. creds[c] \in Trees /\ NoTree \in Trees /\ RemovalOf(c) \in BOOLEAN
  BY Bounds DEF TypeOK, RemovalOf
<1>2. j \in Jobs /\ j # NoJob
  BY <1>1 DEF Jobs, Stages, NoJob
<1>3. job' = j
  BY DEF Starts
<1> QED BY <1>2, <1>3 DEF JobIs

\* A removal's.
RemovalIs(chan, stage, alone) ==
    /\ removal' \in Removals /\ removal' # NoJob
    /\ removal'.chan = chan /\ removal'.stage = stage /\ removal'.alone = alone

LEMMA RemovalMoves ==
    ASSUME removal \in Removals
    PROVE  /\ \A stage \in RemovalStages : RemovalGoes(stage)
                 => RemovalIs(removal.chan, stage, removal.alone)
           /\ removal' = [removal EXCEPT !.alone = FALSE]
                 => RemovalIs(removal.chan, removal.stage, FALSE)
<1>1. ASSUME NEW j \in Removals PROVE j # NoJob
  BY <1>1 DEF Removals, NoJob, RemovalStages
<1> QED BY <1>1 DEF RemovalIs, RemovalGoes, Removals

\* What a job's steps do, to the job and to the rest.
LEMMA Steps ==
    ASSUME TypeOK, job # NoJob
    PROVE  /\ Resolve => \/ /\ JobIs(job.kind, job.chan, "stage", job.alone, Resolved, job.old)
                            /\ Resolved \in 1 .. MaxVersion
                         \/ JobIs(job.kind, job.chan, "failed", job.alone, job.target, job.old)
           /\ Stage => \/ JobIs(job.kind, job.chan, "aside", job.alone, job.target, job.old)
                       \/ JobIs(job.kind, job.chan, "failed", job.alone, job.target, job.old)
           /\ MoveAside => \/ JobIs(job.kind, job.chan, "swap", job.alone, job.target, live[job.chan])
                           \/ JobIs(job.kind, job.chan, "failed", job.alone, job.target, job.old)
           /\ Swap => \/ JobIs(job.kind, job.chan, "clean", job.alone, job.target, job.old)
                      \/ JobIs(job.kind, job.chan, "failed", job.alone, job.target, job.old)
           /\ RemoveAside => JobIs(job.kind, job.chan, "ok", job.alone, job.target, job.old)
<1>0. job \in Jobs /\ job.chan \in Channels /\ job.target \in Trees /\ live[job.chan] \in Trees
  BY SomeJob DEF TypeOK, Jobs
<1>s. {"stage", "aside", "swap", "clean", "ok", "failed"} \subseteq Stages
  BY DEF Stages
<1>1. Resolve => \/ /\ JobIs(job.kind, job.chan, "stage", job.alone, Resolved, job.old)
                    /\ Resolved \in 1 .. MaxVersion
                 \/ JobIs(job.kind, job.chan, "failed", job.alone, job.target, job.old)
  <2>1. Obtainable => Resolved \in 1 .. MaxVersion /\ Resolved \in Trees
    BY <1>0, Bounds DEF Obtainable, Resolved, TypeOK, Versions, Trees, Partial
  <2>2. Resolve => \/ Obtainable /\ job' = [job EXCEPT !.stage = "stage", !.target = Resolved]
                   \/ job' = [job EXCEPT !.stage = "failed"]
    BY Zenon DEF Resolve
  <2> QED BY <1>0, <1>s, <2>1, <2>2, JobMoves
<1>2. Stage => \/ JobIs(job.kind, job.chan, "aside", job.alone, job.target, job.old)
               \/ JobIs(job.kind, job.chan, "failed", job.alone, job.target, job.old)
  <2>1. ASSUME Stage, NEW tree \in {job.target, Partial},
               job' = IF Accepts(tree) THEN [job EXCEPT !.stage = "aside", !.target = tree]
                      ELSE [job EXCEPT !.stage = "failed"]
        PROVE  \/ job' = [job EXCEPT !.stage = "aside", !.target = job.target]
               \/ job' = [job EXCEPT !.stage = "failed"]
    BY <2>1, Zenon DEF Accepts
  <2>2. Stage => \/ job' = [job EXCEPT !.stage = "aside", !.target = job.target]
                 \/ job' = [job EXCEPT !.stage = "failed"]
    BY <2>1, Zenon DEF Stage
  <2> QED BY <1>0, <1>s, <2>2, JobMoves
<1>3. MoveAside => \/ JobIs(job.kind, job.chan, "swap", job.alone, job.target, live[job.chan])
                   \/ JobIs(job.kind, job.chan, "failed", job.alone, job.target, job.old)
  <2>1. MoveAside => \/ job' = [job EXCEPT !.stage = "swap", !.old = live[job.chan]]
                     \/ job' = [job EXCEPT !.stage = "failed"]
    BY Zenon DEF MoveAside, JobGoes
  <2> QED BY <1>0, <1>s, <2>1, JobMoves
<1>4. Swap => \/ JobIs(job.kind, job.chan, "clean", job.alone, job.target, job.old)
              \/ JobIs(job.kind, job.chan, "failed", job.alone, job.target, job.old)
  <2>1. Swap => \/ job' = [job EXCEPT !.stage = "clean"] \/ job' = [job EXCEPT !.stage = "failed"]
    BY Zenon DEF Swap, JobGoes
  <2> QED BY <1>0, <1>s, <2>1, JobMoves
<1>5. RemoveAside => JobIs(job.kind, job.chan, "ok", job.alone, job.target, job.old)
  <2>1. RemoveAside => job' = [job EXCEPT !.stage = "ok"]
    BY Zenon DEF RemoveAside, JobGoes
  <2> QED BY <1>0, <1>s, <2>1, JobMoves
<1> QED BY <1>1, <1>2, <1>3, <1>4, <1>5

LEMMA RemovalSteps ==
    ASSUME TypeOK, removal # NoJob
    PROVE  /\ UninstallChecks => \E stage \in {"ok", "failed", "remove"} :
                                    RemovalIs(removal.chan, stage, removal.alone)
           /\ UninstallRemoves => \E stage \in {"ok", "failed"} :
                                    RemovalIs(removal.chan, stage, removal.alone)
<1>1. removal \in Removals
  BY SomeRemoval DEF TypeOK
<1>2. {"ok", "failed", "remove"} \subseteq RemovalStages
  BY DEF RemovalStages
<1> QED BY <1>1, <1>2, RemovalMoves DEF UninstallChecks, UninstallRemoves

LEMMA TypeChannel ==
    ASSUME TypeOK, NEW c \in Channels,
           \/ Publish(c) \/ Withdraw(c) \/ LatestReleaseFetched(c)
           \/ UpdatePressed(c) \/ UninstallChannel(c) \/ RepairChannel(c)
           \/ VerifyChannel(c)
    PROVE  TypeOK'
<1>1. CASE Publish(c)
  BY <1>1, Bounds DEF TypeOK, Publish, Free, tasks, process, disk, Versions
<1>2. CASE Withdraw(c)
  BY <1>2, Bounds DEF TypeOK, Withdraw, tasks, process, disk
<1>3. CASE LatestReleaseFetched(c)
  BY <1>3 DEF TypeOK, LatestReleaseFetched, tasks, process, disk
<1>4. ASSUME NEW v \in Views, Shows(v) PROVE TypeOK'
  BY <1>4 DEF TypeOK, Shows, tasks, process, disk
<1>5. CASE UpdatePressed(c) \/ UninstallChannel(c) \/ RepairChannel(c)
  <2>1. \A o \in {"install", "uninstall", "repair"} : [of |-> o, chan |-> c] \in Views
    BY DEF Views
  <2> QED BY <1>4, <1>5, <2>1 DEF UpdatePressed, UninstallChannel, RepairChannel
<1>6. CASE VerifyChannel(c)
  BY <1>6 DEF TypeOK, VerifyChannel, process, disk
<1> QED BY <1>1, <1>2, <1>3, <1>5, <1>6

LEMMA TypeNavigate == TypeOK /\ Navigate => TypeOK'
<1>1. ASSUME NEW v \in Views, Shows(v), TypeOK PROVE TypeOK'
  BY <1>1 DEF TypeOK, Shows, tasks, process, disk
<1>2. {Home, [of |-> "settings"], [of |-> "launcher"]} \subseteq Views
  BY DEF Views
<1> QED BY <1>1, <1>2 DEF Navigate

LEMMA ViewChannel == view \in Views /\ view.of \in {"install", "uninstall", "repair"}
                        => view.chan \in Channels
BY DEF Views, Home

LEMMA TypeStarts == TypeOK /\ (InstallConfirmed \/ RepairConfirmed) => TypeOK'
<1> SUFFICES ASSUME TypeOK, InstallConfirmed \/ RepairConfirmed PROVE TypeOK'
  OBVIOUS
<1>1. PICK kind \in {"install", "repair"} : /\ view.of = kind /\ Starts(kind, view.chan)
                                            /\ kind = "install" => InstallConfirmed
                                            /\ kind = "repair" => RepairConfirmed
  BY DEF InstallConfirmed, RepairConfirmed
<1>2. view.chan \in Channels
  BY <1>1, ViewChannel DEF TypeOK
<1>3. job' \in Jobs /\ job'.stage = "resolve"
  BY <1>1, <1>2, JobStarts DEF JobIs
<1>4. removal' \in {NoJob} \cup Removals
  BY <1>1, SomeRemoval, RemovalMoves DEF InstallConfirmed, RepairConfirmed, TypeOK, RemovalIs, RemovalOf
<1>5. torn' \in SUBSET Channels
  BY <1>1, <1>2 DEF InstallConfirmed, RepairConfirmed, TypeOK
<1>6. hasty' \in BOOLEAN
  BY <1>1 DEF Starts, Hasty, TypeOK
<1> QED BY <1>1, <1>3, <1>4, <1>5, <1>6 DEF TypeOK, Starts, Resolved2

LEMMA TypeSteps == TypeOK /\ (Resolve \/ Stage \/ MoveAside \/ Swap \/ RemoveAside) => TypeOK'
<1> SUFFICES ASSUME TypeOK, Resolve \/ Stage \/ MoveAside \/ Swap \/ RemoveAside PROVE TypeOK'
  OBVIOUS
<1>1. job # NoJob /\ job \in Jobs /\ job.chan \in Channels
  BY SomeJob DEF Resolve, Stage, MoveAside, Swap, RemoveAside, JobStep, TypeOK, Jobs
<1>2. /\ job' \in Jobs
      /\ job'.stage \in Resolved2 => job'.target \in 1 .. MaxVersion
  BY <1>1, Steps DEF JobIs, TypeOK, Resolved2, JobStep, Stage, MoveAside, Swap, RemoveAside
<1>3. job.target \in Trees /\ job.old \in Trees
  BY <1>1 DEF Jobs
<1>4. live' \in [Channels -> Trees]
  BY <1>1, <1>3, Bounds DEF Resolve, Stage, MoveAside, Swap, RemoveAside, Restored, TypeOK
<1>5. torn' \in SUBSET Channels
  BY <1>1 DEF Resolve, Stage, MoveAside, Swap, RemoveAside, TypeOK
<1>6. InTask
  BY DEF Resolve, Stage, MoveAside, Swap, RemoveAside
<1> QED BY <1>2, <1>4, <1>5, <1>6 DEF TypeOK, InTask, process

LEMMA RecordsType ==
    ASSUME TypeOK, NEW c \in Channels, NEW v \in Versions, NEW sound, Records(c, v, sound)
    PROVE  /\ creds' \in [Channels -> Versions] /\ saved' \in [Channels -> Versions]
           /\ torn' \in SUBSET Channels
BY DEF Records, TypeOK

LEMMA TypeCompletes == TypeOK /\ (InstallComplete \/ RepairComplete \/ UninstallComplete) => TypeOK'
<1> SUFFICES ASSUME TypeOK, InstallComplete \/ RepairComplete \/ UninstallComplete PROVE TypeOK'
  OBVIOUS
<1>0. Home \in Views /\ [of |-> "settings"] \in Views
  BY DEF Views
<1>1. CASE InstallComplete \/ RepairComplete
  <2>1. job \in Jobs /\ job.chan \in Channels /\ (job.stage = "ok" => job.target \in Versions)
    BY <1>1, SomeJob, Bounds DEF InstallComplete, RepairComplete, TypeOK, Jobs, Resolved2, Versions
  <2>2. /\ creds' \in [Channels -> Versions] /\ saved' \in [Channels -> Versions]
        /\ torn' \in SUBSET Channels /\ view' \in Views /\ verifying' \in SUBSET Channels
    BY <1>0, <1>1, <2>1, RecordsType DEF InstallComplete, RepairComplete, TypeOK
  <2>3. job' = NoJob /\ CompleteJob
    BY <1>1 DEF InstallComplete, RepairComplete, CompleteJob
  <2> QED BY <2>2, <2>3 DEF TypeOK, CompleteJob, process
<1>2. CASE UninstallComplete
  <2>1. removal \in Removals /\ removal.chan \in Channels
    BY <1>2, SomeRemoval DEF UninstallComplete, TypeOK, Removals
  <2>2. /\ creds' \in [Channels -> Versions] /\ saved' \in [Channels -> Versions]
        /\ torn' \in SUBSET Channels /\ view' \in Views
    BY <1>0, <1>2, <2>1, RecordsType, Bounds DEF UninstallComplete, TypeOK
  <2> QED BY <1>2, <2>2 DEF UninstallComplete, TypeOK, process
<1> QED BY <1>1, <1>2

LEMMA TypeUninstall == TypeOK /\ (UninstallConfirmed \/ UninstallChecks \/ UninstallRemoves) => TypeOK'
<1> SUFFICES ASSUME TypeOK, UninstallConfirmed \/ UninstallChecks \/ UninstallRemoves PROVE TypeOK'
  OBVIOUS
<1>1. CASE UninstallConfirmed
  <2>1. view.chan \in Channels
    BY <1>1, ViewChannel DEF UninstallConfirmed, TypeOK
  <2>2. removal' \in Removals
    BY <1>1, <2>1 DEF UninstallConfirmed, Removals, RemovalStages
  <2>3. hasty' \in BOOLEAN
    BY <1>1 DEF UninstallConfirmed, Hasty, TypeOK
  <2> QED BY <1>1, <2>2, <2>3 DEF UninstallConfirmed, TypeOK, disk
<1>2. CASE UninstallChecks \/ UninstallRemoves
  <2>1. removal # NoJob /\ removal \in Removals /\ removal.chan \in Channels
    BY <1>2, SomeRemoval DEF UninstallChecks, UninstallRemoves, RemovalStep, TypeOK, Removals
  <2>2. removal' \in Removals
    BY <1>2, <2>1, RemovalSteps DEF RemovalIs
  <2>3. live' \in [Channels -> Trees] /\ torn' \in SUBSET Channels
    BY <1>2, <2>1, Bounds DEF UninstallChecks, UninstallRemoves, TypeOK
  <2>4. InRemoval
    BY <1>2 DEF UninstallChecks, UninstallRemoves
  <2> QED BY <2>2, <2>3, <2>4 DEF TypeOK, InRemoval, process
<1> QED BY <1>1, <1>2

LEMMA TypeGame ==
    ASSUME TypeOK,
           \/ \E c \in Channels : PlayPressed(c)
           \/ GameSpawns \/ GameEnds \/ GameExited
           \/ BootGameProbe \/ RecoveredGamePoll \/ RecoveredGameProbe
    PROVE  TypeOK'
<1>1. ASSUME NEW c \in Channels, PlayPressed(c) PROVE TypeOK'
  <2>1. [is |-> "starting", chan |-> c] \in Games
    BY DEF Games
  <2>2. game' \in {NoGame} \cup Games /\ exits' \in Nat /\ playing' \in BOOLEAN /\ hasty' \in BOOLEAN
    BY <1>1, <2>1 DEF PlayPressed, LaunchGame, Hasty, TypeOK
  <2> QED BY <1>1, <2>2 DEF PlayPressed, TypeOK, tasks, disk
<1>2. CASE GameSpawns
  <2>1. game.is = "starting" /\ game \in Games
    BY <1>2 DEF GameSpawns, TypeOK, NoGame, Games
  <2>2. [game EXCEPT !.is = "child"] \in Games
    BY <2>1 DEF Games
  <2> QED BY <1>2, <2>2 DEF GameSpawns, InGame, TypeOK, tasks, disk
<1>3. CASE GameEnds \/ GameExited \/ RecoveredGamePoll
  <2>1. polls + 1 \in Nat /\ exits + 1 \in Nat /\ (exits > 0 => exits - 1 \in Nat)
    BY DEF TypeOK
  <2>2. CASE GameEnds
    BY <2>1, <2>2 DEF GameEnds, InGame, TypeOK, tasks, disk
  <2>3. CASE GameExited
    <3>1. playing' \in BOOLEAN /\ exits' \in Nat
      BY <2>1, <2>3 DEF GameExited
    <3> QED BY <2>3, <3>1 DEF GameExited, InGame, TypeOK, tasks, disk
  <2>4. CASE RecoveredGamePoll
    BY <2>1, <2>4 DEF RecoveredGamePoll, InGame, TypeOK, tasks, disk
  <2> QED BY <1>3, <2>2, <2>3, <2>4
<1>4. CASE BootGameProbe \/ RecoveredGameProbe
  <2>1. polls' \in Nat
    BY <1>4 DEF BootGameProbe, RecoveredGameProbe, TypeOK
  <2>2. playing' \in BOOLEAN
    BY <1>4, Zenon DEF BootGameProbe, RecoveredGameProbe
  <2>3. recovered' \in BOOLEAN
    BY <1>4, Zenon DEF BootGameProbe, RecoveredGameProbe
  <2>4. probing' \in BOOLEAN
    BY <1>4 DEF BootGameProbe, RecoveredGameProbe, TypeOK
  <2> QED BY <1>4, <2>1, <2>2, <2>3, <2>4 DEF BootGameProbe, RecoveredGameProbe, InGame, TypeOK, tasks, disk
<1> QED BY <1>1, <1>2, <1>3, <1>4

LEMMA TypeReboot == TypeOK /\ Reboot => TypeOK'
<1> SUFFICES ASSUME TypeOK, Reboot PROVE TypeOK'
  OBVIOUS
<1>1. torn' \in SUBSET Channels
  BY DEF Reboot, Tears, TypeOK
<1>2. game' \in {NoGame} \cup Games
  <2>1. CASE game.is = "child"
    <3>1. game \in Games
      BY <2>1 DEF TypeOK, NoGame, Games
    <3>2. [game EXCEPT !.is = "orphan"] \in Games
      BY <3>1 DEF Games
    <3> QED BY <2>1, <3>2 DEF Reboot
  <2>2. CASE game.is # "child"
    BY <2>2 DEF Reboot, TypeOK
  <2> QED BY <2>1, <2>2
<1>3. offered' \in [Channels -> Versions]
  BY Bounds DEF Reboot
<1>4. view' \in Views /\ updating' \in Updatings
  BY DEF Reboot, Views, Updatings
<1>5. job' = NoJob /\ removal' = NoJob /\ verifying' = {}
      /\ playing' = FALSE /\ recovered' = FALSE /\ probing' = TRUE /\ hasty' = FALSE
      /\ polls' = 0 /\ exits' = 0 /\ creds' = saved /\ UNCHANGED <<published, saved, live>>
  BY DEF Reboot
<1>6. playing' \in BOOLEAN /\ recovered' \in BOOLEAN /\ probing' \in BOOLEAN /\ hasty' \in BOOLEAN
      /\ polls' \in Nat /\ exits' \in Nat
  BY <1>5
<1> QED BY <1>1, <1>2, <1>3, <1>4, <1>5, <1>6 DEF TypeOK

LEMMA TypeUpdate ==
    ASSUME TypeOK,
           \/ VerifyComplete
           \/ CheckForUpdatesPressed \/ UpdateCheckDone
           \/ StartUpdatePressed \/ RunSelfUpdate \/ SelfUpdateFailed
    PROVE  TypeOK'
<1>1. CASE VerifyComplete
  BY <1>1 DEF VerifyComplete, TypeOK, process, disk
<1>2. CASE CheckForUpdatesPressed \/ UpdateCheckDone \/ StartUpdatePressed \/ RunSelfUpdate
           \/ SelfUpdateFailed
  <2>1. updating' \in Updatings /\ InUpdate
    BY <1>2 DEF CheckForUpdatesPressed, UpdateCheckDone, CheckForUpdate, StartUpdatePressed,
                RunSelfUpdate, FindReleaseAsset, SwapBinary, UpdateGoes, SelfUpdateFailed, Updatings
  <2> QED BY <2>1 DEF InUpdate, TypeOK, process, disk
<1> QED BY <1>1, <1>2

LEMMA TypeNext == TypeOK /\ [Next]_vars => TypeOK'
<1>1. TypeOK /\ UNCHANGED vars => TypeOK'
  BY DEF vars, tasks, process, disk, TypeOK
<1>2. TypeOK /\ Next => TypeOK'
  BY TypeChannel, TypeNavigate, TypeStarts, TypeSteps, TypeCompletes, TypeUninstall, TypeGame,
     TypeReboot, TypeUpdate
     DEF Next, SelfUpdateSwapped, Killed, Closed
<1> QED BY <1>1, <1>2

-----------------------------------------------------------------------------
(* The game and its flag.                                                  *)

\* A recovered game is this launcher's only one, and it is not its child.
Recovering ==
    recovered => playing /\ game.is \in {"none", "orphan"} /\ exits = 0 /\ ~probing

\* What each kind of game process means for the flags.
GameKinds ==
    /\ game.is = "orphan" => exits = 0 /\ (recovered \/ (probing /\ ~playing))
    /\ game.is \in {"starting", "child"} => playing /\ exits = 0 /\ ~recovered

\* One GameExited, of a game that is gone, whose flag is still set.
OneExit == exits <= 1 /\ (exits = 1 => playing /\ game = NoGame)

\* A probe answers only about the recovered game, and only that it is gone.
Answers ==
    /\ probing => polls = 0 /\ ~recovered
    /\ polls > 0 /\ recovered => game = NoGame

GameInv == ~hasty => Recovering /\ GameKinds /\ OneExit /\ Answers

LEMMA GameType ==
    TypeOK => /\ game.is \in {"none", "starting", "child", "orphan"}
              /\ game = NoGame <=> game.is = "none"
              /\ game # NoGame => game \in Games
              /\ exits \in Nat /\ polls \in Nat
BY DEF TypeOK, Games, NoGame

LEMMA GameGoes ==
    ASSUME game \in Games, NEW is \in {"child", "orphan"}, game' = [game EXCEPT !.is = is]
    PROVE  game'.is = is /\ game' # NoGame
BY DEF Games, NoGame

LEMMA GameInit == Init => GameInv
BY DEF Init, GameInv, Recovering, GameKinds, OneExit, Answers, NoGame

\* What starts a job leaves the game alone; it can only be hasty.
LEMMA GameHasty ==
    ASSUME GameInv, hasty => hasty',
           UNCHANGED <<playing, recovered, probing, polls, exits, game>>
    PROVE  GameInv'
BY DEF GameInv, Recovering, GameKinds, OneExit, Answers

LEMMA GamePlays == ASSUME TypeOK, GameInv, NEW c \in Channels, PlayPressed(c) PROVE GameInv'
<1> SUFFICES ASSUME ~hasty' PROVE (Recovering /\ GameKinds /\ OneExit /\ Answers)'
  BY DEF GameInv
<1>1. ~hasty /\ ~(probing /\ game.is = "orphan")
  BY DEF PlayPressed, Hasty
<1>2. game = NoGame /\ ~recovered /\ exits = 0
  BY <1>1, GameType DEF PlayPressed, GameInv, Recovering, GameKinds, OneExit
<1>3. /\ game' = [is |-> "starting", chan |-> c] /\ playing' = TRUE
      /\ UNCHANGED <<exits, recovered, probing, polls>>
  BY <1>2 DEF PlayPressed, LaunchGame
<1>4. game' # NoGame /\ game'.is = "starting"
  BY <1>3 DEF NoGame
<1> QED BY <1>1, <1>2, <1>3, <1>4 DEF GameInv, Recovering, GameKinds, OneExit, Answers

LEMMA GameSteps ==
    ASSUME TypeOK, GameInv,
           \/ GameSpawns \/ GameEnds \/ GameExited
           \/ BootGameProbe \/ RecoveredGamePoll \/ RecoveredGameProbe
    PROVE  GameInv'
<1> SUFFICES ASSUME ~hasty' PROVE (Recovering /\ GameKinds /\ OneExit /\ Answers)'
  BY DEF GameInv
<1>0. ~hasty /\ Recovering /\ GameKinds /\ OneExit /\ Answers
  BY DEF GameInv, GameSpawns, GameEnds, GameExited, BootGameProbe, RecoveredGamePoll,
         RecoveredGameProbe, InGame
<1>t. NoGame.is = "none"
  BY DEF NoGame
<1>1. CASE GameSpawns
  <2>1. game.is = "starting" /\ game \in Games /\ playing /\ exits = 0 /\ ~recovered
    BY <1>0, <1>1, GameType DEF GameSpawns, GameKinds
  <2>2. CASE game' = [game EXCEPT !.is = "child"] /\ UNCHANGED exits
    BY <1>0, <1>1, <2>1, <2>2, GameGoes DEF GameSpawns, Recovering, GameKinds, OneExit, Answers
  <2>3. CASE game' = NoGame /\ exits' = exits + 1
    BY <1>0, <1>1, <1>t, <2>1, <2>3 DEF GameSpawns, Recovering, GameKinds, OneExit, Answers
  <2> QED BY <1>1, <2>2, <2>3 DEF GameSpawns
<1>2. CASE GameEnds
  <2>1. game' = NoGame /\ exits = 0
    BY <1>0, <1>2 DEF GameEnds, GameKinds
  <2>2. exits' = IF game.is = "child" THEN 1 ELSE 0
    BY <1>2, <2>1 DEF GameEnds
  <2> QED BY <1>0, <1>2, <1>t, <2>1, <2>2 DEF GameEnds, Recovering, GameKinds, OneExit, Answers
<1>3. CASE GameExited
  <2>1. exits = 1 /\ exits' = 0 /\ game = NoGame
    BY <1>0, <1>3, GameType DEF GameExited, OneExit
  <2> QED BY <1>0, <1>3, <1>t, <2>1 DEF GameExited, Recovering, GameKinds, OneExit, Answers
<1>4. CASE BootGameProbe
  <2>1. ~recovered /\ polls = 0 /\ ~probing' /\ UNCHANGED <<polls, exits, game>>
    BY <1>0, <1>4 DEF BootGameProbe, Answers
  <2>2. CASE GameAnswers
    <3>1. playing' /\ recovered'
      BY <1>4, <2>2, Zenon DEF BootGameProbe
    <3> QED BY <1>0, <2>1, <2>2, <3>1 DEF GameAnswers, Recovering, GameKinds, OneExit, Answers
  <2>3. CASE ~GameAnswers
    <3>1. ~recovered' /\ (playing' <=> playing)
      BY <1>4, <2>1, <2>3, Zenon DEF BootGameProbe
    <3> QED BY <1>0, <2>1, <2>3, <3>1 DEF GameAnswers, Recovering, GameKinds, OneExit, Answers
  <2> QED BY <2>2, <2>3
<1>5. CASE RecoveredGamePoll
  <2>1. game = NoGame
    BY <1>0, <1>5, GameType DEF RecoveredGamePoll, GameAnswers, Recovering
  <2> QED BY <1>0, <1>5, <1>t, <2>1 DEF RecoveredGamePoll, Recovering, GameKinds, OneExit, Answers
<1>6. CASE RecoveredGameProbe
  <2>1. polls > 0 /\ ~probing /\ polls' = polls - 1 /\ ~recovered'
        /\ UNCHANGED <<probing, exits, game>> /\ playing' = (playing /\ ~recovered)
    BY <1>0, <1>6, GameType DEF RecoveredGameProbe, Answers
  <2>2. CASE recovered
    BY <1>0, <1>t, <2>1, <2>2 DEF Recovering, GameKinds, OneExit, Answers
  <2>3. CASE ~recovered
    <3>1. playing' <=> playing
      BY <2>1, <2>3
    <3> QED BY <1>0, <2>1, <2>3, <3>1 DEF Recovering, GameKinds, OneExit, Answers
  <2> QED BY <2>2, <2>3
<1> QED BY <1>1, <1>2, <1>3, <1>4, <1>5, <1>6

LEMMA GameReboots == ASSUME TypeOK, GameInv, Reboot PROVE GameInv'
<1>1. ~playing' /\ ~recovered' /\ probing' /\ polls' = 0 /\ exits' = 0
  BY DEF Reboot
<1>2. game'.is \in {"none", "orphan"}
  <2>1. CASE game.is = "child"
    BY <2>1, GameType, GameGoes DEF Reboot, NoGame
  <2>2. CASE game.is # "child"
    BY <2>2, GameType DEF Reboot, NoGame
  <2> QED BY <2>1, <2>2
<1> QED BY <1>1, <1>2 DEF GameInv, Recovering, GameKinds, OneExit, Answers

LEMMA GameNext == TypeOK /\ GameInv /\ [Next]_vars => GameInv'
<1> SUFFICES ASSUME TypeOK, GameInv, [Next]_vars PROVE GameInv'
  OBVIOUS
<1>1. UNCHANGED process => GameInv'
  BY GameHasty DEF process
<1>2. ASSUME NEW c \in Channels,
             \/ Publish(c) \/ Withdraw(c) \/ LatestReleaseFetched(c)
             \/ UpdatePressed(c) \/ UninstallChannel(c) \/ RepairChannel(c) \/ VerifyChannel(c)
      PROVE  GameInv'
  BY <1>1, <1>2 DEF Publish, Withdraw, LatestReleaseFetched, UpdatePressed, UninstallChannel,
                    RepairChannel, VerifyChannel, Shows
<1>3. CASE InstallConfirmed \/ RepairConfirmed \/ UninstallConfirmed
  BY <1>3, GameHasty DEF InstallConfirmed, RepairConfirmed, UninstallConfirmed, Starts, Hasty
<1>4. CASE Resolve \/ Stage \/ MoveAside \/ Swap \/ RemoveAside \/ UninstallChecks \/ UninstallRemoves
  BY <1>1, <1>4 DEF Resolve, Stage, MoveAside, Swap, RemoveAside, UninstallChecks, UninstallRemoves,
                    InTask, InRemoval
<1>5. CASE Navigate \/ InstallComplete \/ RepairComplete \/ UninstallComplete \/ VerifyComplete
  BY <1>1, <1>5 DEF Navigate, Shows, InstallComplete, RepairComplete, CompleteJob, UninstallComplete,
                    VerifyComplete
<1>6. CASE CheckForUpdatesPressed \/ UpdateCheckDone \/ StartUpdatePressed \/ RunSelfUpdate
           \/ SelfUpdateFailed
  BY <1>1, <1>6 DEF CheckForUpdatesPressed, UpdateCheckDone, StartUpdatePressed, RunSelfUpdate,
                    FindReleaseAsset, SwapBinary, UpdateGoes, SelfUpdateFailed, InUpdate
<1>7. CASE SelfUpdateSwapped \/ Killed \/ Closed
  BY <1>7, GameReboots DEF SelfUpdateSwapped, Killed, Closed
<1>8. CASE UNCHANGED vars
  BY <1>1, <1>8 DEF vars
<1> QED BY <1>2, <1>3, <1>4, <1>5, <1>6, <1>7, <1>8, GamePlays, GameSteps DEF Next

LEMMA FlagCovers == TypeOK /\ GameInv => FlagCoversGame
BY GameType DEF GameInv, FlagCoversGame, Recovering, GameKinds, OneExit, Answers

-----------------------------------------------------------------------------
(* The launcher's jobs exclude each other.                                 *)

\* A game may run where a repair starts only if the user outran the boot probe.
LEMMA NoGameToRepair ==
    ASSUME TypeOK, GameInv, ~playing, Hasty, hasty \in BOOLEAN
    PROVE  game = NoGame \/ hasty'
BY GameType DEF GameInv, Recovering, GameKinds, Hasty

LEMMA JobsStart == TypeOK /\ GameInv /\ (InstallConfirmed \/ RepairConfirmed) => JobsExclude'
<1> SUFFICES ASSUME TypeOK, GameInv, InstallConfirmed \/ RepairConfirmed PROVE JobsExclude'
  OBVIOUS
<1>1. PICK kind \in {"install", "repair"} : /\ view.of = kind /\ Starts(kind, view.chan)
                                            /\ kind = "install" => InstallConfirmed
                                            /\ kind = "repair" => RepairConfirmed
  BY DEF InstallConfirmed, RepairConfirmed
<1>2. view.chan \in Channels
  BY <1>1, ViewChannel DEF TypeOK
<1>3. job'.kind = kind
  BY <1>1, <1>2, JobStarts DEF JobIs
<1>4. ~Replacing'
  BY <1>1 DEF InstallConfirmed, RepairConfirmed, Starts, Replacing
<1>5. CASE kind = "repair"
  <2>1. /\ ~playing /\ removal = NoJob /\ verifying = {} /\ Hasty
        /\ UNCHANGED <<removal, verifying, game>>
    BY <1>1, <1>5 DEF RepairConfirmed, Busy, Starts
  <2>2. game = NoGame \/ hasty'
    BY <2>1, NoGameToRepair DEF TypeOK
  <2> QED BY <1>4, <2>1, <2>2 DEF JobsExclude, UpdateRunsAlone, RepairRunsAlone
<1> QED BY <1>3, <1>4, <1>5 DEF JobsExclude, UpdateRunsAlone, RepairRunsAlone

LEMMA JobsStep ==
    ASSUME TypeOK, JobsExclude, Resolve \/ Stage \/ MoveAside \/ Swap \/ RemoveAside
    PROVE  JobsExclude'
<1>1. job # NoJob
  BY DEF Resolve, Stage, MoveAside, Swap, RemoveAside, JobStep
<1>2. job' # NoJob /\ job'.kind = job.kind
  BY <1>1, Steps DEF JobIs
<1>3. InTask
  BY DEF Resolve, Stage, MoveAside, Swap, RemoveAside
<1> QED BY <1>1, <1>2, <1>3
        DEF JobsExclude, UpdateRunsAlone, RepairRunsAlone, Replacing, InTask, process

\* A step that leaves the job alone, starts nothing it excludes and no update beside it.
LEMMA JobsKept ==
    ASSUME JobsExclude, UNCHANGED job, Replacing' => Replacing \/ job = NoJob,
           job # NoJob => /\ removal' # NoJob => removal # NoJob
                          /\ verifying' # {} => verifying # {}
                          /\ game' = game \/ game' = NoGame
                          /\ hasty => hasty'
    PROVE  JobsExclude'
BY DEF JobsExclude, UpdateRunsAlone, RepairRunsAlone

LEMMA JobsNext == TypeOK /\ GameInv /\ JobsExclude /\ [Next]_vars => JobsExclude'
<1> SUFFICES ASSUME TypeOK, GameInv, JobsExclude, [Next]_vars PROVE JobsExclude'
  OBVIOUS
<1>1. CASE UNCHANGED vars
  BY <1>1, JobsKept DEF vars, tasks, process, Replacing
<1>2. ASSUME NEW c \in Channels,
             \/ Publish(c) \/ Withdraw(c) \/ LatestReleaseFetched(c)
             \/ UpdatePressed(c) \/ UninstallChannel(c) \/ RepairChannel(c)
      PROVE  JobsExclude'
  BY <1>2, JobsKept DEF Publish, Withdraw, LatestReleaseFetched, UpdatePressed, UninstallChannel,
                        RepairChannel, Shows, tasks, process, Replacing
<1>3. ASSUME NEW c \in Channels, VerifyChannel(c) \/ PlayPressed(c) PROVE JobsExclude'
  BY <1>3, JobsKept DEF VerifyChannel, PlayPressed, Busy, tasks, process, Replacing
<1>4. CASE Navigate \/ VerifyComplete
  BY <1>4, JobsKept DEF Navigate, Shows, VerifyComplete, tasks, process, Replacing
<1>5. CASE InstallComplete \/ RepairComplete \/ SelfUpdateSwapped \/ Killed \/ Closed
  <2>1. job' = NoJob
    BY <1>5 DEF InstallComplete, RepairComplete, CompleteJob, SelfUpdateSwapped, Killed, Closed, Reboot
  <2> QED BY <2>1 DEF JobsExclude, UpdateRunsAlone, RepairRunsAlone
<1>6. CASE UninstallConfirmed \/ UninstallChecks \/ UninstallRemoves \/ UninstallComplete
  BY <1>6, JobsKept DEF UninstallConfirmed, Busy, UninstallChecks, UninstallRemoves, RemovalStep,
                        InRemoval, UninstallComplete, process, Replacing
<1>7. CASE GameSpawns \/ GameEnds \/ GameExited \/ BootGameProbe \/ RecoveredGamePoll
           \/ RecoveredGameProbe
  <2>1. UNCHANGED tasks /\ UNCHANGED hasty
    BY <1>7 DEF GameSpawns, GameEnds, GameExited, BootGameProbe, RecoveredGamePoll,
                RecoveredGameProbe, InGame
  <2>2. game' = game \/ game' = NoGame \/ game.is = "starting"
    BY <1>7 DEF GameSpawns, GameEnds, GameExited, BootGameProbe, RecoveredGamePoll, RecoveredGameProbe
  <2> QED BY <2>1, <2>2, GameType DEF JobsExclude, UpdateRunsAlone, RepairRunsAlone, tasks, Replacing
<1>8. CASE CheckForUpdatesPressed \/ UpdateCheckDone \/ StartUpdatePressed \/ RunSelfUpdate
           \/ SelfUpdateFailed
  <2>1. UNCHANGED <<job, removal, verifying, process>>
    BY <1>8 DEF CheckForUpdatesPressed, UpdateCheckDone, StartUpdatePressed, RunSelfUpdate,
                FindReleaseAsset, SwapBinary, UpdateGoes, SelfUpdateFailed, InUpdate
  <2>2. Replacing' => Replacing \/ job = NoJob
    BY <1>8 DEF CheckForUpdatesPressed, UpdateCheckDone, CheckForUpdate, StartUpdatePressed,
                RunSelfUpdate, FindReleaseAsset, SwapBinary, UpdateGoes, SelfUpdateFailed, Replacing
  <2> QED BY <2>1, <2>2, JobsKept DEF process
<1> QED BY <1>1, <1>2, <1>3, <1>4, <1>5, <1>6, <1>7, <1>8, JobsStart, JobsStep DEF Next

-----------------------------------------------------------------------------
(* What identity.json holds is what the directory holds.                   *)

\* Of the channel nobody works on and no mishap has spoiled.
Rests(c) == ~JobOf(c) /\ ~RemovalOf(c) => live[c] = creds[c]

\* An install and an uninstall that run over each other know it, and so does torn.
Overlap(c) ==
    /\ JobOf(c) /\ ~job.alone => c \in torn
    /\ RemovalOf(c) /\ ~removal.alone => c \in torn
    /\ JobOf(c) /\ RemovalOf(c) => ~job.alone /\ ~removal.alone

\* What the completions are about to record.
Outcomes(c) ==
    /\ JobOf(c) /\ job.alone /\ job.stage \in {"clean", "ok"} => live[c] = job.target
    /\ RemovalOf(c) /\ removal.alone /\ removal.stage = "ok" => live[c] = NoTree

\* Up to the point of no return the tree is the recorded one; the job keeps it aside.
Untouched(c) ==
    /\ saved[c] = creds[c]
    /\ Rests(c)
    /\ JobOf(c) /\ job.stage \notin {"swap", "clean", "ok"} => live[c] = creds[c]
    /\ JobOf(c) /\ job.stage = "swap" => job.old = creds[c]
    /\ RemovalOf(c) /\ removal.stage \in {"check", "failed"} => live[c] = creds[c]

Kept(c) == Overlap(c) /\ Outcomes(c) /\ (c \notin torn => Untouched(c))

RecordInv == \A c \in Channels : Kept(c)

LEMMA RecordInit == Init => RecordInv
BY DEF Init, RecordInv, Kept, Overlap, Outcomes, Untouched, Rests, JobOf, RemovalOf, NoTree

\* A step that does nothing to a channel, its job and its removal.
LEMMA Elsewhere ==
    ASSUME NEW c \in Channels, Kept(c),
           \/ UNCHANGED job
           \/ ~JobOf(c) /\ ~JobOf(c)',
           \/ UNCHANGED removal
           \/ ~RemovalOf(c) /\ ~RemovalOf(c)',
           creds'[c] = creds[c], saved'[c] = saved[c], live'[c] = live[c],
           c \in torn' <=> c \in torn
    PROVE  Kept(c)'
BY DEF Kept, Overlap, Outcomes, Untouched, Rests, JobOf, RemovalOf

LEMMA RecordKept == RecordInv /\ UNCHANGED <<job, removal, disk>> => RecordInv'
<1> SUFFICES ASSUME RecordInv, UNCHANGED <<job, removal, disk>>, NEW c \in Channels PROVE Kept(c)'
  BY DEF RecordInv
<1>1. UNCHANGED <<job, removal, creds, saved, live, torn>>
  BY DEF disk
<1> QED BY <1>1, Elsewhere DEF RecordInv

LEMMA RecordStart ==
    ASSUME TypeOK, JobsExclude, RecordInv, InstallConfirmed \/ RepairConfirmed PROVE RecordInv'
<1>1. PICK kind \in {"install", "repair"} : /\ view.of = kind /\ Starts(kind, view.chan)
                                            /\ kind = "install" => InstallConfirmed
                                            /\ kind = "repair" => RepairConfirmed
  BY DEF InstallConfirmed, RepairConfirmed
<1>2. view.chan \in Channels
  BY <1>1, ViewChannel DEF TypeOK
<1> DEFINE d == view.chan
<1>3. /\ job' # NoJob /\ job'.chan = d /\ job'.stage = "resolve" /\ job'.alone = ~RemovalOf(d)
      /\ UNCHANGED <<creds, saved, live>>
  BY <1>1, <1>2, JobStarts DEF JobIs, Starts
<1>4. job = NoJob
  BY <1>1 DEF InstallConfirmed, RepairConfirmed, Busy
<1>5. SUFFICES ASSUME NEW c \in Channels PROVE Kept(c)'
  BY DEF RecordInv
<1>6. Kept(c)
  BY DEF RecordInv
<1>7. CASE RemovalOf(d)
  <2>1. kind = "install"
    BY <1>1, <1>7 DEF RepairConfirmed, Busy, RemovalOf
  <2>2. removal' = [removal EXCEPT !.alone = FALSE] /\ torn' = torn \cup {d}
    BY <1>1, <1>7, <2>1 DEF InstallConfirmed
  <2>3. removal # NoJob /\ removal \in Removals /\ removal.chan = d
    BY <1>7, SomeRemoval DEF RemovalOf, TypeOK
  <2>4. removal' # NoJob /\ removal'.chan = d /\ removal'.stage = removal.stage /\ ~removal'.alone
    BY <2>2, <2>3, RemovalMoves DEF RemovalIs
  <2>5. c # d => ~JobOf(c) /\ ~JobOf(c)' /\ ~RemovalOf(c) /\ ~RemovalOf(c)'
    BY <1>3, <1>4, <2>3, <2>4 DEF JobOf, RemovalOf
  <2>6. CASE c # d
    BY <1>3, <1>6, <2>2, <2>5, <2>6, Elsewhere
  <2>7. CASE c = d
    BY <1>3, <1>7, <2>2, <2>3, <2>4, <2>7 DEF Kept, Overlap, Outcomes, JobOf, RemovalOf
  <2> QED BY <2>6, <2>7
<1>8. CASE ~RemovalOf(d)
  <2>1. UNCHANGED <<removal, torn>>
    BY <1>1, <1>8 DEF InstallConfirmed, RepairConfirmed
  <2>2. CASE c # d
    BY <1>3, <1>4, <1>6, <2>1, <2>2, Elsewhere DEF JobOf
  <2>3. CASE c = d
    BY <1>3, <1>4, <1>6, <1>8, <2>1, <2>3
       DEF Kept, Overlap, Outcomes, Untouched, Rests, JobOf, RemovalOf
  <2> QED BY <2>2, <2>3
<1> QED BY <1>7, <1>8

\* A job's step is one on its own channel.
LEMMA RecordStep ==
    ASSUME TypeOK, RecordInv, Resolve \/ Stage \/ MoveAside \/ Swap \/ RemoveAside PROVE RecordInv'
<1>1. job # NoJob /\ job.chan \in Channels /\ live[job.chan] \in Trees /\ InTask
  BY SomeJob DEF Resolve, Stage, MoveAside, Swap, RemoveAside, JobStep, TypeOK, Jobs
<1>0. PICK d \in Channels : d = job.chan
  BY <1>1
<1>2. job' # NoJob /\ job'.chan = d /\ job'.alone = job.alone
  BY <1>0, <1>1, Steps DEF JobIs
<1>3. \A c \in Channels \ {d} : live'[c] = live[c] /\ (c \in torn' <=> c \in torn)
  BY <1>0, <1>1 DEF Resolve, Stage, MoveAside, Swap, RemoveAside, TypeOK
<1>4. UNCHANGED <<removal, creds, saved>>
  BY <1>0, <1>1 DEF InTask
<1>5. ASSUME NEW c \in Channels \ {d} PROVE Kept(c)'
  BY <1>0, <1>1, <1>2, <1>3, <1>4, <1>5, Elsewhere DEF RecordInv, JobOf
<1>6. Kept(d) /\ JobOf(d) /\ JobOf(d)' /\ (RemovalOf(d)' <=> RemovalOf(d))
  BY <1>0, <1>1, <1>2, <1>4 DEF RecordInv, JobOf, RemovalOf
<1>7. CASE Resolve \/ Stage \/ RemoveAside
  <2>1. UNCHANGED <<live, torn>>
    BY <1>7 DEF Resolve, Stage, RemoveAside
  <2>2. \/ job.stage \in {"resolve", "stage"} /\ job'.stage \in {"stage", "aside", "failed"}
        \/ job.stage = "clean" /\ job'.stage = "ok" /\ job'.target = job.target
    BY <1>0, <1>1, <1>7, Steps DEF JobIs, Resolve, Stage, RemoveAside, JobStep
  <2>3. Kept(d)'
    BY <1>0, <1>2, <1>4, <1>6, <2>1, <2>2
       DEF Kept, Overlap, Outcomes, Untouched, Rests, JobOf, RemovalOf
  <2> QED BY <1>0, <1>5, <2>3 DEF RecordInv
<1>8. CASE MoveAside
  <2>1. \/ live'[d] = NoTree /\ job'.stage = "swap" /\ job'.old = live[d] /\ torn' = torn
        \/ job'.stage = "failed" /\ UNCHANGED <<live, torn>>
    <3>1. live' = [live EXCEPT ![d] = NoTree] => live'[d] = NoTree
      BY <1>0, <1>1 DEF TypeOK
    <3>2. job' = [job EXCEPT !.stage = "swap", !.old = live[d]]
             => job'.stage = "swap" /\ job'.old = live[d]
      BY <1>0, <1>1, SomeJob, Bounds, JobMoves DEF TypeOK, JobIs, Stages
    <3>3. JobGoes("failed") => job'.stage = "failed"
      BY <1>0, <1>1, SomeJob DEF TypeOK, JobGoes, Jobs
    <3> QED BY <1>0, <1>8, <3>1, <3>2, <3>3 DEF MoveAside
  <2>2. job.stage = "aside"
    BY <1>8 DEF MoveAside, JobStep
  <2>3. Kept(d)'
    BY <1>0, <1>2, <1>4, <1>6, <2>1, <2>2
       DEF Kept, Overlap, Outcomes, Untouched, Rests, JobOf, RemovalOf
  <2> QED BY <1>0, <1>5, <2>3 DEF RecordInv
<1>9. CASE Swap
  <2>1. \/ live'[d] = job.target /\ job'.stage = "clean" /\ job'.target = job.target /\ torn' = torn
        \/ live'[d] = job.old /\ job'.stage = "failed" /\ torn' = torn
        \/ d \in torn' /\ job'.stage = "failed" /\ live' = live
    <3>1. \A t : live' = [live EXCEPT ![d] = t] => live'[d] = t
      BY <1>0, <1>1 DEF TypeOK
    <3>2. \A s : JobGoes(s) => job'.stage = s /\ job'.target = job.target
      BY <1>0, <1>1, SomeJob DEF TypeOK, JobGoes, Jobs
    <3> QED BY <1>0, <1>9, <3>1, <3>2 DEF Swap, Restored
  <2>2. job.stage = "swap"
    BY <1>9 DEF Swap, JobStep
  <2>3. Kept(d)'
    BY <1>0, <1>2, <1>4, <1>6, <2>1, <2>2
       DEF Kept, Overlap, Outcomes, Untouched, Rests, JobOf, RemovalOf
  <2> QED BY <1>0, <1>5, <2>3 DEF RecordInv
<1> QED BY <1>7, <1>8, <1>9

\* A completion records what its task did, or leaves the channel to a mishap.
LEMMA RecordsKeep ==
    ASSUME TypeOK, RecordInv, NEW d \in Channels, NEW v \in Versions, NEW sound \in BOOLEAN,
           Records(d, v, sound), UNCHANGED live,
           sound => live[d] = v /\ ~JobOf(d)' /\ ~RemovalOf(d)',
           ~sound => d \in torn /\ Overlap(d)' /\ Outcomes(d)',
           \A c \in Channels \ {d} : \/ UNCHANGED job
                                     \/ ~JobOf(c) /\ ~JobOf(c)',
           \A c \in Channels \ {d} : \/ UNCHANGED removal
                                     \/ ~RemovalOf(c) /\ ~RemovalOf(c)'
    PROVE  RecordInv'
<1>1. creds' = [creds EXCEPT ![d] = v] /\ creds'[d] = v
  BY DEF Records, TypeOK
<1>2. \/ saved' = creds' /\ torn' = (IF sound THEN torn \ {d} ELSE torn)
      \/ saved' = saved /\ torn' = torn \cup {d}
  BY DEF Records
<1>3. ASSUME NEW c \in Channels \ {d} PROVE Kept(c)'
  <2>1. Kept(c) /\ creds'[c] = creds[c] /\ (c \in torn' <=> c \in torn)
    BY <1>1, <1>2 DEF RecordInv, TypeOK
  <2>2. CASE c \notin torn
    <3>1. saved[c] = creds[c]
      BY <2>1, <2>2 DEF Kept, Untouched
    <3>2. saved'[c] = saved[c]
      BY <1>2, <2>1, <3>1
    <3> QED BY <2>1, <3>2, Elsewhere
  <2>3. CASE c \in torn
    BY <2>1, <2>3 DEF Kept, Overlap, Outcomes, JobOf, RemovalOf
  <2> QED BY <2>2, <2>3
<1>4. Kept(d)'
  <2>1. CASE sound
    BY <1>1, <1>2, <2>1 DEF Kept, Overlap, Outcomes, Untouched, Rests
  <2>2. CASE ~sound
    BY <1>2, <2>2 DEF Kept
  <2> QED BY <2>1, <2>2
<1> QED BY <1>3, <1>4 DEF RecordInv

LEMMA RecordComplete ==
    ASSUME TypeOK, JobsExclude, RecordInv, InstallComplete \/ RepairComplete PROVE RecordInv'
<1>1. job # NoJob /\ job \in Jobs /\ job' = NoJob /\ UNCHANGED <<removal, live>>
  BY SomeJob DEF InstallComplete, RepairComplete, CompleteJob, TypeOK
<1>0. PICK d \in Channels : d = job.chan
  BY <1>1 DEF Jobs
<1>2. Kept(d) /\ JobOf(d) /\ ~JobOf(d)' /\ (RemovalOf(d)' <=> RemovalOf(d))
  BY <1>0, <1>1 DEF RecordInv, JobOf, RemovalOf
<1>3. \A c \in Channels \ {d} : ~JobOf(c) /\ ~JobOf(c)'
  BY <1>0, <1>1 DEF JobOf
<1>4. job.alone => ~RemovalOf(d)
  BY <1>2 DEF Kept, Overlap
<1>5. job.kind = "repair" => removal = NoJob
  BY <1>1 DEF JobsExclude, RepairRunsAlone
<1>6. CASE job.stage = "ok"
  <2>1. job.target \in Versions /\ job.alone \in BOOLEAN
    BY <1>1, <1>6, Bounds DEF TypeOK, Resolved2, Versions, Jobs
  <2>2. PICK sound \in BOOLEAN : Records(d, job.target, sound) /\ (sound <=> job.alone)
    <3>1. InstallComplete => Records(d, job.target, job.alone /\ ~RemovalOf(d))
      BY <1>0, <1>6 DEF InstallComplete
    <3>2. RepairComplete => Records(d, job.target, job.alone)
      BY <1>0, <1>6 DEF RepairComplete
    <3> QED BY <1>4, <2>1, <3>1, <3>2
  <2>3. sound => live[d] = job.target /\ ~RemovalOf(d)
    BY <1>2, <1>4, <1>6, <2>2 DEF Kept, Outcomes
  <2>4. ~sound => d \in torn /\ Overlap(d)' /\ Outcomes(d)'
    BY <1>1, <1>2, <2>2 DEF Kept, Overlap, Outcomes, RemovalOf, JobOf, Records
  <2> QED BY <1>1, <1>2, <1>3, <2>1, <2>2, <2>3, <2>4, RecordsKeep
<1>7. CASE job.stage # "ok"
  <2>1. job.stage = "failed" /\ UNCHANGED <<creds, saved, torn>>
    BY <1>7 DEF InstallComplete, RepairComplete
  <2>2. Kept(d)'
    BY <1>1, <1>2, <2>1 DEF Kept, Overlap, Outcomes, Untouched, Rests, JobOf, RemovalOf
  <2>3. ASSUME NEW c \in Channels \ {d} PROVE Kept(c)'
    BY <1>1, <1>3, <2>1, <2>3, Elsewhere DEF RecordInv
  <2> QED BY <2>2, <2>3 DEF RecordInv
<1> QED BY <1>6, <1>7

LEMMA RecordUninstall ==
    ASSUME TypeOK, RecordInv, UninstallConfirmed \/ UninstallChecks \/ UninstallRemoves
    PROVE  RecordInv'
<1>1. CASE UninstallConfirmed
  <2>1. view.chan \in Channels
    BY <1>1, ViewChannel DEF UninstallConfirmed, TypeOK
  <2>2. PICK d \in Channels : d = view.chan
    BY <2>1
  <2>3. /\ job = NoJob /\ removal = NoJob /\ UNCHANGED <<job, creds, saved, live, torn>>
        /\ removal' = [chan |-> d, stage |-> "check", alone |-> TRUE]
    BY <1>1, <2>2 DEF UninstallConfirmed, Busy, disk
  <2>4. removal' # NoJob /\ removal'.chan = d /\ removal'.stage = "check" /\ removal'.alone
    BY <2>3 DEF NoJob
  <2>5. ASSUME NEW c \in Channels PROVE Kept(c)'
    BY <2>3, <2>4 DEF RecordInv, Kept, Overlap, Outcomes, Untouched, Rests, JobOf, RemovalOf
  <2> QED BY <2>5 DEF RecordInv
<1>2. CASE UninstallChecks \/ UninstallRemoves
  <2>1. removal # NoJob /\ removal \in Removals
    BY <1>2, SomeRemoval DEF UninstallChecks, UninstallRemoves, RemovalStep, TypeOK
  <2>2. PICK d \in Channels : d = removal.chan
    BY <2>1 DEF Removals
  <2>3. removal' # NoJob /\ removal'.chan = d /\ removal'.alone = removal.alone
    BY <1>2, <2>1, <2>2, RemovalSteps DEF RemovalIs
  <2>4. UNCHANGED <<job, creds, saved>>
    BY <1>2 DEF UninstallChecks, UninstallRemoves, InRemoval
  <2>5. \A c \in Channels \ {d} : live'[c] = live[c] /\ (c \in torn' <=> c \in torn)
    BY <1>2, <2>2 DEF UninstallChecks, UninstallRemoves, TypeOK
  <2>6. ASSUME NEW c \in Channels \ {d} PROVE Kept(c)'
    BY <2>2, <2>3, <2>4, <2>5, <2>6, Elsewhere DEF RecordInv, RemovalOf
  <2>7. Kept(d) /\ RemovalOf(d) /\ RemovalOf(d)' /\ (JobOf(d)' <=> JobOf(d))
    BY <2>1, <2>2, <2>3, <2>4 DEF RecordInv, JobOf, RemovalOf
  <2>8. /\ \A s : RemovalGoes(s) => removal'.stage = s
        /\ \A t : live' = [live EXCEPT ![d] = t] => live'[d] = t
    BY <2>1 DEF RemovalGoes, Removals, TypeOK
  <2>9. CASE UninstallChecks
    <3>1. /\ removal.stage = "check" /\ torn' = torn
          /\ \/ removal'.stage = "ok" /\ live[d] = NoTree /\ live' = live
             \/ removal'.stage = "failed" /\ live' = live
             \/ removal'.stage = "remove"
      BY <2>2, <2>8, <2>9 DEF UninstallChecks, RemovalStep
    <3>2. Kept(d)'
      BY <2>3, <2>4, <2>7, <3>1 DEF Kept, Overlap, Outcomes, Untouched, Rests, JobOf, RemovalOf
    <3> QED BY <2>6, <3>2 DEF RecordInv
  <2>10. CASE UninstallRemoves
    <3>1. /\ removal.stage = "remove"
          /\ \/ removal'.stage = "ok" /\ live'[d] = NoTree /\ torn' = torn
             \/ removal'.stage = "failed" /\ live' = live /\ d \in torn'
      BY <2>2, <2>8, <2>10 DEF UninstallRemoves, RemovalStep
    <3>2. Kept(d)'
      BY <2>3, <2>4, <2>7, <3>1 DEF Kept, Overlap, Outcomes, Untouched, Rests, JobOf, RemovalOf
    <3> QED BY <2>6, <3>2 DEF RecordInv
  <2> QED BY <1>2, <2>9, <2>10
<1> QED BY <1>1, <1>2

LEMMA RecordUninstalled == ASSUME TypeOK, RecordInv, UninstallComplete PROVE RecordInv'
<1>1. removal # NoJob /\ removal \in Removals /\ removal' = NoJob /\ UNCHANGED <<job, live>>
  BY SomeRemoval DEF UninstallComplete, TypeOK
<1>0. PICK d \in Channels : d = removal.chan
  BY <1>1 DEF Removals
<1>2. Kept(d) /\ RemovalOf(d) /\ ~RemovalOf(d)' /\ (JobOf(d)' <=> JobOf(d))
  BY <1>0, <1>1 DEF RecordInv, JobOf, RemovalOf
<1>3. \A c \in Channels \ {d} : ~RemovalOf(c) /\ ~RemovalOf(c)'
  BY <1>0, <1>1 DEF RemovalOf
<1>4. removal.alone => ~JobOf(d)
  BY <1>2 DEF Kept, Overlap
<1>5. CASE removal.stage = "ok"
  <2>1. PICK sound \in BOOLEAN : Records(d, 0, sound) /\ sound = removal.alone
    BY <1>0, <1>1, <1>5 DEF UninstallComplete, Removals
  <2>2. sound => live[d] = 0
    BY <1>2, <1>5, <2>1 DEF Kept, Outcomes, NoTree
  <2>3. ~sound => d \in torn /\ Overlap(d)' /\ Outcomes(d)'
    BY <1>1, <1>2, <2>1 DEF Kept, Overlap, Outcomes, RemovalOf, JobOf, Records
  <2> QED BY <1>1, <1>2, <1>3, <1>4, <2>1, <2>2, <2>3, RecordsKeep, Bounds
<1>6. CASE removal.stage # "ok"
  <2>1. removal.stage = "failed" /\ UNCHANGED <<creds, saved, torn>>
    BY <1>6 DEF UninstallComplete
  <2>2. Kept(d)'
    BY <1>1, <1>2, <2>1 DEF Kept, Overlap, Outcomes, Untouched, Rests, JobOf, RemovalOf
  <2>3. ASSUME NEW c \in Channels \ {d} PROVE Kept(c)'
    BY <1>1, <1>3, <2>1, <2>3, Elsewhere DEF RecordInv
  <2> QED BY <2>2, <2>3 DEF RecordInv
<1> QED BY <1>5, <1>6

\* The next launcher knows what identity.json says; what it stopped halfway is torn.
LEMMA RecordReboots == ASSUME TypeOK, RecordInv, Reboot PROVE RecordInv'
<1>1. /\ job' = NoJob /\ removal' = NoJob /\ creds' = saved /\ UNCHANGED <<saved, live>>
      /\ torn' = torn \cup Tears
  BY DEF Reboot
<1>2. SUFFICES ASSUME NEW c \in Channels PROVE Kept(c)'
  BY DEF RecordInv
<1>3. Kept(c) /\ ~JobOf(c)' /\ ~RemovalOf(c)'
  BY <1>1 DEF RecordInv, JobOf, RemovalOf
<1>4. ASSUME c \notin torn' PROVE live[c] = saved[c]
  <2>1. /\ c \notin torn /\ saved[c] = creds[c]
        /\ JobOf(c) => job.stage \notin {"swap", "clean", "ok"}
        /\ RemovalOf(c) => removal.stage \notin {"remove", "ok"}
    BY <1>1, <1>3, <1>4 DEF Tears, Kept, Untouched
  <2>2. RemovalOf(c) => removal.stage \in {"check", "failed"}
    BY <2>1, SomeRemoval DEF TypeOK, RemovalOf, Removals, RemovalStages
  <2> QED BY <1>3, <2>1, <2>2 DEF Kept, Untouched, Rests
<1> QED BY <1>1, <1>3, <1>4 DEF Kept, Overlap, Outcomes, Untouched, Rests

LEMMA RecordNext == TypeOK /\ JobsExclude /\ RecordInv /\ [Next]_vars => RecordInv'
<1> SUFFICES ASSUME TypeOK, JobsExclude, RecordInv, [Next]_vars PROVE RecordInv'
  OBVIOUS
<1>1. CASE UNCHANGED vars
  BY <1>1, RecordKept DEF vars, tasks
<1>2. ASSUME NEW c \in Channels,
             \/ Publish(c) \/ Withdraw(c) \/ LatestReleaseFetched(c)
             \/ UpdatePressed(c) \/ UninstallChannel(c) \/ RepairChannel(c)
             \/ VerifyChannel(c) \/ PlayPressed(c)
      PROVE  RecordInv'
  BY <1>2, RecordKept DEF Publish, Withdraw, LatestReleaseFetched, UpdatePressed, UninstallChannel,
                          RepairChannel, VerifyChannel, PlayPressed, Shows, tasks
<1>3. CASE Navigate \/ VerifyComplete
  BY <1>3, RecordKept DEF Navigate, Shows, VerifyComplete, tasks
<1>4. CASE GameSpawns \/ GameEnds \/ GameExited \/ BootGameProbe \/ RecoveredGamePoll
           \/ RecoveredGameProbe
  BY <1>4, RecordKept DEF GameSpawns, GameEnds, GameExited, BootGameProbe, RecoveredGamePoll,
                          RecoveredGameProbe, InGame, tasks
<1>5. CASE CheckForUpdatesPressed \/ UpdateCheckDone \/ StartUpdatePressed \/ RunSelfUpdate
           \/ SelfUpdateFailed
  BY <1>5, RecordKept DEF CheckForUpdatesPressed, UpdateCheckDone, StartUpdatePressed, RunSelfUpdate,
                          FindReleaseAsset, SwapBinary, UpdateGoes, SelfUpdateFailed, InUpdate
<1>6. CASE SelfUpdateSwapped \/ Killed \/ Closed
  BY <1>6, RecordReboots DEF SelfUpdateSwapped, Killed, Closed
<1> QED BY <1>1, <1>2, <1>3, <1>4, <1>5, <1>6, RecordStart, RecordStep, RecordComplete,
           RecordUninstall, RecordUninstalled
        DEF Next

-----------------------------------------------------------------------------
(* The theorems *)

\* The jobs need the game to know that no game runs where a repair starts, and
\* the record needs the jobs to know that a repair meets no uninstall.
IInv == TypeOK /\ GameInv /\ JobsExclude /\ RecordInv

LEMMA RecordTells == TypeOK /\ RecordInv => RecordMatchesDisk
BY DEF RecordInv, RecordMatchesDisk, Kept, Untouched, Rests

LEMMA IInvInit == Init => IInv
<1>1. Init => JobsExclude
  BY DEF Init, JobsExclude, UpdateRunsAlone, RepairRunsAlone
<1> QED BY <1>1, TypeInit, GameInit, RecordInit DEF IInv

LEMMA IInvNext == IInv /\ [Next]_vars => IInv'
BY TypeNext, GameNext, JobsNext, RecordNext DEF IInv

\* A self-update never runs beside a download that replaces a game, and a repair's
\* task has its directory to itself (install_confirmed, repair_confirmed,
\* uninstall_confirmed, verify_channel, play_pressed, start_update_pressed).
THEOREM JobsNeverOverlap == Spec => []JobsExclude
<1>1. IInv => JobsExclude
  BY DEF IInv
<1> QED BY IInvInit, IInvNext, <1>1, PTL DEF Spec

\* A live game keeps game_running set once the boot probe has answered, whatever
\* exits and probe answers are still under way.
THEOREM LiveGameKeepsFlag == Spec => []FlagCoversGame
<1>1. IInv => FlagCoversGame
  BY FlagCovers DEF IInv
<1> QED BY IInvInit, IInvNext, <1>1, PTL DEF Spec

\* identity.json tells what the install directories hold, across failed downloads
\* and renames, launchers that end at any point and overlapping jobs.
THEOREM RecordTellsDisk == Spec => []RecordMatchesDisk
<1>1. IInv => RecordMatchesDisk
  BY RecordTells DEF IInv
<1> QED BY IInvInit, IInvNext, <1>1, PTL DEF Spec
=============================================================================
