# Verification of the SBDI backup automation

TLA+ specifications of the parts of this repository that have control logic of their own
(the backup and restore scripts, the start and stop of docker applications, the search box
of the portal pages), the TLC configurations that check them on small instances, and TLAPS
proofs of the properties that hold for any number of scripts, hosts, requests or events. Paths below are relative to `src/ansible/roles/`.

## 1. Inventory of the system

The repository deploys the SBDI platform (Docker swarm applications, Gluster and LVM
storage, monitoring, networking) with Ansible. Most of it is declarative. Three parts have
control logic of their own: the backup system, a set of bash scripts on four kinds of hosts
and the `lvm_utils`/`mount_utils` libraries below them; the scripts that start and stop
docker applications on the swarm managers and restart the HTTP proxy; and the search box in
the header of the pages the proxy serves, which runs in the browser.

| Component | State it keeps | Operations | What makes it correct |
|---|---|---|---|
| Backup director (`backup/director/templates/bin`) | the `result` and `go_on_with_rsync` variables of a run | `perform_backup`, `restore_backup`, `restore_latest_backup`, `pause_containers`, `unpause_containers` | exit 0 means a complete, consistent, tagged backup; no partial backup; containers run again; every run ends |
| Docker hosts (`backup/docker_control`) | which containers are paused | pause, unpause, stop and start docker | nothing writes between the first and the last snapshot |
| LVM source (`backup/source/files/bin/*.lvm`, `sbdi_utility_scripts/files/lib/lvm_utils`) | one snapshot volume, one mount point | prepare, remove, rsync | a prepare that exits 0 shows a new snapshot; a leftover is cleared; a reader is never disturbed |
| Gluster source (`backup/source/files/bin/*.gluster`) | one Gluster snapshot, one mount point | prepare, remove, rsync | as above, but prepare relies on the last remove to have cleared leftovers |
| Backup target (`backup/target`) | `/backup/current`, its ZFS snapshots, the clone `/backup/snapshot` | rsync in, tag, activate, restore, deactivate, list | a restore reads one whole backup, whose clone stays while it is read |
| Docker applications (`docker/templates/bin`) | deployed stacks; a file in `conf.d` of the proxy per application; volumes | start, stop, rebalance, initialise | exactly the deployed applications are routed; no route without a service, which would keep the proxy down |
| HTTP proxy (`httpproxy/templates/bin`) | its stack, its container, the routes nginx has read | `restart.sh` = `stop.sh`; `start.sh` | it comes back after every restart, and with the right routes |
| Search box (`httpproxy/files/etc/html/*/js/application.js`, `autocomplete.js`) | text and focus of the field, search timer, requests under way, the menu and its active item | key, mouse, focus, timer and answer handlers | suggestions belong to what was searched for, in whatever order answers come; the menu is open only with the focus; what was dismissed stays away |
| Docker swarm bootstrap (`docker.yml`) | swarm membership | init and join | not modelled |
| WordPress backup (`docker_apps/wordpress`) | archives of a container | backup, restore | not modelled yet |
| `set_utils`, `string_utils` | none | set and string functions on word lists | agree with set theory |
| Storage, monitoring, networking, deployment | none of their own | declarative tasks | not modelled |

How they interact. `perform_backup` talks to groups of hosts with `parallel-ssh`: a phase
starts the same script on all hosts and ends when all have answered; only "all exited 0"
or "some did not" comes back. The scripts of one source share a fixed snapshot name and a
fixed mount point, which is all the state that passes from prepare to rsync to remove, and
the only thing two backup runs share on a source. There is no lock anywhere. Restores
share the one clone name on the first target in the same way.

`start_docker_app` and `stop_docker_app` of different operators, on different swarm
managers, share the `conf.d` directory (a Gluster volume) and the proxy's stack, which each
of them removes and deploys again without a lock. In the browser there is one thread, but
user events, two timers and the answers of the search service come in any order.

Hard behaviours: overlapping runs (crontab is suggested while a run may take 25 hours);
a script killed between two commands, a host restarted between snapshot and transfer; a snapshot that overflows while it is read; a connection that breaks while the script behind
it goes on; clean-up that fails; phases that overwrite the result of earlier phases; a proxy restarted by two
scripts at once, or left without a service behind one of its routes; answers that overtake
each other, come after the user has turned away, or never come. `PROJECT.json` lists every
hazard at its line.

## 2. Modules

| Module | Models | Correspondence |
|---|---|---|
| `SourceHost` | what a source looks like to the director, and the outcomes `<<exit status, host>>` a finished script can have, per flavour | one operator per script; pure definitions |
| `BackupSource` | the promise of one source: an abstract state machine over `SourceHost` | `Begin`, `End`, `Killed` of a script; `Wear`, `Restart`, `Write` of the world |
| `LvmSource` | the LVM scripts, command by command | `MountPoint` .. `Mount` are the main program of `prepare_source_snapshot.lvm`; `CheckSnapshot` .. `LvRemove` are `lvm_remove_snapshot`/`lvm_remove`/`umount_device`, with `caller` as the return address (the loop of prepare, the undo of a failed mount, or the remove script) |
| `GlusterSource` | the Gluster scripts, command by command | one action per `gluster`, `mount` or `umount` command; `result` is the variable `result` |
| `PerformBackup` | `perform_backup` with docker hosts, sources and targets | `Answer`/`Advance` are a `parallel-ssh` phase; `PauseDone` .. `TagDone` are the ifs after each phase; a remote script is one step with the outcomes of `SourceHost`; `Abandon` and `LateEnd` are a script that outlives its connection |
| `RestoreBackup` | `restore_backup`, `restore_latest_backup` and the scripts on the target | `Activate`, `NoDirectory`, `OpenRsync`, `CloseRsync`, `RestoreDone`, `Deactivate` in the order of the code |
| `DockerApps` | `start_docker_app`, `stop_docker_app`, `rebalance_docker_apps`, the proxy's `restart.sh`, and the container of the proxy | `Volumes`, `Conf`, `Stack`, `ProxyRm`, `ProxyDeploy` are the sections of the two scripts in their order; `changed` is the variable `restart_httpproxy`; `ProxyStarts` is nginx, which reads all routes and fails if one names no service |
| `SearchBox` | the autocomplete and menu widgets as `application.js` sets them up | one action per event handler, timer and answer; variables keep the widgets' names, `open` is "the menu is visible", `active` is `menu.active`, `hovers` the one-shot `mousemove` handlers of `menufocus` |
| `SourceHostProofs`, `LvmSourceProofs`, `GlusterSourceProofs`, `RestoreBackupProofs`, `PerformBackupProofs`, `PerformBackupConsistent`, `DockerAppsProofs`, `SearchBoxProofs` | theorems about these modules | section 5 |
| `MCLvmSource`, `MCPerformBackup`, `MCRestoreBackup`, `MCSearchBox` | finite instances for TLC | |

Composition: `PerformBackup` uses the outcome operators of `SourceHost`;
`LvmSource` and `GlusterSource` are checked and proved to implement `BackupSource`
(`KeepsPromise`, an `INSTANCE ... WITH` refinement), which takes its outcomes from the same
operators. So the coarse step of a script in `PerformBackup` is not an assumption:
the detailed scripts are shown to produce these outcomes and no others, when one
script of a source runs at a time. What happens to a source when scripts overlap is
checked in `lvm_overlap` and proved for both flavours (section 5). `DockerApps` and
`SearchBox` share nothing with the backup system.

Operators whose comment begins "Fault model" are plausible mistakes in the code. They
are not part of any specification: they serve to show that each property notices the
mistake it is there for.

### Abstractions

- The data of a volume is its version, a number that every write increases. A copy on a
  target is a version, `Empty` (rsync of an empty mount point with `--delete-after`) or
  `Mixed` (an rsync that failed half way).
- A host holds one source volume. The source wrapper runs the Gluster script, then the LVM
  script, and returns the status of the second: a source that is both is not modelled
  (listed as a hazard).
- The time-outs of `mount_device` and `umount_device` are failures of the command.
- Options no caller uses (`-t`, `-force`, verbose) are left out; so are log messages,
  except the two of the restore scripts that a finding is about.
- `PerformBackup`: a prepare or remove script on a source is one step, but it need not come
  before the director goes on. When a connection breaks, `parallel-ssh` gives up waiting, or the
  director is killed, the script may still run: it is then in `late` (`Abandon`, `Kill`) and
  takes its step at any later time (`LateEnd`), also after the remove script of the same run
  or during the next run. An answer lost once the script has ended is the case in which
  `LateEnd` follows at once. The commands of two scripts on one source interleave in
  `LvmSource` and `GlusterSource` only; in `PerformBackup` a source on which a late script was
  running when the run started a script of its own is in `crossed` for that run.
- The kill of a run of `perform_backup` or of a restore also ends the remote rsync it waits
  for, and a transfer that fails has ended. While a left-over rsync still reads, it keeps the
  mount busy, so the next script on that source fails and says so. A `perform_rsync` that
  goes on to a second target without its director is left out.
- The faults of `PerformBackup` tell the scripts on the sources ("command") from the transfers
  and the tagging ("copy"): a run of TLC has one or the other, the proofs have both.
- During a restore docker is stopped, as the role's README tells the operator, so nothing
  writes to the sources.
- A docker host is paused or not; the containers on it are not told apart.
- `DockerApps`: the checks before the first change, the labels and the volumes are one step
  that succeeds or ends the script (`Volumes`); exit statuses are not told apart;
  that `docker stack rm` returns before the containers are gone, so that a deployment
  right after it may fail, is a failure of the deployment. `trouble` and `clean` are
  history: an application is in trouble from a failed or killed script, or two that
  overlap, until a script runs for it alone and without a failure.
- `SearchBox`: a text is a value, a suggestion the name it puts into the field. `Stale`
  stands for any item that is no longer in the menu. Left out: submenus, typeahead (the
  menu never has the focus), the disabled, read-only and multi-line variants,
  `selectedItem` and `previous` (only the `change` event uses them and nobody listens),
  the live region, layout and the template. Enter without an active item leaves the page.
  The answer of the service is any sequence of names; `requestIndex` is bounded.

## 3. Runs

| Run | Question | Instance |
|---|---|---|
| `lvm_one_script` | does each exit status of the LVM scripts tell the director the truth (`KeepsPromise`); does every script exit (`ScriptsTerminate`); is what a killed script or a restart left cleared in the end (`LeftoversAreCleared`) | 1 script, 5 attempts as in the code, 2 writes, all faults |
| `lvm_overlap` | is a transfer never disturbed, is a snapshot that prepare reports always a new one; can one script keep another in its removal loop (`CommandsRunOut`) | 2 scripts, 3 attempts, 2 writes, all faults |
| `gluster_one_script` | as `lvm_one_script`, and `RemoveClears`, `PrepareShowsFresh` | 1 script, 2 writes, all faults (overlapping scripts: `PrepareFresh` is proved for any number) |
| `backup_one_run` | exit 0 means consistent; a paused host always has a run that will unpause it (`PausedIsOwed`), and runs again; every step brings the run closer to its end (`StepsRunOut`), and it ends | 1 run, an LVM and a Gluster source, 1 docker host, 1 target, 2 writes; failing pauses, transfers and tags, broken connections with scripts that go on, overflow, restarts, resumed containers, kills |
| `backup_two_runs` | the same over two runs, the second after the first ended, failed or was killed at any point: no partial backup, nothing left behind | 2 runs in sequence, hosts as above, 2 writes; failing commands on the sources, broken connections with scripts that go on, kills (overlapping runs: `NoPartialBackup` is proved for them, `overlapping_backups` shows what is not true of them, and what overlap does to a source is in `lvm_overlap`) |
| `restore_all` | rsync keeps its clone, a restore alone on the target restores what it chose, every step brings a restore closer to its end (`StepsRunOut`), and it ends | 2 restores, 2 sources, 2 backups, failing commands and kills |
| `docker_apps` | are exactly the deployed applications routed, can a route keep the proxy down, is somebody always about to bring back a proxy that is down (`ProxyIsOwed`), does it come back | 3 applications, 2 with a route, 2 operators, 3 scripts, every command may fail, kills, crashes of the proxy |
| `search_box` | spinner, menu and suggestions under any order of events and answers | 2 texts, 3 requests, answers of up to 2 names |
| `lvm_gave_up`, `pause_trouble`, `overlapping_backups`, `restore_overlap` | statements of the repository that the code does not keep | section 6 |

Bounds and why they suffice. All properties relate at most two scripts (or runs)
on one source: a reader and a remover, a preparer and a remover, a failed run and the one
after it; a third adds no new pair. On one source, one write between two snapshots tells an
old version from a new one, and two let a leftover be older than the start of a script that
is itself older than the live data. In `PerformBackup` a backup of no single moment takes two
writes: when the first source was written and then the second, the first one's data from
before its write and the second one's from after never existed side by side, while with a
single write every combination has existed. The same two writes let the second run meet data
of the first on one source and its own on the other. One LVM and one Gluster source cover both flavours, and both positions of
the rsync loop (last and not last). The number of removal attempts is 5, as in the code,
wherever the count itself matters; the overlapping run uses 3 (first, middle, last).
Two operators and three scripts give every pair of scripts on the same and on different
applications, and a third one after them that meets what they left; one of the
applications has no route. Three requests are the least with an answer that is late, one
that is current and one that is lost; two texts tell the text searched for from the one
in the field; two items tell an inner neighbour from the edge of the menu.
In `PerformBackup` the writes are bounded by the number of distinct cuts, and what happens
to the hosts after the last run has ended is left out (`Watched`). The runs and
the jobs are symmetric, and symmetry is used only in runs without liveness.

No single instance of `PerformBackup` has all faults: with two writes it would not be finished
in minutes. `backup_one_run` leaves out failing commands on the sources, which lead the run
where a broken connection leads it, and `backup_two_runs` has them; overflow and restarts,
which concern one run at a time, are in the former. The theorems of section 5 hold for all
faults together. `backup_two_runs` also has a `VIEW`: of a run that has ended it keeps only
whether the promise of its exit status was kept (`KeptPromise`, which never changes
afterwards, nor does anything else of such a run that another step or property reads), and of
a run that is going to fail neither the versions of its snapshots nor which failure came last,
except for that of a removal, which `NothingLeftBehind` is about.

`backup_one_run` has no failing unpause because `Resumed` is then false by definition;
`pause_trouble` is about that case. Deadlock is checked for the sources, where an operator
can always start another script; `PerformBackup` and `RestoreBackup` really stop when
all runs are done; in `DockerApps` the number of scripts is bounded, and a proxy kept down by
a route without a service stays down until somebody starts another script. In `SearchBox`
some handler can always run, and deadlock is checked.

### What the consistency property excludes

`ExitZeroIsConsistent` speaks of runs that were not `spoiled`: a container was running
while a snapshot was taken, a source restarted, or another run overlapped. In each of
these cases the code exits 0 with a backup that may be inconsistent. The violation
runs show it for an overlap (`overlapping_backups`) and for containers whose pause failed
(`pause_trouble`); a restart between prepare and rsync, after which rsync empties the copy and
succeeds, and a container that starts during the pause are hazards on the list that no
property covers. Nor does it speak of `crossed` runs: a late script of an earlier run may
remove or replace the snapshots such a run is reading. Everything else (failed and lost
answers, failed transfers, overflow, leftovers of earlier runs, kills) is inside the property;
and it asks for the moment of this run's snapshots, so that what an earlier run left in
`/backup/current` does not pass for its own.

`NothingLeftBehind` makes no exception for a host that was merely unreachable, but one for a
source in `crossed`: its prepare may create the snapshot after its remove script has found
nothing and exited 0 (section 6).

## 4. Fairness

`WF_vars(Script(j))` and `WF_vars(Step(r))`: a bash script that was started is scheduled
until it exits, and every external command or `parallel-ssh` call returns (with success or
failure; that the remote scripts themselves end is what `ScriptsTerminate` shows). That is all
it takes: `CommandsRunOut` and the two `StepsRunOut` bound the commands a script or a run has left,
whatever fails and whatever the others do. Nothing else is fair: nobody has to start a script, a script that outlived its
connection need not end while the model looks,
no write, overflow, restart or kill has to happen, and no command is assumed ever to
succeed.

`DockerApps`: `WF_vars(Step(t))` for the same reason, and `WF_vars(ProxyStarts)`: the swarm
starts a container that ended again and again, so one that can start, does. `ProxyReturns`
needs no more than that.

## 5. Proofs

`SourceHostProofs` holds the lemmas about hosts and the outcomes of the scripts that the proofs of
both flavours and of the director share (what exit status 0 means; `HostStates`).

`LvmSourceProofs`, for any set of overlapping scripts, any number of attempts and writes,
and any set of faults, unless it says otherwise:

- `TypeCorrect`: `Spec => []TypeOK`. One lemma per control operator (`GotoOK`, `ExitOK`,
  `CallOK`, ...), then one per group of commands.
- `TransferSafe`: `Spec => []TransferUndisturbed`. Not inductive as it stands. `IInv` adds
  `MountedExists` (what is mounted exists: `lvremove` refuses a volume in use), without
  which a volume could vanish under a mount and be created again; `HostMove` lists the
  five guarded ways in which any script changes the host, so the argument about the reader
  is made once and not for each command.
- `PrepareFresh`: `Spec => PrepareShowsFresh`. `FreshMount` says that a script about to mount
  finds a snapshot no older than its start if it finds one at all, even if another
  script removed its own and made another; `CalledByPrepare` says that a prepare script
  is in `lvm_remove_snapshot` only through one of its two calls, so that no successful
  removal is its exit status.
- `ScriptsRunOut`: `Spec => CommandsRunOut`. `CommandsLeft` is a variant function: it counts the
  commands up to the exit, 6 for a turn of the removal loop, and goes down with every command
  although other scripts put snapshots in the way. One lemma per control operator
  (`GotoShrinks`, `CallShrinks`, `ReturnShrinks`, `ExitShrinks`), as for the types.
- `ImplementsPromise`: `Spec => KeepsPromise`, one script at a time: `LvmSource` implements
  `BackupSource`. The inductive invariant `Mid` says, for each command, what the host can look
  like given how it looked at the start of the script (`before`): inside the removal, what
  is left to undo depends on who called it (`caller`), so that at the exit the pair of
  status and host is among the outcomes the promise allows.

`RestoreBackupProofs`, for any sources and their order, any number of overlapping and
interrupted restores, and any number of backups:

- `TypeCorrect`: `Spec => []TypeOK`, by `TypeInv`: a restore that is about to activate knows
  a backup that exists, and an rsync under way is a turn of the loop.
- `CloneSafe`: `Spec => []CloneStays`, from the same invariant.
- `RestoredSafe`: `Spec => []RestoredIsChosen`. `Sharing` (two active restores both know that
  they overlap) makes the story of one restore independent of the steps of the others;
  `Progress` is the loop invariant: the restore works on the clone it made, and unless
  a transfer failed it has copied exactly what the clone holds of the sources visited.
- `RestoresRunOut`: `Spec => StepsRunOut`, from `TypeInv`: an rsync under way is a turn of the loop.

`PerformBackupProofs`, for any hosts, any number of overlapping and killed runs and any
faults:

- `NoPartialBackup`: `Spec => []AllOrNothing`. In the prepare phase a source that is not
  waited for has either failed the phase or taken its snapshot (`Answered`); from then on
  `go_on_with_rsync` stands for the complete set (`Decided`). `Move` lists the shapes of
  step of one run, so the argument does not go through the parallel phases one by one.

`PerformBackupConsistent`, under the same assumptions:

- `TypeCorrect`: `Spec => []TypeOK`.
- `ConsistentBackups`: `Spec => []ExitZeroIsConsistent`. `CInv` tells the story of a run that
  so far is clean (result 0, neither spoiled
  nor crossed). While the snapshots are taken, either they all show
  what the sources hold at that moment or some container runs, which spoils the run at its next
  snapshot (`Freezing`); when the last one is taken they are a cut. Until the rsync loop
  ends every source still shows what was frozen, and no late script is under way that could
  touch it (`Frozen`); `Transferred` is the invariant of
  the loop, `TaggedSoFar` that of the tags. `Alone` keeps other runs out of the story:
  of two active runs both are marked as overlapping, and such a run is not clean.
- `SourcesCleared`: `Spec => NothingLeftBehind`. `Clearing` follows a run through its removals
  and its tags; `RemoveLeaves` reads from the outcomes of `SourceHost` what exit status 0
  of a remove script leaves; `Tame` says that during the removals late scripts are only on sources in
  `crossed`, so none ends on another one after its removal; `NoneIsGone` is needed because an LVM remove that finds no
  snapshot exits 0 without looking at the mount point.
- `UnpauseOwed`: `Spec => []PausedIsOwed`. The run that answers for a paused host may change: a
  second run that pauses the host again, or unpauses it early, is covered too. `KilledIsDone`
  (exit status 137 is only that of a kill) is what makes it inductive.
- `RunsRunOut`: `Spec => StepsRunOut`. An answer takes one host out of a phase (`AnswerCounts`), the
  end of a phase moves on to a later one or to the next turn of the rsync loop (`TurnsGoDown`).
  The variant counts hosts, so this needs finite groups of them.

`GlusterSourceProofs`, for any number of overlapping scripts
unless it says otherwise:

- `TypeCorrect`: `Spec => []TypeOK`.
- `PrepareFresh`: `Spec => PrepareShowsFresh`. Prepare never takes over an existing
  snapshot: `gluster snapshot create` refuses, so one that a script goes on to activate
  is no older than its start, even after other scripts deleted and made it again.
- `RemoveClearsHost`: `Spec => []RemoveClears`, one script at a time (with two, the other
  may prepare again before this one has returned).
- `ImplementsPromise`: `Spec => KeepsPromise`, one script at a time: `GlusterSource`
  implements `BackupSource`, with an inductive invariant of the same form as for LVM. Prepare
  here relies on the last remove, so the promise of the two flavours differs, and
  so do the invariants.

`DockerAppsProofs`, for any applications and any number of operators, scripts, failures,
kills and crashes:

- `TypeCorrect`, `Routed` (`DeployedAppsAreRouted`) and `RoutesHaveServices`
  (`NoDanglingRoute`). `Alone` says that two scripts on one application are never both clean
  and leave it in trouble; `TasksOnTrack` what the clean script of an application has
  achieved at each step; `QuietApps` what holds of an application nobody works on: its
  route, its service and what the proxy has read agree.
- `ProxyOwed`: `Spec => []ProxyIsOwed`. `IInv` is not enough: it does not say that what a failed
  script left is remembered until it is repaired. `RestartsForRoutes` says that only a script for
  an application with a route gets to the restart, and `RemovedIsOwed` that a proxy that was
  removed is about to be deployed or a script for such an application went wrong; `NoDanglingRoute`
  says what a proxy that cannot start is waiting for; a script clears the
  trouble of its own application only, and only when it has deployed the proxy.

`SearchBoxProofs`, for any texts, any number of requests and any length of answers:

- `TypeCorrect`, `SpinnerHonest`, `MenuFocused`, `SuggestionsMatch`, `DismissedForGood`.
  The spinner's proof counts: `pending` is the number of requests outstanding. `MenuFocused`
  rests on every path that takes the focus away also stopping the timer and setting
  `cancelSearch`. `SuggestionsMatch` and `DismissedForGood` rest on one fact: a search that is
  not cancelled is one sent after the last dismissal.

The assumptions are those of the modules: the bounds are naturals, the groups of hosts are
finite and the faults are known. TLC checked the inductive invariants or the properties on
the instances of section 3 before they were proved.

Only model-checked is liveness (`ScriptsTerminate`, `LeftoversAreCleared`, `Resumed`, `RunsEnd`,
`RestoresEnd`, `ProxyReturns`): it needs fairness and `ENABLED`, which are out of the proof
system's reach. What it rests on besides fairness is proved: the variant functions
(`CommandsRunOut`, the two `StepsRunOut`) for the ends of scripts, runs and restores;
`PausedIsOwed` for `Resumed` and `ProxyIsOwed` for `ProxyReturns`, which say that somebody is always
about to do it.

## 6. Findings

- `restore_overlap`: a second restore whose activation fails still deactivates the clone
  of the first, which skips the sources it has not reached and reports success.
- `lvm_gave_up`: the fifth removal attempt may succeed and prepare still exits 21.
- `pause_trouble`: pausing a docker host fails, the snapshots are taken while containers write,
  and `perform_backup` exits 0 instead of 81 (`log_error` does not end a script). A docker host
  that cannot be unpaused stays paused in the same way, and there `reusult` would lose the status
  as well.
- `overlapping_backups`: two runs overlap, one empties the copy of the other and both exit 0.

Also met while modelling, without a run: the order of tag and remove in the role's README
is the reverse of the code's; a transfer that failed half way is still tagged
(with exit status 83); the restore scripts exit with the status of their last log call; `stop_docker` stops
`docker.socket` only and logs that the docker service is stopped.

- A prepare script whose connection breaks (or `parallel-ssh` times out) while it runs may create
  and mount its snapshot after the remove script of the same run has found nothing: the run exits
  82 and the snapshot stays until the next run. On LVM the next prepare removes it; on Gluster the
  next prepare fails on it, and only the remove script of that failed run clears it.
- A source that restarts between prepare and rsync has an empty mount point: `perform_rsync` does
  not look whether anything is mounted, empties the copy on the target and exits 0, and so does the
  run.
- A deployment that fails (exit status 99) leaves the route it has added, as do two scripts that
  start and stop one application at the same time, and then both exit 0. The proxy goes on
  until anything restarts it; then nginx refuses to start and every application is down.
- A failed copy or removal of a route, a failed `stop.sh` and a failed `start.sh` end in a warning
  or in nothing: `start_docker_app` exits with the status of the restart, or 0 without one.
- `application.js` passes no `error` callback to `$.ajax` (the widget's own source does,
  `autocomplete.js:2382`): one failed request leaves the spinner on until the page is left.
- The one-shot `mousemove` handler of `menufocus` outlives the item it was registered for:
  moving the mouse after the menu was closed, or filled anew, changes the text of the
  field or throws.

## 7. Not modelled, and the plan

| Next | Content |
|---|---|
| `DockerControl` | containers one by one, with the container list read before the pause; stop and start of docker |
| `TargetProvisioning` | creation of pool and file systems by a play that stops in between |

Not planned: declarative Ansible tasks, configuration templates, stack files and
third-party services, which have no control logic of their own. `set_utils` and
`string_utils` are pure functions on lists of words that the backup scripts do not use.
Volumes: `initialize_docker_app` and the `ensure_*_docker_volume` scripts create directories
that are missing and nothing else, so running them again after a failure completes
them.

Of the JavaScript in the repository, `jquery.js`, `bootstrap.js` and `jquery-migration.js` are
libraries taken over unchanged, `autocomplete.js` is one of which only the two widgets the pages use are
modelled, and the files under `static.sbdi-uat.se` are copies of those under
`static.biodiversitydata.se`. The scripts the other modules are about are bash without a
file extension, so a count of lines by file type does not see them.
