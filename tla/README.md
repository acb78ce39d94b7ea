# A verification of Omelet in TLA+

Omelet runs small web projects in a Linux virtual machine on the user's
computer.  Inside the VM an API process (`src/runtime/omelet_api`, Python,
FastAPI) keeps the projects, starts them with `docker compose`, links the VM to
an Omelet account and to GitHub, and publishes a project under a public
address.  A web console, a command line in the VM and a desktop app on the host
are its clients.  The host side (`src/host`) installs the VM and keeps it up to
date together with scripts in the VM (`src/runtime/install`).

This directory holds TLA+ models of the parts whose correctness depends on
interleavings, failures and restarts, the TLC configurations that check them,
and proofs checked by TLAPS.  `PROJECT.json` is the index: which definition
models which lines, what each run checks, and the list of hazards the
properties were written for.

    tlc -workers 2 -config Projects_safety.cfg MCProjects
    tlc -workers 2 -config GitHub_link.cfg MCGitHubLink
    tlapm ProjectsProofs.tla        (and each other *Proofs module)

## Inventory

For each component: the state it keeps, its operations, whom it meets, what is
hard about it, and what would make it correct.  *Modelled* ones have a section
of their own below.

| Component | State | Operations | Meets | Hard | Correct when |
|---|---|---|---|---|---|
| **Project lifecycle** (`routes/app.py`, `core/lifecycle.py`, `core/state.py`) *modelled* | rows of `state.db`, set of held project locks, folders under `/opt/omelet/projects`, compose stacks | up, restart, down, delete, clone, create, adopt, write and delete files, land an upload, resume at boot | Docker, git, agents editing files, uploads, public addresses (a delete ends the URL first) | requests check first and lock later; jobs release the lock; a clone hands its lock to a start; creating takes no lock; the process dies anywhere | one operation per project, no lock lost or stolen, what was checked under a lock stays true, a restart resumes or reports |
| **Public addresses** (`core/public.py`) *modelled* | `_on`, `_enabling`, `_failed`, `_releasing`; the tunnel client and its token file; the URL at the service | enable (with a thread), disable, reconcile, release_all and forget_local | the Omelet service, Docker, account, sync loop | every decision is taken on what was read before a request or before another lock; answers are lost; restarts forget | a dropped turn-on never commits; memory, service and client agree in the end |
| **Account** (`core/account.py`, `core/cloud.py`) *modelled* | one row: tokens, device code, identity; poller thread | sign-in by code, poll, refresh, authed calls, sign-out | the service, sync, public addresses | replies that belong to an earlier session; rotation of the refresh token | no reply of an old session is stored; a refresh token is used once |
| **Cloud sync** (`core/sync.py`) *modelled* | map from projects to cloud ids | plan, apply, the loop and its wake | account, project rows, public addresses | sign-out or crash between a call and its mapping; wake-ups | mapping and service converge; no change is missed |
| **GitHub link** (`core/github_link.py`, `install/lib/github-apply.sh`) *modelled* | row with a generation, token file, `desired.json`, `applied.json`, pending code | connect, poll, disconnect, reapply, checks; the root script applies the desired state to every account | GitHub, systemd path unit, login accounts | crash between file and row, stale replies, a script reading in pieces, partial failure | "ready" means the present desired state was applied; a stale reply changes nothing |
| **Uploads** (`core/uploads.py`) *modelled* | one folder per upload: data and meta; per-id locks | start, append, finish, cancel, list, sweep, drop_project | project lifecycle lands the file | sweep and drop take no lock; torn chunks; crash in finish | the offset is what is on disk; a file lands whole or not at all |
| **Browser upload queue** (`web/.../uploads/queue.ts`) *modelled* | items and one active request | add, pause, resume, remove, replace, relink, adopt, carry on | uploads, over lost requests | callbacks after every await; retries; guesses about lost answers | one transfer at a time; "done" only for a landed file; progress when it can |
| **Jobs** (`routes/jobs.py`) | registry, logs | submit, follow, wait, evict | every slow route | eviction against followers | a job ends done or failed; followers see all of its log |
| **Sessions** (`core/sessions.py`) | one-time codes, session rows | issue, redeem, check, end | console | two redemptions at once | a code gives one session |
| **Schema migrations** (`core/migrate.py`) | schema version | migrate | `state.db` | crash between step and version | a step runs once |
| **Detection and overlay** (`core/detect.py`, `core/overlay.py`, `core/reconcile.py`, ...) | none | pure functions of a compose file | lifecycle | cases | routes are unique and complete |
| **Runtime update** (`install/get.sh`, `install.sh`, `boot-update.sh`) *modelled* | runtime folder, its previous copy, two version markers, a file lock | update, repair, roll back, recover at boot | host, systemd | killed between any two moves | a working release is always found; a marker means installed |
| **Host install** (`host/core`, `host/client.py`) *modelled* | completed steps on disk | ordered steps, resume, retries | VM provider, API | reboot and kill between a step and its mark; repeated requests | no step is skipped that was not done |
| **VM command line** (`runtime/cli/omelet.py`) | none | calls the API, waits while a project is busy | API | repeats of lost answers | a client of the lifecycle model |
| **Host providers** (`host/providers`) *modelled* | WSL or Lima instance, the Windows features, Lima's own installation | create, start, exec, destroy | the operating system | a command boots a machine that was stopped; two platforms that differ in what they refuse | a step of setup finds the machine the step before it left |
| **Desktop app** (`host/desktop`) *modelled* | one job, the screen it offers actions on | start a job, stop, restart or remove the machine, quit, update itself | host install | the machine is stopped, and the app closed, beside a job | every job ends, and a restart of the computer goes on with setup |
| **Web console, packaging, tests and docs** | | | | user interface and build scripts | read for what is intended |

No component is modelled to its last line; what each leaves out is said in its
section.  The hazards list in `PROJECT.json` has an entry for each hard point
with the line where it bites.

## Modules

| Module | What it is |
|---|---|
| `OneAtATime` | abstract: who operates on each project |
| `Projects` | the project lifecycle of the API, its properties, and the refinement mapping to `OneAtATime` |
| `MCProjects`, `Projects_*.cfg` | instances for TLC |
| `ProjectsProofs` | the inductive invariant of `Projects` and the theorems |
| `Public` | public addresses |
| `MCPublic`, `Public_*.cfg` | instances for TLC |
| `PublicProofs` | theorems about `Public` |
| `GitHubLink`, `GitHubLinkProofs` | the connection to GitHub: the API's side and the script that applies it; theorems |
| `AccountSync`, `AccountSyncProofs` | the Omelet account with its tokens, and the passes that sync projects to it; theorems |
| `Uploads`, `UploadsProofs` | a browser tab's upload queue, the API's upload routes and the store, composed; theorems |
| `RuntimeInstall` | inside the VM: the installer, the update at a boot, and the files they move |
| `HostSetup` | extends `RuntimeInstall` with the desktop app, its jobs and the machine |
| `HostSetupProofs` | theorems about `HostSetup` and the `RuntimeInstall` within it |
| `MCGitHubLink` (`GitHub_link.cfg`), `MCAccountSync` (`Account_sync.cfg`), `MCUploads` (`Uploads_queue.cfg`), `MCHostSetup` (`Host_setup.cfg`) | instances for TLC |

### Projects

A thread of the API is a request handler or a job; the request that starts a
job waits for nothing, so one thread of the model stands for the request and
then its job.  `thread[t].pc` names the next thing it does; a step of the model
is the code between two points where another thread can be seen: one database
statement (`State` has one connection and a lock), one file operation, one
docker or git command, one change of the set of locks.

| Code | Model |
|---|---|
| what a handler reads before it asks for the lock | `AskUp`, `AskDown`, `AskDelete`, `AskClone`, `AskWrite`, `AskUnlink`, `AskFinishUpload`, `AskCreate`, `AskAdopt` |
| `ProjectLocks.acquire`, 409 `project_busy` | `TakeLock`, `Busy` |
| `start_work` with or without the stop of a restart | `StopForRestart`, `RecordName`, `WriteOverlay`, `ComposeUp`, `Report` |
| `project_down` | `Stop`, `RecordStopped` |
| `delete_project` | `RemoveStack`, `Purge`, `Unregister` |
| `github_clone` | `GitClone`, `CloneCheck`, `CloneRename`, `CloneRegister`, `CloneStart` (the hand-over of the lock) |
| `create_project` (the folder, then `.omelet/project.yml` in it, under no lock), `adopt_project` | `CreateMkdir`, `Register` |
| uploads and edits of files | `CheckRow`, `LandFiles`, `Unlink` |
| an exception inside `submit_locked`'s work | `Raise` |
| the process or the VM stops, starts, `resume_projects`, where an error that is no `ApiError` ends the process once more | `Die`, `Boot`, `Resume`, `Serve` |
| a coding agent in the VM (external) | `AgentEdit` |

Data is abstract.  A folder is `"gone"`, `"bare"` (no compose file that
parses), or the compose project name its file gives; a row is its status and
the recorded compose name; a stack is the folder it was started from and
whether it runs, is stopped, or has nothing left to run (services that exit with
0, an empty `ps`: the API calls that started as well).  Every docker command can
fail with or without its effect;
what `docker ps` answers to `delete` is wrong only when `"docker"` is among
`Faults`.  The problem fields, domains, volumes, staging folders and the job
registry are left out.

### Public

The service is the record of which URL is on, at most one per account; it makes
one on `POST`, ends one on release, and a URL can expire or be taken down on the
website at any time (`MakeUrl`, `ReleaseAt`, `Expire`, `TakeDown`; taken from
how `public.py` uses it and from the service's contract in
`docs/superpowers/specs/2026-09-24-public-url-design.md`).  Any request, its
answer or a docker command can be lost or fail while `faults < MaxFaults`.

| Code | Model |
|---|---|
| `enable`: the first look, the second one under the lock | `Enable`, `Begin` |
| `_turn_on` on its thread | `Post`, `WriteToken`, `Start`, `Commit`, `Undo` |
| `_fail` and the `finally` of `_run_enable` | `Finish` |
| `_stop_unless_needed`: the question, the stop, the token | `StopUnlessNeeded`, `Halt`, `DropToken` |
| `_release`, and remembering that it failed | `Release`, `Remember` |
| `disable`, alone or at the start of a delete | `Disable`, then the above; `Unregister` ends the delete |
| sign-out: `release_all`, the account, `forget_local` | `SignOut`, `ReleaseAll`, `Logout`, `Clear`, then the stop of the client |
| `reconcile`: the releases that failed | `StartPass`, `RetryRelease`, `Discard` |
| `_refresh`: the copy of the records, the request, the rows, the mapping, then each project under the lock | `Snapshot`, `Ask`, `Resolve`, `Look`, `Forget`, `Adopt` |
| `_reconcile_client`, and the URLs that no token is there for | `LookAtClient`, `ReconcileClient`, `PassHalts`, `PassDrops`, `EndUrl`, `EndAtService`, `EndRemember` |
| the rest of a sync pass, a sign-in, a restart | `SyncCreate`, `SyncDelete`, `SignIn`, `Restart` |

Records are compared by identity in the code; here a record carries who made
it, which tells apart the same records.  A token is the number of the pairing
it belongs to, `0` being none; `client` is the token the running client has
read, so a client that was started without one is `0` and still counts as
running, as `docker compose ps` says.  The wording of notes and failures, the
hosts of a project, an account revoked by the service and the mode bits of the
token file are left out.

### GitHubLink

The API keeps a row, a token file and `desired.json`; a root script, started by
systemd when that file changes, signs every login account of the VM in or out
and answers in `applied.json`.  The API holds `_lock` while it changes the
connection, so `section` is what the holder has left to write: the script, and
a crash, see what lies between any two of the writes.

| Code | Model |
|---|---|
| `connect`: the first look, the new code, the poller | `Connect`, `SetPending`, `EnsurePoller` |
| `disconnect`, `reapply`, `check_token`, a refusal met by a clone | `Disconnect`, `Ask`, `Judged` |
| what they and the poller write, `_write_desired` and the row's generation | `WriteToken`, `WriteRow`, `WriteDesired`, `WriteGeneration` |
| `poll_once` and the loop around it | `Poll`, `PollAnswered`, `UserAnswered`, `LeavePoller` |
| the script: token, desired.json, each account, report, look again | `StartScript`, `ReadPieces`, `ApplyTo`, `GhFails`, `Report`, `Recheck`, `LeaveScript` |
| GitHub (external) | `Lapse`, `Revoke` |
| one of the writes raises; the process dies between two of them | `WriteFails`, `Crash` (both are `CutShort`) |

A token is its code and its user.  One token may be revoked.  One change is cut
short, by a write that raises (an `OSError`; the lock is given back and what was
written stays) or because the API process dies; elsewhere a crash would only
lose answers, which get lost anyway.  Only the API dies: that the whole VM stops
and the script with it is left out.  The reads of state, name, email and login
in the script are one step.
`ReadyMeansSignedIn` is about the whole chain: the row, its generation, the file
the script read in pieces and the token it read at another time.  Lists of
repositories, git's own configuration and the texts of the status are left out.

### AccountSync

| Code | Model |
|---|---|
| `start_sign_in`, and the code's arrival | `SignIn`, `SetCode` |
| the poller and the identity it reads | `Poll`, `PollAnswered`, `PollerIdentity` |
| `authed`, `_refresh` | `Take`, `Ask`, `Refresh`, `Spend`, `Spent`, `Again` |
| `run_pass`: identity, `plan`, `apply` | `StartPass`, `PassIdentity`, `Planned`, `Apply`, `Applied` |
| `sign_out`: the service's answer, or none; the row | `SignOut`, `Forget` |
| a process that dies after the row and before `clear_cloud_projects` | `Forgetting`, in `Restart` |
| projects made and removed; the process dies | `Change`, `Restart` |

A session is known by the code it came from and a token by its session and its
number in it; the service (external) keeps the newest number of each session,
refuses an old one, and has one record per owner and `client_ref`.  Owners are
numbered as they come, which leaves out only renamings.  A sign-out whose
request is lost leaves the session alive at the service; a code that could not
be had leaves everything as it was.  `wake` is left out since
a pass may begin at any time, and so is what a pass reported (`sync_ok_at`).

### Uploads

One module for both sides, because the hazards are between them: `run` says
where the queue's one thread is, `calls.awaited` is the request it waits for and
`calls.stray` one it has given up but the API still handles.

| Code | Model |
|---|---|
| `add`, `pause`, `resume` and `relink`, `replace`, `remove`, `carryOn`, `dispose`, `adoptPending` | `Add`, `Pause`, `Resume`, `Replace`, `Remove`, `CarryOn`, `Reload`, `List` and `Adopt` |
| `run` and the head of `send`'s loop | `PickNext`, `Continue`, `Request` |
| what `send` does with each answer, or none | `Done`, `Started`, `Progress`, `Mismatch`, `Busy`, `NoRoom`, `NotFound`, `Denied`, `SessionLost`, `Refused`, `Unreachable`, `Wake`, `Returned` |
| the routes and the store | `StartCheck`, `Start`, `Status`, `AppendFind`, `Append`, `Appended`, `Torn`, `FinishTake`, `Finish`, `Cancel` |
| the sweep of old uploads: the age is read, the folder removed | `SweepFind`, `SweepRemove` |
| the project's lock in other hands, and a delete | `TakeProject`, `ReleaseProject` |
| the API stops and starts | `Restart` |

What is on disk of an upload is the set of its bytes that were written, and the
size of the file is its highest byte, as `stat` says: a file with a hole has the
right size and is caught by `WholeFiles`.  All uploads go to one path; refusals
of the path itself are the answer `"other"`.  The sweep finds only what no call
and no running item is at (seven days have passed); it removes it without a
lock, and by then anything may be at it. The list that `adoptPending` works on
may be stale as well.  A file that is complete and cannot be moved for any other
reason than that its name is taken is the answer `"other"` too.  Empty files
have no upload of their own in the queue's eyes, so `DoneIsTrue` says nothing of
them. A crash in the middle of a deletion is in `Projects`.  An abort is noticed
one step later, as an awaited promise is.

### RuntimeInstall and HostSetup

`RuntimeInstall` is what happens in the VM: the runs of `get.sh`, one of the boot
unit and those of the host, meet at a file lock; a release is moved into
place, installed, and given up for the one that was kept when it does not
install.  The machine may stop between any two moves, which ends the runs and
leaves the files.

| Code | Model |
|---|---|
| `boot-update.sh` | `BootUpdate` |
| `get.sh`: the lock, what an interrupted update has left, the release to take | `Locked`, `Resolve` |
| its moves | `Move` (one line each), `Untag`, `Tidy` |
| `install.sh`: the marker, the token, the stack, the marker again | `Forget`, `Token`, `Up`, `Mark`, `Breaks` |
| the machine boots, or stops at any moment | `Boot`, `GoesOff` |

`HostSetup` is the desktop app around it: one job at a time, the screens with
what they offer, and the provider.

| Code | Model |
|---|---|
| `default_steps` and `run_install`: skip, run, mark | `Steps`, `From`, `Remember` |
| the steps before the machine | `Preflight`, `Lima`, `Swap`, `Remediate`, `Gate`, `Fetch` |
| `_ensure_vm_running`, `Wsl2Provider.create`, `LimaProvider.create` | `Create`, `CreateLima`, `Conf`, `Terminate`, `Wakes` |
| `bootstrap`, `connect_step` | `Started`, `Exec`, `Wait`, `After`, `Declare`, `Client`, `Health`, `Version` |
| `verify_step`, imports, the update of the app | `Verify`, `Import`, `Launch` |
| `probe`, `route_for` and the buttons of `index.html` | `Screens`, `Offers` |
| stop, restart, recover and uninstall, which are jobs with steps of their own | `Poweroff`, `Halt`, `Destroy`, `RemoveVmData`, `RemoveDownloads` |
| what the user does in the app and beside it | `Start`, `Home`, `Reset`, `Quit`, `Exit`, `Open`, `Restart`, `Beside...` |

A quitting app has time for one command of its job at most after it has stopped
the machine (`Wakes`, the second disjunct of `Job`).  `Runs` names the runs of
`get.sh`: the boot unit's, the host's, and one that a closed app has left
behind, which goes on in the machine and which the next app's run meets at the
lock (`"left"`, bound to one at a time).  A machine that does not answer is a
screen of its own, from which the app offers to recover it.

Coarser than the code: the two removals of `Tidy` (nothing looks between them);
`docker compose up` of all containers (`Up`, with no marker about, so that half
a stack is no release yet); the stop of the machine by a quit.  Left out:
`OMELET_RUNTIME_REF`, branches, agents and login users; setup without a window;
`vm create`; Homebrew's Lima; a command of WSL or Lima that hangs; a client
that holds an older token than the machine's; the tray and the settings.

## What the runs check

| Run | Instance | Shows |
|---|---|---|
| `projects_safety` | 1 project, 2 compose names, 2 threads, all nine requests, all faults, at most 1 of them (911 thousand states) | `LocksExact`, `CheckedRowStays`, `CloneResetsNothing`, `FilesSteadyDuringStart`, and that the locks implement `OneAtATime` |
| `projects_liveness` | 1 name, all faults, at most 2 of them (110 thousand states) | every lock comes back, after an exception as well (`LocksComeBack`); after a restart a project that was running is started again, or its row no longer says so, or its start is a failed job (`ResumedOrReported`) |
| `projects_resurrect` | no faults | **violated**: `WritesNeverResurrect` |
| `projects_leftover` | no faults, 2 names | **violated**: `DeleteFindsWhatRuns` |
| `public_safety` | 2 projects, 2 turn-ons, 1 turn-off, delete or sign-out, 2 pairings, 1 URL, no faults (2.8 million states) | `NoGhostTurnOn`, `NoTurnOnOutlivesSignOut`, `PassKeepsWhatIsOn` |
| `public_liveness` | 1 project, 2 turn-ons, 1 turn-off, 1 fault or restart (220 thousand states) | `UrlsAgree`, `ClientAgrees`, `NoUrlLeftBehind` |
| `public_retry` | 1 project, 1 fault | **violated**: `NotOnAndReleasing` |
| `public_race` | 1 project, no faults | **violated**: `PassSparesTurnOns` |
| `github_link` | 1 account, 2 users, 2 codes, 1 connect or question under way, 2 generations, 2 passes, 1 change cut short (564 thousand states) | `ReadyMeansSignedIn`, `CodeIsPolled`, `DisconnectStays`, `OnlyRefusedIsBad`, and that the last change is applied and the accounts have its login and no other (`AppliedInTheEnd`) |
| `account_sync` | 1 project, 2 sessions, 2 accounts, 2 tokens of the first, 1 restart or lost answer (380 thousand states) | `IdentityIsOwners`, `NoTokenSpentTwice`, `MappedIsOurs`, `OnlyItsCodeSignsIn`, and that the mapping follows the projects (`MappedInTheEnd`) |
| `uploads` | 2 items, 2 uploads, files of 0 and 3 bytes in chunks of 2, 1 retry, 2 events from outside (339 thousand states) | `WholeFiles`, `DoneIsTrue`, `QueueMoves`, `PauseStays`, `NothingLandsWhenDeleted`, and that the queue comes to rest (`ComesToRest`) |
| `host_setup` | WSL and Lima, 2 releases of 2 apis of which the second may appear at any time, 1 fault, 1 stop of the machine (509 thousand states) | `MarkerIsTrue`, `FallbackIsThere`, `StaysSupported`, and that every job ends (`JobEnds`) |

Bounds.  In `Projects` the state of different projects never meets (each lock,
row, folder and label is one project's; two projects whose files give the same
compose name are the exception, and are left out), so one project has all of it.
Two threads are what a race needs: every operation holds or refuses the one
lock, and only creating and adopting run beside a holder.  Two compose names let
a file's name change between two starts.  One restart meets every point of every
job; liveness has two faults, so that a resumed start can fail or die too.  In
`Public` two projects let a turn-on of one meet a turn-off of the other
(`OthersOn`), two turn-ons let a newer one overtake a stale one of the same
project, one URL of the service is enough for the safety properties since a
released one makes room only for refusals; the race runs have two so that a
second turn-on gets one. `MaxFaults` bounds lost requests, docker failures and
restarts together.  The safety run has none: a stale answer, a sign-out or a
second turn-on needs no failure to do harm, and what a failure adds is in
`public_liveness` and in the theorems, which hold for every `MaxFaults`.
Projects and turn-ons are interchangeable in the safety instance, so it uses
symmetry; liveness runs do not.  The public runs turn the deadlock check off:
when every call has been made and nobody is signed in, nothing is left to do; so
do the ones below them, where a user may do nothing more.

In `GitHubLink` a call is a connect or a question, one at a time, beside the
poller, which is who replaces a token under a question; a second code is what a
stale answer needs, a second user what tells whose token an account got; two
generations with two passes let a change arrive at each point of a pass and once
with no pass left.  In `AccountSync` the second sign-in may be as the first
account or as another; two tokens of the first session make one refresh, the
second session has one.  One project comes and goes as often as it likes.  In
`Uploads` a file of two chunks has a last chunk that is shorter, an empty one is
finished by its start; two items make a queue, two uploads let one be started
over; adding, resuming and replacing are free, and the two events are pauses,
removals, reloads, room that is made, adoptions, lost answers, torn writes,
sweeps, restarts, lost sessions, or the project busy or deleted.  In `HostSetup`
the first release is there and one of the next api may appear at any time, as
may an app that speaks it: an update then has something to go back to, and a
boot something it must not take.  One fault and one stop each meet every point
of every script.  The safety properties were also checked with three releases,
two of them there from the start (1.04 million states); the theorems hold for
any number of releases, faults and stops.

Fairness.  `Projects`: a thread keeps running and the commands it waits for end
(`core/exec.py` sets no time limit, so a command that hangs is outside this
assumption); booting goes on; a body still arriving from a client (`pc =
"write"`) is the client's to end and is *not* assumed to. `Public`: a call that
was made goes on; the sync loop wakes at least once a minute, so a pass is begun
and taken to its end; a project deleted here is deleted at the service whenever
passes keep finding it, a strong fairness because a pass only gets there between
two others.  Requests, sign-ins, faults, expiry and the website are never
assumed to happen.  `GitHubLink`: systemd starts the script after a change, the
script goes on, and whoever holds `_lock` goes on writing; nothing of the user
or GitHub.  `AccountSync`: the loop makes passes (`SyncLoop` waits for at most
an interval), and the poller's own calls end, since a pass may have to wait for
the refresh lock.  `Uploads`: the tab's thread goes on, the API handles a call,
an operation on the project ends; a call that meets locks which are free between
operations gets them at some time (strong fairness per call).  `HostSetup`: the
app's thread goes on with its job and an app that is quitting ends; get.sh, once
begun, goes on while the machine is on: the downloads and docker commands it
waits for are assumed to end, one way or the other.  The code knows of a
`wsl.exe` that never comes back (`desktop/api.py:26`, `providers/wsl2.py:42`); a
job that waits for one is outside of this, and ends with the app.  Users,
releases, stops and faults are never assumed.

## Findings

Four places where a comment or a document says more than the code does; each has
a run whose counterexample shows it.

* `projects_resurrect`: uploads and file writes look for the row before they
  take the lock and do not look again.  A delete that finishes in between is
  undone in part: the write makes the folder anew.  `finish_upload`, a hundred
  lines above, explains why the check must be made under the lock.
* `projects_leftover`: `resolve_compose_name` removes one stack found by label.
  When the compose file's name changed between two starts there are two, and
  delete answers `stopped=true` with one still running.
* `public_retry`: a turn-off forgets its record before it releases the URL, and
  remembers the release only when it has failed.  A pass whose answer lands in
  between takes the URL for a live one, and the next retry releases it under
  the user's eyes; a turn-on made meanwhile loses its URL the same way.
* `public_race`: the pass looks for turn-ons in flight, lets the lock go, and
  then waits for the client's lock: it can stop the client a turn-on has
  started since, and remove its token.

`ClientAgrees` asks that *a* client runs while a URL is on.  That it runs with
a token does not hold: when `public_race` happens with the token removed just
before the client starts, the client restarts for want of one for ever, while
every later pass finds it "running".

Nor does a sign-out leave nothing behind, as the design says of the token file
(`2026-09-24-public-url-design.md:188`).  A pass that asked the service before
the sign-out records the dropped turn-on's URL after it, and
`NoTurnOnOutlivesSignOut` allows that (`by = "pass"`).  The turn-on then finds a
record that is not its own, takes it for a newer turn-on's, and leaves its
client or token in place, where no pass looks while nobody is signed in.

Further behaviours the models have and no document speaks about; a property
that would be false because of one is stated without it, and its comment says so.

GitHub link:
* after a crash, or a write that raised, between `desired.json` and the row's
  generation the next change may use a number again, and "ready" be said of
  stale work; hence `torn` in `ReadyMeansSignedIn`.  The script meets a number it
  has applied and leaves the accounts as they are, hence `torn` in
  `AppliedInTheEnd`;
* an account that fails while `applied.json` names the new login keeps the
  previous one signed in: no later pass knows whom to log out
  (`github-apply.sh`, 73-75 and 153);
* a change written between the script's last look and its exit, or after the
  last pass, waits for the next change; hence `Watched`.

Account and sync:
* `authed` and `_refresh` answer with whatever session the row has by then, so a
  pass begun for one account can make a record under another and map it under
  the first's organisation; it takes a third sign-in, as the first account
  again, for the wrong entry to count, and `MappedIsOurs` leaves out exactly
  that (`CameBack`);
* a project deleted and made again while the answer to the delete was lost keeps
  its old entry and never gets a record again; a create whose answer is lost
  before the project is deleted leaves a record behind; so does a project
  deleted while signed out, since a sign-out clears the mapping.

Uploads:
* the queue takes "not found" after the last chunk for "landed"; the upload may
  have been swept, cancelled in another tab, or dropped with its project;
* a pause during a status forgets that the last chunk was sent: the upload that
  lands meanwhile is started over and ends as `file_exists`, or is done twice;
* a pause during a start and then `adoptPending` give two items for one upload;
* an empty file whose answer is lost, or that meets a busy project, leaves an
  upload nobody finishes; a crash between the move of a file and the removal of
  its folder leaves a folder that is neither listed nor swept.

Runtime and host:
* a stop between the two moves of an update leaves no runtime folder, and the
  boot unit's script is in that folder: no update at a boot puts it right, only
  a repair or update from the host does; a stop between a move and install.sh's
  first line leaves a marker that names what is not there (`torn`);
* a fallback that fails as well leaves no marker, and the next update then keeps
  nothing to go back to; a setup that meets the update at a boot waits for its
  lock and installs once more over what that has put in place;
* a run of get.sh left behind by a closed app, or one of the boot unit that
  waits at the lock with the api it accepted before, can put a release of the
  older api in place after the app was updated; hence `connected` begins anew with
  a setup or repair, and is said only when no run left behind is at work;
* health may be answered by a release that gives way to another one afterwards;
* setup closed between WSL's import of the distro and its `wsl.conf` leaves a
  distro every later setup takes as it is, without systemd; the gate before a
  restart remembers the features only while the app is open;
* a lost token file stops `connect` before it could repair it; "Quit anyway"
  stops the machine, and the job's next command starts it again;
* the screen for a machine without a marker, and for a Mac whose Lima is
  missing, offers no setup, though messages say to run it again; on Lima a
  machine that runs is not removed, and the job that tried to has failed.

## What is proved

Every invariant and every action property that a passing run checks is also a
theorem of its specification, for every value of the constants that satisfies
the assumption its module names.  The layout is the same each time: an
inductive invariant, lemmas on what each group of actions does to it, and a
last temporal step that puts them together.  What differs is the invariant, and
that is what follows.

What is assumed of the constants is that bounds are numbers (some of them not
zero: items, uploads, a chunk, versions of a token, pairings, passes of the
script), and that the values which stand for "nothing" are none of the
values they are used beside.  `UploadsAssumption` says too that the sizes have a
largest one, and `PublicAssumption` that calls are of the three kinds the API
has.  No assumption speaks of the state.

### Projects

| Theorem of `ProjectsProofs` | Statement |
|---|---|
| `Inductive` | `Spec => []IInv` |
| `TypeCorrect` | `Spec => []TypeOK` |
| `LocksAreExact` | `Spec => []LocksExact` |
| `CheckedRowsStay` | `Spec => []CheckedRowStays` |
| `ClonesResetNothing` | `Spec => CloneResetsNothing` |
| `FilesAreSteady` | `Spec => FilesSteadyDuringStart` |
| `ImplementsOneAtATime` | `Spec => OneOperationPerProject` |

`ConstantsAssumption` says that ids are names (the default compose name of a
project is its id), that the constants which stand for "nothing" are none of
the names, threads or rows, and that `MaxFaults` is a number.

The lemmas on *shapes* say of each action only what it does to a thread and the
locks: it keeps the lock's side (unlocked stays unlocked, locked stays locked
with the same project), takes a free lock, or gives up its own.
`ShapeKeepsLocksExact` shows once that every shape keeps `LocksExact`; no action
has to be looked at twice.  `LocksExact` gives the rest: two threads cannot
both be under the lock of one project, so a row that a thread looked up under
the lock is removed by nobody else, since `Unregister` runs under the lock too.

`LocksExact` and `CheckedRowStays` are not inductive by themselves.  The
invariant is

    IInv == TypeOK /\ ThreadsWellFormed /\ LocksExact /\ CheckedRowStays
            /\ CloneMeetsFresh

`ThreadsWellFormed` says that a thread past `"idle"` has a project, and that a
start has parsed a name (without it `RecordName` could break the type of a
row); `CloneMeetsFresh` says that between a clone's second look at its name and
its registration the row is absent or fresh: creating and adopting take no lock
and may insert one in that time, but nothing can run the project and change it,
for that takes the lock the clone holds.  `CloneResetsNothing` follows from it.

The refinement maps `owner[p]` to the thread under the lock of `p`.  Each shape
is then `Begin`, `End` or a stutter of `OneAtATime`, and `Die` is `ProcessDies`;
that the `CHOOSE` of the mapping picks *the* holder is where `LocksExact` is
used.

### Public addresses

| Theorem of `PublicProofs` | Statement |
|---|---|
| `TypeCorrect` | `Spec => []TypeOK` |
| `NoGhost` | `Spec => []NoGhostTurnOn` |
| `SignOutDropsTurnOns` | `Spec => []NoTurnOnOutlivesSignOut` |
| `PassForgetsNothing` | `Spec => PassKeepsWhatIsOn` |

`TypeOK` needs to know which steps which call goes through, or a sign-out could
arrive where a delete's project is used: `Control` is that, and a turn-on past
the service's answer has a session.  `NoTurnOnOutlivesSignOut` rests on
`NoneWanted`: once a sign-out has cleared the claims, no turn-on has one by which
it could commit, for a claim is made only while somebody is signed in.
`PassKeepsWhatIsOn` is about what a pass forgets because of the service's answer
(`_refresh`); a URL for which there is no token is forgotten first and released
then (`EndUrl`), which is not meant.  It needs two facts about a pass that is
held up between the answer and its decision: whoever remembers a session
remembers one the service has made (`SessionsMade`), and a record says who made
it, who makes no other (`MadeOnce`), so that nothing later is taken for the one
before; and if what was on before the pass
asked is the service's URL now, the service answered with it (`AnswerIsNew`).

### GitHub link

| Theorem of `GitHubLinkProofs` | Statement |
|---|---|
| `TypeCorrect` | `Spec => []TypeOK` |
| `DisconnectIsFinal` | `Spec => DisconnectStays` |
| `RefusalIsOfThisToken` | `Spec => OnlyRefusedIsBad` |
| `EveryCodeIsPolled` | `Spec => []CodeIsPolled` |
| `ReadyIsTrue` | `Spec => []ReadyMeansSignedIn` |

Row, token file, `desired.json` and `applied.json` are written one after the
other, and a pass of the script reads them in pieces.  What ties them is the
generation: `Generations` orders the four copies of it.  The invariant behind
`ReadyMeansSignedIn` is, as long as no crash has torn a change (`~torn`),
`Agree /\ PassIsTrue /\ ReportIsTrue`: the files agree unless a change is under
way, which still has to write what is missing; a pass that works for the present
generation has signed in every account it is done with, if its token is the
present one; and so has the pass that wrote a report for that generation.

### Account and sync

| Theorem of `AccountSyncProofs` | Statement |
|---|---|
| `TypeCorrect` | `Spec => []TypeOK` |
| `TokensAreUsedOnce` | `Spec => []NoTokenSpentTwice` |
| `NothingElseSignsIn` | `Spec => OnlyItsCodeSignsIn` |
| `IdentityIsTrue` | `Spec => []IdentityIsOwners` |
| `RecordsAreOurs` | `Spec => []MappedIsOurs` |

Codes are used in the order in which they came, and a session is known by its
code (`Numbered`).  `NoTokenSpentTwice` rests on the lock of `_refresh` (`Alone`:
one thread at a time sends a token) and on where the newest token of a session
is (`Newest`): in the row, with the thread that got it, or lost.  Without the
second a refresh that waited for the lock might send what the one before it
spent.  `MappedIsOurs` rests on `PassesForward`: a pass calls the service with a
token of its own account or of a later one, hence an entry is of an account
that was signed in when or after its organisation was.  If that is another one,
and the organisation's account is signed in now, it was there before and came
back, which is `CameBack`.

### Uploads

| Theorem of `UploadsProofs` | Statement |
|---|---|
| `AllFits` | `Spec => []IInv` |
| `TypeCorrect` | `Spec => []TypeOK` |
| `OnlyWholeFilesLand` | `Spec => []WholeFiles` |
| `DoneHasLandedOrWasRemoved` | `Spec => []DoneIsTrue` |
| `NoItemIsForgotten` | `Spec => []QueueMoves` |
| `NothingIntoTheDeleted` | `Spec => NothingLandsWhenDeleted` |
| `PauseIsKept` | `Spec => PauseStays` |

    IInv == TypeOK /\ (StoreOK /\ CallsFit /\ OneWriter)
                   /\ (ItemsFit /\ RunFits /\ QueueMoves)

The store's half: what is on disk of an upload is a prefix of its file
(`StoreOK`), a write under way has put there no more than what was stored and
the next byte of its chunk (`CallsFit`), and nobody else writes to that upload
(`OneWriter`, which the lock per upload gives).  The tab's half says what the
queue may believe: an item's upload was made, with the item's size; the request
it waits for is the one `send` made for that item, or the item was removed
meanwhile; an answer that says "done" or "not found" stays true until it is
read, since an upload's way is open, then landed or removed, and never back.  A list
that waits to be adopted may be old, but it names no upload by a wrong size
(`ListFits`).
`WholeFiles` needs that `CHOOSE` in `Max` picks the number of bytes: hence the
lemmas on the least and greatest of a set, the least one by well-founded
induction from the library.

### Runtime and host

| Theorem of `HostSetupProofs` | Statement |
|---|---|
| `AllFits` | `Spec => []IInv` |
| `TypeCorrect` | `Spec => []TypeOK` |
| `MarkerHolds` | `Spec => []MarkerIsTrue` |
| `ThereIsAWayBack` | `Spec => []FallbackIsThere` |
| `SupportIsKept` | `Spec => []StaysSupported` |

The theorems are about `HostSetup`'s specification, in which `RuntimeInstall`
runs; `RuntimeInstall` has no specification of its own, for it is the app that
starts its runs and stops its machine.

    IInv == TypeOK /\ Holding /\ InVMFits /\ Folders /\ Behind /\ Connection

* `Holding`: one run at a time holds the lock of `get.sh`, none runs in a
  machine that is off, a job past its `declare` has told the machine its api, and
  the host's run belongs to the job that waits for it (`Awaited`).
* `InVMFits`: what a run *knows* at each of its moves, of the marker, of what
  it installs and of what it would go back to; and that the containers are of
  the marker's release, where there is one.
* `Folders`: what it *finds* in the two folders at each move, as long as the
  machine was not stopped between two of them (`~torn`), and what stands there
  when nobody holds the lock.  `MarkerIsTrue` and `FallbackIsThere` follow.
* `Behind`: nothing is of a later api than the app's; this holds from the start
  because apps only get newer.
* `Connection`: once the app has found a runtime it can use, the marker, the
  containers and what an interrupted update would restore are of its api, no run
  is left behind, and one the boot unit began for another api can change nothing
  any more.
  `StaysSupported` follows.

### Only model-checked

The liveness properties, for the prover has neither fairness nor `ENABLED`:
`LocksComeBack`, `ResumedOrReported`, `UrlsAgree`, `ClientAgrees`,
`NoUrlLeftBehind`, `AppliedInTheEnd`, `MappedInTheEnd`, `ComesToRest` and
`JobEnds`.

## Plan

Done: `Projects`, `Public`, `GitHubLink`, `AccountSync`, `Uploads`,
`RuntimeInstall` and `HostSetup`, each with proofs of all that its passing runs
check but liveness.  Left, in this order:

1. The registry of jobs (`routes/jobs.py`): its cap against those who wait for a
   job or follow its log.
2. An abstract specification of an upload (bytes arrive in order, the file lands
   once or never) and of a runtime update (one release serves, the next one or
   the last one follows), implemented by `Uploads` and `HostSetup`; the
   invariants above are what their proofs would need.

## Not modelled

Jobs apart from their running and ending are in the plan.  Sessions, migrations
and the VM's command line keep no state that two steps could disagree on: a
code is popped under a lock, a migration and its number are one transaction, a
command is one call repeated while a project is busy.  Detection and the overlay
are functions on compose files whose content is strings; a model would repeat
them.  The web console apart from its queue, packaging and images are user
interface, I/O and build scripts.  Where a modelled component touches a part
that is not, the part is an environment action (a fault, an agent, the
service).  What is missing inside the modelled components is named in their
sections above.
