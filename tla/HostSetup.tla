----------------------------- MODULE HostSetup ------------------------------
(***************************************************************************)
(* The desktop app and the machine it sets up: one job at a time           *)
(* (desktop/jobs.py), the steps of setup and what is remembered of them    *)
(* across a restart (core/install.py), the repair and the update of the    *)
(* runtime (core/bootstrap.py), and the machine as WSL or Lima runs it     *)
(* (providers/wsl2.py, providers/lima.py), and the update of the app       *)
(* (core/app_update.py).  The command line's setup is left out.            *)
(***************************************************************************)
EXTENDS RuntimeInstall, Sequences

CONSTANT MaxStops  \* bound on stops of the machine by the user

ASSUME HostSetupAssumption == MaxStops \in Nat

VARIABLES
    provider,  \* what runs the machine: "wsl" or "lima"
    limactl,   \* the app's Lima: "missing", "older" than it wants, or "pinned"
    done,      \* install-state.json
    features,  \* the Windows features: "off", "pending" a restart, or "on"
    runonce,   \* whether Windows opens setup again after a restart
    app,       \* the app: whether it is open, the api it speaks, and whether,
               \* since it was opened, it has turned features on and home() has
               \* told the machine its api
    job,       \* the job, or how the last one ended
    connected, \* this app has found an installed runtime of its api
    stops

host == <<provider, limactl, done, features, runonce, app>>
vars == <<inVM, host, job, connected, stops>>

Kinds == {"install", "repair", "update", "start", "stop", "restart", "recover", "uninstall"}
Stopping == {"stop", "restart", "recover"}
Endings == {"done", "failed", "reboot"}
OnHost == {"preflight", "lima", "swap", "remediate", "remediated", "gate", "gated",
           "image", "create", "conf", "terminate", "download", "launch"}
OnMachine == {"poweroff", "halt", "destroy", "data", "downloads"}
\* What runs a command in the machine.
Commands == {"start", "exec", "after", "declare", "client", "tester"}
Calls == {"wait", "health", "version", "replace", "import"}
Verifying == {"ensure", "up", "probe"}
Removing == {"teardown", "abandon"}
Remembered == {"preflight", "remediate", "gate"}

TypeOK ==
    /\ InVMTypeOK
    /\ provider \in {"wsl", "lima"}
    /\ limactl \in {"missing", "older", "pinned"}
    /\ done \subseteq Remembered
    /\ features \in {"off", "pending", "on"} /\ runonce \in BOOLEAN
    /\ app \in [at : {"open", "quitting", "closed"}, api : Apis, enabled : BOOLEAN, declared : BOOLEAN]
    /\ job \in [kind : Kinds \cup {"import", "app_update", "none"},
                at : Endings \cup OnHost \cup OnMachine \cup Commands \cup Calls
                     \cup Verifying \cup Removing,
                mode : {"install", "update", "repair"},
                then : {"declare", "client", "version"}]
    /\ connected \in BOOLEAN /\ stops \in 0..MaxStops

NoJob == [kind |-> "none", at |-> "done", mode |-> "install", then |-> "declare"]

Init ==
    /\ InVMInit
    /\ provider \in {"wsl", "lima"}
    /\ limactl = IF provider = "lima" THEN "missing" ELSE "pinned"
    /\ done = {} /\ features = "off" /\ runonce = FALSE
    /\ app = [at |-> "open", api |-> 1, enabled |-> FALSE, declared |-> FALSE]
    /\ job = NoJob /\ connected = FALSE /\ stops = 0

-----------------------------------------------------------------------------
Becomes(at) == job' = [job EXCEPT !.at = at]

\* Only setup leaves a screen of its own.
EndsJob(result) ==
    job' = [NoJob EXCEPT !.at = IF job.kind = "install" THEN result ELSE "done"]

\* Without its Lima the app knows nothing of the machine and can do nothing with
\* it; wsl.exe is a part of Windows.
Manages == limactl # "missing"

\* default_steps(): a Mac has no features to turn on and needs no image, but
\* Lima itself.
Steps ==
    IF provider = "lima" THEN <<"preflight", "lima", "create">>
    ELSE <<"preflight", "remediate", "gate", "image", "create">>

\* run_install(): what is remembered is skipped, and remembered once it is done.
From(n) ==
    LET left == {i \in n..Len(Steps) : Steps[i] \notin done}
    IN  Steps[CHOOSE i \in left : \A j \in left : i <= j]

Following(step) == From(1 + CHOOSE i \in DOMAIN Steps : Steps[i] = step)

FirstStep(kind) ==
    CASE kind = "install" -> From(1)
      [] kind = "repair" -> "exec"
      [] kind = "update" -> "declare"
      [] kind = "start" -> "start"
      [] kind = "uninstall" -> "destroy"
      [] kind \in Stopping -> IF kind = "recover" \/ provider = "lima" THEN "halt" ELSE "poweroff"

\* Mutant: the step that is begun is remembered, not the one that is done.
RememberNext(step) == done' = done \cup {Following(step)} /\ Becomes(Following(step))

Remember(step) == done' = done \cup {step} /\ Becomes(Following(step))

\* wsl.exe says of a machine that hangs that it does not answer.
Unanswered == IF provider = "wsl" THEN {"unresponsive"} ELSE {}

\* probe() and route_for(): which screen there is, and so what can be asked for.
\* A probe that fails finds no machine, and something wrong.  An API may be slow
\* to answer.
Screens ==
    CASE (vm = "none" \/ ~Manages) /\ done = {} -> {"first_run"}
      [] ~Manages /\ done # {} -> {"wrong"}
      [] Manages /\ vm = "none" /\ done # {} -> {"not_installed"}
      [] Manages /\ vm = "off" -> {"stopped"}
      [] Manages /\ vm = "on" /\ disk.marker = None -> {"wrong"} \cup Unanswered
      [] Manages /\ vm = "on" /\ disk.marker # None ->
           {"unreachable"} \cup Unanswered \cup (IF token = "missing" THEN {}
                                 ELSE IF Api(service) = app.api THEN {"running"}
                                 ELSE {"update_runtime"})

Offers(screen) ==
    CASE screen = "first_run" -> {"install"}
      [] screen = "not_installed" -> {"install", "app_update"}
      [] screen = "stopped" -> {"start", "import", "app_update", "uninstall"}
      [] screen = "wrong" -> {"restart", "import", "app_update", "uninstall"}
      [] screen = "unresponsive" -> {"recover"}
      [] screen = "unreachable" -> {"repair"}
      [] screen = "update_runtime" -> {"update"}
      [] screen = "running" -> {"stop", "import", "app_update", "uninstall"}
      [] screen = "failed" -> {"install"}

\* JobRegistry.start(): one at a time.
Offered(kind) ==
    /\ app.at = "open" /\ job.at \in Endings
    /\ IF job.at = "failed" THEN kind \in Offers("failed")
       ELSE \E screen \in Screens : kind \in Offers(screen)

OneStop == stops < MaxStops /\ stops' = stops + 1

Start(kind) ==
    /\ Offered(kind)
    /\ IF kind \in Stopping THEN OneStop ELSE UNCHANGED stops
    /\ job' = [NoJob EXCEPT !.kind = kind, !.at = FirstStep(kind),
                            !.mode = IF kind = "repair" THEN "repair" ELSE "install"]
    /\ UNCHANGED <<inVM, host, connected>>

\* An import has its client before it is a job, and a distro that is off is booted
\* for that.
StartImport ==
    /\ Offered("import") /\ Manages /\ token # "missing"
    /\ IF vm = "off" THEN provider = "wsl" /\ Boot(systemd) ELSE UNCHANGED <<vm, token, run>>
    /\ \E first \in {"replace", "import"} :
          job' = [NoJob EXCEPT !.kind = "import", !.at = first]
    /\ UNCHANGED <<systemd, disk, declared, service, world, host, connected, stops>>

\* There is an app that speaks the next api.
StartAppUpdate ==
    /\ Offered("app_update") /\ app.api = 1
    /\ job' = [NoJob EXCEPT !.kind = "app_update", !.at = "download"]
    /\ UNCHANGED <<inVM, host, connected, stops>>

Preflight ==
    /\ job.at = "preflight" /\ Remember("preflight")
    /\ UNCHANGED <<provider, limactl, features, runonce, app>>

\* lima_install.install(): what is fetched has run before anything is moved, and
\* the Lima that was there is aside for a moment.
Lima ==
    /\ job.at = "lima"
    /\ \/ limactl = "older" /\ limactl' = "missing" /\ Becomes("swap")
       \/ limactl # "older" /\ limactl' = "pinned" /\ Becomes("create")
    /\ UNCHANGED <<provider, done, features, runonce, app>>

Swap ==
    /\ job.at = "swap" /\ limactl' = "pinned" /\ Becomes("create")
    /\ UNCHANGED <<provider, done, features, runonce, app>>

\* What preflight_checks() finds that setup can put right.
FeaturesMissing == features # "on"

\* The features are turned on, and so they are again until the restart.
Remediate ==
    /\ job.at = "remediate" /\ Becomes("remediated")
    /\ features' = IF features = "off" THEN "pending" ELSE features
    /\ app' = [app EXCEPT !.enabled = FeaturesMissing]
    /\ UNCHANGED <<provider, limactl, done, runonce>>

Remediated ==
    /\ job.at = "remediated" /\ Remember("remediate")
    /\ UNCHANGED <<provider, limactl, features, runonce, app>>

\* Mutant: nothing opens setup again after the restart.
GateOnly ==
    /\ job.at = "gate"
    /\ IF app.enabled
       THEN Becomes("gated") /\ UNCHANGED <<provider, limactl, done, features, runonce, app>>
       ELSE Remember("gate") /\ UNCHANGED <<provider, limactl, features, runonce, app>>

\* reboot_required() is what this app remembers of the features.
Gate ==
    /\ job.at = "gate"
    /\ IF app.enabled
       THEN Becomes("gated") /\ runonce' = TRUE /\ UNCHANGED <<provider, limactl, done, features, app>>
       ELSE Remember("gate") /\ UNCHANGED <<provider, limactl, features, runonce, app>>

\* The restart itself satisfies the gate.
Gated ==
    /\ job.at = "gated" /\ EndsJob("reboot")
    /\ done' = done \cup {"gate"}
    /\ UNCHANGED <<provider, limactl, features, runonce, app>>

\* fetch(): what was fetched before is taken, and what is not it is not kept.
Fetch ==
    /\ job.at \in {"image", "download"}
    /\ Becomes(IF job.at = "image" THEN "create" ELSE "launch")
    /\ UNCHANGED host

BeforeVM ==
    /\ Preflight \/ Lima \/ Swap \/ Remediate \/ Remediated \/ Gate \/ Gated \/ Fetch
    /\ UNCHANGED <<inVM, connected, stops>>

\* _ensure_vm_running(): a machine that is there is started; else it is made.
\* WSL imports the distro, has it told to use systemd, and starts it again.
Create ==
    /\ job.at = "create" /\ Manages
    /\ \/ vm # "none" /\ Becomes("start") /\ UNCHANGED vm
       \/ provider = "wsl" /\ features # "on" /\ EndsJob("failed") /\ UNCHANGED vm
       \/ provider = "wsl" /\ features = "on" /\ vm = "none" /\ Becomes("conf") /\ vm' = "off"
    /\ UNCHANGED <<systemd, token, run, torn, faults>>

\* Lima makes a machine and starts it, or leaves it off.
CreateLima ==
    /\ job.at = "create" /\ provider = "lima" /\ Manages /\ vm = "none"
    /\ systemd' = TRUE
    /\ \/ vm' = "on" /\ Becomes("start") /\ UNCHANGED faults
       \/ vm' = "off" /\ EndsJob("failed") /\ Fault
    /\ UNCHANGED <<token, run, torn>>

Conf ==
    /\ job.at = "conf" /\ vm # "none" /\ Becomes("terminate")
    /\ Boot(systemd) /\ systemd' = TRUE
    /\ UNCHANGED <<torn, faults>>

Terminate ==
    /\ job.at = "terminate" /\ vm # "none" /\ Becomes("start") /\ Stop
    /\ UNCHANGED <<systemd, token, faults>>

Creation ==
    /\ Create \/ CreateLima \/ Conf \/ Terminate
    /\ UNCHANGED <<disk, declared, service, newest, host, connected, stops>>

\* Any command boots a distro that is off; Lima refuses one but to start.
Booting == IF provider = "wsl" THEN Commands ELSE {"start"}

Wakes ==
    /\ job.at \in Booting /\ Manages /\ vm = "off"
    /\ Boot(systemd)
    /\ UNCHANGED <<systemd, disk, declared, service, world, host, job, connected, stops>>

\* A test project that does not work is removed before setup fails.
GivesUp == IF job.at \in Verifying THEN Becomes("abandon") ELSE EndsJob("failed")

NoApi == vm # "on" \/ service = None

\* A machine that has been removed, has gone off while it was called, or cannot
\* be reached without Lima, which stops none that is off and removes none that
\* runs.
NoMachine ==
    /\ \/ job.at \in Commands \cup {"create", "halt", "destroy"} /\ ~Manages
       \/ job.at \in Commands \cup {"conf", "terminate", "halt", "destroy"} /\ vm = "none"
       \/ job.at = "halt" /\ provider = "lima" /\ vm = "off"
       \/ job.at = "destroy" /\ provider = "lima" /\ vm = "on"
       \/ job.at \in Commands \ Booting /\ vm = "off"
       \/ job.at \in Calls \cup Verifying \cup Removing /\ job.at # "wait" /\ NoApi
    /\ GivesUp
    /\ UNCHANGED <<inVM, host, connected, stops>>

\* bootstrap() of setup runs get.sh unless the marker is there.
Started ==
    /\ job.at = "start" /\ vm = "on" /\ Manages
    /\ IF job.kind # "install" THEN EndsJob("done")
       ELSE Becomes(IF disk.marker = None THEN "exec" ELSE "declare")
    /\ UNCHANGED <<inVM, host, connected, stops>>

-----------------------------------------------------------------------------
\* bootstrap() runs get.sh in the machine and, when it has ended, looks for the
\* marker.  Setup and a repair may leave none, so what the app found is not known
\* any more.
Exec ==
    /\ job.at = "exec" /\ vm = "on" /\ Manages
    /\ Becomes("wait")
    /\ run' = [run EXCEPT !["host"] =
                 [NoRun EXCEPT !.at = "lock", !.mode = job.mode, !.api = app.api]]
    /\ connected' = (connected /\ job.mode = "update")
    /\ UNCHANGED <<vm, systemd, disk, declared, service, token, world, host, stops>>

Wait ==
    /\ job.at = "wait" /\ run["host"].at \in {"ok", "failed"}
    /\ IF run["host"].at = "ok" THEN Becomes("after") ELSE EndsJob("failed")
    /\ run' = [run EXCEPT !["host"] = NoRun]
    /\ UNCHANGED <<vm, systemd, disk, declared, service, token, world, host, connected, stops>>

After ==
    /\ job.at = "after" /\ vm = "on" /\ Manages
    /\ IF disk.marker = None THEN EndsJob("failed")
       ELSE Becomes(IF job.then = "declare" THEN "declare" ELSE "client")
    /\ UNCHANGED <<inVM, host, connected, stops>>

\* connect_with_updates(): the machine is told what the app speaks.
Declare ==
    /\ job.at = "declare" /\ vm = "on" /\ Manages
    /\ declared' = app.api /\ Becomes("client")
    /\ UNCHANGED <<vm, systemd, files, run, world, host, connected, stops>>

\* A client is made with the token that the machine has now.
Client ==
    /\ job.at \in {"client", "tester"} /\ vm = "on" /\ Manages
    /\ IF token = "missing" THEN EndsJob("failed")
       ELSE Becomes(CASE job.at = "tester" -> "ensure"
                      [] job.at = "client" /\ job.then = "version" -> "version"
                      [] OTHER -> "health")
    /\ UNCHANGED <<inVM, host, connected, stops>>

Bootstraps(mode, then) ==
    job' = [job EXCEPT !.at = "exec", !.mode = mode, !.then = then]

\* connect_step(): an API of another number is updated, once.
Health ==
    /\ job.at = "health" /\ ~NoApi
    /\ IF Api(service) = app.api THEN Becomes("version")
       ELSE IF job.then = "client" THEN EndsJob("failed")
       ELSE Bootstraps("update", "client")
    /\ connected' = (connected \/ (run["left"].at = "off" /\ disk.marker # None /\ Api(service) = app.api))
    /\ UNCHANGED <<inVM, host, stops>>

\* An API that refuses the token is repaired, once.
Version ==
    /\ job.at = "version" /\ ~NoApi
    /\ IF token # "unread" THEN (IF job.kind = "install" THEN Becomes("tester") ELSE EndsJob("done"))
       ELSE IF job.then = "version" THEN EndsJob("failed")
       ELSE Bootstraps("repair", "version")
    /\ UNCHANGED <<inVM, host, connected, stops>>

\* verify_step(): the test project is made, or taken from before, and has its
\* files uploaded.
Ensure == job.at = "ensure" /\ ~NoApi /\ Becomes("up")

\* A job of the API brings it up, and says how that went.
WaitForJob == job.at = "up" /\ ~NoApi /\ (Becomes("probe") \/ Becomes("abandon"))

\* What its address answers, in time or too late.
AwaitHttpOk == job.at = "probe" /\ ~NoApi /\ (Becomes("teardown") \/ Becomes("abandon"))

\* _teardown(): whatever the test has shown, its project is removed.
Teardown ==
    /\ job.at \in Removing /\ ~NoApi
    /\ EndsJob(IF job.at = "teardown" THEN "done" ELSE "failed")

Verify ==
    /\ Ensure \/ WaitForJob \/ AwaitHttpOk \/ Teardown
    /\ UNCHANGED <<inVM, host, connected, stops>>

\* start_import(): the project is deleted when it is to be replaced; then it is
\* made, and has its files uploaded.
Import ==
    /\ job.at \in {"replace", "import"} /\ ~NoApi
    /\ IF token # "unread" /\ job.at = "replace" THEN Becomes("import") ELSE EndsJob("done")
    /\ UNCHANGED <<inVM, host, connected, stops>>

Closed == [app EXCEPT !.at = "closed", !.enabled = FALSE, !.declared = FALSE]

\* start_app_update(): the installer is opened and the app closed.  An
\* installation that is gone through with brings an app that speaks the next api
\* and wants the next Lima.
Launch ==
    /\ job.at = "launch" /\ job' = NoJob
    /\ \/ app' = Closed /\ UNCHANGED <<limactl, connected>>
       \/ /\ app' = [Closed EXCEPT !.api = 2] /\ connected' = FALSE
          /\ limactl' = IF provider = "lima" /\ limactl = "pinned" THEN "older" ELSE limactl
    /\ UNCHANGED <<inVM, provider, done, features, runonce, stops>>

\* A step that fails; a Lima that was put aside is put back.
Fails ==
    /\ job.kind # "none" /\ job.at \notin {"wait", "remediated", "gated", "downloads"}
    /\ GivesUp /\ Fault
    /\ limactl' = IF job.at = "swap" THEN "older" ELSE limactl
    /\ UNCHANGED <<vm, systemd, files, declared, run, newest, torn, connected, stops>>
    /\ UNCHANGED <<provider, done, features, runonce, app>>

-----------------------------------------------------------------------------
StopIfOn == IF vm = "on" THEN Stop ELSE UNCHANGED <<vm, run, torn>>

\* stop(): a machine that runs is powered off, and what is on by then terminated;
\* one that does not answer is only terminated.  Lima has one command for both.
Poweroff ==
    /\ job.at = "poweroff" /\ Becomes("halt")
    /\ StopIfOn

Halt ==
    /\ job.at = "halt" /\ Manages /\ StopIfOn
    /\ vm = "on" \/ (vm = "off" /\ provider = "wsl")
    /\ IF job.kind = "stop" THEN EndsJob("done") ELSE Becomes("start")

Stops ==
    /\ Poweroff \/ Halt
    /\ UNCHANGED <<systemd, files, declared, newest, faults, host, connected, stops>>

\* Nothing of the machine is left.
Destroyed ==
    /\ vm' = "none" /\ systemd' = FALSE
    /\ disk' = EmptyDisk /\ declared' = None /\ service' = None /\ token' = "missing"
    /\ run' = [w \in Runs |-> Ended(w)]
    /\ torn' = FALSE /\ connected' = FALSE

\* Lima removes no machine that runs.
Removable == Manages /\ (provider = "lima" => vm = "off")

\* remove_downloads() removes the app's Lima too.
Downloads == IF provider = "lima" THEN "missing" ELSE limactl

\* start_uninstall(): with the machine, what is remembered of setup goes, and the
\* downloads may.
Destroy ==
    /\ job.at = "destroy" /\ vm # "none" /\ Removable /\ Destroyed
    /\ Becomes("data")
    /\ UNCHANGED <<newest, faults, host, stops>>

RemoveVmData ==
    /\ job.at = "data" /\ done' = {}
    /\ EndsJob("done") \/ Becomes("downloads")
    /\ UNCHANGED <<inVM, provider, limactl, features, runonce, app, connected, stops>>

RemoveDownloads ==
    /\ job.at = "downloads" /\ limactl' = Downloads /\ EndsJob("done")
    /\ UNCHANGED <<inVM, provider, done, features, runonce, app, connected, stops>>

Uninstall == Destroy \/ RemoveVmData \/ RemoveDownloads

\* A machine is started at login, and started, stopped and removed from a
\* terminal, whatever the app is at.
BesideStart ==
    /\ vm = "off" /\ Manages /\ Boot(systemd)
    /\ UNCHANGED <<systemd, disk, declared, service, world, host, job, connected, stops>>

PowerOff == StopIfOn /\ IF vm = "on" THEN OneStop ELSE UNCHANGED stops

BesideStop ==
    /\ vm = "on" /\ Manages /\ PowerOff
    /\ UNCHANGED <<systemd, files, declared, newest, faults, host, job, connected>>

BesideDestroy ==
    /\ vm # "none" /\ Removable /\ OneStop /\ Destroyed
    /\ UNCHANGED <<newest, faults, host, job>>

\* `omelet uninstall --purge` removes what it can.
BesideUninstall ==
    /\ OneStop
    /\ IF Removable THEN Destroyed
       ELSE UNCHANGED <<vm, systemd, files, declared, run, torn, connected>>
    /\ done' = {} /\ limactl' = Downloads
    /\ UNCHANGED <<newest, faults, provider, features, runonce, app, job>>

\* reset_install(): setup begins anew.
Reset ==
    /\ app.at = "open" /\ job.at = "failed"
    /\ done' = {} /\ job' = NoJob
    /\ UNCHANGED <<inVM, provider, limactl, features, runonce, app, connected, stops>>

\* home() tells the machine what the app speaks, once while the app is open.
Home ==
    /\ app.at = "open" /\ vm = "on" /\ Manages /\ ~app.declared
    /\ declared' = app.api /\ app' = [app EXCEPT !.declared = TRUE]
    /\ UNCHANGED <<vm, systemd, files, run, world, job, connected, stops>>
    /\ UNCHANGED <<provider, limactl, done, features, runonce>>

\* Quit stops the machine beside a job that goes on, then ends the app; a
\* machine that does not answer is left.
Quit ==
    /\ app.at = "open" /\ app' = [app EXCEPT !.at = "quitting"]
    /\ \/ Manages /\ PowerOff /\ UNCHANGED faults
       \/ (IF Manages THEN Fault ELSE UNCHANGED faults) /\ UNCHANGED <<vm, run, torn, stops>>
    /\ UNCHANGED <<systemd, files, declared, newest, job, connected>>
    /\ UNCHANGED <<provider, limactl, done, features, runonce>>

\* A run that is not through goes on.  Bound: one is left behind at a time.
Exit ==
    /\ app.at = "quitting" /\ app' = Closed /\ job' = NoJob
    /\ \/ /\ run["host"].at \in {"off", "ok", "failed"}
          /\ run' = [run EXCEPT !["host"] = NoRun]
       \/ /\ run["host"].at \notin {"off", "ok", "failed"} /\ run["left"].at = "off"
          /\ run' = [run EXCEPT !["left"] = run["host"], !["host"] = NoRun]
    /\ UNCHANGED <<vm, systemd, disk, declared, service, token, world>>
    /\ UNCHANGED <<provider, limactl, done, features, runonce, connected, stops>>

Open ==
    /\ app.at = "closed" /\ app' = [app EXCEPT !.at = "open"]
    /\ UNCHANGED <<inVM, provider, limactl, done, features, runonce, job, connected, stops>>

\* The computer restarts; Windows opens setup again if it was told to.
Restart ==
    /\ IF vm = "on" THEN OneStop /\ GoesOff ELSE UNCHANGED <<stops, vm, torn>>
    /\ run' = [w \in Runs |-> NoRun]
    /\ features' = IF features = "pending" THEN "on" ELSE features
    /\ runonce' = FALSE
    /\ app' = IF runonce THEN [app EXCEPT !.at = "open", !.enabled = FALSE, !.declared = FALSE] ELSE Closed
    /\ job' = IF runonce THEN [NoJob EXCEPT !.kind = "install", !.at = From(1)] ELSE NoJob
    /\ UNCHANGED <<systemd, files, declared, newest, faults, provider, limactl, done, connected>>

User ==
    \/ \E kind \in Kinds : Start(kind)
    \/ StartImport \/ StartAppUpdate
    \/ BesideStart \/ BesideStop \/ BesideDestroy \/ BesideUninstall
    \/ Reset \/ Home \/ Quit \/ Open \/ Restart

\* Between its stop and its end, an app has the time for one command at most.
Job ==
    \/ /\ app.at = "open"
       /\ \/ BeforeVM \/ Creation \/ NoMachine \/ Started
          \/ Exec \/ Wait \/ After \/ Declare \/ Client \/ Health \/ Version
          \/ Verify \/ Import \/ Launch \/ Stops \/ Uninstall \/ Fails
    \/ Wakes

Next ==
    \/ User \/ Job \/ Exit
    \/ InVM /\ UNCHANGED <<host, job, connected, stops>>

Fairness ==
    /\ WF_vars(Job) /\ WF_vars(Exit)
    /\ WF_vars(BootUpdate /\ UNCHANGED <<host, job, connected, stops>>)
    /\ \A w \in Runs : WF_vars(GetSh(w) /\ UNCHANGED <<host, job, connected, stops>>)

Spec == Init /\ [][Next]_vars /\ Fairness

-----------------------------------------------------------------------------
\* Once an app has found an installed runtime it can use, and no run that an
\* earlier app has left behind is at work, no update at a boot and no fallback
\* of one leaves the machine marked with a release of an api that app does not
\* speak (get.sh, resolve_ref and lines 111-117; boot-update.sh, accepted_api;
\* core/install.py, connect_step).  A setup or a repair begins this anew: what
\* the app had found is not known any more.
StaysSupported ==
    connected /\ disk.marker # None => Api(disk.marker) = app.api

\* A job ends, whoever else has the lock of get.sh and whenever the machine
\* is stopped, removed or started under it, as long as each command that it
\* runs ends; and when it ended to have the computer restarted, Windows opens
\* setup again (core/install.py, run_install and gate; desktop/jobs.py, _run;
\* desktop/api.py, stop_vm to start_uninstall).
JobEnds ==
    job.kind # "none" ~> (job.kind = "none" /\ (job.at = "reboot" => runonce))
=============================================================================
