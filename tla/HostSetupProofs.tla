--------------------------- MODULE HostSetupProofs ---------------------------
(***************************************************************************)
(* Theorems about HostSetup, and RuntimeInstall within it, for every       *)
(* number of releases, faults and stops, and wherever api 2 begins.  What  *)
(* a run of get.sh may find in the folders and the marker depends on the   *)
(* move it is at; what it may install depends on the api it was told, and  *)
(* that on what the machine was told by the app.                           *)
(***************************************************************************)
EXTENDS HostSetup, TLAPS

Disk == [runtime : Release, prev : Release, prevVersion : Release, marker : Release]
Run == [at : Waiting \cup Installing \cup Moving, mode : {"install", "update", "repair"},
        api : Apis \cup {None}, installed : Release, ref : Release,
        why : {"new", "restore", "fallback"}, created : BOOLEAN]
App == [at : {"open", "quitting", "closed"}, api : Apis, enabled : BOOLEAN,
        declared : BOOLEAN]
Jobs == [kind : Kinds \cup {"import", "app_update", "none"},
         at : Endings \cup OnHost \cup OnMachine \cup Commands \cup Calls \cup Verifying
              \cup Removing,
         mode : {"install", "update", "repair"}, then : {"declare", "client", "version"}]

Over == {"off", "ok", "failed"}

\* The moves between the choice of a release and the end of its files' exchange.
Exchanging == {"clear", "keep", "swap", "replace", "place"}

-----------------------------------------------------------------------------
\* The machine and the job: no get.sh runs in one that is off, its systemd is
\* turned on once, and a job that updates has told it the api before.
Alive ==
    /\ vm # "on" => \A w \in Runs : run[w].at \in Over
    /\ vm = "none" \/ job.at = "conf" => ~systemd
    /\ run["boot"].mode = "update"

\* The host's run belongs to the job that waits for it.
Awaited == job.at = "wait" \/ run["host"].at = "off"

OneHolder == \A v, w \in Runs : Holds(v) /\ Holds(w) => v = w

\* It has not got as far as an update, or a repair that it found to be needed.
Anew(its) == its.mode # "update" /\ its.then = "declare"

JobFits ==
    /\ provider = "lima" => job.at \notin {"remediate", "remediated", "gate"}
    /\ job.at \in OnHost \cup {"start", "poweroff", "halt"} => Anew(job)
    /\ \/ job.at \in {"client", "health", "version"}
       \/ job.at \in {"exec", "wait", "after"} /\ job.then # "declare"
       => vm = "none" \/ declared = app.api

\* What a run knows of the marker, of the release it would go back to, and of the
\* one it installs.
Knows(r) ==
    /\ r.at \in Exchanging \cup {"tidy"} => r.why = "new"
    /\ r.at \in {"drop", "back", "untag"} => r.why # "new"
    /\ r.at \in {"token", "up", "mark", "drop", "back"} => disk.marker = None
    /\ r.at = "forget" /\ r.why # "new" => disk.marker = None
    /\ r.at = "mark" => service = r.ref
    /\ r.at \in {"tidy", "untag"} => disk.marker = r.ref
    /\ r.at \in Exchanging \/ (r.at = "forget" /\ r.why = "new") =>
          /\ disk.marker = r.installed
          /\ r.mode = "update" /\ disk.marker # None => r.ref > disk.marker
    /\ r.at \in (Exchanging \ {"clear"}) \cup Installing /\ r.why = "new" =>
          disk.prevVersion \in {None, r.installed}
    /\ r.at \in Exchanging \cup Installing /\ r.why = "new" /\ r.mode = "update" =>
          Api(r.ref) = r.api

Served == disk.marker # None => service = disk.marker

InVMFits == Served /\ \A w \in Runs : Knows(run[w])

-----------------------------------------------------------------------------
\* What is in the folders, as long as no stop came between their exchange and
\* the marker.
NothingIsKept == disk.prev = None /\ disk.prevVersion = None

OldIsKept(r) ==
    r.installed # None /\ disk.prev = r.installed /\ disk.prevVersion = r.installed

\* With no run at it.
Stands ==
    disk.marker # None =>
        \/ disk.runtime = disk.marker
        \/ disk.runtime = None /\ disk.prev = disk.marker

\* The release to go back to.
GoesBack ==
    /\ disk.prev # None => disk.prevVersion = disk.prev
    /\ disk.marker = None /\ disk.prevVersion # None /\ disk.prev = None =>
          disk.runtime = disk.prevVersion

Finds(r) ==
    /\ r.at = "unmoved" =>
          disk.prev # None /\ disk.runtime = None /\ disk.marker = disk.prev
    /\ r.at \in {"resolve", "clear", "replace", "tidy", "untag"} /\ disk.marker # None =>
          disk.runtime = disk.marker
    /\ r.at \in {"keep", "replace"} => NothingIsKept
    /\ r.at \in {"keep", "swap"} => r.installed # None /\ disk.runtime = r.installed
    /\ r.at = "swap" => disk.prev = None /\ disk.prevVersion = r.installed
    /\ r.at \in {"place", "back"} => disk.runtime = None
    /\ r.at \in Installing => disk.runtime = r.ref
    /\ r.at \in Installing \cup {"place"} /\ r.why = "new" => NothingIsKept \/ OldIsKept(r)
    /\ r.at \in Installing /\ r.why # "new" => disk.prev = None /\ disk.prevVersion = r.ref
    /\ r.at \in {"drop", "back"} => disk.prev # None /\ disk.prev = r.ref
    /\ r.at = "untag" => disk.prev = None

Folders ==
    ~torn => /\ GoesBack
             /\ \A w \in Runs : Finds(run[w])
             /\ Stands \/ \E w \in Runs : Holds(w)

-----------------------------------------------------------------------------
\* Nothing is of a later api than the app's, for that only grows.
NotAhead(release) == release # None => Api(release) <= app.api

DiskBehind ==
    \A release \in {disk.runtime, disk.prev, disk.prevVersion, disk.marker} : NotAhead(release)

RunBehind(r) == r.api <= app.api /\ NotAhead(r.ref) /\ NotAhead(r.installed)

Behind == DiskBehind /\ declared <= app.api /\ \A w \in Runs : RunBehind(run[w])

\* What is left once the app has found a runtime it can use: what the boot unit
\* began for another api changes nothing.
Own(release) == release # None => Api(release) = app.api

DiskOwn ==
    Own(service) /\ Own(disk.marker) /\ (disk.marker = None => Own(disk.prevVersion))

BootOwn(r) ==
    /\ r.at \notin Over \cup {"begin"} /\ r.api # app.api =>
          /\ disk.marker # None
          /\ r.at \in {"lock", "unmoved", "resolve", "tidy", "untag"}
    /\ r.at \in Exchanging \cup Installing \cup {"drop", "back"} => Own(r.ref)
    /\ r.at \in Exchanging \cup Installing /\ r.why = "new" => Own(r.installed)

Connection ==
    connected =>
        /\ declared = app.api /\ run["host"].at = "off" /\ run["left"].at = "off"
        /\ ~(job.at = "exec" /\ job.mode = "update")
        /\ DiskOwn /\ BootOwn(run["boot"])

Holding == Alive /\ Awaited /\ OneHolder /\ JobFits

IInv == TypeOK /\ Holding /\ InVMFits /\ Folders /\ Behind /\ Connection

-----------------------------------------------------------------------------
\* Values.

LEMMA ApiIs ==
    ASSUME RuntimeInstallAssumption
    PROVE  /\ \A r \in Release : Api(r) \in Apis /\ Api(r) \in Nat
           /\ \A r, s \in Release : r <= s => Api(r) <= Api(s)
           /\ Release \subseteq Nat /\ None \in Release /\ Releases \subseteq Release
           /\ MaxFaults \in Nat
BY DEF RuntimeInstallAssumption, Api, Apis, Release, Releases, None

LEMMA Constants ==
    ASSUME RuntimeInstallAssumption
    PROVE  /\ NoRun \in Run /\ NoRun.at = "off" /\ NoRun.mode = "update"
           /\ NoRun.api = None /\ NoRun.ref = None /\ NoRun.installed = None
           /\ EmptyDisk \in Disk /\ EmptyDisk.runtime = None /\ EmptyDisk.prev = None
           /\ EmptyDisk.prevVersion = None /\ EmptyDisk.marker = None
           /\ NoJob \in Jobs /\ NoJob.kind = "none" /\ NoJob.at = "done"
           /\ NoJob.mode = "install" /\ NoJob.then = "declare"
           /\ "boot" \in Runs /\ "host" \in Runs /\ "left" \in Runs
<1>1. NoRun \in Run
    BY ApiIs DEF NoRun, Run, Waiting
<1>2. EmptyDisk \in Disk
    BY ApiIs DEF EmptyDisk, Disk
<1>3. NoJob \in Jobs
    BY DEF NoJob, Jobs, Endings
<1> QED BY <1>1, <1>2, <1>3 DEF NoRun, EmptyDisk, NoJob, Runs

\* A run that is not at get.sh knows and finds nothing.
LEMMA Waits ==
    ASSUME NEW r, r.at \in Waiting
    PROVE  Knows(r) /\ Finds(r)
BY DEF Knows, Finds, Waiting, Installing, Exchanging

LEMMA Positions ==
    /\ Over \subseteq Waiting
    /\ \A at \in Waiting : at \notin Installing \cup Moving
    /\ Exchanging \subseteq Moving
BY DEF Over, Waiting, Installing, Moving, Exchanging

LEMMA Typed ==
    ASSUME TypeOK
    PROVE  /\ disk \in Disk /\ run \in [Runs -> Run] /\ app \in App /\ job \in Jobs
           /\ \A w \in Runs : run[w] \in Run
BY DEF TypeOK, InVMTypeOK, Disk, Run, App, Jobs

-----------------------------------------------------------------------------
\* What a step does to the runs.

\* The same run, but for what it is waited for.
SameRun(r, s) ==
    /\ r.at = s.at /\ r.mode = s.mode /\ r.api = s.api /\ r.installed = s.installed
    /\ r.ref = s.ref /\ r.why = s.why

Idles(w) ==
    \/ run[w].at \in Waiting /\ run'[w].at \in Waiting
    \/ SameRun(run'[w], run[w])

LEMMA InsideIdles ==
    ASSUME IInv, UNCHANGED <<disk, service, torn>>, \A w \in Runs : Idles(w)
    PROVE  InVMFits' /\ Folders' /\ OneHolder'
<1>1. \A w \in Runs : Knows(run[w])
    BY DEF IInv, InVMFits
<1>2. ASSUME NEW w \in Runs
      PROVE  Knows(run[w])' /\ (Finds(run[w]) => Finds(run[w])') /\ (Holds(w)' <=> Holds(w))
    <2>1. CASE run[w].at \in Waiting /\ run'[w].at \in Waiting
        <3>1. run'[w].at \in Waiting /\ UNCHANGED <<disk, service>>
            BY <2>1
        <3>2. Knows(run[w])' /\ Finds(run[w])'
            BY <3>1 DEF Knows, Finds, Waiting, Installing, Exchanging
        <3> QED BY <2>1, <3>2 DEF Holds
    <2>2. CASE SameRun(run'[w], run[w])
        <3>1. Knows(run[w])'
            BY <1>1, <2>2 DEF SameRun, Knows
        <3>2. Finds(run[w]) => Finds(run[w])'
            BY <2>2 DEF SameRun, Finds, NothingIsKept, OldIsKept
        <3>3. Holds(w)' <=> Holds(w)
            BY <2>2 DEF SameRun, Holds
        <3> QED BY <3>1, <3>2, <3>3
    <2> QED BY <2>1, <2>2 DEF Idles
<1>3. InVMFits'
    BY <1>2 DEF IInv, InVMFits, Served
<1>4. Folders'
    BY <1>2 DEF IInv, Folders, GoesBack, Stands
<1>5. OneHolder'
    BY <1>2 DEF IInv, Holding, OneHolder
<1> QED BY <1>3, <1>4, <1>5

\* The machine stops, and every run with it.
LEMMA InsideStops ==
    ASSUME IInv, UNCHANGED <<disk, service>>, GoesOff, \A w \in Runs : run'[w].at \in Over
    PROVE  InVMFits' /\ Folders' /\ OneHolder'
<1>1. ASSUME NEW w \in Runs
      PROVE  Knows(run[w])' /\ Finds(run[w])' /\ ~Holds(w)'
    BY DEF Knows, Finds, Over, Waiting, Installing, Exchanging, Holds
<1>2. InVMFits' /\ OneHolder'
    BY <1>1 DEF IInv, InVMFits, Served, OneHolder
<1>3. ASSUME ~torn'
      PROVE  GoesBack' /\ Stands'
    <2>1. ~torn /\ \A w \in Runs : ~Exchanged(w)
        BY <1>3 DEF GoesOff, IInv, TypeOK, InVMTypeOK
    <2>2. GoesBack /\ \A w \in Runs : Finds(run[w]) /\ Knows(run[w])
        BY <2>1 DEF IInv, Folders, InVMFits
    <2>3. ASSUME NEW w \in Runs, Holds(w) PROVE Stands
        <3>1. run[w].at \in Installing \cup Moving /\ run[w] \in Run
            BY <2>3, Typed DEF IInv, Holds, Run
        <3>2. CASE run[w].at \in {"unmoved", "resolve", "clear", "replace", "tidy", "untag"}
            BY <2>2, <3>2 DEF Finds, Stands
        <3>3. CASE run[w].at \in {"keep", "swap"}
            BY <2>2, <3>3 DEF Finds, Knows, Exchanging, Stands
        <3>4. CASE run[w].at = "place"
            BY <2>1, <2>2, <3>4 DEF Finds, Knows, Exchanging, Stands, Exchanged, OldIsKept,
               NothingIsKept
        <3>5. CASE run[w].at = "forget"
            BY <2>1, <3>5 DEF Exchanged, Stands
        <3>6. CASE run[w].at \in {"token", "up", "mark", "drop", "back"}
            BY <2>2, <3>6 DEF Knows, Stands
        <3> QED BY <3>1, <3>2, <3>3, <3>4, <3>5, <3>6 DEF Installing, Moving
    <2>4. Stands
        BY <2>1, <2>3 DEF IInv, Folders
    <2> QED BY <2>2, <2>4 DEF GoesBack, Stands
<1>4. Folders'
    BY <1>1, <1>3 DEF Folders
<1> QED BY <1>2, <1>4

\* Nothing of the machine is left.
LEMMA InsideEmpties ==
    ASSUME RuntimeInstallAssumption, disk' = EmptyDisk, \A w \in Runs : run'[w].at \in Over
    PROVE  InVMFits' /\ Folders' /\ OneHolder'
<1>1. ASSUME NEW w \in Runs
      PROVE  Knows(run[w])' /\ Finds(run[w])' /\ ~Holds(w)'
    BY DEF Knows, Finds, Over, Waiting, Installing, Exchanging, Holds
<1>2. /\ disk'.runtime = None /\ disk'.prev = None /\ disk'.prevVersion = None
      /\ disk'.marker = None
    BY Constants
<1>3. InVMFits' /\ OneHolder'
    BY <1>1, <1>2 DEF InVMFits, Served, OneHolder
<1>4. Folders'
    BY <1>1, <1>2 DEF Folders, GoesBack, Stands
<1> QED BY <1>3, <1>4

-----------------------------------------------------------------------------
\* The moves of get.sh.

\* Only this run moves.
Alone(w) == run' \in [Runs -> Run] /\ \A v \in Runs : v # w => run'[v] = run[v]

LEMMA OnlyIts ==
    ASSUME run \in [Runs -> Run], NEW w \in Runs, NEW its \in Run,
           run' = [run EXCEPT ![w] = its]
    PROVE  Alone(w) /\ run'[w] = its
BY DEF Alone

LEMMA ToIs ==
    ASSUME run \in [Runs -> Run], NEW w \in Runs,
           NEW at \in Waiting \cup Installing \cup Moving, To(w, at)
    PROVE  /\ Alone(w) /\ run'[w].at = at
           /\ run'[w].mode = run[w].mode /\ run'[w].api = run[w].api
           /\ run'[w].installed = run[w].installed /\ run'[w].ref = run[w].ref
           /\ run'[w].why = run[w].why
<1> DEFINE its == [run[w] EXCEPT !.at = at]
<1>1. run' = [run EXCEPT ![w] = its]
    BY DEF To
<1>2. its \in Run
    BY DEF Run
<1>3. /\ its.at = at /\ its.mode = run[w].mode /\ its.api = run[w].api
      /\ its.installed = run[w].installed /\ its.ref = run[w].ref /\ its.why = run[w].why
    BY DEF Run
<1> HIDE DEF its
<1> QED BY <1>1, <1>2, <1>3, OnlyIts

\* What a run that is over looks like.
Ending(r) == r.at \in Over /\ r.mode = "update" /\ r.api = None /\ r.installed = None /\ r.ref = None

LEMMA ResultIs ==
    ASSUME RuntimeInstallAssumption, NEW w, NEW result \in {"ok", "failed"}
    PROVE  Result(w, result) \in Run /\ Ending(Result(w, result))
<1> DEFINE its == [NoRun EXCEPT !.at = result]
<1>1. its \in Run
    BY Constants DEF Run, Waiting
<1>2. Ending(its)
    BY Constants DEF Run, Ending, Over
<1>3. Ending(NoRun)
    BY Constants DEF Ending, Over
<1> QED BY <1>1, <1>2, <1>3, Constants DEF Result

LEMMA EndsIs ==
    ASSUME RuntimeInstallAssumption, run \in [Runs -> Run], NEW w \in Runs,
           NEW result \in {"ok", "failed"}, Ends(w, result)
    PROVE  Alone(w) /\ Ending(run'[w])
<1>1. Result(w, result) \in Run /\ Ending(Result(w, result))
    BY ResultIs
<1>2. run' = [run EXCEPT ![w] = Result(w, result)]
    BY DEF Ends
<1> QED BY <1>1, <1>2, OnlyIts

\* A move of the run that has the lock, or has just got it, keeps everything, if
\* it keeps what that run knows and finds and what is of which api.
Installs(w) ==
    /\ run[w].at \notin Over /\ \A v \in Runs : v # w => run[v].at \in Waiting
    /\ Alone(w) /\ (w = "boot" => run'[w].mode = "update")
    /\ disk' \in Disk /\ service' \in Release /\ token' \in {"missing", "unread", "read"}
    /\ faults' \in 0..MaxFaults
    /\ UNCHANGED <<machine, newest, torn, host, job, connected, stops>>

LEMMA Moves ==
    ASSUME RuntimeInstallAssumption, IInv, NEW w \in Runs, Installs(w),
           Served', Knows(run[w])',
           ~torn => GoesBack' /\ Finds(run[w])' /\ (Stands' \/ run'[w].at \notin Waiting),
           DiskBehind', RunBehind(run[w])',
           connected /\ w = "boot" => DiskOwn' /\ BootOwn(run["boot"])'
    PROVE  IInv'
<1>1. run' \in [Runs -> Run] /\ \A v \in Runs : v # w => run'[v] = run[v]
    BY DEF Installs, Alone
<1>2. TypeOK'
    <2>1. InVMTypeOK'
        BY <1>1 DEF IInv, TypeOK, InVMTypeOK, Installs, machine, Disk, Run
    <2> QED BY <2>1 DEF IInv, TypeOK, Installs, host
<1>3. Alive'
    <2>1. vm = "on"
        BY DEF IInv, Holding, Alive, Installs
    <2>2. run'["boot"].mode = "update"
        BY <1>1, Constants DEF IInv, Holding, Alive, Installs
    <2> QED BY <2>1, <2>2 DEF IInv, Holding, Alive, Installs, machine
<1>12. Awaited'
    <2>1. CASE w = "host"
        BY <2>1 DEF IInv, Holding, Awaited, Installs, Over
    <2>2. CASE w # "host"
        BY <1>1, <2>2, Constants DEF IInv, Holding, Awaited, Installs
    <2> QED BY <2>1, <2>2
<1>4. \A v \in Runs : v # w => run'[v].at \in Waiting
    BY <1>1 DEF Installs
<1>5. OneHolder'
    BY <1>4 DEF OneHolder, Holds
<1>6. JobFits'
    BY DEF IInv, Holding, JobFits, Anew, Installs, machine, host
<1>7. \A v \in Runs : v # w => Knows(run[v])' /\ Finds(run[v])'
    BY <1>4 DEF Knows, Finds, Waiting, Installing, Exchanging
<1>8. InVMFits'
    BY <1>7 DEF InVMFits
<1>9. Folders'
    <2>1. torn' = torn
        BY DEF Installs
    <2>2. ASSUME ~torn PROVE Stands' \/ \E v \in Runs : Holds(v)'
        BY <2>2 DEF Holds
    <2> QED BY <1>7, <2>1, <2>2 DEF Folders
<1>10. Behind'
    <2>1. \A v \in Runs : v # w => RunBehind(run[v])'
        BY <1>1 DEF IInv, Behind, RunBehind, NotAhead, Installs, host
    <2> QED BY <2>1 DEF IInv, Behind, Installs, machine, host
<1>11. Connection'
    <2>1. SUFFICES ASSUME connected PROVE Connection'
        BY DEF Connection, Installs
    <2>2. /\ run["host"].at = "off" /\ run["left"].at = "off" /\ declared = app.api
          /\ ~(job.at = "exec" /\ job.mode = "update")
        BY <2>1 DEF IInv, Connection
    <2>3. w = "boot" /\ run'["host"] = run["host"] /\ run'["left"] = run["left"]
        BY <1>1, <2>2, Constants DEF Installs, Over, Runs
    <2> QED BY <2>1, <2>2, <2>3 DEF Connection, Installs, machine, host
<1> QED BY <1>2, <1>3, <1>12, <1>5, <1>6, <1>8, <1>9, <1>10, <1>11 DEF IInv, Holding

\* What holds of the run that moves, and of the folders as it finds them.
LEMMA Holder ==
    ASSUME IInv, NEW w \in Runs, run[w].at \notin Over, \A v \in Runs : v # w => ~Holds(v)
    PROVE  /\ \A v \in Runs : v # w => run[v].at \in Waiting
           /\ Knows(run[w]) /\ Served /\ (~torn => GoesBack /\ Finds(run[w]))
           /\ DiskBehind /\ RunBehind(run[w])
           /\ (w = "boot" => run[w].mode = "update")
           /\ (connected => w = "boot" /\ DiskOwn /\ BootOwn(run[w]))
<1>1. \A v \in Runs : v # w => run[v].at \in Waiting
    BY DEF Holds
<1>2. Knows(run[w]) /\ Served /\ (~torn => GoesBack /\ Finds(run[w]))
    BY DEF IInv, InVMFits, Folders
<1>3. DiskBehind /\ RunBehind(run[w])
    BY DEF IInv, Behind
<1>4. w = "boot" => run[w].mode = "update"
    BY DEF IInv, Holding, Alive
<1>5. connected => w = "boot" /\ DiskOwn /\ BootOwn(run[w])
    BY DEF IInv, Connection, Over, Runs
<1> QED BY <1>1, <1>2, <1>3, <1>4, <1>5

LEMMA Alones ==
    ASSUME IInv, NEW w \in Runs, Holds(w)
    PROVE  run[w].at \notin Over /\ \A v \in Runs : v # w => ~Holds(v)
BY DEF IInv, Holding, OneHolder, Holds, Over, Waiting

\* A move of the folders leaves everything else alone.
LEMMA MoveIs ==
    ASSUME RuntimeInstallAssumption, IInv, NEW w \in Runs,
           NEW at \in Moving, NEW change \in Disk, NEW next \in Installing \cup Moving,
           Does(w, at, change, next),
           UNCHANGED <<service, token, machine, world, host, job, connected, stops>>
    PROVE  /\ run[w].at = at /\ disk' = change /\ run'[w].at = next
           /\ run'[w].mode = run[w].mode /\ run'[w].api = run[w].api
           /\ run'[w].installed = run[w].installed /\ run'[w].ref = run[w].ref
           /\ run'[w].why = run[w].why
           /\ Holds(w) /\ \A v \in Runs : v # w => ~Holds(v)
           /\ Installs(w) /\ run[w] \in Run /\ run'[w].at \notin Waiting
<1>1. run[w].at = at /\ disk' = change /\ To(w, next)
    BY DEF Does
<1>2. Holds(w) /\ next \notin Waiting
    BY <1>1, Positions DEF Holds
<1>3. run[w].at \notin Over /\ \A v \in Runs : v # w => ~Holds(v)
    BY <1>2, Alones
<1>4. /\ Alone(w) /\ run'[w].at = next
      /\ run'[w].mode = run[w].mode /\ run'[w].api = run[w].api
      /\ run'[w].installed = run[w].installed /\ run'[w].ref = run[w].ref
      /\ run'[w].why = run[w].why
    BY <1>1, Typed, ToIs DEF IInv
<1>5. w = "boot" => run[w].mode = "update"
    BY <1>3, Holder
<1>6. Installs(w)
    <2>1. service \in Release /\ token \in {"missing", "unread", "read"} /\ faults \in 0..MaxFaults
        BY DEF IInv, TypeOK, InVMTypeOK
    <2> QED BY <1>1, <1>3, <1>4, <1>5, <2>1 DEF Installs, Holds, world
<1>7. run[w] \in Run
    BY Typed DEF IInv
<1> QED BY <1>1, <1>2, <1>3, <1>4, <1>6, <1>7

LEMMA UnmovedKeeps ==
    ASSUME RuntimeInstallAssumption, IInv, NEW w \in Runs,
           Does(w, "unmoved", [disk EXCEPT !.runtime = disk.prev, !.prev = None], "resolve"),
           UNCHANGED <<service, token, machine, world, host, job, connected, stops>>
    PROVE  IInv'
<1> DEFINE change == [disk EXCEPT !.runtime = disk.prev, !.prev = None]
<1>1. disk \in Disk /\ run[w] \in Run
    BY Typed DEF IInv
<1>2. /\ change \in Disk /\ change.runtime = disk.prev /\ change.prev = None
      /\ change.prevVersion = disk.prevVersion /\ change.marker = disk.marker
    BY <1>1, ApiIs DEF Disk, Run
<1> HIDE DEF change
<1>3. Does(w, "unmoved", change, "resolve")
    BY DEF change
<1>4. "unmoved" \in Moving /\ "resolve" \in Installing \cup Moving
    BY DEF Moving, Installing
<1>5. /\ run[w].at = "unmoved" /\ disk' = change /\ run'[w].at = "resolve"
      /\ run'[w].mode = run[w].mode /\ run'[w].api = run[w].api
      /\ run'[w].installed = run[w].installed /\ run'[w].ref = run[w].ref
      /\ run'[w].why = run[w].why
      /\ Holds(w) /\ \A v \in Runs : v # w => ~Holds(v)
      /\ Installs(w) /\ run'[w].at \notin Waiting
    BY <1>2, <1>3, <1>4, MoveIs
<1>6. /\ Knows(run[w]) /\ Served /\ (~torn => GoesBack /\ Finds(run[w]))
      /\ DiskBehind /\ RunBehind(run[w])
      /\ (connected => w = "boot" /\ DiskOwn /\ BootOwn(run[w]))
    BY <1>5, Alones, Holder
<1>7. app' = app /\ service' = service
    BY DEF host
<1>8. Served' /\ Knows(run[w])'
    BY <1>2, <1>5, <1>6, <1>7 DEF Served, Knows, Exchanging, Installing
<1>9. ~torn => GoesBack' /\ Finds(run[w])'
    BY <1>1, <1>2, <1>5, <1>6 DEF GoesBack, Finds, Knows, Exchanging, Installing, NothingIsKept, OldIsKept
<1>10. DiskBehind' /\ RunBehind(run[w])'
    BY <1>2, <1>5, <1>6, <1>7 DEF DiskBehind, RunBehind, NotAhead
<1>11. connected /\ w = "boot" => DiskOwn' /\ BootOwn(run["boot"])'
    BY <1>2, <1>5, <1>6, <1>7 DEF DiskOwn, BootOwn, Own, Knows, Exchanging, Installing, Over
<1> QED BY <1>5, <1>8, <1>9, <1>10, <1>11, Moves

LEMMA KeepKeeps ==
    ASSUME RuntimeInstallAssumption, IInv, NEW w \in Runs,
           Does(w, "keep", [disk EXCEPT !.prevVersion = run[w].installed], "swap"),
           UNCHANGED <<service, token, machine, world, host, job, connected, stops>>
    PROVE  IInv'
<1> DEFINE change == [disk EXCEPT !.prevVersion = run[w].installed]
<1>1. disk \in Disk /\ run[w] \in Run
    BY Typed DEF IInv
<1>2. /\ change \in Disk /\ change.runtime = disk.runtime /\ change.prev = disk.prev
      /\ change.prevVersion = run[w].installed /\ change.marker = disk.marker
    BY <1>1, ApiIs DEF Disk, Run
<1> HIDE DEF change
<1>3. Does(w, "keep", change, "swap")
    BY DEF change
<1>4. "keep" \in Moving /\ "swap" \in Installing \cup Moving
    BY DEF Moving, Installing
<1>5. /\ run[w].at = "keep" /\ disk' = change /\ run'[w].at = "swap"
      /\ run'[w].mode = run[w].mode /\ run'[w].api = run[w].api
      /\ run'[w].installed = run[w].installed /\ run'[w].ref = run[w].ref
      /\ run'[w].why = run[w].why
      /\ Holds(w) /\ \A v \in Runs : v # w => ~Holds(v)
      /\ Installs(w) /\ run'[w].at \notin Waiting
    BY <1>2, <1>3, <1>4, MoveIs
<1>6. /\ Knows(run[w]) /\ Served /\ (~torn => GoesBack /\ Finds(run[w]))
      /\ DiskBehind /\ RunBehind(run[w])
      /\ (connected => w = "boot" /\ DiskOwn /\ BootOwn(run[w]))
    BY <1>5, Alones, Holder
<1>7. app' = app /\ service' = service
    BY DEF host
<1>8. Served' /\ Knows(run[w])'
    BY <1>2, <1>5, <1>6, <1>7 DEF Served, Knows, Exchanging, Installing
<1>9. ~torn => GoesBack' /\ Finds(run[w])'
    BY <1>1, <1>2, <1>5, <1>6 DEF GoesBack, Finds, Knows, Exchanging, Installing, NothingIsKept, OldIsKept
<1>10. DiskBehind' /\ RunBehind(run[w])'
    BY <1>2, <1>5, <1>6, <1>7 DEF DiskBehind, RunBehind, NotAhead
<1>11. connected /\ w = "boot" => DiskOwn' /\ BootOwn(run["boot"])'
    BY <1>2, <1>5, <1>6, <1>7 DEF DiskOwn, BootOwn, Own, Knows, Exchanging, Installing, Over
<1> QED BY <1>5, <1>8, <1>9, <1>10, <1>11, Moves

LEMMA SwapKeeps ==
    ASSUME RuntimeInstallAssumption, IInv, NEW w \in Runs,
           Does(w, "swap", [disk EXCEPT !.prev = disk.runtime, !.runtime = None], "place"),
           UNCHANGED <<service, token, machine, world, host, job, connected, stops>>
    PROVE  IInv'
<1> DEFINE change == [disk EXCEPT !.prev = disk.runtime, !.runtime = None]
<1>1. disk \in Disk /\ run[w] \in Run
    BY Typed DEF IInv
<1>2. /\ change \in Disk /\ change.runtime = None /\ change.prev = disk.runtime
      /\ change.prevVersion = disk.prevVersion /\ change.marker = disk.marker
    BY <1>1, ApiIs DEF Disk, Run
<1> HIDE DEF change
<1>3. Does(w, "swap", change, "place")
    BY DEF change
<1>4. "swap" \in Moving /\ "place" \in Installing \cup Moving
    BY DEF Moving, Installing
<1>5. /\ run[w].at = "swap" /\ disk' = change /\ run'[w].at = "place"
      /\ run'[w].mode = run[w].mode /\ run'[w].api = run[w].api
      /\ run'[w].installed = run[w].installed /\ run'[w].ref = run[w].ref
      /\ run'[w].why = run[w].why
      /\ Holds(w) /\ \A v \in Runs : v # w => ~Holds(v)
      /\ Installs(w) /\ run'[w].at \notin Waiting
    BY <1>2, <1>3, <1>4, MoveIs
<1>6. /\ Knows(run[w]) /\ Served /\ (~torn => GoesBack /\ Finds(run[w]))
      /\ DiskBehind /\ RunBehind(run[w])
      /\ (connected => w = "boot" /\ DiskOwn /\ BootOwn(run[w]))
    BY <1>5, Alones, Holder
<1>7. app' = app /\ service' = service
    BY DEF host
<1>8. Served' /\ Knows(run[w])'
    BY <1>2, <1>5, <1>6, <1>7 DEF Served, Knows, Exchanging, Installing
<1>9. ~torn => GoesBack' /\ Finds(run[w])'
    BY <1>1, <1>2, <1>5, <1>6 DEF GoesBack, Finds, Knows, Exchanging, Installing, NothingIsKept, OldIsKept
<1>10. DiskBehind' /\ RunBehind(run[w])'
    BY <1>2, <1>5, <1>6, <1>7 DEF DiskBehind, RunBehind, NotAhead
<1>11. connected /\ w = "boot" => DiskOwn' /\ BootOwn(run["boot"])'
    BY <1>2, <1>5, <1>6, <1>7 DEF DiskOwn, BootOwn, Own, Knows, Exchanging, Installing, Over
<1> QED BY <1>5, <1>8, <1>9, <1>10, <1>11, Moves

LEMMA ReplaceKeeps ==
    ASSUME RuntimeInstallAssumption, IInv, NEW w \in Runs,
           Does(w, "replace", [disk EXCEPT !.runtime = None], "place"),
           UNCHANGED <<service, token, machine, world, host, job, connected, stops>>
    PROVE  IInv'
<1> DEFINE change == [disk EXCEPT !.runtime = None]
<1>1. disk \in Disk /\ run[w] \in Run
    BY Typed DEF IInv
<1>2. /\ change \in Disk /\ change.runtime = None /\ change.prev = disk.prev
      /\ change.prevVersion = disk.prevVersion /\ change.marker = disk.marker
    BY <1>1, ApiIs DEF Disk, Run
<1> HIDE DEF change
<1>3. Does(w, "replace", change, "place")
    BY DEF change
<1>4. "replace" \in Moving /\ "place" \in Installing \cup Moving
    BY DEF Moving, Installing
<1>5. /\ run[w].at = "replace" /\ disk' = change /\ run'[w].at = "place"
      /\ run'[w].mode = run[w].mode /\ run'[w].api = run[w].api
      /\ run'[w].installed = run[w].installed /\ run'[w].ref = run[w].ref
      /\ run'[w].why = run[w].why
      /\ Holds(w) /\ \A v \in Runs : v # w => ~Holds(v)
      /\ Installs(w) /\ run'[w].at \notin Waiting
    BY <1>2, <1>3, <1>4, MoveIs
<1>6. /\ Knows(run[w]) /\ Served /\ (~torn => GoesBack /\ Finds(run[w]))
      /\ DiskBehind /\ RunBehind(run[w])
      /\ (connected => w = "boot" /\ DiskOwn /\ BootOwn(run[w]))
    BY <1>5, Alones, Holder
<1>7. app' = app /\ service' = service
    BY DEF host
<1>8. Served' /\ Knows(run[w])'
    BY <1>2, <1>5, <1>6, <1>7 DEF Served, Knows, Exchanging, Installing
<1>9. ~torn => GoesBack' /\ Finds(run[w])'
    BY <1>1, <1>2, <1>5, <1>6 DEF GoesBack, Finds, Knows, Exchanging, Installing, NothingIsKept, OldIsKept
<1>10. DiskBehind' /\ RunBehind(run[w])'
    BY <1>2, <1>5, <1>6, <1>7 DEF DiskBehind, RunBehind, NotAhead
<1>11. connected /\ w = "boot" => DiskOwn' /\ BootOwn(run["boot"])'
    BY <1>2, <1>5, <1>6, <1>7 DEF DiskOwn, BootOwn, Own, Knows, Exchanging, Installing, Over
<1> QED BY <1>5, <1>8, <1>9, <1>10, <1>11, Moves

LEMMA PlaceKeeps ==
    ASSUME RuntimeInstallAssumption, IInv, NEW w \in Runs,
           Does(w, "place", [disk EXCEPT !.runtime = run[w].ref], "forget"),
           UNCHANGED <<service, token, machine, world, host, job, connected, stops>>
    PROVE  IInv'
<1> DEFINE change == [disk EXCEPT !.runtime = run[w].ref]
<1>1. disk \in Disk /\ run[w] \in Run
    BY Typed DEF IInv
<1>2. /\ change \in Disk /\ change.runtime = run[w].ref /\ change.prev = disk.prev
      /\ change.prevVersion = disk.prevVersion /\ change.marker = disk.marker
    BY <1>1, ApiIs DEF Disk, Run
<1> HIDE DEF change
<1>3. Does(w, "place", change, "forget")
    BY DEF change
<1>4. "place" \in Moving /\ "forget" \in Installing \cup Moving
    BY DEF Moving, Installing
<1>5. /\ run[w].at = "place" /\ disk' = change /\ run'[w].at = "forget"
      /\ run'[w].mode = run[w].mode /\ run'[w].api = run[w].api
      /\ run'[w].installed = run[w].installed /\ run'[w].ref = run[w].ref
      /\ run'[w].why = run[w].why
      /\ Holds(w) /\ \A v \in Runs : v # w => ~Holds(v)
      /\ Installs(w) /\ run'[w].at \notin Waiting
    BY <1>2, <1>3, <1>4, MoveIs
<1>6. /\ Knows(run[w]) /\ Served /\ (~torn => GoesBack /\ Finds(run[w]))
      /\ DiskBehind /\ RunBehind(run[w])
      /\ (connected => w = "boot" /\ DiskOwn /\ BootOwn(run[w]))
    BY <1>5, Alones, Holder
<1>7. app' = app /\ service' = service
    BY DEF host
<1>8. Served' /\ Knows(run[w])'
    BY <1>2, <1>5, <1>6, <1>7 DEF Served, Knows, Exchanging, Installing
<1>9. ~torn => GoesBack' /\ Finds(run[w])'
    BY <1>1, <1>2, <1>5, <1>6 DEF GoesBack, Finds, Knows, Exchanging, Installing, NothingIsKept, OldIsKept
<1>10. DiskBehind' /\ RunBehind(run[w])'
    BY <1>2, <1>5, <1>6, <1>7 DEF DiskBehind, RunBehind, NotAhead
<1>11. connected /\ w = "boot" => DiskOwn' /\ BootOwn(run["boot"])'
    BY <1>2, <1>5, <1>6, <1>7 DEF DiskOwn, BootOwn, Own, Knows, Exchanging, Installing, Over
<1> QED BY <1>5, <1>8, <1>9, <1>10, <1>11, Moves

LEMMA DropKeeps ==
    ASSUME RuntimeInstallAssumption, IInv, NEW w \in Runs,
           Does(w, "drop", [disk EXCEPT !.runtime = None], "back"),
           UNCHANGED <<service, token, machine, world, host, job, connected, stops>>
    PROVE  IInv'
<1> DEFINE change == [disk EXCEPT !.runtime = None]
<1>1. disk \in Disk /\ run[w] \in Run
    BY Typed DEF IInv
<1>2. /\ change \in Disk /\ change.runtime = None /\ change.prev = disk.prev
      /\ change.prevVersion = disk.prevVersion /\ change.marker = disk.marker
    BY <1>1, ApiIs DEF Disk, Run
<1> HIDE DEF change
<1>3. Does(w, "drop", change, "back")
    BY DEF change
<1>4. "drop" \in Moving /\ "back" \in Installing \cup Moving
    BY DEF Moving, Installing
<1>5. /\ run[w].at = "drop" /\ disk' = change /\ run'[w].at = "back"
      /\ run'[w].mode = run[w].mode /\ run'[w].api = run[w].api
      /\ run'[w].installed = run[w].installed /\ run'[w].ref = run[w].ref
      /\ run'[w].why = run[w].why
      /\ Holds(w) /\ \A v \in Runs : v # w => ~Holds(v)
      /\ Installs(w) /\ run'[w].at \notin Waiting
    BY <1>2, <1>3, <1>4, MoveIs
<1>6. /\ Knows(run[w]) /\ Served /\ (~torn => GoesBack /\ Finds(run[w]))
      /\ DiskBehind /\ RunBehind(run[w])
      /\ (connected => w = "boot" /\ DiskOwn /\ BootOwn(run[w]))
    BY <1>5, Alones, Holder
<1>7. app' = app /\ service' = service
    BY DEF host
<1>8. Served' /\ Knows(run[w])'
    BY <1>2, <1>5, <1>6, <1>7 DEF Served, Knows, Exchanging, Installing
<1>9. ~torn => GoesBack' /\ Finds(run[w])'
    BY <1>1, <1>2, <1>5, <1>6 DEF GoesBack, Finds, Knows, Exchanging, Installing, NothingIsKept, OldIsKept
<1>10. DiskBehind' /\ RunBehind(run[w])'
    BY <1>2, <1>5, <1>6, <1>7 DEF DiskBehind, RunBehind, NotAhead
<1>11. connected /\ w = "boot" => DiskOwn' /\ BootOwn(run["boot"])'
    BY <1>2, <1>5, <1>6, <1>7 DEF DiskOwn, BootOwn, Own, Knows, Exchanging, Installing, Over
<1> QED BY <1>5, <1>8, <1>9, <1>10, <1>11, Moves

LEMMA BackKeeps ==
    ASSUME RuntimeInstallAssumption, IInv, NEW w \in Runs,
           Does(w, "back", [disk EXCEPT !.runtime = disk.prev, !.prev = None], "forget"),
           UNCHANGED <<service, token, machine, world, host, job, connected, stops>>
    PROVE  IInv'
<1> DEFINE change == [disk EXCEPT !.runtime = disk.prev, !.prev = None]
<1>1. disk \in Disk /\ run[w] \in Run
    BY Typed DEF IInv
<1>2. /\ change \in Disk /\ change.runtime = disk.prev /\ change.prev = None
      /\ change.prevVersion = disk.prevVersion /\ change.marker = disk.marker
    BY <1>1, ApiIs DEF Disk, Run
<1> HIDE DEF change
<1>3. Does(w, "back", change, "forget")
    BY DEF change
<1>4. "back" \in Moving /\ "forget" \in Installing \cup Moving
    BY DEF Moving, Installing
<1>5. /\ run[w].at = "back" /\ disk' = change /\ run'[w].at = "forget"
      /\ run'[w].mode = run[w].mode /\ run'[w].api = run[w].api
      /\ run'[w].installed = run[w].installed /\ run'[w].ref = run[w].ref
      /\ run'[w].why = run[w].why
      /\ Holds(w) /\ \A v \in Runs : v # w => ~Holds(v)
      /\ Installs(w) /\ run'[w].at \notin Waiting
    BY <1>2, <1>3, <1>4, MoveIs
<1>6. /\ Knows(run[w]) /\ Served /\ (~torn => GoesBack /\ Finds(run[w]))
      /\ DiskBehind /\ RunBehind(run[w])
      /\ (connected => w = "boot" /\ DiskOwn /\ BootOwn(run[w]))
    BY <1>5, Alones, Holder
<1>7. app' = app /\ service' = service
    BY DEF host
<1>8. Served' /\ Knows(run[w])'
    BY <1>2, <1>5, <1>6, <1>7 DEF Served, Knows, Exchanging, Installing
<1>9. ~torn => GoesBack' /\ Finds(run[w])'
    BY <1>1, <1>2, <1>5, <1>6 DEF GoesBack, Finds, Knows, Exchanging, Installing, NothingIsKept, OldIsKept
<1>10. DiskBehind' /\ RunBehind(run[w])'
    BY <1>2, <1>5, <1>6, <1>7 DEF DiskBehind, RunBehind, NotAhead
<1>11. connected /\ w = "boot" => DiskOwn' /\ BootOwn(run["boot"])'
    BY <1>2, <1>5, <1>6, <1>7 DEF DiskOwn, BootOwn, Own, Knows, Exchanging, Installing, Over
<1> QED BY <1>5, <1>8, <1>9, <1>10, <1>11, Moves

LEMMA ClearKeeps ==
    ASSUME RuntimeInstallAssumption, IInv, NEW w \in Runs,
           Does(w, "clear", NothingKept, IF Keeping(w) THEN "keep" ELSE "replace"),
           UNCHANGED <<service, token, machine, world, host, job, connected, stops>>
    PROVE  IInv'
<1> DEFINE change == NothingKept
           next == IF Keeping(w) THEN "keep" ELSE "replace"
<1>1. disk \in Disk /\ run[w] \in Run
    BY Typed DEF IInv
<1>2. /\ change \in Disk /\ change.runtime = disk.runtime /\ change.prev = None
      /\ change.prevVersion = None /\ change.marker = disk.marker
    BY <1>1, ApiIs DEF Disk, NothingKept
<1>3. next \in {"keep", "replace"} /\ (next = "keep" => Keeping(w))
    OBVIOUS
<1>4. Does(w, "clear", change, next)
    OBVIOUS
<1> HIDE DEF change, next
<1>5. "clear" \in Moving /\ next \in Installing \cup Moving
    BY <1>3 DEF Moving, Installing
<1>6. /\ run[w].at = "clear" /\ disk' = change /\ run'[w].at = next
      /\ run'[w].mode = run[w].mode /\ run'[w].api = run[w].api
      /\ run'[w].installed = run[w].installed /\ run'[w].ref = run[w].ref
      /\ run'[w].why = run[w].why
      /\ Holds(w) /\ \A v \in Runs : v # w => ~Holds(v)
      /\ Installs(w) /\ run'[w].at \notin Waiting
    BY <1>2, <1>4, <1>5, MoveIs
<1>7. /\ Knows(run[w]) /\ Served /\ (~torn => GoesBack /\ Finds(run[w]))
      /\ DiskBehind /\ RunBehind(run[w])
      /\ (connected => w = "boot" /\ DiskOwn /\ BootOwn(run[w]))
    BY <1>6, Alones, Holder
<1>8. app' = app /\ service' = service
    BY DEF host
<1>9. Served' /\ Knows(run[w])'
    BY <1>2, <1>3, <1>6, <1>7, <1>8 DEF Served, Knows, Exchanging, Installing
<1>10. ~torn => GoesBack' /\ Finds(run[w])'
    BY <1>1, <1>2, <1>3, <1>6, <1>7
       DEF GoesBack, Finds, Knows, Keeping, Exchanging, Installing, NothingIsKept, OldIsKept
<1>11. DiskBehind' /\ RunBehind(run[w])'
    BY <1>2, <1>6, <1>7, <1>8 DEF DiskBehind, RunBehind, NotAhead
<1>12. connected /\ w = "boot" => DiskOwn' /\ BootOwn(run["boot"])'
    BY <1>2, <1>3, <1>6, <1>7, <1>8 DEF DiskOwn, BootOwn, Own, Knows, Exchanging, Installing, Over
<1> QED BY <1>6, <1>9, <1>10, <1>11, <1>12, Moves

LEMMA MoveKeeps ==
    ASSUME RuntimeInstallAssumption, IInv, NEW w \in Runs, Move(w),
           UNCHANGED <<host, job, connected, stops>>
    PROVE  IInv'
<1>1. UNCHANGED <<service, token, machine, world, host, job, connected, stops>>
    BY DEF Move
<1> QED
    BY <1>1, UnmovedKeeps, ClearKeeps, KeepKeeps, SwapKeeps, ReplaceKeeps, PlaceKeeps, DropKeeps,
       BackKeeps DEF Move

\* The moves that leave the folders alone.
LEMMA StepIs ==
    ASSUME RuntimeInstallAssumption, IInv, NEW w \in Runs, run[w].at \notin Over,
           \A v \in Runs : v # w => ~Holds(v),
           Alone(w), w = "boot" => run'[w].mode = "update",
           disk' \in Disk, service' \in Release, token' \in {"missing", "unread", "read"},
           faults' \in 0..MaxFaults,
           UNCHANGED <<machine, newest, torn, host, job, connected, stops>>
    PROVE  /\ Installs(w)
           /\ Knows(run[w]) /\ Served /\ (~torn => GoesBack /\ Finds(run[w]))
      /\ DiskBehind /\ RunBehind(run[w]) /\ (w = "boot" => run[w].mode = "update")
      /\ (connected => w = "boot" /\ DiskOwn /\ BootOwn(run[w]))
      /\ \A v \in Runs : v # w => run[v].at \in Waiting
BY Holder DEF Installs

LEMMA LockedKeeps ==
    ASSUME RuntimeInstallAssumption, IInv, NEW w \in Runs, Locked(w),
           UNCHANGED <<host, job, connected, stops>>
    PROVE  IInv'
<1> DEFINE restores == disk.prev # None /\ disk.marker = None /\ disk.prevVersion # None
           next == IF disk.prev # None /\ disk.runtime = None THEN "unmoved" ELSE "resolve"
           its == IF restores THEN [run[w] EXCEPT !.at = "drop", !.why = "restore",
                                                  !.ref = disk.prevVersion]
                  ELSE [run[w] EXCEPT !.at = next]
<1>1. disk \in Disk /\ run \in [Runs -> Run] /\ run[w] \in Run
    BY Typed DEF IInv
<1>2. run[w].at = "lock" /\ \A v \in Runs : ~Holds(v)
    BY DEF Locked
<1>3. run' = [run EXCEPT ![w] = its]
    BY <1>1 DEF Locked
<1>4. /\ its \in Run /\ its.mode = run[w].mode /\ its.api = run[w].api
      /\ its.installed = run[w].installed
      /\ restores => its.at = "drop" /\ its.why = "restore" /\ its.ref = disk.prevVersion
      /\ ~restores => its.at = next /\ its.ref = run[w].ref /\ its.why = run[w].why
    BY <1>1, <1>2 DEF Run, Disk, Moving
<1>5. UNCHANGED <<files, machine, world>>
    BY DEF Locked
<1> HIDE DEF its
<1>6. Alone(w) /\ run'[w] = its
    BY <1>1, <1>3, <1>4, OnlyIts
<1>7. /\ disk' = disk /\ service' = service /\ token' = token /\ faults' = faults
      /\ newest' = newest /\ torn' = torn /\ app' = app
    BY <1>5 DEF files, world, host
<1>8. /\ service \in Release /\ token \in {"missing", "unread", "read"} /\ faults \in 0..MaxFaults
    BY DEF IInv, TypeOK, InVMTypeOK
<1>9. w = "boot" => run'[w].mode = "update"
    BY <1>4, <1>6 DEF IInv, Holding, Alive
<1>10. /\ Installs(w)
      /\ Knows(run[w]) /\ Served /\ (~torn => GoesBack /\ Finds(run[w]))
      /\ DiskBehind /\ RunBehind(run[w]) /\ (w = "boot" => run[w].mode = "update")
      /\ (connected => w = "boot" /\ DiskOwn /\ BootOwn(run[w]))
      /\ \A v \in Runs : v # w => run[v].at \in Waiting
    <2>1. run[w].at \notin Over
        BY <1>2 DEF Over
    <2> QED BY <2>1, <1>1, <1>2, <1>5, <1>6, <1>7, <1>8, <1>9, StepIs
<1>11. ~torn => Stands
    BY <1>2 DEF IInv, Folders
<1>12. CASE restores
    <2>1. /\ run'[w].at = "drop" /\ run'[w].why = "restore" /\ run'[w].ref = disk.prevVersion
          /\ run'[w].api = run[w].api /\ run'[w].installed = run[w].installed
        BY <1>4, <1>6, <1>12
    <2>2. Served' /\ Knows(run[w])'
        BY <1>7, <1>10, <1>12, <2>1 DEF Served, Knows, Exchanging, Installing
    <2>3. ~torn => GoesBack' /\ Finds(run[w])' /\ run'[w].at \notin Waiting
        BY <1>7, <1>10, <1>12, <2>1 DEF GoesBack, Finds, Installing, Waiting
    <2>4. DiskBehind' /\ RunBehind(run[w])'
        BY <1>7, <1>10, <2>1 DEF DiskBehind, RunBehind, NotAhead
    <2>5. connected /\ w = "boot" => DiskOwn' /\ BootOwn(run["boot"])'
        BY <1>2, <1>7, <1>10, <1>12, <2>1 DEF DiskOwn, BootOwn, Own, Exchanging, Installing, Over
    <2> QED BY <1>10, <2>2, <2>3, <2>4, <2>5, Moves
<1>13. CASE ~restores
    <2>1. /\ run'[w].at = next /\ next \in {"unmoved", "resolve"}
          /\ run'[w].ref = run[w].ref
          /\ run'[w].api = run[w].api /\ run'[w].installed = run[w].installed
        BY <1>4, <1>6, <1>13
    <2>2. Served' /\ Knows(run[w])'
        BY <1>7, <1>10, <2>1 DEF Served, Knows, Exchanging, Installing
    <2>3. ~torn => GoesBack' /\ Finds(run[w])' /\ run'[w].at \notin Waiting
        BY <1>7, <1>10, <1>11, <1>13, <2>1 DEF GoesBack, Finds, Stands, Installing, Waiting
    <2>4. DiskBehind' /\ RunBehind(run[w])'
        BY <1>7, <1>10, <2>1 DEF DiskBehind, RunBehind, NotAhead
    <2>5. connected /\ w = "boot" => DiskOwn' /\ BootOwn(run["boot"])'
        BY <1>2, <1>7, <1>10, <2>1 DEF DiskOwn, BootOwn, Own, Exchanging, Installing, Over
    <2> QED BY <1>10, <2>2, <2>3, <2>4, <2>5, Moves
<1> QED BY <1>12, <1>13

\* A run that ends leaves what stands.
LEMMA EndKeeps ==
    ASSUME RuntimeInstallAssumption, IInv, NEW w \in Runs, Holds(w),
           NEW result \in {"ok", "failed"}, Ends(w, result),
           disk' \in Disk, faults' \in 0..MaxFaults, Served', DiskBehind',
           ~torn => GoesBack' /\ Stands', connected => DiskOwn',
           UNCHANGED <<service, token, machine, newest, torn, host, job, connected, stops>>
    PROVE  IInv'
<1>1. run[w].at \notin Over /\ \A v \in Runs : v # w => ~Holds(v)
    BY Alones
<1>2. Alone(w) /\ Ending(run'[w])
    BY Typed, EndsIs DEF IInv
<1>3. Installs(w)
    <2>1. /\ service \in Release /\ token \in {"missing", "unread", "read"}
        BY DEF IInv, TypeOK, InVMTypeOK
    <2> QED BY <1>1, <1>2, <2>1, StepIs DEF Ending
<1>4. run'[w].at \in Waiting
    BY <1>2, Positions DEF Ending
<1>5. Knows(run[w])' /\ Finds(run[w])'
    BY <1>4 DEF Knows, Finds, Waiting, Installing, Exchanging
<1>6. RunBehind(run[w])'
    <2>1. app'.api \in Nat
        BY Typed DEF IInv, App, host, Apis
    <2> QED BY <1>2, <2>1 DEF Ending, RunBehind, NotAhead, None
<1>7. w = "boot" => BootOwn(run["boot"])'
    BY <1>2 DEF Ending, BootOwn, Over, Exchanging, Installing
<1> QED BY <1>3, <1>5, <1>6, <1>7, Moves

\* A release that may be chosen is there, and its api is the run's, unless it is
\* installed.
LEMMA RefsAre ==
    ASSUME RuntimeInstallAssumption, IInv, NEW w \in Runs, NEW ref \in Refs(w)
    PROVE  /\ ref \in Releases
           /\ \/ ref = disk.marker /\ run[w].mode = "repair"
              \/ Api(ref) = run[w].api
<1>1. newest \in Releases /\ disk.marker \in Release
    BY Typed DEF IInv, TypeOK, InVMTypeOK, Disk
<1>2. CASE run[w].mode = "repair" /\ disk.marker # None
    BY <1>1, <1>2 DEF Refs, Release, Releases, None
<1>3. CASE ~(run[w].mode = "repair" /\ disk.marker # None)
    <2>1. ref \in 1..newest /\ Api(ref) = run[w].api
        BY <1>3 DEF Refs, Accepted
    <2> QED BY <1>1, <2>1, ApiIs DEF Releases, RuntimeInstallAssumption
<1> QED BY <1>2, <1>3

LEMMA ChooseKeeps ==
    ASSUME RuntimeInstallAssumption, IInv, NEW w \in Runs, run[w].at = "resolve",
           NEW ref \in Refs(w), ~Keeps(w, ref), faults' \in 0..MaxFaults,
           run' = [run EXCEPT ![w].at = "clear", ![w].why = "new", ![w].ref = ref,
                              ![w].installed = disk.marker],
           UNCHANGED <<files, machine, newest, torn, host, job, connected, stops>>
    PROVE  IInv'
<1> DEFINE its == [run[w] EXCEPT !.at = "clear", !.why = "new", !.ref = ref,
                                 !.installed = disk.marker]
<1>1. disk \in Disk /\ run \in [Runs -> Run] /\ run[w] \in Run
    BY Typed DEF IInv
<1>2. /\ ref \in Releases /\ ref \in Release
      /\ (ref = disk.marker /\ run[w].mode = "repair") \/ Api(ref) = run[w].api
    BY RefsAre, ApiIs
<1>3. run' = [run EXCEPT ![w] = its]
    OBVIOUS
<1>4. its \in Run
    BY <1>1, <1>2 DEF Run, Moving, Disk
<1>5. /\ its.at = "clear" /\ its.why = "new" /\ its.ref = ref
      /\ its.installed = disk.marker /\ its.mode = run[w].mode /\ its.api = run[w].api
    BY <1>1 DEF Run
<1> HIDE DEF its
<1>6. Alone(w) /\ run'[w] = its
    BY <1>1, <1>3, <1>4, OnlyIts
<1>7. disk' = disk /\ service' = service /\ token' = token /\ torn' = torn /\ app' = app
    BY DEF files, host
<1>8. service \in Release /\ token \in {"missing", "unread", "read"}
    BY DEF IInv, TypeOK, InVMTypeOK
<1>9. Holds(w)
    BY DEF Holds, Waiting
<1>10. w = "boot" => run'[w].mode = "update"
    BY <1>5, <1>6 DEF IInv, Holding, Alive
<1>11. /\ Installs(w)
      /\ Knows(run[w]) /\ Served /\ (~torn => GoesBack /\ Finds(run[w]))
      /\ DiskBehind /\ RunBehind(run[w]) /\ (w = "boot" => run[w].mode = "update")
      /\ (connected => w = "boot" /\ DiskOwn /\ BootOwn(run[w]))
      /\ \A v \in Runs : v # w => run[v].at \in Waiting
    BY <1>1, <1>6, <1>7, <1>8, <1>9, <1>10, Alones, StepIs
<1>12. run'[w].mode = "update" /\ disk.marker # None => ref > disk.marker
    BY <1>1, <1>2, <1>5, <1>6, ApiIs DEF Keeps, Disk
<1>13. Served' /\ Knows(run[w])'
    BY <1>2, <1>5, <1>6, <1>7, <1>11, <1>12 DEF Served, Knows, Exchanging, Installing
<1>14. ~torn => GoesBack' /\ Finds(run[w])' /\ run'[w].at \notin Waiting
    BY <1>5, <1>6, <1>7, <1>11 DEF GoesBack, Finds, Installing, Waiting
<1>15. DiskBehind' /\ RunBehind(run[w])'
    BY <1>2, <1>5, <1>6, <1>7, <1>11 DEF DiskBehind, RunBehind, NotAhead
<1>16. connected /\ w = "boot" => DiskOwn' /\ BootOwn(run["boot"])'
    <2>1. SUFFICES ASSUME connected, w = "boot" PROVE DiskOwn' /\ BootOwn(run["boot"])'
        OBVIOUS
    <2>2. DiskOwn /\ BootOwn(run[w]) /\ run[w].mode = "update" /\ Api(ref) = run[w].api
        BY <1>2, <1>11, <2>1
    <2>3. run[w].api = app.api
        <3>1. SUFFICES ASSUME run[w].api # app.api PROVE FALSE
            OBVIOUS
        <3>2. disk.marker # None /\ Api(disk.marker) = app.api
            BY <2>2, <3>1 DEF BootOwn, DiskOwn, Own, Over
        <3>3. disk.marker <= ref
            BY <1>1, <1>2, <1>5, <1>6, <1>12, <2>2, <3>2, ApiIs DEF Disk
        <3>4. app.api <= Api(ref)
            BY <1>1, <1>2, <3>2, <3>3, ApiIs DEF Disk
        <3>5. run[w].api <= app.api /\ app.api \in Nat
            BY <1>11, Typed DEF RunBehind, IInv, App, Apis
        <3> QED BY <1>2, <2>2, <3>1, <3>4, <3>5, ApiIs
    <2> QED BY <1>5, <1>6, <1>7, <2>1, <2>2, <2>3 DEF DiskOwn, BootOwn, Own, Over
<1> QED BY <1>11, <1>13, <1>14, <1>15, <1>16, Moves

LEMMA FaultIs ==
    ASSUME RuntimeInstallAssumption, faults \in 0..MaxFaults, Fault \/ UNCHANGED faults
    PROVE  faults' \in 0..MaxFaults
BY DEF Fault, RuntimeInstallAssumption

LEMMA ResolveKeeps ==
    ASSUME RuntimeInstallAssumption, IInv, NEW w \in Runs, Resolve(w),
           UNCHANGED <<host, job, connected, stops>>
    PROVE  IInv'
<1>1. run[w].at = "resolve" /\ UNCHANGED <<files, machine, newest, torn>>
    BY DEF Resolve
<1>2. faults' \in 0..MaxFaults
    BY FaultIs DEF Resolve, IInv, TypeOK, InVMTypeOK
<1>3. Holds(w)
    BY <1>1 DEF Holds, Waiting
<1>4. disk' = disk /\ service' = service /\ token' = token /\ torn' = torn /\ app' = app /\ disk \in Disk
    BY <1>1, Typed DEF files, host, IInv
<1>5. ASSUME NEW result \in {"ok", "failed"}, Ends(w, result)
      PROVE  IInv'
    <2>1. /\ Served /\ DiskBehind /\ (~torn => GoesBack /\ Finds(run[w]))
          /\ (connected => DiskOwn)
        BY <1>3, Alones, Holder
    <2>2. ~torn => Stands
        BY <1>1, <2>1 DEF Finds, Stands
    <2>3. Served' /\ DiskBehind' /\ (~torn => GoesBack' /\ Stands') /\ (connected => DiskOwn')
        BY <1>4, <2>1, <2>2 DEF Served, DiskBehind, NotAhead, GoesBack, Stands, DiskOwn, Own
    <2> QED BY <1>1, <1>2, <1>3, <1>4, <1>5, <2>3, EndKeeps
<1>6. ASSUME NEW ref \in Refs(w), ~Keeps(w, ref),
             run' = [run EXCEPT ![w].at = "clear", ![w].why = "new", ![w].ref = ref,
                                ![w].installed = disk.marker]
      PROVE  IInv'
    BY <1>1, <1>2, <1>6, ChooseKeeps
<1> QED BY <1>5, <1>6 DEF Resolve

LEMMA TidyKeeps ==
    ASSUME RuntimeInstallAssumption, IInv, NEW w \in Runs, Tidy(w),
           UNCHANGED <<host, job, connected, stops>>
    PROVE  IInv'
<1>1. /\ run[w].at = "tidy" /\ Ends(w, "ok") /\ disk' = NothingKept
      /\ UNCHANGED <<service, token, machine, world>>
    BY DEF Tidy
<1>2. Holds(w)
    BY <1>1 DEF Holds, Waiting
<1>3. /\ disk' \in Disk /\ disk'.runtime = disk.runtime /\ disk'.prev = None
      /\ disk'.prevVersion = None /\ disk'.marker = disk.marker
    BY <1>1, Typed, ApiIs DEF IInv, Disk, NothingKept
<1>4. faults' \in 0..MaxFaults /\ app' = app /\ service' = service
    BY <1>1 DEF IInv, TypeOK, InVMTypeOK, world, host
<1>5. /\ Served /\ DiskBehind /\ (~torn => GoesBack /\ Finds(run[w]))
      /\ (connected => DiskOwn)
    BY <1>2, Alones, Holder
<1>6. Served' /\ DiskBehind' /\ (connected => DiskOwn')
    BY <1>3, <1>4, <1>5 DEF Served, DiskBehind, NotAhead, DiskOwn, Own
<1>7. ~torn => GoesBack' /\ Stands'
    BY <1>1, <1>3, <1>5 DEF GoesBack, Stands, Finds
<1> QED BY <1>1, <1>2, <1>3, <1>4, <1>6, <1>7, EndKeeps DEF world

LEMMA UntagKeeps ==
    ASSUME RuntimeInstallAssumption, IInv, NEW w \in Runs, Untag(w),
           UNCHANGED <<host, job, connected, stops>>
    PROVE  IInv'
<1>1. /\ run[w].at = "untag" /\ disk' = [disk EXCEPT !.prevVersion = None]
      /\ UNCHANGED <<service, token, machine, world>>
    BY DEF Untag
<1>2. Holds(w)
    BY <1>1 DEF Holds, Waiting
<1>3. /\ disk' \in Disk /\ disk'.runtime = disk.runtime /\ disk'.prev = disk.prev
      /\ disk'.prevVersion = None /\ disk'.marker = disk.marker
    BY <1>1, Typed, ApiIs DEF IInv, Disk
<1>4. /\ faults' \in 0..MaxFaults /\ app' = app /\ service' = service /\ torn' = torn
      /\ service \in Release /\ token' = token /\ token \in {"missing", "unread", "read"}
    BY <1>1 DEF IInv, TypeOK, InVMTypeOK, world, host
<1>5. /\ Knows(run[w]) /\ Served /\ (~torn => GoesBack /\ Finds(run[w]))
      /\ DiskBehind /\ RunBehind(run[w]) /\ (w = "boot" => run[w].mode = "update")
      /\ (connected => w = "boot" /\ DiskOwn /\ BootOwn(run[w]))
      /\ \A v \in Runs : v # w => run[v].at \in Waiting
    BY <1>2, Alones, Holder
<1>6. Served' /\ DiskBehind' /\ (connected => DiskOwn')
    BY <1>3, <1>4, <1>5 DEF Served, DiskBehind, NotAhead, DiskOwn, Own, None
<1>7. ~torn => GoesBack' /\ Stands'
    BY <1>1, <1>3, <1>5 DEF GoesBack, Stands, Finds
<1>8. CASE Ends(w, "failed")
    BY <1>1, <1>2, <1>3, <1>4, <1>6, <1>7, <1>8, EndKeeps DEF world
<1>9. CASE To(w, "resolve")
    <2>1. /\ Alone(w) /\ run'[w].at = "resolve"
          /\ run'[w].mode = run[w].mode /\ run'[w].api = run[w].api
          /\ run'[w].installed = run[w].installed /\ run'[w].ref = run[w].ref
          /\ run'[w].why = run[w].why
        <3>1. "resolve" \in Waiting \cup Installing \cup Moving
            BY DEF Moving
        <3> QED BY <1>9, <3>1, Typed, ToIs DEF IInv
    <2>2. Installs(w)
        BY <1>1, <1>2, <1>3, <1>4, <1>5, <2>1, Alones, StepIs DEF world
    <2>3. Knows(run[w])'
        BY <2>1 DEF Knows, Exchanging, Installing
    <2>4. ~torn => Finds(run[w])'
        BY <1>1, <1>3, <1>5, <2>1 DEF Finds, Installing
    <2>5. RunBehind(run[w])'
        BY <1>4, <1>5, <2>1 DEF RunBehind, NotAhead
    <2>6. connected /\ w = "boot" => BootOwn(run["boot"])'
        BY <1>1, <1>3, <1>4, <1>5, <2>1 DEF BootOwn, Exchanging, Installing, Over
    <2> QED BY <1>6, <1>7, <2>2, <2>3, <2>4, <2>5, <2>6, Moves
<1> QED BY <1>8, <1>9 DEF Untag

\* The steps of install.sh, each of which leads to the next.
LEMMA InstallIs ==
    ASSUME RuntimeInstallAssumption, IInv, NEW w \in Runs, run[w].at \in Installing,
           NEW next \in Installing \cup {"tidy", "untag"}, run'[w].at = next,
           Alone(w), run'[w].mode = run[w].mode,
           disk' \in Disk, service' \in Release, token' \in {"missing", "unread", "read"},
           UNCHANGED <<machine, world, host, job, connected, stops>>
    PROVE  /\ Installs(w) /\ run'[w].at \notin Waiting
           /\ Knows(run[w]) /\ Served /\ (~torn => GoesBack /\ Finds(run[w]))
      /\ DiskBehind /\ RunBehind(run[w]) /\ (w = "boot" => run[w].mode = "update")
      /\ (connected => w = "boot" /\ DiskOwn /\ BootOwn(run[w]))
      /\ \A v \in Runs : v # w => run[v].at \in Waiting
<1>1. Holds(w) /\ next \notin Waiting
    BY DEF Holds, Waiting, Installing
<1>2. run[w].at \notin Over /\ \A v \in Runs : v # w => ~Holds(v)
    BY <1>1, Alones
<1>3. faults' \in 0..MaxFaults
    BY DEF world, IInv, TypeOK, InVMTypeOK
<1>4. w = "boot" => run'[w].mode = "update"
    BY DEF IInv, Holding, Alive
<1> QED BY <1>1, <1>2, <1>3, <1>4, StepIs DEF world

LEMMA ForgetKeeps ==
    ASSUME RuntimeInstallAssumption, IInv, NEW w \in Runs, Forget(w),
           UNCHANGED <<host, job, connected, stops>>
    PROVE  IInv'
<1>1. /\ run[w].at = "forget" /\ disk' = [disk EXCEPT !.marker = None] /\ To(w, "token")
      /\ UNCHANGED <<service, token, machine, world>>
    BY DEF Forget
<1>2. /\ disk' \in Disk /\ disk'.runtime = disk.runtime /\ disk'.prev = disk.prev
      /\ disk'.prevVersion = disk.prevVersion /\ disk'.marker = None /\ disk \in Disk
    BY <1>1, Typed, ApiIs DEF IInv, Disk
<1>3. /\ Alone(w) /\ run'[w].at = "token"
      /\ run'[w].mode = run[w].mode /\ run'[w].api = run[w].api
      /\ run'[w].installed = run[w].installed /\ run'[w].ref = run[w].ref
      /\ run'[w].why = run[w].why
    <2>1. "token" \in Waiting \cup Installing \cup Moving
        BY DEF Installing
    <2> QED BY <1>1, <2>1, Typed, ToIs DEF IInv
<1>4. app' = app /\ service' = service /\ service \in Release /\ torn' = torn
    BY <1>1 DEF host, IInv, TypeOK, InVMTypeOK, world
<1>5. /\ Installs(w) /\ run'[w].at \notin Waiting
      /\ Knows(run[w]) /\ Served /\ (~torn => GoesBack /\ Finds(run[w]))
      /\ DiskBehind /\ RunBehind(run[w]) /\ (w = "boot" => run[w].mode = "update")
      /\ (connected => w = "boot" /\ DiskOwn /\ BootOwn(run[w]))
      /\ \A v \in Runs : v # w => run[v].at \in Waiting
    <2>1. /\ token' \in {"missing", "unread", "read"} /\ "token" \in Installing
          /\ run[w].at \in Installing
        BY <1>1 DEF IInv, TypeOK, InVMTypeOK, Installing
    <2> QED BY <1>1, <1>2, <1>3, <1>4, <2>1, InstallIs
<1>6. Served' /\ Knows(run[w])'
    BY <1>1, <1>2, <1>3, <1>4, <1>5 DEF Served, Knows, Exchanging, Installing
<1>7. ~torn => GoesBack' /\ Finds(run[w])'
    BY <1>1, <1>2, <1>3, <1>5 DEF GoesBack, Finds, Installing, NothingIsKept, OldIsKept
<1>8. DiskBehind' /\ RunBehind(run[w])'
    BY <1>2, <1>3, <1>4, <1>5 DEF DiskBehind, RunBehind, NotAhead
<1>9. connected /\ w = "boot" => DiskOwn' /\ BootOwn(run["boot"])'
    BY <1>1, <1>2, <1>3, <1>4, <1>5 DEF DiskOwn, BootOwn, Own, Knows, Exchanging, Installing, Over
<1> QED BY <1>5, <1>6, <1>7, <1>8, <1>9, Moves

LEMMA TokenKeeps ==
    ASSUME RuntimeInstallAssumption, IInv, NEW w \in Runs, Token(w),
           UNCHANGED <<host, job, connected, stops>>
    PROVE  IInv'
<1> DEFINE its == [run[w] EXCEPT !.at = "up", !.created = (token = "missing")]
<1>1. /\ run[w].at = "token"
      /\ token' = IF token = "missing" THEN "unread" ELSE token
      /\ UNCHANGED <<disk, service, machine, world>>
    BY DEF Token
<1>2. run' = [run EXCEPT ![w] = its]
    BY DEF Token
<1>3. disk \in Disk /\ run \in [Runs -> Run] /\ run[w] \in Run
    BY Typed DEF IInv
<1>4. (token = "missing") \in BOOLEAN
    OBVIOUS
<1>5. its \in Run
    BY <1>3, <1>4 DEF Run, Installing
<1>6. /\ its.at = "up" /\ its.mode = run[w].mode /\ its.api = run[w].api
      /\ its.installed = run[w].installed /\ its.ref = run[w].ref /\ its.why = run[w].why
    BY <1>3 DEF Run
<1> HIDE DEF its
<1>7. /\ Alone(w) /\ run'[w].at = "up"
      /\ run'[w].mode = run[w].mode /\ run'[w].api = run[w].api
      /\ run'[w].installed = run[w].installed /\ run'[w].ref = run[w].ref
      /\ run'[w].why = run[w].why
    BY <1>2, <1>3, <1>5, <1>6, OnlyIts
<1>8. /\ app' = app /\ service' = service /\ service \in Release /\ torn' = torn
      /\ disk' = disk /\ token' \in {"missing", "unread", "read"}
    BY <1>1 DEF host, IInv, TypeOK, InVMTypeOK, world
<1>9. /\ Installs(w) /\ run'[w].at \notin Waiting
      /\ Knows(run[w]) /\ Served /\ (~torn => GoesBack /\ Finds(run[w]))
      /\ DiskBehind /\ RunBehind(run[w]) /\ (w = "boot" => run[w].mode = "update")
      /\ (connected => w = "boot" /\ DiskOwn /\ BootOwn(run[w]))
      /\ \A v \in Runs : v # w => run[v].at \in Waiting
    <2>1. "up" \in Installing /\ run[w].at \in Installing
        BY <1>1 DEF Installing
    <2> QED BY <1>1, <1>3, <1>7, <1>8, <2>1, InstallIs
<1>10. Served' /\ Knows(run[w])'
    BY <1>1, <1>7, <1>8, <1>9 DEF Served, Knows, Exchanging, Installing
<1>11. ~torn => GoesBack' /\ Finds(run[w])'
    BY <1>1, <1>7, <1>8, <1>9 DEF GoesBack, Finds, Installing, NothingIsKept, OldIsKept
<1>12. DiskBehind' /\ RunBehind(run[w])'
    BY <1>7, <1>8, <1>9 DEF DiskBehind, RunBehind, NotAhead
<1>13. connected /\ w = "boot" => DiskOwn' /\ BootOwn(run["boot"])'
    BY <1>1, <1>7, <1>8, <1>9 DEF DiskOwn, BootOwn, Own, Exchanging, Installing, Over
<1> QED BY <1>9, <1>10, <1>11, <1>12, <1>13, Moves

LEMMA UpKeeps ==
    ASSUME RuntimeInstallAssumption, IInv, NEW w \in Runs, Up(w),
           UNCHANGED <<host, job, connected, stops>>
    PROVE  IInv'
<1>1. /\ run[w].at = "up" /\ service' = run[w].ref /\ To(w, "mark")
      /\ UNCHANGED <<disk, machine, world>>
    BY DEF Up
<1>2. disk \in Disk /\ run \in [Runs -> Run] /\ run[w] \in Run
    BY Typed DEF IInv
<1>3. /\ Alone(w) /\ run'[w].at = "mark"
      /\ run'[w].mode = run[w].mode /\ run'[w].api = run[w].api
      /\ run'[w].installed = run[w].installed /\ run'[w].ref = run[w].ref
      /\ run'[w].why = run[w].why
    <2>1. "mark" \in Waiting \cup Installing \cup Moving
        BY DEF Installing
    <2> QED BY <1>1, <2>1, <1>2, ToIs
<1>4. /\ app' = app /\ service' \in Release /\ torn' = torn /\ disk' = disk
      /\ token' \in {"missing", "unread", "read"}
    BY <1>1, <1>2 DEF Up, host, IInv, TypeOK, InVMTypeOK, world, Run
<1>5. /\ Installs(w) /\ run'[w].at \notin Waiting
      /\ Knows(run[w]) /\ Served /\ (~torn => GoesBack /\ Finds(run[w]))
      /\ DiskBehind /\ RunBehind(run[w]) /\ (w = "boot" => run[w].mode = "update")
      /\ (connected => w = "boot" /\ DiskOwn /\ BootOwn(run[w]))
      /\ \A v \in Runs : v # w => run[v].at \in Waiting
    <2>1. "mark" \in Installing /\ run[w].at \in Installing
        BY <1>1 DEF Installing
    <2> QED BY <1>1, <1>2, <1>3, <1>4, <2>1, InstallIs
<1>6. Served' /\ Knows(run[w])'
    BY <1>1, <1>3, <1>4, <1>5 DEF Served, Knows, Exchanging, Installing
<1>7. ~torn => GoesBack' /\ Finds(run[w])'
    BY <1>1, <1>3, <1>4, <1>5 DEF GoesBack, Finds, Installing, NothingIsKept, OldIsKept
<1>8. DiskBehind' /\ RunBehind(run[w])'
    BY <1>3, <1>4, <1>5 DEF DiskBehind, RunBehind, NotAhead
<1>9. connected /\ w = "boot" => DiskOwn' /\ BootOwn(run["boot"])'
    BY <1>1, <1>3, <1>4, <1>5 DEF DiskOwn, BootOwn, Own, Exchanging, Installing, Over
<1> QED BY <1>5, <1>6, <1>7, <1>8, <1>9, Moves

LEMMA MarkKeeps ==
    ASSUME RuntimeInstallAssumption, IInv, NEW w \in Runs, Mark(w),
           UNCHANGED <<host, job, connected, stops>>
    PROVE  IInv'
<1>1. /\ run[w].at = "mark" /\ disk' = [disk EXCEPT !.marker = run[w].ref]
      /\ To(w, AfterInstall(w)) /\ UNCHANGED <<service, token, machine, world>>
    BY DEF Mark
<1>2. disk \in Disk /\ run \in [Runs -> Run] /\ run[w] \in Run
    BY Typed DEF IInv
<1>3. /\ disk' \in Disk /\ disk'.runtime = disk.runtime /\ disk'.prev = disk.prev
      /\ disk'.prevVersion = disk.prevVersion /\ disk'.marker = run[w].ref
    BY <1>1, <1>2 DEF Disk, Run
<1>4. /\ AfterInstall(w) \in {"tidy", "untag"}
      /\ AfterInstall(w) = "tidy" <=> run[w].why = "new"
    BY DEF AfterInstall
<1>5. /\ Alone(w) /\ run'[w].at = AfterInstall(w)
      /\ run'[w].mode = run[w].mode /\ run'[w].api = run[w].api
      /\ run'[w].installed = run[w].installed /\ run'[w].ref = run[w].ref
      /\ run'[w].why = run[w].why
    <2>1. AfterInstall(w) \in Waiting \cup Installing \cup Moving
        BY <1>4 DEF Moving
    <2> HIDE DEF AfterInstall
    <2> QED BY <1>1, <2>1, <1>2, ToIs
<1>6. /\ app' = app /\ service' = service /\ service \in Release /\ torn' = torn
      /\ token' \in {"missing", "unread", "read"}
    BY <1>1 DEF host, IInv, TypeOK, InVMTypeOK, world
<1>7. /\ Installs(w) /\ run'[w].at \notin Waiting
      /\ Knows(run[w]) /\ Served /\ (~torn => GoesBack /\ Finds(run[w]))
      /\ DiskBehind /\ RunBehind(run[w]) /\ (w = "boot" => run[w].mode = "update")
      /\ (connected => w = "boot" /\ DiskOwn /\ BootOwn(run[w]))
      /\ \A v \in Runs : v # w => run[v].at \in Waiting
    <2>1. run[w].at \in Installing
        BY <1>1 DEF Installing
    <2> QED BY <1>1, <1>3, <1>4, <1>5, <1>6, <2>1, InstallIs
<1>8. Served' /\ Knows(run[w])'
    BY <1>1, <1>3, <1>4, <1>5, <1>6, <1>7 DEF Served, Knows, Exchanging, Installing
<1>9. ~torn => GoesBack' /\ Finds(run[w])'
    BY <1>1, <1>3, <1>4, <1>5, <1>7 DEF GoesBack, Finds, Knows, Installing, NothingIsKept, OldIsKept
<1>10. DiskBehind' /\ RunBehind(run[w])'
    BY <1>3, <1>5, <1>6, <1>7 DEF DiskBehind, RunBehind, NotAhead
<1>11. connected /\ w = "boot" => DiskOwn' /\ BootOwn(run["boot"])'
    BY <1>1, <1>3, <1>4, <1>5, <1>6, <1>7 DEF DiskOwn, BootOwn, Own, Knows, Exchanging, Installing, Over
<1> QED BY <1>7, <1>8, <1>9, <1>10, <1>11, Moves

LEMMA BreaksKeeps ==
    ASSUME RuntimeInstallAssumption, IInv, NEW w \in Runs, Breaks(w),
           UNCHANGED <<host, job, connected, stops>>
    PROVE  IInv'
<1>1. /\ run[w].at \in {"token", "up", "mark"} /\ InstallFails(w)
      /\ UNCHANGED <<files, machine, newest, torn>>
    BY DEF Breaks
<1>2. faults' \in 0..MaxFaults
    BY FaultIs DEF Breaks, IInv, TypeOK, InVMTypeOK
<1>3. Holds(w)
    BY <1>1 DEF Holds, Waiting
<1>4. /\ app' = app /\ disk' = disk /\ service' = service /\ token' = token
      /\ torn' = torn /\ service \in Release /\ token \in {"missing", "unread", "read"}
      /\ disk \in Disk /\ run \in [Runs -> Run] /\ run[w] \in Run
    BY <1>1, Typed DEF host, IInv, TypeOK, InVMTypeOK, files
<1>5. /\ Knows(run[w]) /\ Served /\ (~torn => GoesBack /\ Finds(run[w]))
      /\ DiskBehind /\ RunBehind(run[w]) /\ (w = "boot" => run[w].mode = "update")
      /\ (connected => w = "boot" /\ DiskOwn /\ BootOwn(run[w]))
      /\ \A v \in Runs : v # w => run[v].at \in Waiting
    BY <1>3, Alones, Holder
<1>6. disk.marker = None
    BY <1>1, <1>5 DEF Knows
<1>7. Served' /\ DiskBehind' /\ (connected => DiskOwn') /\ (~torn => GoesBack' /\ Stands')
    BY <1>4, <1>5, <1>6 DEF Served, DiskBehind, NotAhead, DiskOwn, Own, GoesBack, Stands
<1>8. CASE Ends(w, "failed")
    BY <1>1, <1>2, <1>3, <1>4, <1>7, <1>8, EndKeeps
<1>9. CASE /\ run[w].why = "new" /\ disk.prev # None
           /\ run' = [run EXCEPT ![w].at = "drop", ![w].why = "fallback",
                                 ![w].ref = run[w].installed]
    <2> DEFINE its == [run[w] EXCEPT !.at = "drop", !.why = "fallback", !.ref = run[w].installed]
    <2>1. run' = [run EXCEPT ![w] = its]
        BY <1>9
    <2>2. its \in Run
        BY <1>4 DEF Run, Moving
    <2>3. /\ its.at = "drop" /\ its.why = "fallback" /\ its.ref = run[w].installed
          /\ its.mode = run[w].mode /\ its.api = run[w].api
          /\ its.installed = run[w].installed
        BY <1>4 DEF Run
    <2> HIDE DEF its
    <2>4. Alone(w) /\ run'[w] = its
        BY <1>4, <2>1, <2>2, OnlyIts
    <2>5. w = "boot" => run'[w].mode = "update"
        BY <1>5, <2>3, <2>4
    <2>6. Installs(w)
        BY <1>1, <1>2, <1>3, <1>4, <2>4, <2>5, Alones, StepIs
    <2>7. Knows(run[w])'
        BY <1>4, <1>6, <2>3, <2>4 DEF Knows, Exchanging, Installing
    <2>8. ~torn => Finds(run[w])' /\ run'[w].at \notin Waiting
        BY <1>1, <1>4, <1>5, <1>9, <2>3, <2>4 DEF Finds, Installing, NothingIsKept, OldIsKept, Waiting
    <2>9. RunBehind(run[w])'
        BY <1>4, <1>5, <2>3, <2>4 DEF RunBehind, NotAhead
    <2>10. RunBehind(run[w])' /\ (connected /\ w = "boot" => BootOwn(run["boot"])')
        BY <1>1, <1>4, <1>5, <1>9, <2>3, <2>4, <2>9 DEF BootOwn, Own, Exchanging, Installing, Over
    <2> QED BY <1>7, <2>6, <2>7, <2>8, <2>10, Moves
<1> QED BY <1>1, <1>8, <1>9 DEF InstallFails

LEMMA GetShKeeps ==
    ASSUME RuntimeInstallAssumption, IInv, NEW w \in Runs, GetSh(w),
           UNCHANGED <<host, job, connected, stops>>
    PROVE  IInv'
BY LockedKeeps, ResolveKeeps, MoveKeeps, TidyKeeps, UntagKeeps, ForgetKeeps, BreaksKeeps,
   TokenKeeps, UpKeeps, MarkKeeps DEF GetSh

-----------------------------------------------------------------------------
\* What happens around get.sh.

\* A run goes on as it was, or is one that has not begun or is over.
Follows(w) ==
    \/ SameRun(run'[w], run[w])
    \/ /\ run'[w].at \in Over \cup {"begin"}
       /\ run'[w].mode = "update" /\ run'[w].api = None
       /\ run'[w].installed = None /\ run'[w].ref = None

\* The machine goes off with every run, or no run that has the lock is cut
\* off; the host's has to be started, and one to be left behind.
Inside ==
    /\ run' \in [Runs -> Run] /\ \A w \in Runs : Follows(w)
    /\ \A w \in Runs \ {"boot"} : run[w].at = "off" => run'[w].at = "off"
    /\ \/ GoesOff /\ \A w \in Runs : run'[w].at \in Over
       \/ UNCHANGED torn /\ \A w \in Runs : Idles(w)

HostTypes ==
    /\ provider \in {"wsl", "lima"} /\ limactl \in {"missing", "older", "pinned"}
    /\ done \subseteq Remembered /\ features \in {"off", "pending", "on"} /\ runonce \in BOOLEAN
    /\ app \in App /\ connected \in BOOLEAN /\ stops \in 0..MaxStops

MachineTypes ==
    /\ vm \in {"none", "off", "on"} /\ systemd \in BOOLEAN
    /\ token \in {"missing", "unread", "read"} /\ newest \in Releases /\ faults \in 0..MaxFaults

LEMMA Types ==
    TypeOK <=> /\ HostTypes /\ MachineTypes /\ job \in Jobs /\ disk \in Disk
               /\ service \in Release /\ declared \in Apis \cup {None} /\ run \in [Runs -> Run] /\ torn \in BOOLEAN
BY DEF TypeOK, InVMTypeOK, HostTypes, MachineTypes, Disk, Run, App, Jobs

LEMMA SurroundsAll ==
    ASSUME RuntimeInstallAssumption, IInv, Inside, HostTypes', MachineTypes', job' \in Jobs, JobFits',
           UNCHANGED <<disk, service>>, app'.api = app.api, declared' \in {declared, app.api},
           vm' # "on" => \A w \in Runs : run'[w].at \in Over,
           vm' = "none" \/ job'.at = "conf" => ~systemd', Awaited'
    PROVE  TypeOK' /\ Holding' /\ InVMFits' /\ Folders' /\ Behind'
<1>1. app.api \in Nat /\ app.api \in Apis
    BY Typed DEF IInv, App, Apis
<1>2. TypeOK'
    <2>1. torn' \in BOOLEAN
        BY DEF Inside, GoesOff, IInv, TypeOK, InVMTypeOK
    <2>2. /\ disk' \in Disk /\ service' \in Release /\ declared' \in Apis \cup {None}
          /\ run' \in [Runs -> Run]
        BY <1>1, Types DEF IInv, Inside
    <2> QED BY <2>1, <2>2 DEF TypeOK, InVMTypeOK, HostTypes, MachineTypes, Disk, Run, App, Jobs
<1>3. Alive'
    <2>1. run'["boot"].mode = "update"
        BY Constants DEF IInv, Holding, Alive, Inside, Follows, SameRun
    <2> QED BY <2>1 DEF Alive
<1>4. InVMFits' /\ Folders' /\ OneHolder'
    BY InsideStops, InsideIdles DEF Inside
<1>5. Behind'
    <2>1. ASSUME NEW w \in Runs PROVE RunBehind(run[w])'
        <3>1. RunBehind(run[w])
            BY DEF IInv, Behind
        <3> QED BY <1>1, <3>1 DEF Inside, Follows, SameRun, RunBehind, NotAhead, None
    <2>2. DiskBehind'
        BY DEF IInv, Behind, DiskBehind, NotAhead
    <2>3. declared' <= app'.api
        BY <1>1 DEF IInv, Behind
    <2> QED BY <2>1, <2>2, <2>3 DEF Behind
<1> QED BY <1>2, <1>3, <1>4, <1>5 DEF Holding

\* And what the app found stays so.
LEMMA Surrounds ==
    ASSUME RuntimeInstallAssumption, IInv, Inside, HostTypes', MachineTypes', job' \in Jobs, JobFits',
           UNCHANGED <<disk, service>>, app'.api = app.api, declared' \in {declared, app.api},
           vm' # "on" => \A w \in Runs : run'[w].at \in Over,
           vm' = "none" \/ job'.at = "conf" => ~systemd',
           job.at = "wait" => job'.at = "wait" \/ run'["host"].at = "off",
           connected' => connected /\ ~(job'.at = "exec" /\ job'.mode = "update")
    PROVE  IInv'
<1>3. Awaited'
    BY Constants DEF IInv, Holding, Awaited, Inside
<1>1. TypeOK' /\ Holding' /\ InVMFits' /\ Folders' /\ Behind'
    BY <1>3, SurroundsAll
<1>2. Connection'
    <2>1. SUFFICES ASSUME connected' PROVE Connection'
        BY DEF Connection
    <2>2. /\ declared = app.api /\ run["host"].at = "off" /\ run["left"].at = "off" /\ DiskOwn /\ BootOwn(run["boot"])
          /\ ~(job'.at = "exec" /\ job'.mode = "update")
        BY <2>1 DEF IInv, Connection
    <2>3. BootOwn(run["boot"])'
        <3>1. Follows("boot")
            BY Constants DEF Inside
        <3>2. CASE SameRun(run'["boot"], run["boot"])
            BY <2>2, <3>2 DEF SameRun, BootOwn, Own
        <3>3. CASE run'["boot"].at \in Over \cup {"begin"}
            BY <3>3 DEF BootOwn, Over, Exchanging, Installing
        <3> QED BY <3>1, <3>2, <3>3 DEF Follows
    <2>4. run'["host"].at = "off" /\ run'["left"].at = "off"
        BY <2>2, Constants DEF Inside
    <2> QED BY <2>1, <2>2, <2>3, <2>4 DEF Connection, DiskOwn, Own
<1> QED BY <1>1, <1>2 DEF IInv

LEMMA Same ==
    ASSUME IInv, UNCHANGED <<run, torn>>
    PROVE  Inside
BY Typed DEF IInv, Inside, Follows, Idles, SameRun

LEMMA Stopped ==
    ASSUME RuntimeInstallAssumption, IInv, Stop
    PROVE  Inside /\ vm' = "off" /\ \A w \in Runs : run'[w].at \in Over
<1>1. run \in [Runs -> Run] /\ GoesOff /\ run' = [w \in Runs |-> Ended(w)]
    BY Typed DEF IInv, Stop
<1>2. ASSUME NEW w \in Runs
      PROVE  /\ run'[w] \in Run /\ run'[w].at \in Over /\ Follows(w)
             /\ run[w].at = "off" => run'[w].at = "off"
    <2>1. CASE run[w].at \in Over
        BY <1>1, <2>1 DEF Ended, Over, Follows, SameRun
    <2>2. CASE run[w].at \notin Over
        <3>1. run'[w] = Result(w, "failed")
            BY <1>1, <2>2 DEF Ended, Over
        <3>2. Result(w, "failed") \in Run /\ Ending(Result(w, "failed"))
            BY ResultIs
        <3> QED BY <2>2, <3>1, <3>2 DEF Ending, Over, Follows
    <2> QED BY <2>1, <2>2
<1>3. run' \in [Runs -> Run]
    BY <1>1, <1>2
<1> QED BY <1>1, <1>2, <1>3, Constants DEF Inside, GoesOff

\* A machine that boots begins the boot unit's run, where there was none.
LEMMA Booted ==
    ASSUME RuntimeInstallAssumption, IInv, NEW bySystemd \in BOOLEAN, Boot(bySystemd),
           vm # "on" \/ ~bySystemd, UNCHANGED torn
    PROVE  Inside /\ vm' = "on" /\ token' \in {"missing", "unread", "read"}
<1>1. vm' = "on" /\ token' \in {"missing", "unread", "read"}
    BY DEF Boot, IInv, TypeOK, InVMTypeOK
<1>2. CASE run' = run
    BY <1>1, <1>2, Same
<1>3. CASE bySystemd /\ run' = [run EXCEPT !["boot"] = [NoRun EXCEPT !.at = "begin"]]
    <2> DEFINE its == [NoRun EXCEPT !.at = "begin"]
    <2>1. its \in Run /\ its.at = "begin" /\ its.mode = "update" /\ its.api = None
          /\ its.installed = None /\ its.ref = None
        BY Constants DEF Run, Waiting
    <2> HIDE DEF its
    <2>2. Alone("boot") /\ run'["boot"] = its
        BY <1>3, <2>1, Typed, Constants, OnlyIts DEF its, IInv
    <2>3. \A w \in Runs : run[w].at \in Waiting
        BY <1>3, Positions DEF IInv, Holding, Alive
    <2>4. \A w \in Runs : run'[w].at \in Waiting
        BY <2>1, <2>2, <2>3 DEF Alone, Waiting
    <2>5. \A w \in Runs : Follows(w)
        BY <2>1, <2>2 DEF Alone, Follows, SameRun
    <2>6. \A w \in Runs \ {"boot"} : run'[w] = run[w]
        BY <2>2 DEF Alone
    <2> QED BY <1>1, <2>2, <2>3, <2>4, <2>5, <2>6 DEF Inside, Idles, Alone
<1> QED BY <1>2, <1>3 DEF Boot

\* Nothing is left that could be of the wrong api or in the wrong place.
LEMMA DestroyedKeeps ==
    ASSUME RuntimeInstallAssumption, IInv, Destroyed, HostTypes', job' \in Jobs, JobFits',
           UNCHANGED <<newest, faults>>, app'.api = app.api, job.at = "wait" => job'.at = "wait"
    PROVE  IInv'
<1>1. /\ vm' = "none" /\ systemd' = FALSE /\ disk' = EmptyDisk /\ declared' = None
      /\ service' = None /\ token' = "missing" /\ torn' = FALSE /\ connected' = FALSE
      /\ run' = [w \in Runs |-> Ended(w)]
    BY DEF Destroyed
<1>2. /\ disk' \in Disk /\ service' \in Release /\ disk'.runtime = None /\ disk'.prev = None
      /\ disk'.prevVersion = None /\ disk'.marker = None
    BY <1>1, Constants, ApiIs
<1>3. app.api \in Nat
    BY Typed DEF IInv, App, Apis
<1>4. ASSUME NEW w \in Runs
      PROVE  run'[w] \in Run /\ run'[w].at \in Over /\ RunBehind(run[w])'
             /\ (w = "boot" => run'[w].mode = "update")
    <2>1. run[w] \in Run /\ RunBehind(run[w]) /\ (w = "boot" => run[w].mode = "update")
        BY Typed DEF IInv, Behind, Holding, Alive
    <2>2. CASE run'[w] = run[w] /\ run[w].at \in Over
        BY <2>1, <2>2 DEF RunBehind, NotAhead
    <2>3. CASE run'[w] = Result(w, "failed")
        <3>1. Result(w, "failed") \in Run /\ Ending(Result(w, "failed"))
            BY ResultIs
        <3> QED BY <1>3, <2>3, <3>1 DEF Ending, RunBehind, NotAhead, None
    <2> QED BY <1>1, <2>2, <2>3 DEF Ended, Over
<1>5. run' \in [Runs -> Run]
    BY <1>1, <1>4
<1>6. TypeOK'
    <2>1. MachineTypes'
        BY <1>1 DEF MachineTypes, IInv, TypeOK, InVMTypeOK
    <2>2. declared' \in Apis \cup {None} /\ torn' \in BOOLEAN
        BY <1>1
    <2> QED BY <1>2, <1>5, <2>1, <2>2
            DEF TypeOK, InVMTypeOK, HostTypes, MachineTypes, Disk, Run, App, Jobs
<1>7. Alive'
    BY <1>1, <1>4, Constants DEF Alive
<1>8. InVMFits' /\ Folders' /\ OneHolder'
    BY <1>1, <1>4, InsideEmpties
<1>9. Behind'
    BY <1>1, <1>2, <1>3, <1>4 DEF Behind, DiskBehind, NotAhead, None
<1>10. Connection'
    BY <1>1 DEF Connection
<1>11. Awaited'
    BY <1>1, Constants DEF IInv, Holding, Awaited, Ended
<1> QED BY <1>6, <1>7, <1>8, <1>9, <1>10, <1>11 DEF IInv, Holding

-----------------------------------------------------------------------------
\* What happens to the job.

Ats == OnHost \cup OnMachine \cup Commands \cup Calls \cup Verifying \cup Removing

LEMMA BecomesIs ==
    ASSUME job \in Jobs, NEW at \in Ats,
           Becomes(at)
    PROVE  /\ job' \in Jobs /\ job'.at = at /\ job'.mode = job.mode /\ job'.then = job.then
           /\ job'.kind = job.kind
BY DEF Becomes, Jobs, Ats

LEMMA EndsJobIs ==
    ASSUME RuntimeInstallAssumption, NEW result \in Endings, EndsJob(result)
    PROVE  /\ job' \in Jobs /\ job'.at \in Endings /\ job'.mode = "install"
           /\ job'.then = "declare"
<1> DEFINE at == IF job.kind = "install" THEN result ELSE "done"
<1>1. at \in Endings
    BY DEF Endings
<1> HIDE DEF at
<1>2. job' = [NoJob EXCEPT !.at = at]
    BY DEF EndsJob, at
<1>3. NoJob \in Jobs /\ NoJob.mode = "install" /\ NoJob.then = "declare"
    BY Constants
<1> QED BY <1>1, <1>2, <1>3 DEF Jobs

\* A job that is over, or is not at anything yet.
LEMMA RestingFits ==
    ASSUME job'.at \in Endings
    PROVE  JobFits' /\ job'.at \notin {"conf", "exec"}
BY DEF JobFits, Anew, Endings, OnHost

\* A set of steps has a first one.
LEMMA Least ==
    ASSUME NEW left \in SUBSET (1..5), left # {}
    PROVE  \E n \in left : \A m \in left : n <= m
<1>1. CASE 1 \in left
    BY <1>1
<1>2. CASE 1 \notin left /\ 2 \in left
    BY <1>2
<1>3. CASE 1 \notin left /\ 2 \notin left /\ 3 \in left
    BY <1>3
<1>4. CASE 1 \notin left /\ 2 \notin left /\ 3 \notin left /\ 4 \in left
    BY <1>4
<1>5. CASE 1 \notin left /\ 2 \notin left /\ 3 \notin left /\ 4 \notin left
    <2>1. \A m \in left : m = 5
        BY <1>5
    <2>2. PICK n \in left : TRUE
        OBVIOUS
    <2>3. \A m \in left : n <= m
        BY <2>1, <2>2
    <2> QED BY <2>2, <2>3
<1> QED BY <1>1, <1>2, <1>3, <1>4, <1>5

\* There is always a step left, for the last one is never remembered.
LEMMA FromIs ==
    ASSUME TypeOK, NEW n \in 1..5, n <= Len(Steps)
    PROVE  /\ From(n) \in OnHost /\ From(n) # "conf"
           /\ provider = "lima" => From(n) \notin {"remediate", "remediated", "gate"}
<1> DEFINE left == {i \in n..Len(Steps) : Steps[i] \notin done}
<1>1. done \subseteq Remembered /\ provider \in {"wsl", "lima"}
    BY DEF TypeOK
<1>2. /\ Len(Steps) \in 1..5 /\ Steps[Len(Steps)] = "create"
      /\ \A i \in 1..Len(Steps) :
            /\ Steps[i] \in OnHost /\ Steps[i] # "conf"
            /\ provider = "lima" => Steps[i] \notin {"remediate", "remediated", "gate"}
    <2>1. CASE provider = "lima"
        BY <2>1 DEF Steps, OnHost
    <2>2. CASE provider = "wsl"
        BY <2>2 DEF Steps, OnHost
    <2> QED BY <1>1, <2>1, <2>2
<1>3. Len(Steps) \in left
    BY <1>1, <1>2 DEF Remembered
<1>4. left \in SUBSET (1..5)
    BY <1>2
<1>5. From(n) = Steps[CHOOSE i \in left : \A j \in left : i <= j]
    BY DEF From
<1>6. \A i \in left : i \in 1..Len(Steps)
    BY <1>2
<1> HIDE DEF left
<1>7. \E i \in left : \A j \in left : i <= j
    BY <1>3, <1>4, Least
<1>8. (CHOOSE i \in left : \A j \in left : i <= j) \in left
    BY <1>7
<1> QED BY <1>2, <1>5, <1>6, <1>8

LEMMA FollowingIs ==
    ASSUME TypeOK, NEW step \in Remembered, provider = "lima" => step = "preflight"
    PROVE  /\ Following(step) \in OnHost /\ Following(step) # "conf"
           /\ provider = "lima" => Following(step) \notin {"remediate", "remediated", "gate"}
<1>1. provider \in {"wsl", "lima"}
    BY DEF TypeOK
<1> DEFINE place == CHOOSE i \in DOMAIN Steps : Steps[i] = step
<1>2. /\ Len(Steps) \in 3..5 /\ DOMAIN Steps = 1..Len(Steps)
      /\ (provider = "wsl" => Len(Steps) = 5)
      /\ \E i \in DOMAIN Steps : Steps[i] = step
      /\ \A i \in DOMAIN Steps : Steps[i] = step => i \in 1..4 /\ i < Len(Steps)
    <2>1. CASE provider = "lima"
        <3>1. Steps = <<"preflight", "lima", "create">> /\ step = "preflight"
            BY <2>1 DEF Steps
        <3> QED BY <3>1, <2>1
    <2>2. CASE provider = "wsl"
        <3>1. Steps = <<"preflight", "remediate", "gate", "image", "create">>
            BY <2>2 DEF Steps
        <3>2. step \in {"preflight", "remediate", "gate"}
            BY DEF Remembered
        <3>3. Steps[1] = "preflight" /\ Steps[2] = "remediate" /\ Steps[3] = "gate"
              /\ Steps[4] = "image" /\ Steps[5] = "create" /\ Len(Steps) = 5
              /\ DOMAIN Steps = 1..5
            BY <3>1
        <3> QED BY <3>2, <3>3
    <2> QED BY <1>1, <2>1, <2>2
<1>3. place \in 1..4 /\ place < Len(Steps)
    BY <1>2
<1>4. Following(step) = From(1 + place)
    BY DEF Following
<1> HIDE DEF place
<1>5. 1 + place \in 1..5 /\ 1 + place <= Len(Steps)
    BY <1>2, <1>3
<1> QED BY <1>4, <1>5, FromIs

-----------------------------------------------------------------------------
\* The steps of a job that leave the machine alone.

Told == vm = "none" \/ declared = app.api

LEMMA Quiet ==
    ASSUME RuntimeInstallAssumption, IInv, UNCHANGED inVM, HostTypes', job' \in Jobs, JobFits',
           app'.api = app.api, job'.at = "conf" => job.at = "conf",
           job.at = "wait" => job'.at = "wait",
           connected' => connected /\ ~(job'.at = "exec" /\ job'.mode = "update")
    PROVE  IInv'
<1>1. Inside
    BY Same DEF inVM
<1>2. MachineTypes'
    BY DEF inVM, IInv, TypeOK, InVMTypeOK, MachineTypes
<1>3. vm' # "on" => \A w \in Runs : run'[w].at \in Over
    BY DEF inVM, IInv, Holding, Alive
<1>4. vm' = "none" \/ job'.at = "conf" => ~systemd'
    BY DEF inVM, IInv, Holding, Alive
<1>5. UNCHANGED <<disk, service>> /\ declared' \in {declared, app.api}
    BY DEF inVM
<1> QED BY <1>1, <1>2, <1>3, <1>4, <1>5, Surrounds

LEMMA Onward ==
    ASSUME RuntimeInstallAssumption, IInv, UNCHANGED inVM, HostTypes', app'.api = app.api,
           connected' => connected, provider' = provider,
           NEW at \in Ats, at \notin {"conf", "exec"}, Becomes(at), job.at # "wait",
           provider = "lima" => at \notin {"remediate", "remediated", "gate"},
           at \in OnHost \cup {"start", "poweroff", "halt"} => Anew(job),
           \/ at \in {"client", "health", "version"}
           \/ at \in {"wait", "after"} /\ job.then # "declare"
           => Told
    PROVE  IInv'
<1>1. /\ job' \in Jobs /\ job'.at = at /\ job'.mode = job.mode /\ job'.then = job.then
    BY BecomesIs, Typed DEF IInv, Ats
<1>2. JobFits'
    BY <1>1 DEF JobFits, Anew, Told, inVM
<1> QED BY <1>1, <1>2, Quiet

LEMMA Rests ==
    ASSUME RuntimeInstallAssumption, IInv, UNCHANGED inVM, HostTypes', app'.api = app.api,
           connected' => connected, job' \in Jobs, job'.at \in Endings, job.at # "wait"
    PROVE  IInv'
BY RestingFits, Quiet

LEMMA HostStays ==
    ASSUME IInv, UNCHANGED <<host, connected, stops>>
    PROVE  /\ HostTypes' /\ app' = app /\ app'.api = app.api /\ provider' = provider
           /\ connected' = connected
BY DEF IInv, TypeOK, HostTypes, host, App

LEMMA Idle ==
    ASSUME NEW kind, Offered(kind)
    PROVE  job.at # "wait"
BY DEF Offered, Endings

\* A stop by the user counts.
LEMMA OneStopIs ==
    ASSUME HostSetupAssumption, stops \in 0..MaxStops, OneStop
    PROVE  stops' \in 0..MaxStops
BY DEF OneStop, HostSetupAssumption

LEMMA StartKeeps ==
    ASSUME RuntimeInstallAssumption, HostSetupAssumption, IInv, NEW kind \in Kinds, Start(kind)
    PROVE  IInv'
<1> DEFINE at == FirstStep(kind)
           mode == IF kind = "repair" THEN "repair" ELSE "install"
           First == OnHost \cup {"exec", "declare", "start", "destroy", "halt", "poweroff"}
<1>1. UNCHANGED <<inVM, host, connected>> /\ (OneStop \/ UNCHANGED stops) /\ job.at # "wait"
    BY Idle DEF Start
<1>2. /\ at \in First /\ at # "conf"
      /\ provider = "lima" => at \notin {"remediate", "remediated", "gate"}
    <2>1. CASE kind = "install"
        <3>1. 1 <= Len(Steps)
            BY DEF Steps
        <3> QED BY <2>1, <3>1, FromIs DEF IInv, FirstStep
    <2>2. CASE kind \in {"repair", "update", "start"}
        BY <2>2 DEF FirstStep, OnHost
    <2>3. CASE kind \in {"stop", "restart", "recover", "uninstall"}
        BY <2>3 DEF FirstStep, Stopping
    <2> QED BY <2>1, <2>2, <2>3 DEF Kinds
<1>3. mode \in {"install", "repair"}
    OBVIOUS
<1>4. job' = [NoJob EXCEPT !.kind = kind, !.at = at, !.mode = mode]
    BY DEF Start
<1> HIDE DEF at, mode
<1>5. /\ job' \in Jobs /\ job'.at = at /\ job'.mode = mode /\ job'.then = "declare"
    <2>1. at \in OnHost \cup OnMachine \cup Commands
        BY <1>2 DEF Commands, OnMachine
    <2> QED BY <1>3, <1>4, <2>1, Constants DEF Jobs
<1>6. JobFits'
    BY <1>1, <1>2, <1>3, <1>5 DEF JobFits, Anew, host, OnHost
<1>7. HostTypes' /\ app'.api = app.api
    <2>1. stops' \in 0..MaxStops
        BY <1>1, Types, OneStopIs DEF IInv, HostTypes
    <2> QED BY <1>1, <2>1, Types DEF IInv, HostTypes, host
<1> QED BY <1>1, <1>2, <1>3, <1>5, <1>6, <1>7, Quiet

\* Done and remembered.
LEMMA RememberKeeps ==
    ASSUME RuntimeInstallAssumption, IInv, NEW step \in Remembered,
           provider = "lima" => step = "preflight", job.at \in OnHost, Remember(step),
           UNCHANGED <<inVM, connected, stops, provider, limactl, features, runonce, app>>
    PROVE  IInv'
<1> DEFINE at == Following(step)
<1>1. /\ at \in OnHost /\ at # "conf"
      /\ provider = "lima" => at \notin {"remediate", "remediated", "gate"}
    BY FollowingIs DEF IInv
<1>2. Becomes(at) /\ done' = done \cup {step}
    BY DEF Remember
<1> HIDE DEF at
<1>3. HostTypes'
    BY <1>2 DEF IInv, TypeOK, HostTypes, App
<1>4. Anew(job)
    BY DEF IInv, Holding, JobFits
<1>5. at \in Ats /\ at \notin {"conf", "exec", "client", "health", "version", "wait", "after"}
    BY <1>1 DEF Ats, OnHost
<1>6. job.at # "wait"
    BY DEF OnHost
<1> QED BY <1>1, <1>2, <1>3, <1>4, <1>5, <1>6, Onward

LEMMA BeforeVMKeeps ==
    ASSUME RuntimeInstallAssumption, IInv, BeforeVM
    PROVE  IInv'
<1>1. UNCHANGED <<inVM, connected, stops>>
    BY DEF BeforeVM
<1>2. HostTypes /\ app \in App /\ TypeOK /\ JobFits
    BY Types, Typed DEF IInv, Holding
<1>3. job.at \in OnHost => Anew(job)
    BY <1>2 DEF JobFits
<1>4. CASE Preflight
    <2>1. "preflight" \in Remembered /\ job.at \in OnHost
        BY <1>4 DEF Preflight, Remembered, OnHost
    <2> QED BY <1>1, <1>4, <2>1, RememberKeeps DEF Preflight
<1>5. CASE Remediated
    <2>1. "remediate" \in Remembered /\ job.at \in OnHost /\ provider # "lima"
        BY <1>2, <1>5 DEF Remediated, Remembered, OnHost, JobFits
    <2> QED BY <1>1, <1>5, <2>1, RememberKeeps DEF Remediated
<1>6. CASE Gate
    <2>1. "gate" \in Remembered /\ job.at \in OnHost /\ job.at = "gate" /\ provider # "lima"
        BY <1>2, <1>6 DEF Gate, Remembered, OnHost, JobFits
    <2>2. CASE /\ Becomes("gated") /\ runonce' = TRUE
               /\ UNCHANGED <<provider, limactl, done, features, app>>
        <3>1. HostTypes'
            BY <1>1, <1>2, <2>2 DEF HostTypes
        <3>2. "gated" \in Ats /\ "gated" \in OnHost
            BY DEF Ats, OnHost
        <3> QED BY <1>1, <1>3, <2>1, <2>2, <3>1, <3>2, Onward
    <2>3. CASE Remember("gate") /\ UNCHANGED <<provider, limactl, features, runonce, app>>
        BY <1>1, <2>1, <2>3, RememberKeeps
    <2> QED BY <1>6, <2>2, <2>3 DEF Gate
<1>7. CASE Lima
    <2>1. job.at = "lima" /\ UNCHANGED <<provider, done, features, runonce, app>>
        BY <1>7 DEF Lima
    <2>2. HostTypes'
        BY <1>1, <1>2, <1>7, <2>1 DEF HostTypes, Lima
    <2>3. Anew(job)
        BY <1>3, <2>1 DEF OnHost
    <2>4. PICK at \in {"swap", "create"} : Becomes(at)
        BY <1>7 DEF Lima
    <2>5. at \in Ats
        BY DEF Ats, OnHost
    <2> QED BY <1>1, <2>1, <2>2, <2>3, <2>4, <2>5, Onward
<1>8. CASE Swap
    <2>1. /\ job.at = "swap" /\ Becomes("create") /\ limactl' = "pinned"
          /\ UNCHANGED <<provider, done, features, runonce, app>>
        BY <1>8 DEF Swap
    <2>2. HostTypes'
        BY <1>1, <1>2, <2>1 DEF HostTypes
    <2>3. Anew(job)
        BY <1>3, <2>1 DEF OnHost
    <2>4. "create" \in Ats
        BY DEF Ats, OnHost
    <2> QED BY <1>1, <2>1, <2>2, <2>3, <2>4, Onward
<1>9. CASE Remediate
    <2>1. /\ job.at = "remediate" /\ Becomes("remediated")
          /\ features' = IF features = "off" THEN "pending" ELSE features
          /\ app' = [app EXCEPT !.enabled = FeaturesMissing]
          /\ UNCHANGED <<provider, limactl, done, runonce>>
        BY <1>9 DEF Remediate
    <2>2. FeaturesMissing \in BOOLEAN
        BY DEF FeaturesMissing
    <2>3. app' \in App /\ app'.api = app.api
        BY <1>2, <2>1, <2>2 DEF App
    <2>4. HostTypes'
        BY <1>1, <1>2, <2>1, <2>3 DEF HostTypes
    <2>5. Anew(job) /\ provider # "lima"
        BY <1>2, <1>3, <2>1 DEF OnHost, JobFits
    <2>6. "remediated" \in Ats
        BY DEF Ats, OnHost
    <2> QED BY <1>1, <2>1, <2>3, <2>4, <2>5, <2>6, Onward
<1>10. CASE Gated
    <2>1. /\ job.at = "gated" /\ EndsJob("reboot") /\ done' = done \cup {"gate"}
          /\ UNCHANGED <<provider, limactl, features, runonce, app>>
        BY <1>10 DEF Gated
    <2>2. HostTypes'
        BY <1>1, <1>2, <2>1 DEF HostTypes, Remembered
    <2>3. job' \in Jobs /\ job'.at \in Endings
        BY <2>1, EndsJobIs DEF Endings
    <2> QED BY <1>1, <2>1, <2>2, <2>3, Rests
<1>11. CASE Fetch
    <2>1. job.at \in OnHost /\ job.at # "wait" /\ UNCHANGED host
        BY <1>11 DEF Fetch, OnHost
    <2>2. PICK at \in {"create", "launch"} : Becomes(at)
        BY <1>11 DEF Fetch
    <2>3. at \in Ats
        BY DEF Ats, OnHost
    <2> QED BY <1>1, <1>3, <2>1, <2>2, <2>3, HostStays, Onward
<1> QED BY <1>4, <1>5, <1>6, <1>7, <1>8, <1>9, <1>10, <1>11 DEF BeforeVM

LEMMA GivesUpKeeps ==
    ASSUME RuntimeInstallAssumption, IInv, GivesUp, job.at # "wait", UNCHANGED inVM, HostTypes',
           app'.api = app.api, provider' = provider, connected' = connected
    PROVE  IInv'
<1>1. CASE Becomes("abandon")
    <2>1. "abandon" \in Ats /\ "abandon" \notin OnHost \cup {"start", "poweroff", "halt"}
        BY DEF Ats, Removing, OnHost
    <2> QED BY <1>1, <2>1, Onward
<1>2. CASE EndsJob("failed")
    <2>1. job' \in Jobs /\ job'.at \in Endings
        BY <1>2, EndsJobIs DEF Endings
    <2> QED BY <2>1, Rests
<1> QED BY <1>1, <1>2 DEF GivesUp

LEMMA CreationKeeps ==
    ASSUME RuntimeInstallAssumption, IInv, Creation
    PROVE  IInv'
<1>1. UNCHANGED <<disk, declared, service, newest, host, connected, stops>>
    BY DEF Creation
<1>2. /\ HostTypes' /\ app'.api = app.api /\ provider' = provider /\ connected' = connected
      /\ declared' \in {declared, app.api} /\ UNCHANGED <<disk, service>>
    BY <1>1, HostStays
<1>3. /\ MachineTypes /\ JobFits /\ Alive /\ job \in Jobs
      /\ (connected => ~(job.at = "exec" /\ job.mode = "update"))
    BY Types DEF IInv, Holding, Connection
<1>11. job.at # "wait"
    BY DEF Creation, Create, CreateLima, Conf, Terminate
<1>4. job.at \in OnHost => Anew(job)
    BY <1>3 DEF JobFits
<1>5. ASSUME job.at \in OnHost, Becomes("start")
      PROVE  job' \in Jobs /\ JobFits' /\ job'.at = "start"
    <2>1. "start" \in Ats
        BY DEF Ats, Commands
    <2>2. job' \in Jobs /\ job'.at = "start" /\ job'.mode = job.mode /\ job'.then = job.then
        BY <1>3, <1>5, <2>1, BecomesIs
    <2> QED BY <1>4, <1>5, <2>2 DEF JobFits, Anew
<1>6. ASSUME EndsJob("failed")
      PROVE  job' \in Jobs /\ JobFits' /\ job'.at \notin {"conf", "exec"}
    <2>1. job' \in Jobs /\ job'.at \in Endings
        BY <1>6, EndsJobIs DEF Endings
    <2> QED BY <2>1, RestingFits
<1>7. CASE Create
    <2>1. job.at = "create" /\ UNCHANGED <<systemd, token, run, torn, faults>>
        BY <1>7 DEF Create
    <2>2. Inside
        BY <2>1, Same
    <2>3. job.at \in OnHost
        BY <2>1 DEF OnHost
    <2>4. CASE UNCHANGED vm /\ (Becomes("start") \/ EndsJob("failed"))
        <3>1. job' \in Jobs /\ JobFits' /\ job'.at \notin {"conf", "exec"}
            BY <1>5, <1>6, <2>3, <2>4
        <3>2. MachineTypes'
            BY <1>1, <1>3, <2>1, <2>4 DEF MachineTypes
        <3>3. vm' # "on" => \A w \in Runs : run'[w].at \in Over
            BY <1>3, <2>1, <2>4 DEF Alive
        <3>4. vm' = "none" \/ job'.at = "conf" => ~systemd'
            BY <1>3, <2>1, <2>4, <3>1 DEF Alive
        <3> QED BY <1>2, <1>11, <2>2, <3>1, <3>2, <3>3, <3>4, Surrounds
    <2>5. CASE provider = "wsl" /\ vm = "none" /\ Becomes("conf") /\ vm' = "off"
        <3>1. "conf" \in Ats
            BY DEF Ats, OnHost
        <3>2. job' \in Jobs /\ job'.at = "conf" /\ job'.mode = job.mode /\ job'.then = job.then
            BY <1>3, <2>5, <3>1, BecomesIs
        <3>3. JobFits'
            BY <1>2, <1>4, <2>3, <2>5, <3>2 DEF JobFits, Anew
        <3>4. MachineTypes'
            BY <1>1, <1>3, <2>1, <2>5 DEF MachineTypes
        <3>5. vm' # "on" => \A w \in Runs : run'[w].at \in Over
            BY <1>3, <2>1, <2>5 DEF Alive
        <3>6. vm' = "none" \/ job'.at = "conf" => ~systemd'
            BY <1>3, <2>1, <2>5 DEF Alive
        <3> QED BY <1>2, <1>11, <2>2, <3>2, <3>3, <3>4, <3>5, <3>6, Surrounds
    <2> QED BY <1>7, <2>4, <2>5 DEF Create
<1>8. CASE CreateLima
    <2>1. /\ job.at = "create" /\ vm = "none" /\ systemd' = TRUE /\ vm' \in {"on", "off"}
          /\ Becomes("start") \/ EndsJob("failed")
          /\ Fault \/ UNCHANGED faults
          /\ UNCHANGED <<token, run, torn>>
        BY <1>8 DEF CreateLima
    <2>2. Inside
        BY <2>1, Same
    <2>3. job' \in Jobs /\ JobFits' /\ job'.at \notin {"conf", "exec"}
        BY <1>5, <1>6, <2>1 DEF OnHost
    <2>4. faults' \in 0..MaxFaults
        BY <1>3, <2>1, FaultIs DEF MachineTypes
    <2>5. MachineTypes'
        BY <1>1, <1>3, <2>1, <2>4 DEF MachineTypes
    <2>6. vm' # "on" => \A w \in Runs : run'[w].at \in Over
        BY <1>3, <2>1 DEF Alive
    <2>7. vm' = "none" \/ job'.at = "conf" => ~systemd'
        BY <2>1, <2>3
    <2> QED BY <1>2, <1>11, <2>2, <2>3, <2>5, <2>6, <2>7, Surrounds
<1>9. CASE Conf
    <2>1. /\ job.at = "conf" /\ Becomes("terminate") /\ Boot(systemd) /\ systemd' = TRUE
          /\ UNCHANGED <<torn, faults>>
        BY <1>9 DEF Conf
    <2>2. ~systemd /\ systemd \in BOOLEAN
        BY <1>3, <2>1 DEF Alive, MachineTypes
    <2>3. Inside /\ vm' = "on" /\ token' \in {"missing", "unread", "read"}
        BY <2>1, <2>2, Booted
    <2>4. "terminate" \in Ats /\ job.at \in OnHost
        BY <2>1 DEF Ats, OnHost
    <2>5. job' \in Jobs /\ job'.at = "terminate" /\ job'.mode = job.mode /\ job'.then = job.then
        BY <1>3, <2>1, <2>4, BecomesIs
    <2>6. JobFits'
        BY <1>4, <2>4, <2>5 DEF JobFits, Anew
    <2>7. MachineTypes'
        BY <1>1, <1>3, <2>1, <2>3 DEF MachineTypes
    <2> QED BY <1>2, <1>11, <2>1, <2>3, <2>5, <2>6, <2>7, Surrounds
<1>10. CASE Terminate
    <2>1. /\ job.at = "terminate" /\ vm # "none" /\ Becomes("start") /\ Stop
          /\ UNCHANGED <<systemd, token, faults>>
        BY <1>10 DEF Terminate
    <2>2. Inside /\ vm' = "off" /\ \A w \in Runs : run'[w].at \in Over
        BY <2>1, Stopped
    <2>3. job' \in Jobs /\ JobFits' /\ job'.at = "start"
        BY <1>5, <2>1 DEF OnHost
    <2>4. MachineTypes'
        BY <1>1, <1>3, <2>1, <2>2 DEF MachineTypes
    <2> QED BY <1>2, <1>11, <2>2, <2>3, <2>4, Surrounds
<1> QED BY <1>7, <1>8, <1>9, <1>10 DEF Creation

\* A machine that is off boots beside whatever the job is at.
LEMMA BootKeeps ==
    ASSUME RuntimeInstallAssumption, IInv, vm = "off", Boot(systemd),
           job' \in Jobs, JobFits', job'.at = "conf" => job.at = "conf",
           connected => ~(job'.at = "exec" /\ job'.mode = "update"),
           job.at = "wait" => job'.at = "wait",
           UNCHANGED <<systemd, disk, declared, service, world, host, connected, stops>>
    PROVE  IInv'
<1>1. /\ HostTypes' /\ app'.api = app.api /\ connected' = connected
      /\ declared' \in {declared, app.api}
    BY HostStays
<1>2. MachineTypes /\ Alive
    BY Types DEF IInv, Holding
<1>3. Inside /\ vm' = "on" /\ token' \in {"missing", "unread", "read"}
    BY <1>2, Booted DEF MachineTypes, world
<1>4. MachineTypes'
    BY <1>2, <1>3 DEF MachineTypes, world
<1>5. vm' = "none" \/ job'.at = "conf" => ~systemd'
    BY <1>2, <1>3 DEF Alive
<1> QED BY <1>1, <1>3, <1>4, <1>5, Surrounds

LEMMA JobStays ==
    ASSUME IInv, UNCHANGED <<host, job>>, vm = "none" => vm' = "none", declared' = declared
    PROVE  /\ job' \in Jobs /\ JobFits' /\ job'.at = job.at
           /\ (connected => ~(job'.at = "exec" /\ job'.mode = "update"))
BY Typed DEF IInv, Holding, JobFits, Anew, Connection, host

-----------------------------------------------------------------------------
\* The steps of a job that runs something in the machine.

LEMMA WakesKeeps ==
    ASSUME RuntimeInstallAssumption, IInv, Wakes
    PROVE  IInv'
<1>1. /\ vm = "off" /\ Boot(systemd)
      /\ UNCHANGED <<systemd, disk, declared, service, world, host, job, connected, stops>>
    BY DEF Wakes
<1>2. /\ job' \in Jobs /\ JobFits' /\ job'.at = job.at
      /\ (connected => ~(job'.at = "exec" /\ job'.mode = "update"))
    BY <1>1, JobStays
<1> QED BY <1>1, <1>2, BootKeeps

LEMMA NoMachineKeeps ==
    ASSUME RuntimeInstallAssumption, IInv, NoMachine
    PROVE  IInv'
<1>1. /\ GivesUp /\ UNCHANGED <<inVM, host, connected, stops>> /\ job.at # "wait"
    BY DEF NoMachine, Commands, Calls, Verifying, Removing
<1> QED BY <1>1, HostStays, GivesUpKeeps

LEMMA FailsKeeps ==
    ASSUME RuntimeInstallAssumption, IInv, Fails
    PROVE  IInv'
<1>1. /\ job.at # "wait" /\ GivesUp /\ Fault
      /\ limactl' = (IF job.at = "swap" THEN "older" ELSE limactl)
      /\ UNCHANGED <<vm, systemd, files, declared, run, newest, torn, connected, stops>>
      /\ UNCHANGED <<provider, done, features, runonce, app>>
    BY DEF Fails
<1>2. HostTypes /\ MachineTypes /\ Alive /\ JobFits
    BY Types DEF IInv, Holding
<1>3. HostTypes'
    BY <1>1, <1>2 DEF HostTypes
<1>4. MachineTypes'
    BY <1>1, <1>2, FaultIs DEF MachineTypes, files
<1>5. Inside
    BY <1>1, Same
<1>6. job' \in Jobs /\ JobFits' /\ job'.at \notin {"conf", "exec"}
    <2>1. CASE Becomes("abandon")
        <3>1. "abandon" \in Ats
            BY DEF Ats, Removing
        <3>2. job' \in Jobs /\ job'.at = "abandon"
            BY <2>1, <3>1, BecomesIs, Typed DEF IInv
        <3> QED BY <3>2 DEF JobFits, Anew, OnHost
    <2>2. CASE EndsJob("failed")
        <3>1. job' \in Jobs /\ job'.at \in Endings
            BY <2>2, EndsJobIs DEF Endings
        <3> QED BY <3>1, RestingFits
    <2> QED BY <1>1, <2>1, <2>2 DEF GivesUp
<1>7. vm' # "on" => \A w \in Runs : run'[w].at \in Over
    BY <1>1, <1>2 DEF Alive
<1>8. vm' = "none" \/ job'.at = "conf" => ~systemd'
    BY <1>1, <1>2, <1>6 DEF Alive
<1>9. UNCHANGED <<disk, service>> /\ declared' \in {declared, app.api} /\ app'.api = app.api
    BY <1>1 DEF files
<1> QED BY <1>1, <1>3, <1>4, <1>5, <1>6, <1>7, <1>8, <1>9, Surrounds

\* The steps between which only the job differs.
LEMMA CallsKeep ==
    ASSUME RuntimeInstallAssumption, IInv, Started \/ After \/ Client \/ Verify \/ Import
    PROVE  IInv'
<1>1. UNCHANGED <<inVM, host, connected, stops>>
    BY DEF Started, After, Client, Verify, Import
<1>2. HostTypes' /\ app'.api = app.api /\ provider' = provider /\ connected' = connected
    BY <1>1, HostStays
<1>3. JobFits
    BY DEF IInv, Holding
<1>12. job.at # "wait"
    BY DEF Started, After, Client, Verify, Ensure, WaitForJob, AwaitHttpOk, Teardown, Removing, Import
<1>4. ASSUME NEW result \in Endings, EndsJob(result)
      PROVE  IInv'
    <2>1. job' \in Jobs /\ job'.at \in Endings
        BY <1>4, EndsJobIs
    <2> QED BY <1>1, <1>2, <1>12, <2>1, Rests
<1>5. ASSUME NEW at \in {"declare", "ensure", "up", "probe", "teardown", "abandon", "import"},
             Becomes(at)
      PROVE  IInv'
    <2>1. at \in Ats /\ at \notin OnHost
        BY DEF Ats, Commands, Calls, Verifying, Removing, OnHost
    <2> QED BY <1>1, <1>2, <1>5, <1>12, <2>1, Onward
<1>6. "done" \in Endings /\ "failed" \in Endings
    BY DEF Endings
<1>7. CASE Started
    <2>1. CASE Becomes("exec") /\ job.at = "start"
        <3>1. "exec" \in Ats
            BY DEF Ats, Commands
        <3>2. /\ job' \in Jobs /\ job'.at = "exec" /\ job'.mode = job.mode
              /\ job'.then = job.then /\ job \in Jobs
            BY <2>1, <3>1, BecomesIs, Typed DEF IInv
        <3>3. Anew(job)
            BY <1>3, <2>1 DEF JobFits
        <3>4. JobFits'
            BY <1>1, <3>2, <3>3 DEF JobFits, Anew, OnHost
        <3> QED BY <1>1, <1>2, <1>12, <3>2, <3>3, <3>4, Quiet DEF Anew
    <2> QED BY <1>4, <1>5, <1>6, <1>7, <2>1 DEF Started
<1>8. CASE After
    <2>1. CASE Becomes("client") /\ job.then # "declare" /\ job.at = "after"
        <3>1. "client" \in Ats /\ "client" \notin OnHost /\ Told
            BY <1>3, <2>1 DEF Ats, Commands, OnHost, JobFits, Anew, Told
        <3> QED BY <1>1, <1>2, <2>1, <3>1, Onward
    <2> QED BY <1>4, <1>5, <1>6, <1>8, <2>1 DEF After
<1>9. CASE Client
    <2>1. ASSUME job.at = "client", NEW at \in {"version", "health"}, Becomes(at)
          PROVE  IInv'
        <3>1. at \in Ats /\ at \notin OnHost /\ Told
            BY <1>3, <2>1 DEF Ats, Calls, OnHost, JobFits, Anew, Told
        <3> QED BY <1>1, <1>2, <2>1, <3>1, Onward
    <2> QED BY <1>4, <1>5, <1>6, <1>9, <2>1 DEF Client
<1>10. CASE Verify
    BY <1>4, <1>5, <1>6, <1>10 DEF Verify, Ensure, WaitForJob, AwaitHttpOk, Teardown, Removing
<1>11. CASE Import
    BY <1>4, <1>5, <1>6, <1>11 DEF Import
<1> QED BY <1>7, <1>8, <1>9, <1>10, <1>11

LEMMA BootstrapsIs ==
    ASSUME job \in Jobs, NEW mode \in {"update", "repair"}, NEW then \in {"client", "version"},
           Bootstraps(mode, then)
    PROVE  job' \in Jobs /\ job'.at = "exec" /\ job'.mode = mode /\ job'.then = then
BY DEF Bootstraps, Jobs, Commands

LEMMA ExecKeeps ==
    ASSUME RuntimeInstallAssumption, IInv, Exec
    PROVE  IInv'
<1> DEFINE its == [NoRun EXCEPT !.at = "lock", !.mode = job.mode, !.api = app.api]
<1>1. /\ job.at = "exec" /\ vm = "on" /\ run["host"].at = "off" /\ Becomes("wait")
      /\ run' = [run EXCEPT !["host"] = its]
      /\ connected' = (connected /\ job.mode = "update")
      /\ UNCHANGED <<vm, systemd, disk, declared, service, token, world, host, stops>>
    BY DEF Exec, IInv, Holding, Awaited
<1>2. app \in App /\ job \in Jobs /\ run \in [Runs -> Run] /\ HostTypes /\ MachineTypes /\ TypeOK
    BY Typed, Types DEF IInv
<1>3. /\ its \in Run /\ its.at = "lock" /\ its.api = app.api /\ its.ref = None
      /\ its.installed = None
    BY <1>2, Constants DEF Run, App, Jobs, Waiting, None
<1> HIDE DEF its
<1>4. Alone("host") /\ run'["host"] = its
    BY <1>1, <1>2, <1>3, Constants, OnlyIts
<1>5. connected' = FALSE
    BY <1>1 DEF IInv, Connection
<1>6. "wait" \in Ats
    BY DEF Ats, Calls
<1>7. job' \in Jobs /\ job'.at = "wait" /\ job'.mode = job.mode /\ job'.then = job.then
    BY <1>1, <1>2, <1>6, BecomesIs
<1>8. TypeOK'
    BY <1>1, <1>2, <1>4, <1>5, <1>7
       DEF TypeOK, InVMTypeOK, world, host, Alone, Run, Jobs
<1>9. Alive'
    BY <1>1, <1>4, <1>7, Constants DEF IInv, Holding, Alive, Alone
<1>10. JobFits'
    BY <1>1, <1>7 DEF IInv, Holding, JobFits, OnHost, host
<1>11. InVMFits' /\ Folders' /\ OneHolder'
    <2>1. \A w \in Runs : Idles(w)
        BY <1>1, <1>3, <1>4 DEF Alone, Idles, SameRun, Waiting
    <2> QED BY <1>1, <2>1, InsideIdles DEF world
<1>12. Behind'
    <2>1. app' = app /\ disk' = disk /\ declared' = declared /\ app.api \in Nat
        BY <1>1, <1>2 DEF host, App, Apis
    <2>2. ASSUME NEW w \in Runs PROVE RunBehind(run[w])'
        <3>1. CASE w = "host"
            BY <1>3, <1>4, <2>1, <3>1 DEF RunBehind, NotAhead
        <3>2. CASE w # "host"
            BY <1>4, <2>1, <3>2 DEF Alone, IInv, Behind, RunBehind, NotAhead
        <3> QED BY <3>1, <3>2
    <2> QED BY <2>1, <2>2 DEF IInv, Behind, DiskBehind, NotAhead
<1>13. Connection'
    BY <1>5 DEF Connection
<1>14. Awaited'
    BY <1>7 DEF Awaited
<1> QED BY <1>8, <1>9, <1>10, <1>11, <1>12, <1>13, <1>14 DEF IInv, Holding

LEMMA WaitKeeps ==
    ASSUME RuntimeInstallAssumption, IInv, Wait
    PROVE  IInv'
<1>1. /\ job.at = "wait" /\ run["host"].at \in {"ok", "failed"}
      /\ Becomes("after") \/ EndsJob("failed")
      /\ run' = [run EXCEPT !["host"] = NoRun]
      /\ UNCHANGED <<vm, systemd, disk, declared, service, token, world, host, connected, stops>>
    BY DEF Wait
<1>2. Alone("host") /\ run'["host"] = NoRun
    BY <1>1, Typed, Constants, OnlyIts DEF IInv
<1>3. /\ HostTypes' /\ app'.api = app.api /\ provider' = provider /\ connected' = connected
      /\ declared' \in {declared, app.api} /\ UNCHANGED <<disk, service>>
    BY <1>1, HostStays
<1>4. job' \in Jobs /\ JobFits' /\ job'.at \notin {"conf", "exec"}
    <2>1. CASE Becomes("after")
        <3>1. "after" \in Ats
            BY DEF Ats, Commands
        <3>2. job' \in Jobs /\ job'.at = "after" /\ job'.then = job.then
            BY <2>1, <3>1, BecomesIs, Typed DEF IInv
        <3> QED BY <1>1, <3>2 DEF IInv, Holding, JobFits, OnHost, host
    <2>2. CASE EndsJob("failed")
        <3>1. job' \in Jobs /\ job'.at \in Endings
            BY <2>2, EndsJobIs DEF Endings
        <3> QED BY <3>1, RestingFits
    <2> QED BY <1>1, <2>1, <2>2
<1>5. MachineTypes'
    BY <1>1, Types DEF IInv, MachineTypes, world
<1>6. Inside
    <2>1. \A w \in Runs : Idles(w)
        BY <1>1, <1>2, Constants DEF Alone, Idles, SameRun, Waiting
    <2>2. \A w \in Runs : Follows(w)
        BY <1>2, Constants DEF Alone, Follows, SameRun, Over
    <2> QED BY <1>1, <1>2, <2>1, <2>2, Constants DEF Inside, Alone, world
<1>7. vm' # "on" => \A w \in Runs : run'[w].at \in Over
    BY <1>1, <1>2, Constants DEF IInv, Holding, Alive, Alone, Over
<1>8. vm' = "none" \/ job'.at = "conf" => ~systemd'
    BY <1>1, <1>4 DEF IInv, Holding, Alive
<1>9. run'["host"].at = "off"
    BY <1>2, Constants
<1> QED BY <1>3, <1>4, <1>5, <1>6, <1>7, <1>8, <1>9, Surrounds

\* The machine is told what the app speaks.
LEMMA TellsKeeps ==
    ASSUME RuntimeInstallAssumption, IInv, declared' = app.api, vm = "on",
           job' \in Jobs, JobFits', job'.at = "conf" => job.at = "conf",
           job.at = "wait" => job'.at = "wait",
           connected => ~(job'.at = "exec" /\ job'.mode = "update"),
           HostTypes', app'.api = app.api, connected' = connected,
           UNCHANGED <<vm, systemd, files, run, world>>
    PROVE  IInv'
<1>1. UNCHANGED <<disk, service>>
    BY DEF files
<1>2. MachineTypes'
    BY Types DEF IInv, MachineTypes, world, files
<1>3. Inside
    BY Same DEF world
<1>4. job'.at = "conf" => ~systemd'
    BY DEF IInv, Holding, Alive
<1> QED BY <1>1, <1>2, <1>3, <1>4, Surrounds

LEMMA DeclareKeeps ==
    ASSUME RuntimeInstallAssumption, IInv, Declare
    PROVE  IInv'
<1>1. /\ job.at = "declare" /\ vm = "on" /\ declared' = app.api /\ Becomes("client")
      /\ UNCHANGED <<vm, systemd, files, run, world, host, connected, stops>>
    BY DEF Declare
<1>2. "client" \in Ats
    BY DEF Ats, Commands
<1>3. job' \in Jobs /\ job'.at = "client"
    BY <1>1, <1>2, BecomesIs, Typed DEF IInv
<1>4. JobFits'
    BY <1>1, <1>3 DEF JobFits, OnHost, host
<1> QED BY <1>1, <1>3, <1>4, HostStays, TellsKeeps

LEMMA HomeKeeps ==
    ASSUME RuntimeInstallAssumption, IInv, Home
    PROVE  IInv'
<1>1. /\ vm = "on" /\ declared' = app.api /\ app' = [app EXCEPT !.declared = TRUE]
      /\ UNCHANGED <<vm, systemd, files, run, world, job, connected, stops>>
      /\ UNCHANGED <<provider, limactl, done, features, runonce>>
    BY DEF Home
<1>2. job \in Jobs /\ JobFits /\ (connected => ~(job.at = "exec" /\ job.mode = "update"))
    BY Typed DEF IInv, Holding, Connection
<1>4. app' \in App /\ app'.api = app.api
    BY <1>1, Typed DEF IInv, App
<1>5. HostTypes'
    BY <1>1, <1>4, Types DEF IInv, HostTypes
<1>3. JobFits'
    BY <1>1, <1>2, <1>4 DEF JobFits, Anew
<1> QED BY <1>1, <1>2, <1>3, <1>4, <1>5, TellsKeeps

LEMMA HealthKeeps ==
    ASSUME RuntimeInstallAssumption, IInv, Health
    PROVE  IInv'
<1>1. /\ job.at = "health" /\ vm = "on" /\ service # None /\ UNCHANGED <<inVM, host, stops>>
      /\ connected' = (connected \/ (run["left"].at = "off" /\ disk.marker # None
                                     /\ Api(service) = app.api))
    BY Types DEF Health, NoApi, IInv, MachineTypes
<1>2. /\ JobFits /\ TypeOK /\ app \in App /\ job \in Jobs /\ connected \in BOOLEAN
      /\ disk \in Disk /\ run["boot"] \in Run
    BY Typed, Constants DEF IInv, Holding, TypeOK
<1>3. Told /\ declared = app.api
    BY <1>1, <1>2 DEF JobFits, Told
<1>4. /\ job' \in Jobs /\ JobFits' /\ job'.at # "conf"
      /\ job'.at = "exec" => Api(service) # app.api
    <2>1. CASE Becomes("version") \/ EndsJob("failed")
        <3>1. CASE Becomes("version")
            <4>1. "version" \in Ats
                BY DEF Ats, Calls
            <4>2. job' \in Jobs /\ job'.at = "version"
                BY <1>2, <3>1, <4>1, BecomesIs
            <4> QED BY <1>1, <1>3, <4>2 DEF JobFits, OnHost, inVM, host
        <3>2. CASE EndsJob("failed")
            <4>1. job' \in Jobs /\ job'.at \in Endings
                BY <3>2, EndsJobIs DEF Endings
            <4> QED BY <4>1, RestingFits
        <3> QED BY <2>1, <3>1, <3>2
    <2>2. CASE Bootstraps("update", "client") /\ Api(service) # app.api
        <3>1. job' \in Jobs /\ job'.at = "exec"
            BY <1>2, <2>2, BootstrapsIs
        <3>2. JobFits'
            BY <1>1, <1>3, <3>1 DEF JobFits, OnHost, inVM, host
        <3> QED BY <2>2, <3>1, <3>2
    <2> QED BY <2>1, <2>2 DEF Health
<1>5. HostTypes' /\ app'.api = app.api
    <2>1. connected' \in BOOLEAN
        BY <1>1, <1>2
    <2> QED BY <1>1, <2>1, Types DEF IInv, HostTypes, host
<1>6. CASE connected' => connected
    <2>1. connected' => ~(job'.at = "exec" /\ job'.mode = "update")
        <3>1. connected => Api(service) = app.api
            BY <1>1 DEF IInv, Connection, DiskOwn, Own
        <3> QED BY <1>4, <1>6, <3>1
    <2> QED BY <1>1, <1>4, <1>5, <1>6, <2>1, Quiet
<1>7. CASE ~(connected' => connected)
    <2>1. /\ run["host"].at = "off" /\ run["left"].at = "off" /\ disk.marker # None
          /\ Api(service) = app.api
        BY <1>1, <1>7 DEF IInv, Holding, Awaited
    <2>2. TypeOK' /\ Holding' /\ InVMFits' /\ Folders' /\ Behind'
        <3>1. Inside /\ MachineTypes' /\ UNCHANGED <<disk, service>> /\ declared' = declared
            BY <1>1, Same, Types DEF IInv, MachineTypes, inVM
        <3>2. vm' # "on" => \A w \in Runs : run'[w].at \in Over
            BY <1>1 DEF inVM
        <3>3. vm' = "none" \/ job'.at = "conf" => ~systemd'
            BY <1>1, <1>4 DEF inVM
        <3>4. Awaited'
            BY <1>1, <2>1 DEF inVM, Awaited
        <3> QED BY <1>4, <1>5, <3>1, <3>2, <3>3, <3>4, SurroundsAll
    <2>3. service = disk.marker /\ DiskOwn
        BY <2>1 DEF IInv, InVMFits, Served, DiskOwn, Own
    <2>4. BootOwn(run["boot"])
        <3> DEFINE r == run["boot"]
        <3>1. Knows(r) /\ r.mode = "update" /\ r.api <= app.api /\ r \in Run
            BY <1>2, Constants DEF IInv, InVMFits, Holding, Alive, Behind, RunBehind
        <3>2. /\ r.at \notin {"token", "up", "mark", "drop", "back"}
              /\ r.at = "forget" => r.why = "new"
            BY <2>1, <3>1 DEF Knows
        <3>3. ASSUME r.at \in Exchanging \/ r.at = "forget"
              PROVE  Own(r.ref) /\ Own(r.installed) /\ r.api = app.api
            <4>1. r.why = "new" /\ disk.marker = r.installed /\ r.ref > disk.marker
                BY <2>1, <3>1, <3>2, <3>3 DEF Knows
            <4>2. Api(r.ref) = r.api
                BY <3>1, <3>3, <4>1 DEF Knows, Installing
            <4>3. r.ref \in Release /\ disk.marker \in Release /\ app.api \in Nat
                BY <1>2, <3>1 DEF Run, Disk, App, Apis
            <4>4. disk.marker <= r.ref
                BY <4>1, <4>3, ApiIs
            <4>5. Api(disk.marker) <= Api(r.ref) /\ Api(r.ref) \in Nat
                BY <4>3, <4>4, ApiIs
            <4>6. r.api = app.api
                BY <2>1, <2>3, <3>1, <4>2, <4>3, <4>5
            <4> QED BY <2>1, <2>3, <4>1, <4>2, <4>6 DEF Own
        <3>4. r.at \in Waiting \cup Installing \cup Moving
            BY <3>1 DEF Run
        <3> HIDE DEF r
        <3>5. BootOwn(r)
            BY <2>1, <3>2, <3>3, <3>4
               DEF BootOwn, Over, Waiting, Installing, Moving, Exchanging
        <3> QED BY <3>5 DEF r
    <2>5. Connection'
        <3>1. /\ declared' = app'.api /\ run'["host"].at = "off" /\ run'["left"].at = "off"
              /\ job'.at # "exec"
            BY <1>1, <1>3, <1>4, <2>1 DEF inVM, host
        <3>2. DiskOwn' /\ BootOwn(run["boot"])'
            BY <1>1, <2>3, <2>4 DEF inVM, host, DiskOwn, Own, BootOwn
        <3> QED BY <3>1, <3>2 DEF Connection
    <2> QED BY <2>2, <2>5 DEF IInv
<1> QED BY <1>6, <1>7

LEMMA VersionKeeps ==
    ASSUME RuntimeInstallAssumption, IInv, Version
    PROVE  IInv'
<1>1. job.at = "version" /\ vm = "on" /\ UNCHANGED <<inVM, host, connected, stops>>
    BY Types DEF Version, NoApi, IInv, MachineTypes
<1>2. HostTypes' /\ app'.api = app.api /\ provider' = provider /\ connected' = connected
    BY <1>1, HostStays
<1>3. JobFits /\ job \in Jobs
    BY Typed DEF IInv, Holding
<1>4. ASSUME NEW result \in {"done", "failed"}, EndsJob(result)
      PROVE  IInv'
    <2>1. job' \in Jobs /\ job'.at \in Endings
        BY <1>4, EndsJobIs DEF Endings
    <2> QED BY <1>1, <1>2, <2>1, Rests
<1>5. CASE Becomes("tester")
    <2>1. "tester" \in Ats /\ "tester" \notin OnHost
        BY DEF Ats, Commands, OnHost
    <2> QED BY <1>1, <1>2, <1>5, <2>1, Onward
<1>6. CASE Bootstraps("repair", "version")
    <2>1. job' \in Jobs /\ job'.at = "exec" /\ job'.mode = "repair"
        BY <1>3, <1>6, BootstrapsIs
    <2>2. JobFits'
        BY <1>1, <1>3, <2>1 DEF JobFits, OnHost, inVM, host
    <2> QED BY <1>1, <1>2, <2>1, <2>2, Quiet
<1> QED BY <1>4, <1>5, <1>6 DEF Version

\* A newer app may speak a later api, and knows nothing of the machine yet.
LEMMA LaunchKeeps ==
    ASSUME RuntimeInstallAssumption, IInv, Launch
    PROVE  IInv'
<1>1. /\ job.at = "launch" /\ job' = NoJob
      /\ UNCHANGED <<inVM, provider, done, features, runonce, stops>>
    BY DEF Launch
<1>2. HostTypes /\ MachineTypes /\ app \in App /\ TypeOK
    BY Types DEF IInv, HostTypes
<1>3. job' \in Jobs /\ job'.at \in Endings
    BY <1>1, Constants DEF Endings
<1>4. JobFits' /\ job'.at \notin {"conf", "exec"}
    BY <1>3, RestingFits
<1>5. CASE app' = Closed /\ UNCHANGED <<limactl, connected>>
    <2>1. app' \in App /\ app'.api = app.api
        BY <1>2, <1>5 DEF Closed, App
    <2>2. HostTypes'
        BY <1>1, <1>2, <1>5, <2>1 DEF HostTypes
    <2> QED BY <1>1, <1>3, <1>5, <2>1, <2>2, Rests
<1>6. CASE /\ app' = [Closed EXCEPT !.api = 2] /\ connected' = FALSE
           /\ limactl' = IF provider = "lima" /\ limactl = "pinned" THEN "older" ELSE limactl
    <2>1. app' \in App /\ app'.api = 2 /\ app.api <= 2 /\ app.api \in Nat
        <3>1. Closed \in App
            BY <1>2 DEF Closed, App
        <3>2. app' \in App /\ app'.api = 2
            BY <1>6, <3>1 DEF App, Apis
        <3> QED BY <1>2, <3>2 DEF App, Apis
    <2>2. HostTypes'
        BY <1>1, <1>2, <1>6, <2>1 DEF HostTypes
    <2>3. TypeOK'
        BY <1>1, <1>2, <1>3, <2>2, Types
           DEF inVM, TypeOK, InVMTypeOK, HostTypes, App, Jobs
    <2>4. Alive'
        BY <1>1, <1>4 DEF IInv, Holding, Alive, inVM
    <2>5. InVMFits' /\ Folders' /\ OneHolder'
        <3>1. \A w \in Runs : Idles(w)
            BY <1>1 DEF inVM, Idles, SameRun
        <3> QED BY <1>1, <3>1, InsideIdles DEF inVM
    <2>6. Behind'
        <3>1. \A r \in Release : Api(r) <= app'.api
            BY <2>1, ApiIs DEF Apis
        <3>2. DiskBehind'
            BY <1>1, <1>2, <3>1, Typed DEF IInv, DiskBehind, NotAhead, Disk, inVM
        <3>3. ASSUME NEW w \in Runs PROVE RunBehind(run[w])'
            <4>1. run[w] \in Run /\ run'[w] = run[w]
                BY <1>1, <1>2, Typed DEF inVM
            <4>2. run[w].api <= 2
                BY <4>1 DEF Run, Apis, None
            <4> QED BY <2>1, <3>1, <4>1, <4>2 DEF Run, RunBehind, NotAhead
        <3>4. declared' <= app'.api
            BY <1>1, <1>2, <2>1 DEF inVM, TypeOK, InVMTypeOK, Apis, None
        <3> QED BY <3>2, <3>3, <3>4 DEF Behind
    <2>7. Connection'
        BY <1>6 DEF Connection
    <2>8. Awaited'
        BY <1>1 DEF IInv, Holding, Awaited, inVM
    <2> QED BY <1>4, <2>3, <2>4, <2>5, <2>6, <2>7, <2>8 DEF IInv, Holding
<1> QED BY <1>5, <1>6 DEF Launch

-----------------------------------------------------------------------------
\* What the user and the computer do.

\* stop() of a machine that runs, and of one that does not.
LEMMA Offs ==
    ASSUME RuntimeInstallAssumption, IInv, StopIfOn
    PROVE  /\ Inside /\ vm' \in {"off", "none"} /\ (vm = "none" <=> vm' = "none")
           /\ \A w \in Runs : run'[w].at \in Over
<1>1. MachineTypes /\ Alive
    BY Types DEF IInv, Holding
<1>2. CASE vm = "on" /\ Stop
    BY <1>2, Stopped
<1>3. CASE vm # "on" /\ UNCHANGED <<vm, run, torn>>
    BY <1>1, <1>3, Same DEF Alive, MachineTypes
<1> QED BY <1>2, <1>3 DEF StopIfOn

LEMMA PoweredOff ==
    ASSUME RuntimeInstallAssumption, HostSetupAssumption, IInv, PowerOff
    PROVE  /\ Inside /\ stops' \in 0..MaxStops
           /\ vm' \in {"off", "none"} /\ (vm = "none" <=> vm' = "none")
           /\ \A w \in Runs : run'[w].at \in Over
<1>1. StopIfOn /\ (OneStop \/ UNCHANGED stops)
    BY DEF PowerOff
<1>2. stops' \in 0..MaxStops
    BY <1>1, Types, OneStopIs DEF IInv, HostTypes
<1> QED BY <1>1, <1>2, Offs

\* The machine is off, and the job is over or is to start it.
LEMMA OffKeeps ==
    ASSUME RuntimeInstallAssumption, IInv, Inside, HostTypes', job' \in Jobs, JobFits',
           vm' \in {"off", "none"}, vm = "none" \/ job'.at = "conf" => ~systemd,
           vm' = "none" => vm = "none",
           \A w \in Runs : run'[w].at \in Over,
           app'.api = app.api, faults' \in 0..MaxFaults,
           job.at = "wait" => job'.at = "wait" \/ run'["host"].at = "off",
           connected' => connected /\ ~(job'.at = "exec" /\ job'.mode = "update"),
           UNCHANGED <<systemd, files, declared, newest>>
    PROVE  IInv'
<1>1. MachineTypes'
    BY Types DEF IInv, MachineTypes, files
<1>2. vm' = "none" \/ job'.at = "conf" => ~systemd'
    OBVIOUS
<1>3. UNCHANGED <<disk, service>> /\ declared' \in {declared, app.api}
    BY DEF files
<1> QED BY <1>1, <1>2, <1>3, Surrounds

LEMMA StopsKeep ==
    ASSUME RuntimeInstallAssumption, IInv, Stops
    PROVE  IInv'
<1>1. /\ StopIfOn /\ UNCHANGED <<systemd, files, declared, newest, faults, host, connected, stops>>
      /\ Becomes("halt") \/ EndsJob("done") \/ Becomes("start")
      /\ job.at \in {"poweroff", "halt"}
    BY DEF Stops, Poweroff, Halt
<1>2. /\ Inside /\ vm' \in {"off", "none"} /\ (vm = "none" <=> vm' = "none")
      /\ \A w \in Runs : run'[w].at \in Over
    BY <1>1, Offs
<1>3. /\ HostTypes' /\ app'.api = app.api /\ provider' = provider /\ connected' = connected
    BY <1>1, HostStays
<1>4. JobFits /\ job \in Jobs /\ Anew(job) /\ faults' \in 0..MaxFaults
    BY <1>1, Types DEF IInv, Holding, JobFits, MachineTypes
<1>5. /\ job' \in Jobs /\ JobFits' /\ job'.at \notin {"conf", "exec"}
    <2>1. ASSUME NEW at \in {"halt", "start"}, Becomes(at)
          PROVE  job' \in Jobs /\ job'.at = at /\ job'.mode = job.mode /\ job'.then = job.then
        <3>1. at \in Ats
            BY DEF Ats, OnMachine, Commands
        <3> QED BY <1>4, <2>1, <3>1, BecomesIs
    <2>2. CASE Becomes("halt") \/ Becomes("start")
        BY <1>4, <2>1, <2>2 DEF JobFits, Anew
    <2>3. CASE EndsJob("done")
        <3>1. job' \in Jobs /\ job'.at \in Endings
            BY <2>3, EndsJobIs DEF Endings
        <3> QED BY <3>1, RestingFits
    <2> QED BY <1>1, <2>2, <2>3
<1>6. vm = "none" => ~systemd
    BY DEF IInv, Holding, Alive
<1> QED BY <1>1, <1>2, <1>3, <1>4, <1>5, <1>6, OffKeeps

LEMMA BesideStopKeeps ==
    ASSUME RuntimeInstallAssumption, HostSetupAssumption, IInv, BesideStop
    PROVE  IInv'
<1>1. PowerOff /\ UNCHANGED <<systemd, files, declared, newest, faults, host, job, connected>>
    BY DEF BesideStop
<1>2. /\ Inside /\ stops' \in 0..MaxStops
      /\ vm' \in {"off", "none"} /\ (vm = "none" <=> vm' = "none")
      /\ \A w \in Runs : run'[w].at \in Over
    BY <1>1, PoweredOff
<1>3. /\ job' \in Jobs /\ JobFits' /\ job'.at = job.at
      /\ (connected => ~(job'.at = "exec" /\ job'.mode = "update"))
    BY <1>1, <1>2, JobStays
<1>4. HostTypes' /\ app'.api = app.api
    BY <1>1, <1>2, Types DEF IInv, HostTypes, host
<1>5. vm = "none" \/ job'.at = "conf" => ~systemd
    BY <1>3 DEF IInv, Holding, Alive
<1>6. faults' \in 0..MaxFaults
    BY <1>1 DEF IInv, TypeOK, InVMTypeOK
<1> QED BY <1>1, <1>2, <1>3, <1>4, <1>5, <1>6, OffKeeps

LEMMA QuitKeeps ==
    ASSUME RuntimeInstallAssumption, HostSetupAssumption, IInv, Quit
    PROVE  IInv'
<1>1. /\ app' = [app EXCEPT !.at = "quitting"]
      /\ UNCHANGED <<systemd, files, declared, newest, job, connected>>
      /\ UNCHANGED <<provider, limactl, done, features, runonce>>
      /\ Fault \/ UNCHANGED faults
    BY DEF Quit
<1>2. HostTypes /\ MachineTypes /\ Alive /\ JobFits /\ app \in App
    BY Types, Typed DEF IInv, Holding
<1>3. app' \in App /\ app'.api = app.api
    BY <1>1, <1>2 DEF App
<1>4. faults' \in 0..MaxFaults
    BY <1>1, <1>2, FaultIs DEF MachineTypes
<1>5. job' \in Jobs /\ (connected => ~(job'.at = "exec" /\ job'.mode = "update"))
    BY <1>1, Typed DEF IInv, Connection
<1>6. vm' = vm \/ (vm' # "none" /\ vm # "none") => JobFits'
    BY <1>1, <1>2, <1>3 DEF JobFits, Anew
<1>7. CASE PowerOff
    <2>1. /\ Inside /\ stops' \in 0..MaxStops
          /\ vm' \in {"off", "none"} /\ (vm = "none" <=> vm' = "none")
          /\ \A w \in Runs : run'[w].at \in Over
        BY <1>7, PoweredOff
    <2>2. HostTypes'
        BY <1>1, <1>2, <1>3, <2>1 DEF HostTypes
    <2>3. vm = "none" \/ job'.at = "conf" => ~systemd
        BY <1>1, <1>2 DEF Alive
    <2> QED BY <1>1, <1>3, <1>4, <1>5, <1>6, <2>1, <2>2, <2>3, OffKeeps
<1>8. CASE UNCHANGED <<vm, run, torn, stops>>
    <2>1. Inside
        BY <1>8, Same
    <2>2. HostTypes' /\ MachineTypes'
        BY <1>1, <1>2, <1>3, <1>4, <1>8 DEF HostTypes, MachineTypes, files
    <2>3. vm' # "on" => \A w \in Runs : run'[w].at \in Over
        BY <1>2, <1>8 DEF Alive
    <2>4. vm' = "none" \/ job'.at = "conf" => ~systemd'
        BY <1>1, <1>2, <1>8 DEF Alive
    <2>5. UNCHANGED <<disk, service>> /\ declared' \in {declared, app.api}
        BY <1>1 DEF files
    <2> QED BY <1>1, <1>3, <1>5, <1>6, <1>8, <2>1, <2>2, <2>3, <2>4, <2>5, Surrounds
<1> QED BY <1>7, <1>8 DEF Quit

LEMMA StartImportKeeps ==
    ASSUME RuntimeInstallAssumption, IInv, StartImport
    PROVE  IInv'
<1>1. UNCHANGED <<systemd, disk, declared, service, world, host, connected, stops>> /\ job.at # "wait"
    BY Idle DEF StartImport
<1>2. PICK first \in {"replace", "import"} :
          job' = [NoJob EXCEPT !.kind = "import", !.at = first]
    BY DEF StartImport
<1>3. /\ job' \in Jobs /\ job'.at \in {"replace", "import"} /\ job'.mode = "install"
    BY <1>2, Constants DEF Jobs, Calls
<1>4. JobFits'
    BY <1>3 DEF JobFits, OnHost
<1>5. CASE vm = "off" /\ Boot(systemd)
    BY <1>1, <1>3, <1>4, <1>5, BootKeeps
<1>6. CASE UNCHANGED <<vm, token, run>>
    BY <1>1, <1>3, <1>4, <1>6, HostStays, Quiet DEF inVM, world
<1> QED BY <1>5, <1>6 DEF StartImport

LEMMA StartAppUpdateKeeps ==
    ASSUME RuntimeInstallAssumption, IInv, StartAppUpdate
    PROVE  IInv'
<1>1. /\ job' = [NoJob EXCEPT !.kind = "app_update", !.at = "download"]
      /\ UNCHANGED <<inVM, host, connected, stops>> /\ job.at # "wait"
    BY Idle DEF StartAppUpdate
<1>2. /\ job' \in Jobs /\ job'.at = "download" /\ job'.mode = "install"
      /\ job'.then = "declare"
    BY <1>1, Constants DEF Jobs, OnHost
<1>3. JobFits'
    BY <1>2 DEF JobFits, Anew
<1> QED BY <1>1, <1>2, <1>3, HostStays, Quiet

\* What an uninstall removes, by the app and from a terminal.
LEMMA UninstallKeeps ==
    ASSUME RuntimeInstallAssumption, IInv, Uninstall
    PROVE  IInv'
<1>1. HostTypes /\ JobFits /\ job \in Jobs
    BY Types DEF IInv, Holding
<1>2. /\ job.at # "wait"
      /\ \A at \in {"data", "downloads"} :
            at \in Ats /\ at \notin OnHost /\ (Becomes(at) => job' \in Jobs /\ job'.at = at)
    <2>1. \A at \in {"data", "downloads"} : at \in Ats /\ at \notin OnHost
        BY DEF Ats, OnMachine, OnHost
    <2> QED BY <1>1, <2>1, BecomesIs DEF Uninstall, Destroy, RemoveVmData, RemoveDownloads
<1>3. CASE Destroy
    <2>1. Destroyed /\ Becomes("data") /\ UNCHANGED <<newest, faults, host, stops>>
        BY <1>3 DEF Destroy
    <2>2. HostTypes' /\ app'.api = app.api
        BY <1>1, <2>1 DEF HostTypes, Destroyed, host
    <2>3. job' \in Jobs /\ JobFits'
        BY <1>2, <2>1 DEF JobFits, Anew
    <2> QED BY <1>2, <2>1, <2>2, <2>3, DestroyedKeeps
<1>4. ASSUME EndsJob("done") PROVE job' \in Jobs /\ job'.at \in Endings
    BY <1>4, EndsJobIs DEF Endings
<1>5. CASE RemoveVmData
    <2>1. /\ done' = {} /\ (EndsJob("done") \/ Becomes("downloads"))
          /\ UNCHANGED <<inVM, provider, limactl, features, runonce, app, connected, stops>>
        BY <1>5 DEF RemoveVmData
    <2>2. HostTypes' /\ app'.api = app.api
        BY <1>1, <2>1 DEF HostTypes
    <2>3. CASE EndsJob("done")
        BY <1>2, <1>4, <2>1, <2>2, <2>3, Rests
    <2>4. CASE Becomes("downloads")
        BY <1>2, <2>1, <2>2, <2>4, Onward
    <2> QED BY <2>1, <2>3, <2>4
<1>6. CASE RemoveDownloads
    <2>1. /\ limactl' = Downloads /\ EndsJob("done")
          /\ UNCHANGED <<inVM, provider, done, features, runonce, app, connected, stops>>
        BY <1>6 DEF RemoveDownloads
    <2>2. HostTypes' /\ app'.api = app.api
        BY <1>1, <2>1 DEF HostTypes, Downloads
    <2> QED BY <1>2, <1>4, <2>1, <2>2, Rests
<1> QED BY <1>3, <1>5, <1>6 DEF Uninstall

LEMMA BesideRemoves ==
    ASSUME RuntimeInstallAssumption, HostSetupAssumption, IInv, BesideDestroy \/ BesideUninstall
    PROVE  IInv'
<1>1. HostTypes /\ JobFits /\ job \in Jobs
    BY Types DEF IInv, Holding
<1>2. ASSUME OneStop PROVE stops' \in 0..MaxStops
    BY <1>1, <1>2, OneStopIs DEF HostTypes
<1>4. ASSUME Destroyed, UNCHANGED <<provider, app, job>> PROVE job' \in Jobs /\ JobFits'
    BY <1>1, <1>4 DEF Destroyed, JobFits, Anew
<1>5. CASE BesideDestroy
    <2>1. OneStop /\ Destroyed /\ UNCHANGED <<newest, faults, host, job>>
        BY <1>5 DEF BesideDestroy
    <2>2. HostTypes' /\ app' = app
        BY <1>1, <1>2, <2>1 DEF HostTypes, Destroyed, host
    <2>3. job' \in Jobs /\ JobFits'
        BY <1>4, <2>1 DEF host
    <2> QED BY <2>1, <2>2, <2>3, DestroyedKeeps
<1>6. CASE BesideUninstall
    <2>1. /\ OneStop /\ done' = {} /\ limactl' = Downloads
          /\ UNCHANGED <<newest, faults, provider, features, runonce, app, job>>
        BY <1>6 DEF BesideUninstall
    <2>2. CASE Destroyed
        <3>1. HostTypes'
            BY <1>1, <1>2, <2>1, <2>2 DEF HostTypes, Destroyed, Downloads
        <3> QED BY <1>4, <2>1, <2>2, <3>1, DestroyedKeeps
    <2>3. CASE UNCHANGED <<vm, systemd, files, declared, run, torn, connected>>
        <3>1. HostTypes'
            BY <1>1, <1>2, <2>1, <2>3 DEF HostTypes, Downloads
        <3>2. UNCHANGED inVM
            BY <2>1, <2>3 DEF inVM, files
        <3>3. JobFits' /\ (connected => ~(job'.at = "exec" /\ job'.mode = "update"))
            BY <1>1, <2>1, <2>3 DEF JobFits, Anew, IInv, Connection
        <3> QED BY <1>1, <2>1, <2>3, <3>1, <3>2, <3>3, Quiet
    <2> QED BY <1>6, <2>2, <2>3 DEF BesideUninstall
<1> QED BY <1>5, <1>6

LEMMA BesideStartKeeps ==
    ASSUME RuntimeInstallAssumption, IInv, BesideStart
    PROVE  IInv'
<1>1. /\ vm = "off" /\ Boot(systemd)
      /\ UNCHANGED <<systemd, disk, declared, service, world, host, job, connected, stops>>
    BY DEF BesideStart
<1>2. /\ job' \in Jobs /\ JobFits' /\ job'.at = job.at
      /\ (connected => ~(job'.at = "exec" /\ job'.mode = "update"))
    BY <1>1, JobStays
<1> QED BY <1>1, <1>2, BootKeeps

LEMMA ResetKeeps ==
    ASSUME RuntimeInstallAssumption, IInv, Reset
    PROVE  IInv'
<1>1. /\ done' = {} /\ job.at = "failed" /\ job' = NoJob
      /\ UNCHANGED <<inVM, provider, limactl, features, runonce, app, connected, stops>>
    BY DEF Reset
<1>2. HostTypes'
    BY <1>1, Types DEF IInv, HostTypes
<1>3. job' \in Jobs /\ job'.at \in Endings
    BY <1>1, Constants DEF Endings
<1> QED BY <1>1, <1>2, <1>3, Rests

LEMMA OpenKeeps ==
    ASSUME RuntimeInstallAssumption, IInv, Open
    PROVE  IInv'
<1>1. /\ app' = [app EXCEPT !.at = "open"]
      /\ UNCHANGED <<inVM, provider, limactl, done, features, runonce, job, connected, stops>>
    BY DEF Open
<1>2. HostTypes /\ app \in App /\ job \in Jobs /\ JobFits
    BY Types, Typed DEF IInv, Holding
<1>3. app' \in App /\ app'.api = app.api
    BY <1>1, <1>2 DEF App
<1>4. HostTypes'
    BY <1>1, <1>2, <1>3 DEF HostTypes
<1>5. JobFits' /\ (connected => ~(job'.at = "exec" /\ job'.mode = "update"))
    BY <1>1, <1>2, <1>3 DEF JobFits, Anew, inVM, IInv, Connection
<1> QED BY <1>1, <1>2, <1>3, <1>4, <1>5, Quiet

\* The app ends; the run that it waited for goes on without it.
LEMMA ExitKeeps ==
    ASSUME RuntimeInstallAssumption, IInv, Exit
    PROVE  IInv'
<1>1. /\ app' = Closed /\ job' = NoJob
      /\ UNCHANGED <<vm, systemd, disk, declared, service, token, world>>
      /\ UNCHANGED <<provider, limactl, done, features, runonce, connected, stops>>
    BY DEF Exit
<1>2. /\ HostTypes /\ MachineTypes /\ Alive /\ app \in App /\ run \in [Runs -> Run]
      /\ run["host"] \in Run
    BY Types, Typed, Constants DEF IInv, Holding
<1>3. app' \in App /\ app'.api = app.api
    BY <1>1, <1>2 DEF Closed, App
<1>4. HostTypes' /\ MachineTypes'
    BY <1>1, <1>2, <1>3 DEF HostTypes, MachineTypes, world
<1>5. job' \in Jobs /\ JobFits' /\ job'.at \notin {"conf", "exec", "wait"}
    BY <1>1, Constants, RestingFits DEF Endings
<1>6. vm' = "none" => ~systemd'
    BY <1>1, <1>2 DEF Alive
<1>7. CASE run["host"].at \in Over /\ run' = [run EXCEPT !["host"] = NoRun]
    <2>1. Alone("host") /\ run'["host"] = NoRun
        BY <1>2, <1>7, Constants, OnlyIts
    <2>2. \A w \in Runs : Idles(w)
        BY <1>7, <2>1, Constants DEF Alone, Idles, SameRun, Waiting, Over
    <2>3. \A w \in Runs : Follows(w) /\ (run[w].at \in Over => run'[w].at \in Over)
        BY <2>1, Constants DEF Alone, Follows, SameRun, Over
    <2>4. Inside
        BY <1>1, <2>1, <2>2, <2>3, Constants DEF Inside, Alone, world
    <2>5. vm' # "on" => \A w \in Runs : run'[w].at \in Over
        BY <1>1, <1>2, <2>3 DEF Alive
    <2>6. run'["host"].at = "off"
        BY <2>1, Constants
    <2> QED BY <1>1, <1>3, <1>4, <1>5, <1>6, <2>4, <2>5, <2>6, Surrounds
<1>8. CASE /\ run["host"].at \notin Over /\ run["left"].at = "off"
           /\ run' = [run EXCEPT !["left"] = run["host"], !["host"] = NoRun]
    <2>1. /\ run' \in [Runs -> Run] /\ run'["left"] = run["host"] /\ run'["host"] = NoRun
          /\ \A w \in Runs \ {"host", "left"} : run'[w] = run[w]
        BY <1>2, <1>8, Constants
    <2>2. TypeOK'
        BY <1>1, <1>2, <1>4, <1>5, <2>1, Types DEF IInv, TypeOK, InVMTypeOK, world, HostTypes, MachineTypes, Jobs, App, Run
    <2>3. Alive' /\ Awaited'
        <3>1. vm = "on" /\ vm' = "on"
            BY <1>1, <1>2, <1>8, Constants DEF Alive
        <3>2. run'["boot"] = run["boot"]
            BY <2>1, Constants
        <3> QED BY <1>2, <1>5, <2>1, <3>1, <3>2, Constants DEF Alive, Awaited
    <2>4. ASSUME NEW w \in Runs
          PROVE  /\ Knows(run[w])' /\ (~torn => Finds(run[w])') /\ RunBehind(run[w])'
                 /\ Holds(w)' => (w = "left" /\ Holds("host")) \/ (w \notin {"host", "left"} /\ Holds(w))
        <3> DEFINE Fits(r) == Knows(r) /\ (~torn => Finds(r)) /\ RunBehind(r)
        <3>1. \A v \in Runs : Fits(run[v])
            BY DEF IInv, InVMFits, Folders, Behind
        <3>2. UNCHANGED <<disk, service>> /\ app'.api = app.api
            BY <1>1, <1>3
        <3>3. CASE w = "host"
            <4>1. run'[w] = NoRun /\ NoRun.at \in Waiting
                BY <2>1, <3>3, Constants DEF Waiting
            <4>2. Knows(run[w])' /\ Finds(run[w])' /\ ~Holds(w)'
                BY <4>1 DEF Knows, Finds, Waiting, Installing, Exchanging, Holds
            <4>3. RunBehind(run[w])'
                BY <1>2, <3>2, <4>1, Constants DEF RunBehind, NotAhead, None, App, Apis
            <4> QED BY <4>2, <4>3
        <3>4. ASSUME NEW v \in Runs, run'[w] = run[v]
              PROVE  /\ Knows(run[w])' /\ (~torn => Finds(run[w])') /\ RunBehind(run[w])'
                     /\ Holds(w)' => Holds(v)
            <4>1. Knows(run[v]) /\ (~torn => Finds(run[v])) /\ RunBehind(run[v])
                BY <3>1
            <4>2. Knows(run[w])'
                BY <3>2, <3>4, <4>1 DEF Knows
            <4>3. ~torn => Finds(run[w])'
                BY <3>2, <3>4, <4>1 DEF Finds, NothingIsKept, OldIsKept
            <4>4. RunBehind(run[w])' /\ (Holds(w)' => Holds(v))
                BY <3>2, <3>4, <4>1 DEF RunBehind, NotAhead, Holds
            <4> QED BY <4>2, <4>3, <4>4
        <3>5. CASE w = "left"
            BY <2>1, <3>4, <3>5, Constants
        <3>6. CASE w \notin {"host", "left"}
            BY <2>1, <3>4, <3>6
        <3> QED BY <3>3, <3>5, <3>6
    <2>5. InVMFits'
        BY <1>1, <2>4 DEF IInv, InVMFits, Served
    <2>6. Folders'
        <3>1. torn' = torn /\ disk' = disk
            BY <1>1 DEF world
        <3>2. ASSUME NEW w \in Runs, Holds(w) PROVE \E v \in Runs : Holds(v)'
            <4>1. CASE w = "host"
                BY <2>1, <3>2, <4>1, Constants DEF Holds
            <4>2. CASE w = "left"
                BY <1>8, <3>2, <4>2 DEF Holds, Waiting
            <4>3. CASE w \notin {"host", "left"}
                BY <2>1, <3>2, <4>3 DEF Holds
            <4> QED BY <4>1, <4>2, <4>3
        <3> QED BY <2>4, <3>1, <3>2 DEF IInv, Folders, GoesBack, Stands
    <2>7. OneHolder'
        BY <2>4, Constants DEF IInv, Holding, OneHolder
    <2>8. Behind'
        BY <1>1, <1>3, <2>4 DEF IInv, Behind, DiskBehind, NotAhead
    <2>9. Connection'
        BY <1>1, <1>8 DEF IInv, Connection, Over
    <2> QED BY <1>5, <2>2, <2>3, <2>5, <2>6, <2>7, <2>8, <2>9 DEF IInv, Holding
<1> QED BY <1>7, <1>8 DEF Exit, Over

LEMMA RestartKeeps ==
    ASSUME RuntimeInstallAssumption, HostSetupAssumption, IInv, Restart
    PROVE  IInv'
<1>1. /\ run' = [w \in Runs |-> NoRun] /\ runonce' = FALSE
      /\ features' = IF features = "pending" THEN "on" ELSE features
      /\ app' = IF runonce THEN [app EXCEPT !.at = "open", !.enabled = FALSE, !.declared = FALSE]
                ELSE Closed
      /\ UNCHANGED <<systemd, files, declared, newest, faults, provider, limactl, done, connected>>
    BY DEF Restart
<1>2. HostTypes /\ MachineTypes /\ Alive /\ app \in App /\ TypeOK
    BY Types DEF IInv, Holding, HostTypes
<1>3. app' \in App /\ app'.api = app.api
    BY <1>1, <1>2 DEF Closed, App
<1>4. /\ run' \in [Runs -> Run] /\ \A w \in Runs : Follows(w) /\ run'[w].at \in Over
    BY <1>1, Constants DEF Follows, Over
<1>5. /\ Inside /\ stops' \in 0..MaxStops /\ vm' \in {"off", "none"}
      /\ vm' = "none" => vm = "none"
    <2>1. CASE vm = "on"
        <3>1. OneStop /\ GoesOff
            BY <2>1 DEF Restart
        <3>2. stops' \in 0..MaxStops /\ vm' = "off"
            BY <1>2, <3>1 DEF OneStop, GoesOff, HostTypes, HostSetupAssumption
        <3>3. Inside
            BY <1>1, <1>4, <3>1, Constants DEF Inside
        <3> QED BY <3>2, <3>3
    <2>2. CASE vm # "on"
        <3>1. UNCHANGED <<stops, vm, torn>>
            BY <2>2 DEF Restart
        <3>2. \A w \in Runs : Idles(w)
            BY <1>2, <1>4, <2>2, Positions DEF Alive, Idles
        <3>3. Inside
            BY <1>1, <1>4, <3>1, <3>2, Constants DEF Inside
        <3> QED BY <1>2, <2>2, <3>1, <3>3 DEF HostTypes, MachineTypes
    <2> QED BY <2>1, <2>2
<1>6. HostTypes'
    BY <1>1, <1>2, <1>3, <1>5 DEF HostTypes
<1>7. /\ job' \in Jobs /\ JobFits' /\ job'.mode = "install" /\ job'.at # "conf"
    <2>1. CASE runonce
        <3> DEFINE at == From(1)
        <3>1. job' = [NoJob EXCEPT !.kind = "install", !.at = at]
            BY <2>1 DEF Restart
        <3>2. 1 <= Len(Steps)
            BY DEF Steps
        <3>3. /\ at \in OnHost /\ at # "conf"
              /\ provider = "lima" => at \notin {"remediate", "remediated", "gate"}
            BY <1>2, <3>2, FromIs
        <3> HIDE DEF at
        <3>4. job' \in Jobs /\ job'.at = at /\ job'.mode = "install" /\ job'.then = "declare"
            BY <3>1, <3>3, Constants DEF Jobs, Kinds
        <3> QED BY <1>1, <3>3, <3>4 DEF JobFits, Anew, OnHost
    <2>2. CASE ~runonce
        <3>1. job' = NoJob
            BY <2>2 DEF Restart
        <3> QED BY <3>1, Constants, RestingFits DEF Endings
    <2> QED BY <2>1, <2>2
<1>8. vm = "none" \/ job'.at = "conf" => ~systemd
    BY <1>2, <1>7 DEF Alive
<1>9. faults' \in 0..MaxFaults /\ run'["host"].at = "off"
    BY <1>1, <1>2, Constants DEF MachineTypes
<1> QED BY <1>1, <1>3, <1>4, <1>5, <1>6, <1>7, <1>8, <1>9, OffKeeps

-----------------------------------------------------------------------------
\* What happens in the machine without the lock of get.sh.

\* The boot unit takes the api that the machine was told, or that of the release
\* in place.
LEMMA BootUpdateKeeps ==
    ASSUME RuntimeInstallAssumption, IInv, BootUpdate, UNCHANGED <<host, job, connected, stops>>
    PROVE  IInv'
<1> DEFINE api == IF declared # None THEN declared
                  ELSE IF disk.runtime # None THEN Api(disk.runtime) ELSE None
<1>1. run["boot"].at = "begin" /\ UNCHANGED <<files, machine, newest, torn>>
    BY DEF BootUpdate
<1>2. \/ Ends("boot", "failed")
      \/ api # None /\ run' = [run EXCEPT !["boot"].at = "lock", !["boot"].api = api]
    BY DEF BootUpdate
<1>3. Fault \/ UNCHANGED faults
    BY DEF BootUpdate
<1>4. /\ TypeOK /\ HostTypes /\ MachineTypes /\ Alive /\ run \in [Runs -> Run] /\ disk \in Disk
      /\ declared \in Apis \cup {None} /\ app \in App /\ RunBehind(run["boot"]) /\ DiskBehind
      /\ declared <= app.api
    BY Types, Constants DEF IInv, Holding, HostTypes, Behind
<1>5. api \in Apis \cup {None} /\ api <= app.api
    <2>1. disk.runtime # None => Api(disk.runtime) \in Apis /\ Api(disk.runtime) <= app.api
        BY <1>4, ApiIs DEF Disk, DiskBehind, NotAhead
    <2>2. None <= app.api
        BY <1>4 DEF App, Apis, None
    <2> QED BY <1>4, <2>1, <2>2
<1>6. connected /\ api # None => api = app.api
    BY <1>4 DEF IInv, Connection, App, Apis, None
<1> HIDE DEF api
<1>7. /\ Alone("boot") /\ run'["boot"].at \in Waiting /\ run'["boot"].mode = "update"
      /\ RunBehind(run["boot"])' /\ (connected => BootOwn(run["boot"])')
    <2>1. app' = app
        BY DEF host
    <2>2. CASE Ends("boot", "failed")
        <3>1. Alone("boot") /\ Ending(run'["boot"])
            BY <1>4, <2>2, EndsIs, Constants
        <3> QED BY <1>4, <2>1, <3>1, Positions
                DEF Ending, RunBehind, NotAhead, None, App, Apis, BootOwn, Over, Exchanging, Installing
    <2>3. CASE api # None /\ run' = [run EXCEPT !["boot"].at = "lock", !["boot"].api = api]
        <3> DEFINE its == [run["boot"] EXCEPT !.at = "lock", !.api = api]
        <3>1. run' = [run EXCEPT !["boot"] = its]
            BY <2>3
        <3>2. /\ its \in Run /\ its.at = "lock" /\ its.api = api /\ its.mode = run["boot"].mode
              /\ its.ref = run["boot"].ref /\ its.installed = run["boot"].installed
            BY <1>4, <1>5, Constants DEF Run, Waiting
        <3> HIDE DEF its
        <3>3. Alone("boot") /\ run'["boot"] = its
            BY <1>4, <3>1, <3>2, Constants, OnlyIts
        <3>4. RunBehind(run["boot"])'
            BY <1>4, <1>5, <2>1, <3>2, <3>3 DEF RunBehind, NotAhead
        <3>5. connected => BootOwn(run["boot"])'
            BY <1>6, <2>1, <2>3, <3>2, <3>3 DEF BootOwn, Over, Exchanging, Installing
        <3> QED BY <1>4, <3>2, <3>3, <3>4, <3>5 DEF Alive, Waiting
    <2> QED BY <1>2, <2>2, <2>3
<1>8. TypeOK'
    <2>1. MachineTypes' /\ HostTypes'
        BY <1>1, <1>3, <1>4, FaultIs DEF MachineTypes, HostTypes, files, machine, host
    <2>2. disk' \in Disk /\ service' \in Release /\ declared' \in Apis \cup {None} /\ torn' \in BOOLEAN
          /\ job' \in Jobs /\ run' \in [Runs -> Run]
        BY <1>1, <1>4, <1>7, Typed DEF TypeOK, InVMTypeOK, files, machine, Alone
    <2> QED BY <2>1, <2>2 DEF TypeOK, InVMTypeOK, HostTypes, MachineTypes, Disk, Run, App, Jobs
<1>9. Alive'
    <2>1. vm = "on"
        BY <1>1, <1>4, Constants DEF Alive, Over
    <2> QED BY <1>1, <1>4, <1>7, <2>1 DEF Alive, machine
<1>10. JobFits'
    BY <1>1 DEF IInv, Holding, JobFits, Anew, machine, host
<1>11. InVMFits' /\ Folders' /\ OneHolder'
    <2>1. \A w \in Runs : Idles(w)
        BY <1>1, <1>7, Constants DEF Alone, Idles, SameRun, Waiting
    <2> QED BY <1>1, <2>1, InsideIdles DEF files
<1>12. Behind'
    BY <1>1, <1>7 DEF IInv, Behind, DiskBehind, RunBehind, NotAhead, Alone, files, machine, host
<1>13. Connection'
    BY <1>1, <1>7, Constants DEF IInv, Connection, DiskOwn, Own, Alone, files, machine, host
<1>14. Awaited'
    BY <1>1, <1>7, Constants DEF IInv, Holding, Awaited, Alone
<1> QED BY <1>8, <1>9, <1>10, <1>11, <1>12, <1>13, <1>14 DEF IInv, Holding

LEMMA WorldKeeps ==
    ASSUME RuntimeInstallAssumption, IInv, Publish \/ LoseToken,
           UNCHANGED <<host, job, connected, stops>>
    PROVE  IInv'
<1>1. /\ HostTypes /\ MachineTypes /\ Alive /\ JobFits /\ job \in Jobs
      /\ (connected => ~(job.at = "exec" /\ job.mode = "update"))
    BY Types DEF IInv, Holding, Connection
<1>2. UNCHANGED <<disk, service, machine, run, torn>>
    BY DEF Publish, LoseToken, files
<1>3. newest' \in Releases
    BY <1>1 DEF Publish, LoseToken, MachineTypes, Releases, RuntimeInstallAssumption
<1>4. faults' \in 0..MaxFaults
    BY <1>1, FaultIs DEF Publish, LoseToken, MachineTypes
<1>5. HostTypes' /\ app'.api = app.api
    BY HostStays
<1>6. token' \in {"missing", "unread", "read"}
    BY <1>1 DEF Publish, LoseToken, MachineTypes, files
<1>7. MachineTypes'
    BY <1>1, <1>2, <1>3, <1>4, <1>6 DEF MachineTypes, machine
<1>8. Inside
    BY <1>2, Same
<1>9. job' \in Jobs /\ JobFits'
    BY <1>1, <1>2 DEF JobFits, Anew, machine, host
<1>10. vm' # "on" => \A w \in Runs : run'[w].at \in Over
    BY <1>1, <1>2 DEF Alive, machine
<1>11. vm' = "none" \/ job'.at = "conf" => ~systemd'
    BY <1>1, <1>2 DEF Alive, machine
<1>12. declared' \in {declared, app.api}
    BY <1>2 DEF machine
<1> QED BY <1>1, <1>2, <1>5, <1>7, <1>8, <1>9, <1>10, <1>11, <1>12, Surrounds

-----------------------------------------------------------------------------
\* The invariant.

LEMMA Begins ==
    ASSUME RuntimeInstallAssumption, HostSetupAssumption, Init
    PROVE  IInv
<1>1. /\ vm = "none" /\ systemd = FALSE /\ disk = EmptyDisk /\ declared = None
      /\ service = None /\ token = "missing" /\ run = [w \in Runs |-> NoRun]
      /\ newest = Released /\ torn = FALSE /\ faults = 0
    BY DEF Init, InVMInit
<1>2. /\ provider \in {"wsl", "lima"} /\ limactl \in {"missing", "pinned"}
      /\ done = {} /\ features = "off" /\ runonce = FALSE
      /\ app = [at |-> "open", api |-> 1, enabled |-> FALSE, declared |-> FALSE]
      /\ job = NoJob /\ connected = FALSE /\ stops = 0
    BY DEF Init
<1>3. /\ \A w \in Runs : run[w] = NoRun /\ run[w].at \in Over
      /\ disk \in Disk /\ job \in Jobs /\ job.at = "done"
      /\ disk.runtime = None /\ disk.prev = None /\ disk.prevVersion = None
      /\ disk.marker = None
    BY <1>1, <1>2, Constants DEF Over
<1>4. TypeOK
    <2>1. HostTypes
        <3>1. 0 \in 0..MaxStops
            BY DEF HostSetupAssumption
        <3>2. app \in App
            BY <1>2 DEF App, Apis
        <3> QED BY <1>2, <3>1, <3>2 DEF HostTypes
    <2>2. MachineTypes
        <3>1. 0 \in 0..MaxFaults /\ Released \in Releases
            BY DEF Releases, RuntimeInstallAssumption
        <3> QED BY <1>1, <3>1 DEF MachineTypes
    <2>3. run \in [Runs -> Run]
        BY <1>1, Constants
    <2>4. service \in Release /\ declared \in Apis \cup {None} /\ torn \in BOOLEAN
        BY <1>1, ApiIs
    <2> QED BY <1>3, <2>1, <2>2, <2>3, <2>4, Types
<1>5. Holding
    <2>1. Alive
        BY <1>1, <1>3, Constants DEF Alive
    <2>2. OneHolder
        BY <1>3 DEF OneHolder, Holds, Over, Waiting
    <2>3. JobFits
        BY <1>3 DEF JobFits, OnHost
    <2>4. Awaited
        BY <1>1, Constants DEF Awaited
    <2> QED BY <2>1, <2>2, <2>3, <2>4 DEF Holding
<1>6. \A w \in Runs : Knows(run[w]) /\ Finds(run[w])
    BY <1>3, Positions, Waits
<1>7. InVMFits /\ Folders
    BY <1>3, <1>6 DEF InVMFits, Served, Folders, GoesBack, Stands
<1>8. Behind
    BY <1>1, <1>2, <1>3, Constants DEF Behind, DiskBehind, RunBehind, NotAhead, None
<1>9. Connection
    BY <1>2 DEF Connection
<1> QED BY <1>4, <1>5, <1>7, <1>8, <1>9 DEF IInv

LEMMA Stutters ==
    ASSUME RuntimeInstallAssumption, IInv, UNCHANGED vars
    PROVE  IInv'
<1>1. UNCHANGED <<inVM, host, job, connected, stops>>
    BY DEF vars
<1>2. job \in Jobs /\ JobFits /\ (connected => ~(job.at = "exec" /\ job.mode = "update"))
    BY Typed DEF IInv, Holding, Connection
<1>3. JobFits'
    BY <1>1, <1>2 DEF JobFits, Anew, inVM, host
<1> QED BY <1>1, <1>2, <1>3, HostStays, Quiet

LEMMA StepsKeep ==
    ASSUME RuntimeInstallAssumption, HostSetupAssumption, IInv, [Next]_vars
    PROVE  IInv'
<1>1. CASE User
    BY <1>1, StartKeeps, StartImportKeeps, StartAppUpdateKeeps, BesideRemoves, BesideStartKeeps,
       BesideStopKeeps, ResetKeeps, HomeKeeps, QuitKeeps, OpenKeeps, RestartKeeps
       DEF User
<1>2. CASE Job
    BY <1>2, BeforeVMKeeps, CreationKeeps, NoMachineKeeps, CallsKeep, ExecKeeps, WaitKeeps,
       DeclareKeeps, HealthKeeps, VersionKeeps, LaunchKeeps, StopsKeep, UninstallKeeps, FailsKeeps,
       WakesKeeps
       DEF Job
<1>3. CASE Exit
    BY <1>3, ExitKeeps
<1>4. CASE InVM /\ UNCHANGED <<host, job, connected, stops>>
    BY <1>4, BootUpdateKeeps, WorldKeeps, GetShKeeps DEF InVM
<1>5. CASE UNCHANGED vars
    BY <1>5, Stutters
<1> QED BY <1>1, <1>2, <1>3, <1>4, <1>5 DEF Next

\* What the proofs rest on: no get.sh runs in a machine that is off and one at most
\* moves the folders; what it finds in them and in the marker is what its next
\* move needs; and nothing is of an api that the app does not speak yet.
THEOREM AllFits == Spec => []IInv
<1>1. Init => IInv
    BY Begins, RuntimeInstallAssumption, HostSetupAssumption
<1>2. IInv /\ [Next]_vars => IInv'
    BY StepsKeep, RuntimeInstallAssumption, HostSetupAssumption
<1> QED BY <1>1, <1>2, PTL DEF Spec

\* Every variable stays in its type; so no step of setup leads past its last one
\* (core/install.py, run_install and default_steps).
THEOREM TypeCorrect == Spec => []TypeOK
<1>1. IInv => TypeOK
    BY DEF IInv
<1> QED BY <1>1, AllFits, PTL

\* The marker names the release whose containers run and whose files are in place
\* (get.sh, lines 84-101; install.sh, which takes the marker away first and writes
\* it last).
THEOREM MarkerHolds == Spec => []MarkerIsTrue
<1>1. IInv => MarkerIsTrue
    BY DEF IInv, InVMFits, Served, Folders, Stands, MarkerIsTrue
<1> QED BY <1>1, AllFits, PTL

\* The release that an interrupted update would go back to has its files, in the
\* one folder or the other (get.sh, lines 84-97 and 171-180).
THEOREM ThereIsAWayBack == Spec => []FallbackIsThere
<1>1. IInv => FallbackIsThere
    BY DEF IInv, Folders, GoesBack, FallbackIsThere
<1> QED BY <1>1, AllFits, PTL

\* A machine that this app found it can use is never marked with a release of an api
\* that the app does not speak (get.sh, resolve_ref; boot-update.sh, accepted_api;
\* core/install.py, connect_step).
THEOREM SupportIsKept == Spec => []StaysSupported
<1>1. IInv => StaysSupported
    BY DEF IInv, Connection, DiskOwn, Own, StaysSupported
<1> QED BY <1>1, AllFits, PTL

=============================================================================
