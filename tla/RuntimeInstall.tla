--------------------------- MODULE RuntimeInstall ---------------------------
(***************************************************************************)
(* The runtime inside the virtual machine: get.sh, which puts a release in *)
(* the place of the one that is there and goes back to it when it does not *)
(* install; install.sh; and boot-update.sh, which runs get.sh at every     *)
(* boot, while the host may run it too.  The machine may stop between any  *)
(* two moves.  Releases are numbered; OMELET_RUNTIME_REF, branches and a   *)
(* get.sh without a host (curl | bash) are left out.                       *)
(***************************************************************************)
EXTENDS Naturals

CONSTANTS
    MaxRelease,  \* releases are 1..MaxRelease, in the order they appear
    Released,    \* how many of them are there at first
    NextApi,     \* the first release that speaks api 2; before it, api 1
    MaxFaults    \* bound on steps that fail

ASSUME RuntimeInstallAssumption ==
    /\ MaxRelease \in Nat /\ Released \in 1..MaxRelease /\ NextApi \in Nat
    /\ MaxFaults \in Nat

VARIABLES
    vm,        \* "none", "off" or "on"
    systemd,   \* whether its wsl.conf turns systemd on
    disk,      \* /opt/omelet: the two folders, runtime.prev.version and the marker
    declared,  \* host.json: the api its host speaks
    service,   \* the release the containers of the stack are of
    token,     \* api.token: missing, not read by the API yet, or read by it
    run,       \* a get.sh: of the boot unit, of the host, and one that the host
               \* has left behind
    newest,    \* the newest release there is
    torn,      \* a machine stopped where no marker tells what is in place
    faults

files == <<disk, service, token>>
machine == <<vm, systemd, declared>>
world == <<newest, torn, faults>>
inVM == <<vm, systemd, disk, declared, service, token, run, newest, torn, faults>>

None == 0
Releases == 1..MaxRelease
Release == 0..MaxRelease
Apis == {1, 2}
Runs == {"boot", "host", "left"}
Waiting == {"off", "begin", "lock", "ok", "failed"}
Installing == {"forget", "token", "up", "mark"}
Moving == {"unmoved", "resolve", "clear", "keep", "swap", "replace",
           "place", "drop", "back", "untag", "tidy"}

InVMTypeOK ==
    /\ vm \in {"none", "off", "on"} /\ systemd \in BOOLEAN
    /\ disk \in [runtime : Release, prev : Release, prevVersion : Release, marker : Release]
    /\ declared \in Apis \cup {None}
    /\ service \in Release
    /\ token \in {"missing", "unread", "read"}
    /\ run \in [Runs -> [at : Waiting \cup Installing \cup Moving,
                         mode : {"install", "update", "repair"}, api : Apis \cup {None},
                         installed : Release, ref : Release,
                         why : {"new", "restore", "fallback"}, created : BOOLEAN]]
    /\ newest \in Releases /\ torn \in BOOLEAN /\ faults \in 0..MaxFaults

NoRun == [at |-> "off", mode |-> "update", api |-> None, installed |-> None,
          ref |-> None, why |-> "new", created |-> FALSE]
EmptyDisk == [runtime |-> None, prev |-> None, prevVersion |-> None, marker |-> None]

InVMInit ==
    /\ vm = "none" /\ systemd = FALSE
    /\ disk = EmptyDisk /\ declared = None
    /\ service = None /\ token = "missing"
    /\ run = [w \in Runs |-> NoRun]
    /\ newest = Released /\ torn = FALSE /\ faults = 0

-----------------------------------------------------------------------------
Api(release) == IF release < NextApi THEN 1 ELSE 2

Fault == faults < MaxFaults /\ faults' = faults + 1

Holds(w) == run[w].at \notin Waiting

To(w, at) == run' = [run EXCEPT ![w].at = at]

\* The host learns how its run ended; nobody asks the boot unit, or waits for a
\* run that was left behind.
Result(w, result) == IF w = "host" THEN [NoRun EXCEPT !.at = result] ELSE NoRun

Ends(w, result) == run' = [run EXCEPT ![w] = Result(w, result)]

\* The machine goes off, and every run in it; so does a marker's truth when a
\* folder was exchanged and the marker not forgotten yet.
Exchanged(w) ==
    /\ disk.marker # None
    /\ \/ run[w].at = "forget" /\ disk.marker # disk.runtime
       \/ run[w].at = "place" /\ disk.prev = None

GoesOff ==
    /\ vm' = "off"
    /\ torn' = (torn \/ \E w \in Runs : Exchanged(w))

\* No run goes on; the host's has failed.
Ended(w) == IF run[w].at \in {"off", "ok", "failed"} THEN run[w] ELSE Result(w, "failed")

Stop == GoesOff /\ run' = [w \in Runs |-> Ended(w)]

\* A machine with systemd starts its containers, which read the token, and the
\* boot unit, whose script is in the runtime's folder.
Boot(bySystemd) ==
    /\ vm' = "on"
    /\ token' = IF bySystemd /\ service # None /\ token = "unread" THEN "read" ELSE token
    /\ run' = IF bySystemd /\ disk.runtime # None
              THEN [run EXCEPT !["boot"] = [NoRun EXCEPT !.at = "begin"]] ELSE run

-----------------------------------------------------------------------------
\* boot-update.sh: which release there is, which api is accepted, and the
\* newest get.sh.
BootUpdate ==
    /\ run["boot"].at = "begin"
    /\ LET known == \/ disk.marker # None \/ disk.prevVersion # None
           api == IF declared # None THEN declared
                  ELSE IF disk.runtime # None THEN Api(disk.runtime) ELSE None
       IN  \/ /\ ~known \/ api = None
              /\ Ends("boot", "failed") /\ UNCHANGED faults
           \/ /\ known /\ api # None
              /\ run' = [run EXCEPT !["boot"].at = "lock", !["boot"].api = api]
              /\ UNCHANGED faults
           \/ known /\ api # None /\ Ends("boot", "failed") /\ Fault
    /\ UNCHANGED <<files, machine, newest, torn>>

\* get.sh has the lock.  What an update that was interrupted has left is put
\* right first.
Locked(w) ==
    /\ run[w].at = "lock"
    /\ \A v \in Runs : ~Holds(v)
    /\ run' = [run EXCEPT ![w] =
         IF disk.prev # None /\ disk.marker = None /\ disk.prevVersion # None
         THEN [@ EXCEPT !.at = "drop", !.why = "restore", !.ref = disk.prevVersion]
         ELSE [@ EXCEPT !.at = IF disk.prev # None /\ disk.runtime = None
                               THEN "unmoved" ELSE "resolve"]]
    /\ UNCHANGED <<files, machine, world>>

Accepted(api) == {r \in 1..newest : Api(r) = api}

\* resolve_ref(): a repair keeps what is installed; else the newest release
\* of the api, or an older one when a release.json could not be read.
Refs(w) ==
    IF run[w].mode = "repair" /\ disk.marker # None THEN {disk.marker}
    ELSE {r \in Accepted(run[w].api) :
             faults = MaxFaults => \A s \in Accepted(run[w].api) : s <= r}

\* Mutant: whatever is older is installed too.
KeepsNot(w, ref) == run[w].mode = "update" /\ ref = disk.marker

\* An update has nothing to do when nothing newer is there.
Keeps(w, ref) == run[w].mode = "update" /\ disk.marker # None /\ ref <= disk.marker

\* Without the release that is chosen, or its images, nothing is touched.
Resolve(w) ==
    /\ run[w].at = "resolve"
    /\ \/ \E ref \in Refs(w) :
             /\ IF Keeps(w, ref) THEN Ends(w, "ok")
                ELSE run' = [run EXCEPT ![w].at = "clear", ![w].why = "new", ![w].ref = ref,
                                        ![w].installed = disk.marker]
             /\ IF \E r \in Refs(w) : r > ref THEN Fault ELSE UNCHANGED faults
       \/ Refs(w) = {} /\ Ends(w, "failed") /\ UNCHANGED faults
       \/ Refs(w) # {} /\ Ends(w, "failed") /\ Fault
    /\ UNCHANGED <<files, machine, newest, torn>>

Keeping(w) == run[w].mode = "update" /\ run[w].installed # None /\ disk.runtime # None

\* Where a run goes when an installation is through, and when it failed.
AfterInstall(w) == IF run[w].why = "new" THEN "tidy" ELSE "untag"

\* Mutant: the folder goes, the name of its release stays.
FolderGone == [disk EXCEPT !.prev = None]

NothingKept == [disk EXCEPT !.prev = None, !.prevVersion = None]

\* One move of get.sh: what it does to the folders, and the next.
Does(w, at, change, next) ==
    run[w].at = at /\ disk' = change /\ To(w, next)

Move(w) ==
    /\ \/ Does(w, "unmoved", [disk EXCEPT !.runtime = disk.prev, !.prev = None], "resolve")
       \/ Does(w, "clear", NothingKept,
               IF Keeping(w) THEN "keep" ELSE "replace")
       \/ Does(w, "keep", [disk EXCEPT !.prevVersion = run[w].installed], "swap")
       \/ Does(w, "swap", [disk EXCEPT !.prev = disk.runtime, !.runtime = None], "place")
       \/ Does(w, "replace", [disk EXCEPT !.runtime = None], "place")
       \/ Does(w, "place", [disk EXCEPT !.runtime = run[w].ref], "forget")
       \/ Does(w, "drop", [disk EXCEPT !.runtime = None], "back")
       \/ Does(w, "back", [disk EXCEPT !.runtime = disk.prev, !.prev = None], "forget")
    /\ UNCHANGED <<service, token, machine, world>>

\* What was kept is not needed any more.
Tidy(w) ==
    /\ run[w].at = "tidy" /\ Ends(w, "ok")
    /\ disk' = NothingKept
    /\ UNCHANGED <<service, token, machine, world>>

Untag(w) ==
    /\ run[w].at = "untag"
    /\ disk' = [disk EXCEPT !.prevVersion = None]
    /\ IF run[w].why = "restore" THEN To(w, "resolve") ELSE Ends(w, "failed")
    /\ UNCHANGED <<service, token, machine, world>>

-----------------------------------------------------------------------------
\* Mutant: the marker stays until it is written again.
ForgetNothing(w) ==
    /\ run[w].at = "forget" /\ To(w, "token")
    /\ UNCHANGED <<files, machine, world>>

\* install.sh forgets the marker first of all.
Forget(w) ==
    /\ run[w].at = "forget"
    /\ disk' = [disk EXCEPT !.marker = None]
    /\ To(w, "token")
    /\ UNCHANGED <<service, token, machine, world>>

\* A new release that does not install gives way to the one that was kept.
InstallFails(w) ==
    IF run[w].why = "new" /\ disk.prev # None
    THEN run' = [run EXCEPT ![w].at = "drop", ![w].why = "fallback",
                            ![w].ref = run[w].installed]
    ELSE Ends(w, "failed")

Breaks(w) ==
    /\ run[w].at \in {"token", "up", "mark"}
    /\ InstallFails(w)
    /\ IF systemd THEN Fault ELSE run[w].at = "token" /\ UNCHANGED faults
    /\ UNCHANGED <<files, machine, newest, torn>>

\* Docker needs systemd; then the token, unless there is one.
Token(w) ==
    /\ run[w].at = "token" /\ systemd
    /\ run' = [run EXCEPT ![w].at = "up", ![w].created = (token = "missing")]
    /\ token' = IF token = "missing" THEN "unread" ELSE token
    /\ UNCHANGED <<disk, service, machine, world>>

Repairs(w) == run[w].mode = "repair" /\ run[w].why = "new"

\* The stack; the API reads its token when its container is made anew.
Up(w) ==
    /\ run[w].at = "up"
    /\ service' = run[w].ref
    /\ token' = IF service # run[w].ref \/ run[w].created \/ Repairs(w) THEN "read" ELSE token
    /\ To(w, "mark")
    /\ UNCHANGED <<disk, machine, world>>

\* The tools and the agents, the GitHub connection, the units; last, the marker.
Mark(w) ==
    /\ run[w].at = "mark"
    /\ disk' = [disk EXCEPT !.marker = run[w].ref]
    /\ To(w, AfterInstall(w))
    /\ UNCHANGED <<service, token, machine, world>>

GetSh(w) ==
    \/ Locked(w) \/ Resolve(w) \/ Move(w) \/ Tidy(w) \/ Untag(w)
    \/ Forget(w) \/ Breaks(w) \/ Token(w) \/ Up(w) \/ Mark(w)

\* A new release appears.
Publish ==
    /\ newest < MaxRelease /\ newest' = newest + 1
    /\ UNCHANGED <<files, machine, run, torn, faults>>

\* The token's file is lost.
LoseToken ==
    /\ token = "read" /\ token' = "missing" /\ Fault
    /\ UNCHANGED <<disk, service, machine, run, newest, torn>>

InVM ==
    \/ BootUpdate \/ Publish \/ LoseToken
    \/ \E w \in Runs : GetSh(w)

-----------------------------------------------------------------------------
\* A marker names the release whose containers run and, when no run is at it,
\* whose files are in place or next to it, unless the machine was stopped
\* right when they were exchanged (install.sh takes the marker away first and
\* writes it last; get.sh, lines 84-101).
MarkerIsTrue ==
    disk.marker # None =>
        /\ service = disk.marker
        /\ \/ torn \/ \E w \in Runs : Holds(w)
           \/ disk.runtime = disk.marker
           \/ disk.runtime = None /\ disk.prev = disk.marker

\* At whatever moment an update is stopped, the release it would go back to
\* has its files (get.sh, lines 84-97 and 171-180).
FallbackIsThere ==
    ~torn /\ disk.marker = None /\ disk.prevVersion # None
        => disk.prevVersion \in {disk.prev, disk.runtime}
=============================================================================
