------------------------------ MODULE Projects ------------------------------
(***************************************************************************)
(* The project lifecycle of omelet-api (routes/app.py, core/lifecycle.py,  *)
(* core/state.py): requests and their jobs on a pool of threads, the       *)
(* non-blocking per-project locks, the rows of state.db, the project       *)
(* folders and the compose stacks in Docker.  Requests check first and     *)
(* lock later, jobs release the lock themselves, a clone hands its lock    *)
(* to the start it ends with, creating and adopting take no lock, and the  *)
(* process can die between any two steps.                                  *)
(***************************************************************************)
EXTENDS Naturals

CONSTANTS
    Projects,   \* project ids
    Names,      \* compose project names; an id is the default name
    Threads,    \* request and job threads of the API process
    None,       \* no row, no stack, no name, no project
    Ops,        \* the kinds of request this instance issues
    Faults,     \* what the environment does: faults, and agents editing files
    MaxFaults   \* bound on process and VM restarts

VARIABLES
    api,        \* "down", "booting" (resume_projects) or "serving"
    resuming,   \* started rows resume_projects has not come to yet
    locks,      \* ProjectLocks._held
    rows,       \* state.db: None or the project's row
    folders,    \* what /opt/omelet/projects/<id> holds
    stacks,     \* per compose name: the folder it was started from, if it runs
    thread,     \* what each thread is doing
    faults      \* process and VM restarts so far

vars == <<api, resuming, locks, rows, folders, stacks, thread, faults>>

-----------------------------------------------------------------------------
\* A folder with a compose file that parses is that file's project name; a
\* folder without one (or with a broken one) is "bare".
Contents == Names \cup {"bare"}

Statuses == {"stopped", "started_ok", "failed"}

Row == [status : Statuses, name : Names \cup {None}]

\* Mutant: a new row gets a status `classify` does not know.
CreatedRow == [status |-> "created", name |-> None]

FreshRow == [status |-> "stopped", name |-> None]

\* "ended": its services exited by themselves, as one-shot services do.
Stack == [dir : Projects, state : {"runs", "ended", "stopped"}]

ASSUME ConstantsAssumption ==
    /\ Projects \subseteq Names
    /\ None \notin Names \cup Threads
    /\ "gone" \notin Names
    /\ "bare" \notin Names
    /\ None \notin Row
    /\ MaxFaults \in Nat

\* Steps of a thread that does not hold the lock of its project ...
Unlocked == {"idle", "up_asked", "down_asked", "delete_asked", "clone_asked",
             "write_asked", "unlink_asked", "upload_asked",
             "mkdir", "register"}

\* ... and of one that does.
Locked == {"down_first", "record_name", "overlay", "compose", "report",
           "stop", "record_stopped", "remove", "purge", "unregister",
           "git", "clone_check", "rename", "clone_register", "clone_start",
           "write", "unlink", "check_row", "upload_write"}

Thread == [pc : Unlocked \cup Locked, on : Projects \cup {None},
           name : Names \cup {None}, ok : BOOLEAN]

Idle == [pc |-> "idle", on |-> None, name |-> None, ok |-> TRUE]

TypeOK ==
    /\ api \in {"down", "booting", "serving"}
    /\ resuming \subseteq Projects
    /\ locks \subseteq Projects
    /\ rows \in [Projects -> Row \cup {None}]
    /\ folders \in [Projects -> Contents \cup {"gone"}]
    /\ stacks \in [Names -> Stack \cup {None}]
    /\ thread \in [Threads -> Thread]
    /\ faults \in 0..MaxFaults

Init ==
    /\ api = "down"
    /\ resuming = {}
    /\ locks = {}
    /\ rows = [p \in Projects |-> None]
    /\ folders = [p \in Projects |-> "gone"]
    /\ stacks = [n \in Names |-> None]
    /\ thread = [t \in Threads |-> Idle]
    /\ faults = 0

-----------------------------------------------------------------------------
At(t, pc) == thread[t].pc = pc

On(t) == thread[t].on

Goto(t, pc) == thread' = [thread EXCEPT ![t].pc = pc] /\ UNCHANGED locks

\* Goes on with what it has read, or with whether it has succeeded so far.
GotoWith(t, pc, field, value) ==
    /\ thread' = [thread EXCEPT ![t] = [@ EXCEPT !.pc = pc, ![field] = value]]
    /\ UNCHANGED locks

\* `finally: locks.release(project_id)`, and the request or job is over.
Release(t) ==
    /\ locks' = locks \ {On(t)}
    /\ thread' = [thread EXCEPT ![t] = Idle]

\* UPDATE ... WHERE id=?: writes nothing when the row is gone.
Update(p, field, value) ==
    rows' = IF rows[p] = None THEN rows
            ELSE [rows EXCEPT ![p] = [@ EXCEPT ![field] = value]]

\* INSERT OR REPLACE: an existing row is reset.
AddProject(p) == rows' = [rows EXCEPT ![p] = FreshRow]

\* `mkdir -p`: an existing folder stays as it is.
MakeFolder(p) ==
    folders' = IF folders[p] = "gone" THEN [folders EXCEPT ![p] = "bare"] ELSE folders

\* compose_name_for: the recorded name, or the id.
FallbackName(p) == IF rows[p].name = None THEN p ELSE rows[p].name

\* `docker ps` by the working_dir label.
StacksOf(p) == {n \in Names : stacks[n] # None /\ stacks[n].dir = p}

Unload(n) == [stacks EXCEPT ![n] = None]

-----------------------------------------------------------------------------
\* What a request reads before it asks for the lock.
Arrive(t, op, p, pc, name) ==
    /\ api = "serving"
    /\ op \in Ops
    /\ At(t, "idle")
    /\ thread' = [thread EXCEPT
                    ![t] = [pc |-> pc, on |-> p, name |-> name, ok |-> TRUE]]
    /\ UNCHANGED <<locks, rows, folders, stacks>>

\* POST .../up and .../restart: start_work reads the row and parses the files.
AskUp(t, p) ==
    /\ rows[p] # None
    /\ folders[p] \in Names
    /\ Arrive(t, "up", p, "up_asked", folders[p])

AskDown(t, p) == rows[p] # None /\ Arrive(t, "down", p, "down_asked", None)

AskDeleteFor(t, p, pc) ==
    rows[p] # None /\ Arrive(t, "delete", p, pc, FallbackName(p))
\* Mutant: delete goes to work without the lock.
AskDeleteUnlocked(t, p) == AskDeleteFor(t, p, "remove")
AskDelete(t, p) == AskDeleteFor(t, p, "delete_asked")

AskClone(t, p) ==
    /\ rows[p] = None
    /\ folders[p] = "gone"
    /\ Arrive(t, "clone", p, "clone_asked", None)

AskWriteFor(t, p, pc) == rows[p] # None /\ Arrive(t, "write", p, pc, None)
\* Mutant: files land without the lock.
AskWriteUnlocked(t, p) == AskWriteFor(t, p, "write")
\* POST .../files and PUT .../files/<path>: require_row, then the lock.
AskWrite(t, p) == AskWriteFor(t, p, "write_asked")

AskUnlink(t, p) ==
    /\ rows[p] # None
    /\ folders[p] # "gone"
    /\ Arrive(t, "unlink", p, "unlink_asked", None)

\* The last chunk of an upload: only the upload itself was looked up.
AskFinishUpload(t, p) == Arrive(t, "upload", p, "upload_asked", None)

AskCreate(t, p) == rows[p] = None /\ Arrive(t, "create", p, "mkdir", None)

AskAdopt(t, p) ==
    /\ rows[p] = None
    /\ folders[p] # "gone"
    /\ Arrive(t, "adopt", p, "register", None)

Ask(t, p) ==
    \/ AskUp(t, p) \/ AskDown(t, p) \/ AskDelete(t, p) \/ AskClone(t, p)
    \/ AskWrite(t, p) \/ AskUnlink(t, p) \/ AskFinishUpload(t, p)
    \/ AskCreate(t, p) \/ AskAdopt(t, p)

\* The step each request goes on to once it holds the lock.
Entry(pc) ==
    CASE pc = "up_asked"     -> {"record_name", "down_first"}
      [] pc = "down_asked"   -> {"stop"}
      [] pc = "delete_asked" -> {"remove"}
      [] pc = "clone_asked"  -> {"git"}
      [] pc = "write_asked"  -> {"write"}
      [] pc = "unlink_asked" -> {"unlink"}
      [] pc = "upload_asked" -> {"check_row"}
      [] OTHER               -> {}

TakeLockIf(t, free) ==
    /\ free
    /\ \E pc \in Entry(thread[t].pc) : thread' = [thread EXCEPT ![t].pc = pc]
    /\ locks' = locks \cup {On(t)}
    /\ UNCHANGED <<rows, folders, stacks>>
\* Mutant: acquire() does not look whether the project is held.
TakeLockAnyway(t) == TakeLockIf(t, TRUE)
TakeLock(t) == TakeLockIf(t, On(t) \notin locks)

\* 409 project_busy.
Busy(t) ==
    /\ On(t) \in locks
    /\ Entry(thread[t].pc) # {}
    /\ thread' = [thread EXCEPT ![t] = Idle]
    /\ UNCHANGED <<locks, rows, folders, stacks>>

-----------------------------------------------------------------------------
\* Steps under the lock.  `docker compose down` reads the files as they are
\* now; a failure may have removed the containers all the same.
ComposeDown(t, pc, next, failed) ==
    LET Unloaded == folders[On(t)] \in Names /\ stacks' = Unload(folders[On(t)])
    IN  /\ At(t, pc)
        /\ \/ Unloaded /\ Goto(t, next)
           \/ (Unloaded \/ UNCHANGED stacks) /\ failed
        /\ UNCHANGED <<rows, folders>>

\* Mutant: the failed stop of a restart returns outside the `try`.
Forget(t) == thread' = [thread EXCEPT ![t] = Idle] /\ UNCHANGED locks
StopForRestartLeaking(t) == ComposeDown(t, "down_first", "record_name", Forget(t))
StopForRestart(t) == ComposeDown(t, "down_first", "record_name", Release(t))

Stop(t) == ComposeDown(t, "stop", "record_stopped", Release(t))

RecordName(t) ==
    /\ At(t, "record_name")
    /\ Update(On(t), "name", thread[t].name)
    /\ Goto(t, "overlay")
    /\ UNCHANGED <<folders, stacks>>

\* `mkdir -p <folder>/.omelet`, then the overlay made of what was parsed.
WriteOverlay(t) ==
    /\ At(t, "overlay")
    /\ \/ MakeFolder(On(t)) /\ Goto(t, "compose")
       \/ GotoWith(t, "report", "ok", FALSE) /\ UNCHANGED folders
    /\ UNCHANGED <<rows, stacks>>

\* `docker compose up -d` reads the files as they are now.  `classify` finds
\* STARTED_OK as well when the services have exited with 0 or `ps` lists none
\* of them.  A start that fails or crash-loops may leave containers behind.
Load(p, state) ==
    /\ folders[p] \in Names
    /\ stacks' = [stacks EXCEPT ![folders[p]] = [dir |-> p, state |-> state]]

ComposeUp(t) ==
    /\ At(t, "compose")
    /\ \/ /\ \E state \in {"runs", "ended"} : Load(On(t), state)
          /\ Goto(t, "report")
       \/ /\ UNCHANGED stacks \/ \E state \in {"runs", "stopped"} : Load(On(t), state)
          /\ GotoWith(t, "report", "ok", FALSE)
    /\ UNCHANGED <<rows, folders>>

\* The last write of a job that changes the status, then `finally`.
Record(t, pc, status) ==
    /\ At(t, pc)
    /\ Update(On(t), "status", status)
    /\ Release(t)
    /\ UNCHANGED <<folders, stacks>>

RecordStopped(t) == Record(t, "record_stopped", "stopped")

\* Mutant: a start that failed leaves the status as it was.
ReportNothing(t) ==
    Record(t, "report", IF thread[t].ok \/ rows[On(t)] = None THEN "started_ok"
                        ELSE rows[On(t)].status)
Report(t) == Record(t, "report", IF thread[t].ok THEN "started_ok" ELSE "failed")

-----------------------------------------------------------------------------
\* DELETE /projects/<id>.  resolve_compose_name: one of the names found by
\* label; the name read before the lock when there is none or docker failed.
NameToRemove(t) ==
    IF StacksOf(On(t)) = {} THEN {thread[t].name}
    ELSE StacksOf(On(t)) \cup
            (IF "docker" \in Faults THEN {thread[t].name} ELSE {})

\* remove_by_label; whether to purge as well is part of the request.  A listing
\* that fails finds nothing to remove and is no failure.
RemoveStack(t) ==
    /\ At(t, "remove")
    /\ \E n \in NameToRemove(t), good \in BOOLEAN, pc \in {"purge", "unregister"} :
          /\ \/ stacks' = Unload(n)
             \/ (~good \/ "docker" \in Faults) /\ UNCHANGED stacks
          /\ GotoWith(t, pc, "ok", good)
    /\ UNCHANGED <<rows, folders>>

\* rmtree, then a root container for what it could not remove.
Purge(t) ==
    /\ At(t, "purge")
    /\ \/ folders' = [folders EXCEPT ![On(t)] = "gone"] /\ Goto(t, "unregister")
       \/ /\ folders[On(t)] # "gone"
          /\ folders' \in {folders, [folders EXCEPT ![On(t)] = "bare"]}
          /\ GotoWith(t, "unregister", "ok", FALSE)
    /\ UNCHANGED <<rows, stacks>>

\* The row goes whether or not the rest could be removed.
Unregister(t) ==
    /\ At(t, "unregister")
    /\ rows' = [rows EXCEPT ![On(t)] = None]
    /\ Release(t)
    /\ UNCHANGED <<folders, stacks>>

-----------------------------------------------------------------------------
\* POST /github/clone.  Git works in a staging folder; `name` is what the
\* repository's compose file is called, None without one.
GitClone(t) ==
    /\ At(t, "git")
    /\ \/ \E n \in Names \cup {None} : GotoWith(t, "clone_check", "name", n)
       \/ Release(t)
    /\ UNCHANGED <<rows, folders, stacks>>

CloneCheckIf(t, free) ==
    /\ At(t, "clone_check")
    /\ IF free THEN Goto(t, "rename") ELSE Release(t)
    /\ UNCHANGED <<rows, folders, stacks>>
\* Mutant: the second look asks only whether the folder is still free.
CloneCheckFolderOnly(t) == CloneCheckIf(t, folders[On(t)] = "gone")
CloneCheck(t) == CloneCheckIf(t, folders[On(t)] = "gone" /\ rows[On(t)] = None)

\* os.rename replaces an empty folder and raises on one with anything in it.
CloneRename(t) ==
    /\ At(t, "rename")
    /\ \/ /\ folders[On(t)] \in {"gone", "bare"}
          /\ folders' = [folders EXCEPT ![On(t)] =
                            IF thread[t].name = None THEN "bare" ELSE thread[t].name]
          /\ Goto(t, "clone_register")
       \/ folders[On(t)] # "gone" /\ Release(t) /\ UNCHANGED folders
    /\ UNCHANGED <<rows, stacks>>

CloneRegister(t) ==
    /\ At(t, "clone_register")
    /\ AddProject(On(t))
    /\ Goto(t, "clone_start")
    /\ UNCHANGED <<folders, stacks>>

CloneStartBy(t, handOver) ==
    /\ At(t, "clone_start")
    /\ IF rows[On(t)] # None /\ folders[On(t)] \in Names
       THEN handOver
       ELSE Release(t)
    /\ UNCHANGED <<rows, folders, stacks>>
HandOver(t) == GotoWith(t, "record_name", "name", folders[On(t)])
\* Mutant: clone's `finally` releases although the start now owns the lock.
HandOverReleasing(t) ==
    /\ thread' = [thread EXCEPT ![t].pc = "record_name"]
    /\ locks' = locks \ {On(t)}
CloneStartReleasing(t) == CloneStartBy(t, HandOverReleasing(t))
\* start_work, whose job now owns the lock; or left stopped.
CloneStart(t) == CloneStartBy(t, HandOver(t))

-----------------------------------------------------------------------------
\* POST /projects takes no lock: mkdir, then the row.  The optional
\* .omelet/project.yml it writes is read where a start parses the files, before
\* the lock, and not by compose.
CreateMkdir(t) ==
    /\ At(t, "mkdir")
    /\ MakeFolder(On(t))
    /\ Goto(t, "register")
    /\ UNCHANGED <<rows, stacks>>

\* The last step of creating and of adopting.
Register(t) ==
    /\ At(t, "register")
    /\ AddProject(On(t))
    /\ thread' = [thread EXCEPT ![t] = Idle]
    /\ UNCHANGED <<locks, folders, stacks>>

\* finish_upload looks for the row inside the lock.
CheckRow(t) ==
    /\ At(t, "check_row")
    /\ IF rows[On(t)] = None THEN Release(t) ELSE Goto(t, "upload_write")
    /\ UNCHANGED <<rows, folders, stacks>>

\* Files arrive in the folder, which is made if need be; or an error and
\* nothing, or only part of them, is written.
LandFiles(t) ==
    /\ thread[t].pc \in {"write", "upload_write"}
    /\ folders' \in {folders} \cup {[folders EXCEPT ![On(t)] = c] : c \in Contents}
    /\ Release(t)
    /\ UNCHANGED <<rows, stacks>>

Unlink(t) ==
    /\ At(t, "unlink")
    /\ \/ UNCHANGED folders
       \/ folders[On(t)] # "gone" /\ folders' = [folders EXCEPT ![On(t)] = "bare"]
    /\ Release(t)
    /\ UNCHANGED <<rows, stacks>>

\* A step raises (a full disk under state.db, say): `finally` still runs, no
\* row is written, and the job has ended as failed until the thread or the
\* process goes on to something else.
Raise(t) ==
    /\ "raise" \in Faults
    /\ thread[t].pc \in Locked
    /\ locks' = locks \ {On(t)}
    /\ thread' = [thread EXCEPT ![t] = [Idle EXCEPT !.on = On(t), !.ok = FALSE]]
    /\ UNCHANGED <<rows, folders, stacks>>

\* The job of a project that the thread worked on last ended in an exception.
Raised(t, p) == At(t, "idle") /\ On(t) = p /\ ~thread[t].ok

-----------------------------------------------------------------------------
Work(t) ==
    \/ TakeLock(t) \/ Busy(t)
    \/ StopForRestart(t) \/ RecordName(t) \/ WriteOverlay(t) \/ ComposeUp(t)
    \/ Report(t) \/ Stop(t) \/ RecordStopped(t)
    \/ RemoveStack(t) \/ Purge(t) \/ Unregister(t)
    \/ GitClone(t) \/ CloneCheck(t) \/ CloneRename(t) \/ CloneRegister(t)
    \/ CloneStart(t) \/ CreateMkdir(t) \/ Register(t) \/ CheckRow(t)
    \/ LandFiles(t) \/ Unlink(t)

\* A step of the serving process changes nothing of its life cycle.
Step(t) == Work(t) /\ UNCHANGED <<api, resuming, faults>>

Request(t) ==
    /\ Raise(t) \/ \E p \in Projects : Ask(t, p)
    /\ UNCHANGED <<api, resuming, faults>>

\* A coding agent in the VM edits, makes or removes a project folder.
AgentEdit(p) ==
    /\ "agent" \in Faults
    /\ \E c \in (Contents \cup {"gone"}) \ {folders[p]} :
          folders' = [folders EXCEPT ![p] = c]
    /\ UNCHANGED <<api, resuming, locks, rows, stacks, thread, faults>>

\* The process dies (jobs and locks live in its memory only); with the VM,
\* every container stops too.
Die ==
    /\ api # "down"
    /\ faults < MaxFaults
    /\ faults' = faults + 1
    /\ api' = "down"
    /\ resuming' = {}
    /\ locks' = {}
    /\ thread' = [t \in Threads |-> Idle]
    /\ \/ "crash" \in Faults /\ UNCHANGED stacks
       \/ /\ "reboot" \in Faults
          /\ stacks' = [n \in Names |-> IF stacks[n] = None THEN None
                                        ELSE [stacks[n] EXCEPT !.state = "stopped"]]
    /\ UNCHANGED <<rows, folders>>

\* __main__: the rows resume_projects will start again, read once.
Boot ==
    /\ api = "down"
    /\ api' = "booting"
    /\ resuming' = {p \in Projects : rows[p] # None /\ rows[p].status = "started_ok"}
    /\ UNCHANGED <<locks, rows, folders, stacks, thread, faults>>

\* One turn of resume_projects; a project whose files no longer parse, or
\* that is busy, is skipped.  Files that cannot be read at all end `main`, and
\* the process with it: that is Die, met while booting.
Resume(p) ==
    /\ p \in resuming
    /\ resuming' = resuming \ {p}
    /\ IF folders[p] \in Names /\ p \notin locks
       THEN /\ locks' = locks \cup {p}
            /\ \E t \in Threads :
                  /\ At(t, "idle")
                  /\ thread' = [thread EXCEPT ![t] =
                        [pc |-> "record_name", on |-> p, name |-> folders[p],
                         ok |-> TRUE]]
       ELSE UNCHANGED <<locks, thread>>
    /\ UNCHANGED <<api, rows, folders, stacks, faults>>

Serve ==
    /\ api = "booting"
    /\ resuming = {}
    /\ api' = "serving"
    /\ UNCHANGED <<resuming, locks, rows, folders, stacks, thread, faults>>

Next ==
    \/ \E t \in Threads : Step(t) \/ Request(t)
    \/ \E p \in Projects : AgentEdit(p) \/ Resume(p)
    \/ Die \/ Boot \/ Serve

\* Requests and faults come when they come.  A thread keeps running, the
\* commands it waits for end (docker and git do; exec.py sets no limit), and a
\* body still arriving from the client ("write") is the client's to end.
Fairness ==
    /\ WF_vars(Boot) /\ WF_vars(Serve)
    /\ \A p \in Projects : WF_vars(Resume(p))
    /\ \A t \in Threads : WF_vars(thread[t].pc # "write" /\ Step(t))

Spec == Init /\ [][Next]_vars
FairSpec == Spec /\ Fairness

-----------------------------------------------------------------------------
Holds(t, p) == On(t) = p /\ thread[t].pc \in Locked

\* A project is in ProjectLocks exactly while one thread works under its
\* lock: no failure, refusal, hand-over from clone to start or restart leaves
\* a lock behind, takes it twice or gives up a lock that is someone else's.
LocksExact ==
    /\ \A p \in Projects : p \in locks <=> \E t \in Threads : Holds(t, p)
    /\ \A t, u \in Threads :
          (thread[t].pc \in Locked /\ thread[u].pc \in Locked /\ On(t) = On(u))
             => t = u

\* A row that an operation looked up, or made, while holding the lock cannot
\* go away before that operation is over: finish_upload may land its file and
\* a clone may start what it registered.
CheckedRowStays ==
    \A t \in Threads :
        thread[t].pc \in {"upload_write", "clone_start"} => rows[On(t)] # None

\* "nothing was changed" (app.py:608): a clone's INSERT OR REPLACE only ever
\* meets no row, or one as fresh as its own, never a project that has run.
CloneResetsNothing ==
    [][\A t \in Threads : CloneRegister(t) => rows[On(t)] \in {None, FreshRow}]_vars

\* From the moment the overlay is being written until compose has read the
\* files, the files change by nothing but a program outside the API.
FilesSteadyDuringStart ==
    [][\A t \in Threads :
          (thread[t].pc \in {"overlay", "compose"} /\ folders[On(t)] # "gone")
             => \/ folders'[On(t)] = folders[On(t)]
                \/ \E p \in Projects : AgentEdit(p)]_vars

\* Every lock is given back, so a project is never "busy" for good; unless it
\* is held by a body the client has neither finished nor hung up on.
LocksComeBack ==
    \A p \in Projects :
        (p \in locks /\ \A t \in Threads : ~(At(t, "write") /\ On(t) = p))
            ~> p \notin locks

\* A project whose row says it runs when the process comes up is started again
\* (its containers run, or have exited by themselves), or its row stops saying
\* so, or its start is a failed job.  Excepted are files that no longer parse
\* and a process that dies again first.  In the case of the failed job nothing
\* runs and the row goes on saying that it does.
ResumedOrReported ==
    \A p \in Projects :
        p \in resuming ~> \/ \E n \in StacksOf(p) : stacks[n].state # "stopped"
                          \/ rows[p] = None
                          \/ rows[p] # None /\ rows[p].status # "started_ok"
                          \/ \E t \in Threads : Raised(t, p)
                          \/ folders[p] \notin Names
                          \/ api = "down"

\* The locks implement OneAtATime, the owner being whoever is under the lock.
Owner == [p \in Projects |->
            IF p \in locks THEN CHOOSE t \in Threads : Holds(t, p) ELSE None]

Abstract == INSTANCE OneAtATime WITH owner <- Owner, NoOne <- None

OneOperationPerProject == Abstract!Spec

-----------------------------------------------------------------------------
\* What comments of the code say and the code does not do.

\* finish_upload's comment (app.py:723-726) names what must not happen: a
\* write landing after delete would "resurrect the folder it just removed".
WritesNeverResurrect ==
    [][\A t \in Threads :
          (LandFiles(t) /\ rows[On(t)] = None /\ folders[On(t)] = "gone")
             => folders'[On(t)] = "gone"]_vars

\* resolve_compose_name (lifecycle.py:85-87): "delete must find what is
\* running".  A delete that answers stopped=true leaves no stack started from
\* the project's folder.
DeleteFindsWhatRuns ==
    [][\A t \in Threads :
          (Unregister(t) /\ thread[t].ok) => StacksOf(On(t)) = {}]_vars
=============================================================================
