------------------------------ MODULE Uploads ------------------------------
(***************************************************************************)
(* Uploading files into one project: the queue of a browser tab            *)
(* (uploads/queue.ts), the upload routes of the API, and the store that    *)
(* keeps what has arrived so far (core/uploads.py).  A request may get     *)
(* lost, or go on at the API when the queue has given up on it, while the  *)
(* project is deleted, kept busy, or the API restarts.                     *)
(***************************************************************************)
EXTENDS Naturals, FiniteSetsExt, Functions

CONSTANTS
    MaxItems,         \* bound on items of the queue, adopted ones included
    MaxUploads,       \* bound on uploads the store has ever had
    Sizes,            \* of files
    Chunk,            \* CHUNK_SIZE
    NETWORK_RETRIES,
    MaxEvents        \* bound on what comes from outside: lost requests,
                      \* restarts, busy or deleted projects, weeks that pass

ASSUME UploadsAssumption ==
    /\ MaxItems \in Nat \ {0} /\ MaxUploads \in Nat \ {0}
    /\ Sizes \subseteq Nat
    /\ \E largest \in Sizes : \A size \in Sizes : size <= largest
    /\ Chunk \in Nat \ {0}
    /\ NETWORK_RETRIES \in Nat /\ MaxEvents \in Nat

VARIABLES
    items,     \* in the tab: the items, by key
    run,       \* where run() and send() are
    calls,     \* requests the queue waits for, and has given up on
    cancels,   \* cancellations nobody waits for
    uploads,   \* in the store, by id: what is on disk
    present,   \* a file is at the path (all files go to the same one)
    row,       \* the project is in state.db
    holder,    \* who else has the lock of the project
    swept,     \* uploads a sweep has found old and is about to remove
    listed,    \* the API's list of uploads, on its way to the queue
    events     \* how much of that has happened

tab == <<items, run>>
project == <<present, row, holder>>
beside == <<project, swept, listed>>
vars == <<tab, calls, cancels, uploads, beside, events>>

Slots == {"awaited", "stray"}
Keys == 1..MaxItems
Ids == 1..MaxUploads
Bytes == 0..Max(Sizes)

States == {"waiting", "going", "paused", "stalled", "noRoom", "failed",
           "exists",            \* failed, with the reason file_exists
           "done", "none", "gone"}

Item == [state : States, upload : Ids \cup {0}, offset : Bytes,
         size : Sizes \cup {0}, finishing : BOOLEAN, replace : BOOLEAN]

Answers == {"started", "at", "stored", "done", "file_exists", "offset_mismatch",
            "project_busy", "disk_full", "not_enough_space", "upload_not_found",
            "permission_denied", "session_lost", "other"}

\* Where a call is at the API; from "write" to its end it has the upload's
\* lock, at "land" the project's.
Call == [at : {"none", "start", "create", "status", "patch", "lock", "write",
               "finish", "land", "answered"},
         upload : Ids \cup {0}, from : Bytes, to : Bytes, replace : BOOLEAN,
         answer : Answers \cup {"none"}]

Entry == [upload : Ids, size : Sizes \cup {0}, replace : BOOLEAN]

TypeOK ==
    /\ items \in [Keys -> Item]
    /\ run \in [at : {"off", "start", "status", "patch", "busy", "backoff",
                       "returned"},
                key : Keys \cup {0}, sync : BOOLEAN, restarted : BOOLEAN,
                failures : 0..NETWORK_RETRIES]
    /\ calls \in [Slots -> Call]
    /\ cancels \subseteq Ids
    /\ uploads \in [Ids -> [at : {"none", "open", "landed", "removed"},
                            size : Sizes \cup {0}, data : SUBSET Bytes,
                            replace : BOOLEAN]]
    /\ present \in BOOLEAN /\ row \in BOOLEAN
    /\ holder \in {"none", "work", "delete", "purge"}
    /\ swept \subseteq Ids /\ listed \subseteq Entry
    /\ events \in 0..MaxEvents

NoItem == [state |-> "none", upload |-> 0, offset |-> 0, size |-> 0,
           finishing |-> FALSE, replace |-> FALSE]
Off == [at |-> "off", key |-> 0, sync |-> FALSE, restarted |-> FALSE, failures |-> 0]
NoCall == [at |-> "none", upload |-> 0, from |-> 0, to |-> 0, replace |-> FALSE,
           answer |-> "none"]
NoUpload == [at |-> "none", size |-> 0, data |-> {}, replace |-> FALSE]

Init ==
    /\ items = [k \in Keys |-> NoItem]
    /\ run = Off
    /\ calls = [c \in Slots |-> NoCall]
    /\ cancels = {}
    /\ uploads = [u \in Ids |-> NoUpload]
    /\ present = FALSE /\ row = TRUE
    /\ holder = "none"
    /\ swept = {} /\ listed = {}
    /\ events = 0

-----------------------------------------------------------------------------
(* The queue.  It runs on one thread: a step goes from one await to the     *)
(* next, through the rest of send() and, when that returns, through run().  *)

Queued(its) == {k \in Keys : its[k].state \in States \ {"none", "gone"}}
Waiting(its) == {k \in Keys : its[k].state = "waiting"}

Held(its) == \E k \in Keys : its[k].state = "noRoom" /\ its[k].upload # 0

StartCall(it) == [NoCall EXCEPT !.at = "start", !.to = it.size, !.replace = it.replace]
StatusCall(it) == [NoCall EXCEPT !.at = "status", !.upload = it.upload]

\* Mutant: the last chunk is as long as the others.
PatchCallWhole(it) ==
    [NoCall EXCEPT !.at = "patch", !.upload = it.upload, !.from = it.offset,
                   !.to = it.offset + Chunk]

PatchCall(it) ==
    [NoCall EXCEPT !.at = "patch", !.upload = it.upload, !.from = it.offset,
                   !.to = Min({it.size, it.offset + Chunk})]

\* The next request for the item of r, which is going.
Request(its, r) ==
    LET it == its[r.key]
        call == IF it.upload = 0 THEN StartCall(it)
                ELSE IF r.sync THEN StatusCall(it) ELSE PatchCall(it)
    IN  /\ calls' = [calls EXCEPT !.awaited = call]
        /\ run' = [r EXCEPT !.at = call.at]
        /\ items' = IF call.at = "patch"
                    THEN [its EXCEPT ![r.key].finishing = call.to = it.size]
                    ELSE its

\* run() looks for work.
PickNext(its) ==
    IF Held(its) \/ Waiting(its) = {}
    THEN items' = its /\ run' = Off /\ calls' = [calls EXCEPT !.awaited = NoCall]
    ELSE LET k == Min(Waiting(its))
         IN  Request([its EXCEPT ![k].state = "going"],
                     [Off EXCEPT !.key = k, !.sync = its[k].upload # 0])

\* The head of the loop in send().
Continue(its, r) ==
    IF its[r.key].state = "going" THEN Request(its, r) ELSE PickNext(its)

\* kick() after a change: only when nothing runs.
Kick(its) ==
    IF run.at = "off" THEN PickNext(its) ELSE items' = its /\ UNCHANGED <<run, calls>>

Event == events < MaxEvents /\ events' = events + 1

Quietly == UNCHANGED <<cancels, uploads, beside, events>>
OnEvent == Event /\ UNCHANGED <<cancels, uploads, beside>>

Add(size) ==
    LET new == {k \in Keys : items[k].state = "none"}
    IN  /\ new # {}
        /\ Kick([items EXCEPT ![Min(new)] =
                    [NoItem EXCEPT !.state = "waiting", !.size = size]])
        /\ Quietly

\* Mutant: nobody tells the queue.
ResumeQuietly(k) ==
    /\ items[k].state \in {"paused", "stalled"}
    /\ items' = [items EXCEPT ![k].state = "waiting"]
    /\ UNCHANGED <<run, calls>>
    /\ Quietly

\* resume(), or relink() with the file.
Resume(k) ==
    /\ items[k].state \in {"paused", "stalled"}
    /\ Kick([items EXCEPT ![k].state = "waiting"])
    /\ Quietly

Replace(k) ==
    /\ items[k].state = "exists"
    /\ Kick([items EXCEPT ![k].state = "waiting", ![k].replace = TRUE])
    /\ Quietly

\* There is room again for some of the items that wait for it.
CarryOn ==
    \E K \in SUBSET {k \in Keys : items[k].state = "noRoom"} :
        /\ K # {}
        /\ Kick([k \in Keys |->
                   IF k \in K THEN [items[k] EXCEPT !.state = "waiting"] ELSE items[k]])
        /\ OnEvent

\* The queue leaves the call it waits for: either it goes on at the API (one
\* such call at a time), or it did not get there, or has ended.
Leave ==
    \/ /\ calls.awaited.at \notin {"none", "answered"} /\ calls.stray.at = "none"
       /\ calls' = [awaited |-> NoCall, stray |-> calls.awaited]
    \/ /\ calls.awaited.at \in {"none", "answered", "start", "status", "patch"}
       /\ calls' = [calls EXCEPT !.awaited = NoCall]

\* abort(): only a PATCH listens to it.
Abort(k) ==
    IF run.at = "patch" /\ run.key = k
    THEN Leave /\ run' = [run EXCEPT !.at = "returned"]
    ELSE UNCHANGED <<run, calls>>

Pause(k) ==
    /\ items[k].state = "going"
    /\ items' = [items EXCEPT ![k].state = "paused"]
    /\ Abort(k)
    /\ OnEvent

\* send() returns after an abort, and run() goes on.
Returned ==
    /\ run.at = "returned"
    /\ PickNext(items)
    /\ Quietly

Removed(k) == [items EXCEPT ![k] = [NoItem EXCEPT !.state = "gone"]]

Remove(k) ==
    /\ k \in Queued(items)
    /\ IF run.at = "off"
       THEN PickNext(Removed(k))
       ELSE items' = Removed(k) /\ Abort(k)
    /\ cancels' = IF items[k].upload # 0 /\ items[k].state # "done"
                  THEN cancels \cup {items[k].upload} ELSE cancels
    /\ Event /\ UNCHANGED <<uploads, beside>>

\* The page is loaded again: dispose(), and a new queue that is empty.
Reload ==
    /\ Event
    /\ Queued(items) # {}
    /\ items' = [k \in Keys |-> IF k \in Queued(items)
                                THEN [NoItem EXCEPT !.state = "gone"] ELSE items[k]]
    /\ run' = Off /\ Leave /\ listed' = {}
    /\ UNCHANGED <<cancels, uploads, project, swept>>

Open(u) == uploads[u].at = "open"

\* syncPending() asks the API what it has; `replace` and the size come with it.
List ==
    /\ row /\ listed = {}
    /\ listed' = {[upload |-> u, size |-> uploads[u].size, replace |-> uploads[u].replace]
                     : u \in {u \in Ids : Open(u)}}
    /\ Event /\ UNCHANGED <<tab, calls, cancels, uploads, project, swept>>

Adopted(entry) ==
    [NoItem EXCEPT !.state = "stalled", !.upload = entry.upload,
                   !.size = entry.size, !.replace = entry.replace]

\* adoptPending(): what was listed that no item has by now, nor is being
\* started. Before anything is sent for such an item its offset is asked for,
\* so none is kept here.
Adopt ==
    LET starting == \E k \in Keys : items[k].state = "going" /\ items[k].upload = 0
        found == {entry \in listed : ~starting /\
                     \A k \in Keys : items[k].upload # entry.upload}
    IN  /\ listed # {} /\ listed' = {}
        /\ \E K \in SUBSET {k \in Keys : items[k].state = "none"} :
              \E entry \in Bijection(K, found) :
                items' = [k \in Keys |-> IF k \in K THEN Adopted(entry[k]) ELSE items[k]]
        /\ UNCHANGED <<run, calls, cancels, uploads, project, swept, events>>

-----------------------------------------------------------------------------
(* send() hears of its request.  `k` is the item, `it` its state by now.    *)

Answer == calls.awaited.answer
Key == run.key
Its(patch) == [items EXCEPT ![Key] = patch]
Going == items[Key].state = "going"

\* Mutant: whatever happened meanwhile.
EndAsAlways(state) ==
    PickNext(IF Key \in Queued(items)
             THEN Its([items[Key] EXCEPT !.state = state]) ELSE items)

\* Ends with another state, unless it was paused or removed meanwhile.
EndAs(state) ==
    PickNext(IF Going THEN Its([items[Key] EXCEPT !.state = state]) ELSE items)

Heard(answers) == calls.awaited.at = "answered" /\ Answer \in answers

\* land(): whatever state the item is in, if it is still there.
Land ==
    PickNext(IF Key \in Queued(items)
             THEN Its([items[Key] EXCEPT !.state = "done", !.offset = items[Key].size])
             ELSE items)

Done ==
    /\ Heard({"done"})
    /\ Land
    /\ Quietly

\* An item that was removed meanwhile has its new upload cancelled.
Started ==
    /\ Heard({"started"})
    /\ LET u == calls.awaited.upload
       IN  IF Key \in Queued(items)
           THEN /\ Continue(Its([items[Key] EXCEPT !.upload = u, !.offset = 0,
                                                   !.finishing = FALSE]),
                            [run EXCEPT !.failures = 0])
                /\ UNCHANGED cancels
           ELSE PickNext(items) /\ cancels' = cancels \cup {u}
    /\ UNCHANGED <<uploads, beside, events>>

\* The item with a new offset, if it is still there.
AtOffset(finishing) ==
    IF Key \in Queued(items)
    THEN Its([items[Key] EXCEPT !.offset = calls.awaited.from, !.finishing = finishing])
    ELSE items

\* The answer to a status, or to a chunk that was not the last.
Progress ==
    /\ Heard({"at", "stored"})
    /\ Continue(AtOffset(FALSE), [run EXCEPT !.failures = 0, !.sync = FALSE])
    /\ Quietly

\* Mutant: the offset of the answer is not taken over.
MismatchStubborn ==
    /\ Heard({"offset_mismatch"})
    /\ Continue(items, run)
    /\ Quietly

Mismatch ==
    /\ Heard({"offset_mismatch"})
    /\ Continue(AtOffset(items[Key].finishing), run)
    /\ Quietly

\* All the bytes are in; sleeps, then asks to finish once more.
Busy ==
    /\ Heard({"project_busy"})
    /\ IF Going
       THEN /\ items' = Its([items[Key] EXCEPT !.offset = items[Key].size])
            /\ run' = [run EXCEPT !.at = "busy"]
            /\ calls' = [calls EXCEPT !.awaited = NoCall]
       ELSE PickNext(items)
    /\ Quietly

NoRoom ==
    /\ Heard({"disk_full", "not_enough_space"})
    /\ PickNext(IF ~Going THEN items
                ELSE Its([items[Key] EXCEPT
                            !.state = "noRoom",
                            !.offset = IF Answer = "disk_full"
                                       THEN calls.awaited.from ELSE @]))
    /\ Quietly

\* Mutant: it has landed, whatever was sent.
NotFoundLands ==
    /\ Heard({"upload_not_found"})
    /\ Land
    /\ Quietly

\* After a finishing PATCH it has landed; else it starts over, once.
NotFound ==
    /\ Heard({"upload_not_found"})
    /\ IF Key \in Queued(items) /\ items[Key].finishing THEN Land
       ELSE IF run.restarted THEN EndAs("failed")
       ELSE Continue(IF Key \in Queued(items)
                     THEN Its([items[Key] EXCEPT !.upload = 0, !.offset = 0,
                                                 !.finishing = FALSE])
                     ELSE items,
                     [run EXCEPT !.restarted = TRUE])
    /\ Quietly

Denied ==
    /\ Heard({"permission_denied"})
    /\ IF Going /\ items[Key].upload # 0
       THEN /\ cancels' = cancels \cup {items[Key].upload}
            /\ PickNext(Its([items[Key] EXCEPT !.upload = 0, !.state = "failed"]))
       ELSE EndAs("failed") /\ UNCHANGED cancels
    /\ UNCHANGED <<uploads, beside, events>>

SessionLost ==
    /\ Heard({"session_lost"})
    /\ EndAs("stalled")
    /\ Quietly

Refused ==
    /\ Heard({"file_exists", "other"})
    /\ EndAs(IF Answer = "file_exists" THEN "exists" ELSE "failed")
    /\ Quietly

Asking == run.at \in {"start", "status", "patch"}

\* No answer: after some tries the item is stalled, else the queue sleeps.
\* (A connection that broke when the API stopped is none of the outside's.)
Unreachable ==
    /\ Asking
    /\ IF calls.awaited.at = "none" THEN UNCHANGED events
       ELSE Event
    /\ Leave
    /\ IF run.failures < NETWORK_RETRIES
       THEN /\ run' = [run EXCEPT !.at = "backoff", !.failures = @ + 1]
            /\ UNCHANGED items
       ELSE /\ run' = [run EXCEPT !.at = "returned"]
            /\ items' = IF Going THEN Its([items[Key] EXCEPT !.state = "stalled"])
                        ELSE items
    /\ UNCHANGED <<cancels, uploads, beside>>

\* A sleep is over; after a failure the API is asked how far it is.
Wake ==
    /\ run.at \in {"busy", "backoff"}
    /\ Continue(items, IF run.at = "busy" THEN run
                       ELSE [run EXCEPT !.sync = items[Key].upload # 0])
    /\ Quietly

Hears == \/ Done \/ Started \/ Progress \/ Mismatch \/ Busy \/ NoRoom \/ NotFound
         \/ Denied \/ SessionLost \/ Refused

-----------------------------------------------------------------------------
(* The API.                                                                 *)

\* The size of the data on disk.
Stored(u) == Max({0} \cup {b + 1 : b \in uploads[u].data})

UploadLocked(u) == \E c \in Slots :
    calls[c].at = "write" /\ calls[c].upload = u

\* Mutant: finish_upload() takes no lock.
ProjectLockedByOthers == holder # "none"

ProjectLocked == holder # "none" \/ \E c \in Slots : calls[c].at = "land"

Gone(u) == uploads' = [uploads EXCEPT ![u] = [NoUpload EXCEPT !.at = "removed"]]

Goto(c, at) == calls' = [calls EXCEPT ![c].at = at]

\* Nobody waits for the answer of a call that was given up.
Reply(c, answer, offset, u) ==
    calls' = [calls EXCEPT ![c] =
        IF c = "stray" THEN NoCall
        ELSE [NoCall EXCEPT !.at = "answered", !.answer = answer,
                            !.from = offset, !.upload = u]]

Say(c, answer) == Reply(c, answer, 0, 0)

Silent == UNCHANGED <<tab, cancels, events>>

\* The session of the request is not accepted.
NoSession(c) ==
    /\ calls[c].at \in {"start", "status", "patch"}
    /\ Event
    /\ Say(c, "session_lost")
    /\ UNCHANGED <<tab, cancels, uploads, beside>>

\* start_upload(): what it looks at, then the store's start().
StartCheck(c) ==
    /\ calls[c].at = "start"
    /\ IF ~row THEN Say(c, "other")
       ELSE IF present /\ ~calls[c].replace THEN Say(c, "file_exists")
       ELSE Goto(c, "create")
    /\ Silent /\ UNCHANGED <<uploads, beside>>

Start(c) ==
    /\ calls[c].at = "create"
    /\ \/ Say(c, "not_enough_space") /\ UNCHANGED uploads
       \/ LET new == {u \in Ids : uploads[u].at = "none"}
              u == Min(new)
          IN  /\ new # {}
              /\ uploads' = [uploads EXCEPT ![u] =
                    [NoUpload EXCEPT !.at = "open", !.size = calls[c].to,
                                     !.replace = calls[c].replace]]
              /\ IF calls[c].to = 0
                 THEN calls' = [calls EXCEPT ![c] = [NoCall EXCEPT !.at = "finish", !.upload = u]]
                 ELSE Reply(c, "started", 0, u)
    /\ Silent /\ UNCHANGED beside

\* The lock is not asked for: a chunk may be half written.
Status(c) ==
    /\ calls[c].at = "status"
    /\ IF Open(calls[c].upload)
       THEN Reply(c, "at", Stored(calls[c].upload), 0)
       ELSE Say(c, "upload_not_found")
    /\ Silent /\ UNCHANGED <<uploads, beside>>

\* append(): the folder is there; then, with the lock, so is the data and the
\* offset is right; the chunk is written piece by piece.
AppendFind(c) ==
    /\ calls[c].at = "patch"
    /\ IF Open(calls[c].upload) THEN Goto(c, "lock") ELSE Say(c, "upload_not_found")
    /\ Silent /\ UNCHANGED <<uploads, beside>>

WriteTo(u, bytes) == uploads' = [uploads EXCEPT ![u].data = bytes]

AppendIf(c, fits) ==
    LET u == calls[c].upload
    IN  /\ calls[c].at = "lock" /\ ~UploadLocked(u)
        /\ IF ~Open(u) THEN Say(c, "upload_not_found") /\ UNCHANGED uploads
           ELSE IF ~fits THEN Reply(c, "offset_mismatch", Stored(u), 0) /\ UNCHANGED uploads
           ELSE /\ Goto(c, "write")
                /\ WriteTo(u, uploads[u].data \cup
                               IF calls[c].from < calls[c].to THEN {calls[c].from} ELSE {})
        /\ Silent /\ UNCHANGED beside

\* Mutant: wherever the chunk begins.
AppendAnywhere(c) == AppendIf(c, TRUE)

Append(c) == AppendIf(c, calls[c].from = Stored(calls[c].upload))

\* The rest is written.  A folder that was removed meanwhile is an error.
Appended(c) ==
    LET u == calls[c].upload
        data == uploads[u].data \cup calls[c].from..(calls[c].to - 1)
        end == Max({0} \cup {b + 1 : b \in data})
    IN  /\ calls[c].at = "write"
        /\ IF ~Open(u) THEN Say(c, "other") /\ UNCHANGED uploads
           ELSE /\ WriteTo(u, data)
                /\ IF end = uploads[u].size THEN Goto(c, "finish")
                   ELSE Reply(c, "stored", end, 0)
        /\ Silent /\ UNCHANGED beside

\* The disk is full, or fails: what was written goes, or cannot even go.
Torn(c) ==
    LET u == calls[c].upload
    IN  /\ calls[c].at = "write" /\ Open(u)
        /\ calls[c].from < calls[c].to
        /\ \/ /\ WriteTo(u, {b \in uploads[u].data : b < calls[c].from})
              /\ Reply(c, "disk_full", calls[c].from, 0)
           \/ Reply(c, "disk_full", Stored(u), 0) /\ UNCHANGED uploads
           \/ /\ WriteTo(u, {b \in uploads[u].data : b < calls[c].from})
              /\ Say(c, "other")
        /\ Event /\ UNCHANGED <<tab, cancels>> /\ UNCHANGED beside

\* finish_upload() takes the project's lock; with it, it looks for the project.
FinishTake(c) ==
    LET u == calls[c].upload
    IN  /\ calls[c].at = "finish"
        /\ \/ ~Open(u) /\ Say(c, "upload_not_found") /\ UNCHANGED uploads
           \/ Open(u) /\ ProjectLocked /\ Say(c, "project_busy") /\ UNCHANGED uploads
           \/ /\ Open(u) /\ ~ProjectLocked
              /\ IF row THEN Goto(c, "land") /\ UNCHANGED uploads
                 ELSE ~UploadLocked(u) /\ Gone(u) /\ Say(c, "other")
        /\ Silent /\ UNCHANGED beside

\* finish() moves the data to its place and removes the folder.
Finish(c) ==
    LET u == calls[c].upload
    IN  /\ calls[c].at = "land" /\ ~UploadLocked(u)
        /\ IF ~Open(u) THEN Say(c, "upload_not_found") /\ UNCHANGED <<uploads, present>>
           ELSE IF Stored(u) # uploads[u].size
                THEN Say(c, "other") /\ UNCHANGED <<uploads, present>>
           ELSE \/ /\ uploads' = [uploads EXCEPT ![u].at = "landed"]
                   /\ present' = TRUE
                   /\ Say(c, "done")
                \/ /\ \E answer \in {"permission_denied", "other"} : Say(c, answer)
                   /\ UNCHANGED <<uploads, present>>
        /\ Silent /\ UNCHANGED <<row, holder, swept, listed>>

\* cancel_upload(), whose request may also get lost.
Cancel(u) ==
    /\ u \in cancels /\ cancels' = cancels \ {u}
    /\ \/ UNCHANGED uploads
       \/ Open(u) /\ ~UploadLocked(u) /\ Gone(u)
    /\ UNCHANGED <<tab, calls, beside, events>>

\* pending_uploads(), of this project or another, sweeps what nothing was
\* written to for seven days: it looks at all uploads, then removes, asking for
\* no lock, whatever is done to them by then.
SweepFind(u) ==
    /\ Open(u) /\ u \notin swept
    /\ \A c \in Slots : calls[c].upload # u
    /\ run.at # "off" => items[Key].upload # u
    /\ Event
    /\ swept' = swept \cup {u}
    /\ UNCHANGED <<tab, calls, cancels, uploads, project, listed>>

SweepRemove(u) ==
    /\ u \in swept /\ swept' = swept \ {u}
    /\ IF Open(u) THEN Gone(u) ELSE UNCHANGED uploads
    /\ UNCHANGED <<tab, calls, cancels, project, listed, events>>

\* What else the project's lock is taken for; a deletion asks for it too, and
\* with purge drops the uploads, asking for none of their locks.
TakeProject ==
    /\ ~ProjectLocked /\ row
    /\ Event
    /\ holder' \in {"work", "delete", "purge"}
    /\ UNCHANGED <<tab, calls, cancels, uploads, present, row, swept, listed>>

ReleaseProject ==
    /\ holder # "none" /\ holder' = "none"
    /\ row' = (holder = "work")
    /\ present' = (present /\ holder # "purge")
    /\ uploads' = [u \in Ids |->
          IF holder = "purge" /\ Open(u) THEN [NoUpload EXCEPT !.at = "removed"]
          ELSE uploads[u]]
    /\ UNCHANGED <<tab, calls, cancels, swept, listed, events>>

\* The API stops and starts again: calls and locks are gone, files stay.
Restart ==
    /\ Event
    /\ calls' = [calls EXCEPT !.awaited = IF @.at = "answered" THEN @ ELSE NoCall,
                              !.stray = NoCall]
    /\ holder' = "none" /\ swept' = {}
    /\ UNCHANGED <<tab, cancels, uploads, present, row, listed>>

Handle(c) ==
    \/ StartCheck(c) \/ Start(c) \/ Status(c)
    \/ AppendFind(c) \/ Append(c) \/ Appended(c)
    \/ FinishTake(c) \/ Finish(c)

User ==
    \/ \E size \in Sizes : Add(size)
    \/ \E k \in Keys : Pause(k) \/ Resume(k) \/ Replace(k) \/ Remove(k)
    \/ CarryOn \/ Reload \/ List \/ Adopt

Outside ==
    \/ \E c \in Slots : NoSession(c) \/ Torn(c)
    \/ \E u \in Ids : Cancel(u) \/ SweepFind(u) \/ SweepRemove(u)
    \/ TakeProject \/ Restart

Next ==
    \/ User \/ Hears \/ Returned \/ Unreachable \/ Wake
    \/ \E c \in Slots : Handle(c)
    \/ ReleaseProject
    \/ Outside

\* What the tab and the API do by themselves, they do; a lock that is free for
\* seconds at a time is had in the end.
Fairness ==
    /\ WF_vars(Hears \/ Returned \/ Wake \/ (calls.awaited.at = "none" /\ Unreachable))
    /\ \A c \in Slots : SF_vars(Handle(c))
    /\ WF_vars(ReleaseProject)

Spec == Init /\ [][Next]_vars /\ Fairness

-----------------------------------------------------------------------------
\* What is moved into the project is the whole file: every byte was written,
\* though chunks were torn, sent twice or late, and offsets were read while
\* they were written (append, finish, send).
WholeFiles ==
    \A u \in Ids : uploads[u].at = "landed" =>
        uploads[u].data = 0..(uploads[u].size - 1)

\* An item with an upload that says it is done has landed, with one exception,
\* which is the code's: after a finishing PATCH that did not get through, its
\* upload was swept, dropped or cancelled by somebody else, and send() takes the
\* 404 for its success.  (An empty file has no upload of its own: its start is
\* answered by "done" itself.)
DoneIsTrue ==
    \A k \in Keys : items[k].state = "done" /\ items[k].upload # 0 =>
        LET upload == uploads[items[k].upload]
        IN  upload.at = "landed" \/ (upload.at = "removed" /\ items[k].finishing)

\* No item is forgotten: the one that is going is the one send() works on,
\* and one that waits has run() coming, or waits for room to be made (kick,
\* run, and every handler that changes a state).
QueueMoves ==
    \A k \in Keys :
        /\ items[k].state = "going" => run.at # "off" /\ Key = k
        /\ items[k].state = "waiting" => run.at # "off" \/ Held(items)

\* A late answer does not undo a pause: the item is still paused, or its file
\* has landed, or it was removed, until the user resumes it (send()'s checks of
\* the state after each await, since a start or a status cannot be aborted).
PauseStays ==
    [][\A k \in Keys : items[k].state = "paused" =>
         items'[k].state \in {"paused", "done", "gone"} \/ Resume(k)]_vars

\* Nothing is moved into a project that was deleted: finish_upload() looks for
\* it with the lock that a deletion needs as well.
NothingLandsWhenDeleted ==
    [][~row => \A u \in Ids : uploads'[u].at = "landed" => uploads[u].at = "landed"]_vars

\* Left alone, the queue comes to rest: no answer, or order of answers, keeps
\* send() asking forever.  With QueueMoves, every item has then come to an end
\* of some kind (done, failed, stalled, paused), unless it waits for room.
ComesToRest == []<>(run.at = "off")
=============================================================================
