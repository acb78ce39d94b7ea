--------------------------- MODULE ProjectsProofs ---------------------------
(***************************************************************************)
(* Theorems about Projects, for every set of projects, names and threads.  *)
(* Every step of a thread has one of three shapes with respect to the      *)
(* locks: it keeps what it has, takes the lock of one free project, or     *)
(* gives its lock back and is idle.  The lock invariants and the           *)
(* refinement of OneAtATime follow from the shapes alone.                  *)
(***************************************************************************)
EXTENDS Projects, TLAPS

\* The new value r of thread t, and what happens to the locks with it.
Keeps(t, r) ==
    /\ locks' = locks
    /\ r.pc \in Locked <=> thread[t].pc \in Locked
    /\ r.pc \in Locked => r.on = On(t)

Takes(t, r) ==
    /\ thread[t].pc \notin Locked
    /\ r.pc \in Locked
    /\ r.on \notin locks
    /\ locks' = locks \cup {r.on}

Frees(t, r) ==
    /\ thread[t].pc \in Locked
    /\ r.pc = "idle"
    /\ locks' = locks \ {On(t)}

WellFormed(r) == r \in Thread /\ (r.pc # "idle" => r.on \in Projects)

Shape(t) ==
    \E r \in Thread :
        /\ WellFormed(r)
        /\ thread' = [thread EXCEPT ![t] = r]
        /\ Keeps(t, r) \/ Takes(t, r) \/ Frees(t, r)

ThreadsWellFormed == \A t \in Threads : WellFormed(thread[t])

-----------------------------------------------------------------------------
\* Every step of a thread has a shape.

LEMMA GotoShape ==
    ASSUME TypeOK, ThreadsWellFormed, NEW t \in Threads, NEW pc \in Locked,
           thread[t].pc \in Locked, Goto(t, pc)
    PROVE  Shape(t)
<1> DEFINE r == [thread[t] EXCEPT !.pc = pc]
<1>1. r \in Thread /\ r.pc = pc /\ r.on = On(t) /\ r.on \in Projects
    BY DEF TypeOK, ThreadsWellFormed, WellFormed, Thread, Locked, Unlocked, On
<1>2. thread' = [thread EXCEPT ![t] = r] /\ locks' = locks
    BY DEF Goto, TypeOK
<1> QED BY <1>1, <1>2 DEF Shape, WellFormed, Keeps

LEMMA GotoWithNameShape ==
    ASSUME TypeOK, ThreadsWellFormed, NEW t \in Threads, NEW pc \in Locked,
           NEW n \in Names \cup {None},
           thread[t].pc \in Locked, GotoWith(t, pc, "name", n)
    PROVE  Shape(t)
<1> DEFINE r == [thread[t] EXCEPT !.pc = pc, !.name = n]
<1>0. /\ thread[t] \in Thread
      /\ thread[t].on \in Projects
    BY DEF TypeOK, ThreadsWellFormed, WellFormed, Locked
<1>1. r \in Thread /\ r.pc = pc /\ r.on = On(t) /\ r.on \in Projects
    BY <1>0 DEF Thread, On
<1>2. thread' = [thread EXCEPT ![t] = r] /\ locks' = locks
    BY DEF GotoWith, TypeOK
<1> QED BY <1>1, <1>2 DEF Shape, WellFormed, Keeps

LEMMA GotoWithOkShape ==
    ASSUME TypeOK, ThreadsWellFormed, NEW t \in Threads, NEW pc \in Locked,
           NEW b \in BOOLEAN,
           thread[t].pc \in Locked, GotoWith(t, pc, "ok", b)
    PROVE  Shape(t)
<1> DEFINE r == [thread[t] EXCEPT !.pc = pc, !.ok = b]
<1>0. /\ thread[t] \in Thread
      /\ thread[t].on \in Projects
    BY DEF TypeOK, ThreadsWellFormed, WellFormed, Locked
<1>1. r \in Thread /\ r.pc = pc /\ r.on = On(t) /\ r.on \in Projects
    BY <1>0 DEF Thread, On
<1>2. thread' = [thread EXCEPT ![t] = r] /\ locks' = locks
    BY DEF GotoWith, TypeOK
<1> QED BY <1>1, <1>2 DEF Shape, WellFormed, Keeps

LEMMA ReleaseShape ==
    ASSUME TypeOK, NEW t \in Threads, thread[t].pc \in Locked, Release(t)
    PROVE  Shape(t)
<1>1. Idle \in Thread BY DEF Idle, Thread, Unlocked
<1> QED BY <1>1 DEF Release, Shape, WellFormed, Frees, Idle

LEMMA RaiseShape ==
    ASSUME TypeOK, ThreadsWellFormed, NEW t \in Threads, Raise(t)
    PROVE  Shape(t)
<1> DEFINE r == [Idle EXCEPT !.on = On(t), !.ok = FALSE]
<1>1. thread[t].pc \in Locked BY DEF Raise
<1>2. On(t) \in Projects
    BY <1>1 DEF ThreadsWellFormed, WellFormed, On, Locked
<1>3. r \in Thread /\ r.pc = "idle" /\ r.on = On(t)
    BY <1>2 DEF Idle, Thread, Unlocked
<1>4. thread' = [thread EXCEPT ![t] = r] /\ locks' = locks \ {On(t)}
    BY DEF Raise
<1> HIDE DEF r
<1> QED BY <1>1, <1>3, <1>4 DEF Shape, WellFormed, Frees

LEMMA ArriveShape ==
    ASSUME TypeOK, NEW t \in Threads, NEW p \in Projects,
           NEW pc \in Unlocked, NEW name \in Names \cup {None}, NEW op,
           Arrive(t, op, p, pc, name)
    PROVE  Shape(t)
<1> DEFINE r == [pc |-> pc, on |-> p, name |-> name, ok |-> TRUE]
<1>1. WellFormed(r) BY DEF WellFormed, Thread
<1>2. r.pc \notin Locked /\ thread[t].pc \notin Locked
    BY DEF Arrive, At, Unlocked, Locked
<1> QED BY <1>1, <1>2 DEF Arrive, Shape, Keeps, WellFormed

LEMMA AskShape ==
    ASSUME ConstantsAssumption, TypeOK, NEW t \in Threads, NEW p \in Projects,
           Ask(t, p)
    PROVE  Shape(t)
<1>0. /\ {"up_asked", "down_asked", "delete_asked", "clone_asked", "write_asked",
          "unlink_asked", "upload_asked", "mkdir", "register"} \subseteq Unlocked
      /\ None \in Names \cup {None}
    BY DEF Unlocked
<1>1. CASE AskUp(t, p) BY <1>0, <1>1, ArriveShape DEF AskUp
<1>2. CASE AskDown(t, p) BY <1>0, <1>2, ArriveShape DEF AskDown
<1>3. CASE AskDelete(t, p)
    <2>1. rows[p] # None BY <1>3 DEF AskDelete, AskDeleteFor
    <2>2. FallbackName(p) \in Names \cup {None}
        BY <2>1 DEF FallbackName, TypeOK, Row, ConstantsAssumption
    <2> QED BY <1>0, <1>3, <2>2, ArriveShape DEF AskDelete, AskDeleteFor
<1>4. CASE AskClone(t, p) BY <1>0, <1>4, ArriveShape DEF AskClone
<1>5. CASE AskWrite(t, p) BY <1>0, <1>5, ArriveShape DEF AskWrite, AskWriteFor
<1>6. CASE AskUnlink(t, p) BY <1>0, <1>6, ArriveShape DEF AskUnlink
<1>7. CASE AskFinishUpload(t, p) BY <1>0, <1>7, ArriveShape DEF AskFinishUpload
<1>8. CASE AskCreate(t, p) BY <1>0, <1>8, ArriveShape DEF AskCreate
<1>9. CASE AskAdopt(t, p) BY <1>0, <1>9, ArriveShape DEF AskAdopt
<1> QED BY <1>1, <1>2, <1>3, <1>4, <1>5, <1>6, <1>7, <1>8, <1>9 DEF Ask

LEMMA TakeLockShape ==
    ASSUME TypeOK, ThreadsWellFormed, NEW t \in Threads, TakeLock(t)
    PROVE  Shape(t)
<1> PICK pc \in Entry(thread[t].pc) : thread' = [thread EXCEPT ![t].pc = pc]
    BY DEF TakeLock, TakeLockIf
<1>1. pc \in Locked /\ thread[t].pc \in Unlocked \ Locked /\ thread[t].pc # "idle"
    BY DEF Entry, Locked, Unlocked
<1> DEFINE r == [thread[t] EXCEPT !.pc = pc]
<1>2. r \in Thread /\ r.pc = pc /\ r.on = On(t) /\ r.on \in Projects
    BY <1>1 DEF TypeOK, ThreadsWellFormed, WellFormed, Thread, On
<1>3. thread' = [thread EXCEPT ![t] = r]
    BY DEF TypeOK
<1>4. Takes(t, r)
    BY <1>1, <1>2 DEF Takes, TakeLock, TakeLockIf
<1> QED BY <1>2, <1>3, <1>4 DEF Shape, WellFormed

\* An unlocked step ends where it began, without the lock.
LEMMA UnlockedShape ==
    ASSUME TypeOK, ThreadsWellFormed, NEW t \in Threads,
           Busy(t) \/ CreateMkdir(t) \/ Register(t)
    PROVE  Shape(t)
<1>1. WellFormed(Idle) /\ Idle.pc \notin Locked
    BY DEF WellFormed, Idle, Thread, Unlocked, Locked
<1>2. CASE Busy(t)
    <2>1. thread[t].pc \notin Locked BY <1>2 DEF Busy, Entry, Locked
    <2> QED BY <1>1, <1>2, <2>1 DEF Busy, Shape, Keeps, WellFormed
<1>3. CASE CreateMkdir(t)
    <2> DEFINE r == [thread[t] EXCEPT !.pc = "register"]
    <2>1. r \in Thread /\ r.pc \notin Locked /\ r.on \in Projects
        BY <1>3 DEF CreateMkdir, At, TypeOK, ThreadsWellFormed, WellFormed, Thread,
                    Locked, Unlocked
    <2>2. thread[t].pc \notin Locked BY <1>3 DEF CreateMkdir, At, Locked
    <2>3. thread' = [thread EXCEPT ![t] = r] /\ locks' = locks
        BY <1>3 DEF CreateMkdir, Goto, TypeOK
    <2> QED BY <2>1, <2>2, <2>3 DEF Shape, Keeps, WellFormed
<1>4. CASE Register(t)
    <2>1. thread[t].pc \notin Locked BY <1>4 DEF Register, At, Locked
    <2> QED BY <1>1, <1>4, <2>1 DEF Register, Shape, Keeps, WellFormed
<1> QED BY <1>2, <1>3, <1>4

LEMMA WorkShape ==
    ASSUME TypeOK, ThreadsWellFormed, NEW t \in Threads, Work(t)
    PROVE  Shape(t)
<1> DEFINE Up == {"record_name", "overlay", "compose", "report"}
           Others == {"record_stopped", "purge", "unregister", "clone_check",
                      "rename", "clone_register", "clone_start", "upload_write"}
<1>0. /\ \A pc \in Up \cup Others : pc \in Locked
      /\ TRUE \in BOOLEAN /\ FALSE \in BOOLEAN
    BY DEF Locked
<1>1. CASE TakeLock(t) BY <1>1, TakeLockShape
<1>2. CASE Busy(t) \/ CreateMkdir(t) \/ Register(t) BY <1>2, UnlockedShape
<1>3. CASE StopForRestart(t)
    <2>1. thread[t].pc \in Locked /\ (Goto(t, "record_name") \/ Release(t))
        BY <1>3 DEF StopForRestart, ComposeDown, At, Locked
    <2> QED BY <1>0, <2>1, GotoShape, ReleaseShape
<1>4. CASE Stop(t)
    <2>1. thread[t].pc \in Locked /\ (Goto(t, "record_stopped") \/ Release(t))
        BY <1>4 DEF Stop, ComposeDown, At, Locked
    <2> QED BY <1>0, <2>1, GotoShape, ReleaseShape
<1>5. CASE RecordName(t)
    <2>1. thread[t].pc \in Locked /\ Goto(t, "overlay")
        BY <1>5 DEF RecordName, At, Locked
    <2> QED BY <1>0, <2>1, GotoShape
<1>6. CASE WriteOverlay(t)
    <2>1. /\ thread[t].pc \in Locked
          /\ Goto(t, "compose") \/ GotoWith(t, "report", "ok", FALSE)
        BY <1>6 DEF WriteOverlay, At, Locked
    <2> QED BY <1>0, <2>1, GotoShape, GotoWithOkShape
<1>7. CASE ComposeUp(t)
    <2>1. /\ thread[t].pc \in Locked
          /\ Goto(t, "report") \/ GotoWith(t, "report", "ok", FALSE)
        BY <1>7 DEF ComposeUp, At, Locked
    <2> QED BY <1>0, <2>1, GotoShape, GotoWithOkShape
<1>8. CASE \/ Report(t) \/ RecordStopped(t) \/ Unregister(t) \/ LandFiles(t)
           \/ Unlink(t)
    <2>1. thread[t].pc \in Locked /\ Release(t)
        BY <1>8 DEF Report, RecordStopped, Record, Unregister, LandFiles, Unlink,
                    At, Locked
    <2> QED BY <2>1, ReleaseShape
<1>9. CASE RemoveStack(t)
    <2>1. /\ thread[t].pc \in Locked
          /\ \E good \in BOOLEAN, pc \in {"purge", "unregister"} :
                GotoWith(t, pc, "ok", good)
        BY <1>9 DEF RemoveStack, At, Locked
    <2> QED BY <1>0, <2>1, GotoWithOkShape
<1>10. CASE Purge(t)
    <2>1. /\ thread[t].pc \in Locked
          /\ Goto(t, "unregister") \/ GotoWith(t, "unregister", "ok", FALSE)
        BY <1>10 DEF Purge, At, Locked
    <2> QED BY <1>0, <2>1, GotoShape, GotoWithOkShape
<1>11. CASE GitClone(t)
    <2>1. /\ thread[t].pc \in Locked
          /\ \/ \E n \in Names \cup {None} : GotoWith(t, "clone_check", "name", n)
             \/ Release(t)
        BY <1>11 DEF GitClone, At, Locked
    <2> QED BY <1>0, <2>1, GotoWithNameShape, ReleaseShape
<1>12. CASE CloneCheck(t)
    <2>1. thread[t].pc \in Locked /\ (Goto(t, "rename") \/ Release(t))
        BY <1>12 DEF CloneCheck, CloneCheckIf, At, Locked
    <2> QED BY <1>0, <2>1, GotoShape, ReleaseShape
<1>13. CASE CloneRename(t)
    <2>1. thread[t].pc \in Locked /\ (Goto(t, "clone_register") \/ Release(t))
        BY <1>13 DEF CloneRename, At, Locked
    <2> QED BY <1>0, <2>1, GotoShape, ReleaseShape
<1>14. CASE CloneRegister(t)
    <2>1. thread[t].pc \in Locked /\ Goto(t, "clone_start")
        BY <1>14 DEF CloneRegister, At, Locked
    <2> QED BY <1>0, <2>1, GotoShape
<1>15. CASE CloneStart(t)
    <2>1. thread[t].pc \in Locked
        BY <1>15 DEF CloneStart, CloneStartBy, At, Locked
    <2>2. CASE Release(t) BY <2>1, <2>2, ReleaseShape
    <2>3. CASE folders[On(t)] \in Names /\ HandOver(t)
        BY <1>0, <2>1, <2>3, GotoWithNameShape DEF HandOver
    <2> QED BY <1>15, <2>2, <2>3 DEF CloneStart, CloneStartBy
<1>16. CASE CheckRow(t)
    <2>1. thread[t].pc \in Locked /\ (Goto(t, "upload_write") \/ Release(t))
        BY <1>16 DEF CheckRow, At, Locked
    <2> QED BY <1>0, <2>1, GotoShape, ReleaseShape
<1> QED BY <1>1, <1>2, <1>3, <1>4, <1>5, <1>6, <1>7, <1>8, <1>9, <1>10, <1>11,
           <1>12, <1>13, <1>14, <1>15, <1>16 DEF Work

-----------------------------------------------------------------------------
\* What the three shapes mean for the locks.

THEOREM ShapeKeepsLocksExact ==
    ASSUME TypeOK, ThreadsWellFormed, LocksExact, NEW t \in Threads, Shape(t)
    PROVE  LocksExact' /\ ThreadsWellFormed' /\ locks' \subseteq Projects
           /\ thread' \in [Threads -> Thread]
<1> PICK r \in Thread :
        /\ WellFormed(r)
        /\ thread' = [thread EXCEPT ![t] = r]
        /\ Keeps(t, r) \/ Takes(t, r) \/ Frees(t, r)
    BY DEF Shape
<1>1. /\ thread' \in [Threads -> Thread]
      /\ thread'[t] = r
      /\ \A u \in Threads \ {t} : thread'[u] = thread[u]
    BY DEF TypeOK
<1>2. ThreadsWellFormed'
    BY <1>1 DEF ThreadsWellFormed, WellFormed, Thread
<1>3. \A u \in Threads : thread[u].pc \in Locked => On(u) \in Projects
    BY DEF ThreadsWellFormed, WellFormed, On, Locked
<1>4. r.pc \in Locked => r.on \in Projects
    BY DEF WellFormed, Locked
<1>5. "idle" \notin Locked BY DEF Locked
<1>6. CASE Keeps(t, r)
    <2>1. \A u \in Threads, p \in Projects : Holds(u, p)' <=> Holds(u, p)
        BY <1>1, <1>6 DEF Keeps, Holds, On
    <2>2. \A u \in Threads : /\ thread'[u].pc \in Locked <=> thread[u].pc \in Locked
                             /\ thread[u].pc \in Locked => On(u)' = On(u)
        BY <1>1, <1>6 DEF Keeps, On
    <2> QED BY <1>1, <1>2, <1>6, <2>1, <2>2 DEF Keeps, LocksExact, TypeOK
<1>7. CASE Takes(t, r)
    <2>1. \A u \in Threads, p \in Projects :
              Holds(u, p)' <=> (Holds(u, p) \/ (u = t /\ p = r.on))
        BY <1>1, <1>7 DEF Takes, Holds, On
    <2>2. locks' \subseteq Projects BY <1>4, <1>7 DEF Takes, TypeOK
    <2>3. \A p \in Projects : p \in locks' <=> \E u \in Threads : Holds(u, p)'
        BY <2>1, <1>7 DEF Takes, LocksExact
    <2>4. \A u \in Threads : thread[u].pc \in Locked => On(u) # r.on
        BY <1>3, <1>7 DEF Takes, LocksExact, Holds
    <2>5. \A u, v \in Threads :
              (thread'[u].pc \in Locked /\ thread'[v].pc \in Locked
                  /\ On(u)' = On(v)') => u = v
        BY <1>1, <2>4 DEF LocksExact, On
    <2> QED BY <1>1, <1>2, <2>2, <2>3, <2>5 DEF LocksExact
<1>8. CASE Frees(t, r)
    <2>1. \A u \in Threads, p \in Projects :
              Holds(u, p)' <=> (Holds(u, p) /\ u # t)
        BY <1>1, <1>5, <1>8 DEF Frees, Holds, On
    <2>2. \A u \in Threads : Holds(u, On(t)) => u = t
        BY <1>8 DEF Frees, Holds, LocksExact
    <2>3. \A p \in Projects : p \in locks' <=> \E u \in Threads : Holds(u, p)'
        BY <2>1, <2>2, <1>8 DEF Frees, LocksExact, Holds
    <2>4. \A u \in Threads : thread'[u].pc \in Locked => u # t /\ On(u)' = On(u)
        BY <1>1, <1>5, <1>8 DEF Frees, On
    <2>5. \A u, v \in Threads :
              (thread'[u].pc \in Locked /\ thread'[v].pc \in Locked
                  /\ On(u)' = On(v)') => u = v
        BY <1>1, <2>4 DEF LocksExact
    <2> QED BY <1>1, <1>2, <1>8, <2>3, <2>5 DEF Frees, LocksExact, TypeOK
<1> QED BY <1>6, <1>7, <1>8

\* One turn of resume_projects takes a lock too, for an idle thread, or
\* touches neither locks nor threads.
LEMMA ResumeShape ==
    ASSUME ConstantsAssumption, TypeOK, NEW p \in Projects, Resume(p)
    PROVE  (\E t \in Threads : Shape(t)) \/ UNCHANGED <<locks, thread>>
<1>1. CASE folders[p] \in Names /\ p \notin locks
    <2> PICK t \in Threads :
            /\ At(t, "idle")
            /\ thread' = [thread EXCEPT ![t] =
                    [pc |-> "record_name", on |-> p, name |-> folders[p],
                     ok |-> TRUE]]
        BY <1>1 DEF Resume
    <2> DEFINE r == [pc |-> "record_name", on |-> p, name |-> folders[p],
                     ok |-> TRUE]
    <2>1. r \in Thread /\ WellFormed(r)
        BY <1>1 DEF WellFormed, Thread, Locked
    <2>2. Takes(t, r)
        BY <1>1 DEF Takes, Resume, At, Locked
    <2> QED BY <2>1, <2>2 DEF Shape
<1>2. CASE ~(folders[p] \in Names /\ p \notin locks)
    BY <1>2 DEF Resume
<1> QED BY <1>1, <1>2

LEMMA DieLocks ==
    ASSUME Die
    PROVE  LocksExact' /\ ThreadsWellFormed' /\ locks' \subseteq Projects
           /\ thread' \in [Threads -> Thread]
<1>1. Idle.pc \notin Locked /\ WellFormed(Idle)
    BY DEF Idle, Locked, WellFormed, Thread, Unlocked
<1>2. locks' = {} /\ thread' = [t \in Threads |-> Idle]
    BY DEF Die
<1> QED BY <1>1, <1>2 DEF LocksExact, Holds, On, ThreadsWellFormed, WellFormed,
           Thread

\* Locks and threads after any step.
LEMMA LocksStep ==
    ASSUME ConstantsAssumption, TypeOK, ThreadsWellFormed, LocksExact, [Next]_vars
    PROVE  LocksExact' /\ ThreadsWellFormed' /\ locks' \subseteq Projects
           /\ thread' \in [Threads -> Thread]
<1>1. CASE UNCHANGED <<locks, thread>>
    BY <1>1 DEF LocksExact, Holds, On, ThreadsWellFormed, TypeOK
<1>2. CASE \E t \in Threads : Shape(t) BY <1>2, ShapeKeepsLocksExact
<1>3. ASSUME NEW t \in Threads, Step(t) PROVE Shape(t)
    BY <1>3, WorkShape DEF Step
<1>4. ASSUME NEW t \in Threads, Request(t) PROVE Shape(t)
    BY <1>4, AskShape, RaiseShape DEF Request
<1>5. ASSUME NEW p \in Projects, AgentEdit(p) PROVE UNCHANGED <<locks, thread>>
    BY <1>5 DEF AgentEdit
<1>6. ASSUME Boot \/ Serve \/ UNCHANGED vars PROVE UNCHANGED <<locks, thread>>
    BY <1>6 DEF Boot, Serve, vars
<1> QED BY <1>1, <1>2, <1>3, <1>4, <1>5, <1>6, ResumeShape, DieLocks DEF Next

-----------------------------------------------------------------------------
\* What a step does to the rest of the state.

LEMMA UpdateRows ==
    ASSUME ConstantsAssumption, TypeOK, NEW p \in Projects, NEW value,
           \/ Update(p, "status", value) /\ value \in Statuses
           \/ Update(p, "name", value) /\ value \in Names \cup {None}
    PROVE  /\ rows' \in [Projects -> Row \cup {None}]
           /\ \A q \in Projects \ {p} : rows'[q] = rows[q]
           /\ rows'[p] = None => rows[p] = None
<1>1. CASE rows[p] = None
    BY <1>1 DEF Update, TypeOK
<1>2. CASE rows[p] # None
    <2>1. rows[p] \in Row BY <1>2 DEF TypeOK
    <2>2. CASE Update(p, "status", value) /\ value \in Statuses
        <3>1. [rows[p] EXCEPT !["status"] = value] \in Row
            BY <2>1, <2>2 DEF Row
        <3> QED BY <1>2, <2>2, <3>1 DEF Update, TypeOK, ConstantsAssumption
    <2>3. CASE Update(p, "name", value) /\ value \in Names \cup {None}
        <3>1. [rows[p] EXCEPT !["name"] = value] \in Row
            BY <2>1, <2>3 DEF Row
        <3> QED BY <1>2, <2>3, <3>1 DEF Update, TypeOK, ConstantsAssumption
    <2> QED BY <2>2, <2>3
<1> QED BY <1>1, <1>2

\* A thread changes only the row it is at work on: under its lock any way it
\* likes, without one only to a fresh row; it removes the row only at the end
\* of a delete.
RowChange(t) ==
    /\ rows' \in [Projects -> Row \cup {None}]
    /\ \A p \in Projects :
          \/ rows'[p] = rows[p]
          \/ rows'[p] = FreshRow
          \/ Holds(t, p) /\ (rows'[p] = None => rows[p] = None \/ At(t, "unregister"))

LEMMA FreshRowIsRow == ASSUME ConstantsAssumption
                       PROVE  FreshRow \in Row /\ FreshRow # None
BY DEF FreshRow, Row, Statuses, ConstantsAssumption

LEMMA WorkRows ==
    ASSUME ConstantsAssumption, TypeOK, ThreadsWellFormed, NEW t \in Threads,
           Work(t)
    PROVE  RowChange(t)
<1>0. /\ thread[t].pc \in Locked \cup {"mkdir", "register"} => On(t) \in Projects
      /\ thread[t].pc \in Locked => Holds(t, On(t))
      /\ thread[t] \in Thread
    BY DEF ThreadsWellFormed, WellFormed, On, Locked, Holds
<1>1. CASE UNCHANGED rows
    BY <1>1 DEF RowChange, TypeOK
<1>2. CASE RecordName(t)
    <2>1. At(t, "record_name") /\ Update(On(t), "name", thread[t].name)
        BY <1>2 DEF RecordName
    <2>2. thread[t].pc \in Locked /\ thread[t].name \in Names \cup {None}
        BY <1>0, <2>1 DEF At, Locked, Thread
    <2> QED BY <1>0, <2>1, <2>2, UpdateRows DEF RowChange
<1>3. CASE Report(t) \/ RecordStopped(t)
    <2>1. PICK status \in Statuses :
              Update(On(t), "status", status) /\ thread[t].pc \in Locked
        BY <1>3 DEF Report, RecordStopped, Record, At, Locked, Statuses
    <2> QED BY <1>0, <2>1, UpdateRows DEF RowChange
<1>4. CASE Unregister(t)
    <2>1. At(t, "unregister") /\ thread[t].pc \in Locked
          /\ rows' = [rows EXCEPT ![On(t)] = None]
        BY <1>4 DEF Unregister, At, Locked
    <2> QED BY <1>0, <2>1 DEF RowChange, TypeOK
<1>5. CASE CloneRegister(t) \/ Register(t)
    <2>1. On(t) \in Projects /\ rows' = [rows EXCEPT ![On(t)] = FreshRow]
        BY <1>0, <1>5 DEF CloneRegister, Register, AddProject, At, Locked
    <2> QED BY <2>1, FreshRowIsRow DEF RowChange, TypeOK
<1>6. CASE \/ TakeLock(t) \/ Busy(t) \/ StopForRestart(t) \/ WriteOverlay(t)
           \/ ComposeUp(t) \/ Stop(t) \/ RemoveStack(t) \/ Purge(t)
           \/ GitClone(t) \/ CloneCheck(t) \/ CloneRename(t) \/ CloneStart(t)
           \/ CreateMkdir(t) \/ CheckRow(t) \/ LandFiles(t) \/ Unlink(t)
    BY <1>1, <1>6 DEF TakeLock, TakeLockIf, Busy, StopForRestart, WriteOverlay,
       ComposeUp, Stop, ComposeDown, RemoveStack, Purge, GitClone, CloneCheck,
       CloneCheckIf, CloneRename, CloneStart, CloneStartBy, CreateMkdir, CheckRow,
       LandFiles, Unlink
<1> QED BY <1>2, <1>3, <1>4, <1>5, <1>6 DEF Work

LEMMA WorkDisk ==
    ASSUME ConstantsAssumption, TypeOK, ThreadsWellFormed, NEW t \in Threads,
           Work(t)
    PROVE  /\ folders' \in [Projects -> Contents \cup {"gone"}]
           /\ stacks' \in [Names -> Stack \cup {None}]
<1>0. /\ thread[t].pc \in Locked \cup {"mkdir", "register"} => On(t) \in Projects
      /\ thread[t] \in Thread
      /\ {"bare", "gone"} \subseteq Contents \cup {"gone"}
      /\ Names \subseteq Contents
    BY DEF ThreadsWellFormed, WellFormed, On, Locked, Contents
<1>1. CASE UNCHANGED <<folders, stacks>> BY <1>1 DEF TypeOK
<1>2. CASE StopForRestart(t) \/ Stop(t)
    BY <1>2 DEF StopForRestart, Stop, ComposeDown, Unload, TypeOK
<1>3. CASE WriteOverlay(t) \/ CreateMkdir(t)
    <2>1. UNCHANGED stacks /\ (MakeFolder(On(t)) \/ UNCHANGED folders)
        BY <1>3 DEF WriteOverlay, CreateMkdir
    <2> QED BY <1>0, <2>1 DEF MakeFolder, TypeOK
<1>4. CASE ComposeUp(t)
    <2>1. On(t) \in Projects BY <1>0, <1>4 DEF ComposeUp, At, Locked
    <2> DEFINE S == {"runs", "ended", "stopped"}
    <2>2. \A s \in S : [dir |-> On(t), state |-> s] \in Stack
        BY <2>1 DEF Stack
    <2>3. /\ UNCHANGED folders
          /\ UNCHANGED stacks \/ \E s \in S : Load(On(t), s)
        BY <1>4 DEF ComposeUp
    <2>4. ASSUME NEW s \in S, Load(On(t), s)
          PROVE  stacks' \in [Names -> Stack \cup {None}]
        BY <2>2, <2>4 DEF Load, TypeOK
    <2> QED BY <2>3, <2>4 DEF TypeOK
<1>5. CASE RemoveStack(t)
    <2>1. CASE UNCHANGED stacks BY <2>1, <1>1, <1>5 DEF RemoveStack
    <2>2. CASE \E n \in NameToRemove(t) : stacks' = [stacks EXCEPT ![n] = None]
        BY <1>5, <2>2 DEF RemoveStack, TypeOK
    <2> QED BY <1>5, <2>1, <2>2 DEF RemoveStack, Unload
<1>6. CASE Purge(t)
    <2>1. /\ UNCHANGED stacks
          /\ folders' \in {folders, [folders EXCEPT ![On(t)] = "gone"],
                          [folders EXCEPT ![On(t)] = "bare"]}
        BY <1>6 DEF Purge
    <2> QED BY <1>0, <2>1 DEF TypeOK
<1>7. CASE CloneRename(t)
    <2>1. thread[t].name # None => thread[t].name \in Contents
        BY <1>0 DEF Thread
    <2> QED BY <1>0, <1>7, <2>1 DEF CloneRename, At, Locked, TypeOK
<1>8. CASE LandFiles(t) \/ Unlink(t)
    BY <1>0, <1>8 DEF LandFiles, Unlink, At, Locked, TypeOK
<1>9. CASE \/ TakeLock(t) \/ Busy(t) \/ RecordName(t) \/ Report(t)
           \/ RecordStopped(t) \/ Unregister(t) \/ GitClone(t) \/ CloneCheck(t)
           \/ CloneRegister(t) \/ CloneStart(t) \/ Register(t) \/ CheckRow(t)
    BY <1>1, <1>9 DEF TakeLock, TakeLockIf, Busy, RecordName, Report,
       RecordStopped, Record, Unregister, GitClone, CloneCheck, CloneCheckIf,
       CloneRegister, CloneStart, CloneStartBy, Register, CheckRow
<1> QED BY <1>2, <1>3, <1>4, <1>5, <1>6, <1>7, <1>8, <1>9 DEF Work

\* A request only arrives, and an exception only ends it.
LEMMA RequestsWait ==
    ASSUME NEW t \in Threads, Request(t)
    PROVE  UNCHANGED <<rows, folders, stacks>>
<1>1. CASE Raise(t)
    BY <1>1 DEF Raise
<1>2. ASSUME NEW p \in Projects, Ask(t, p) PROVE UNCHANGED <<rows, folders, stacks>>
    <2>1. CASE AskUp(t, p) \/ AskDown(t, p) \/ AskDelete(t, p) \/ AskClone(t, p)
        BY <2>1 DEF AskUp, AskDown, AskDelete, AskDeleteFor, AskClone, Arrive
    <2>2. CASE \/ AskWrite(t, p) \/ AskUnlink(t, p) \/ AskFinishUpload(t, p)
               \/ AskCreate(t, p) \/ AskAdopt(t, p)
        BY <2>2 DEF AskWrite, AskWriteFor, AskUnlink, AskFinishUpload, AskCreate,
              AskAdopt, Arrive
    <2> QED BY <1>2, <2>1, <2>2 DEF Ask
<1> QED BY <1>1, <1>2 DEF Request

\* Requests and the environment leave the rows alone.
LEMMA OtherRows ==
    ASSUME \/ \E t \in Threads : Request(t)
           \/ \E p \in Projects : AgentEdit(p) \/ Resume(p)
           \/ Die \/ Boot \/ Serve \/ UNCHANGED vars
    PROVE  UNCHANGED rows
<1>1. CASE \E t \in Threads : Request(t)
    BY <1>1, RequestsWait
<1>2. CASE \/ \E p \in Projects : AgentEdit(p) \/ Resume(p)
           \/ Die \/ Boot \/ Serve \/ UNCHANGED vars
    BY <1>2 DEF AgentEdit, Resume, Arrive, Die, Boot, Serve, vars
<1> QED BY <1>1, <1>2

LEMMA TypeStep ==
    ASSUME ConstantsAssumption, TypeOK, ThreadsWellFormed, LocksExact, [Next]_vars
    PROVE  TypeOK'
<1>1. locks' \subseteq Projects /\ thread' \in [Threads -> Thread]
    BY LocksStep
<1>2. /\ rows' \in [Projects -> Row \cup {None}]
      /\ folders' \in [Projects -> Contents \cup {"gone"}]
      /\ stacks' \in [Names -> Stack \cup {None}]
    <2>1. CASE \E t \in Threads : Step(t)
        BY <2>1, WorkRows, WorkDisk DEF Step, RowChange
    <2>2. CASE \E t \in Threads : Request(t)
        <3>1. UNCHANGED <<folders, stacks>>
            BY <2>2, RequestsWait
        <3> QED BY <2>2, <3>1, OtherRows DEF TypeOK
    <2>3. CASE \E p \in Projects : AgentEdit(p)
        BY <2>3 DEF AgentEdit, TypeOK
    <2>4. CASE Die
        <3>1. \A n \in Names : stacks[n] # None =>
                [stacks[n] EXCEPT !.state = "stopped"] \in Stack
            BY DEF TypeOK, Stack
        <3> QED BY <2>4, <3>1 DEF Die, TypeOK
    <2>5. CASE (\E p \in Projects : Resume(p)) \/ Boot \/ Serve \/ UNCHANGED vars
        BY <2>5 DEF Resume, Boot, Serve, vars, TypeOK
    <2> QED BY <2>1, <2>2, <2>3, <2>4, <2>5 DEF Next
<1>3. /\ api' \in {"down", "booting", "serving"}
      /\ resuming' \subseteq Projects
      /\ faults' \in 0..MaxFaults
    BY DEF TypeOK, Next, Step, Request, AgentEdit, Resume, Die, Boot, Serve, vars,
           ConstantsAssumption
<1> QED BY <1>1, <1>2, <1>3 DEF TypeOK

-----------------------------------------------------------------------------
\* The inductive invariant.  Two threads never hold one lock, and a row is
\* only ever removed by the holder of its lock: so what a thread learned about
\* a row under the lock stays so, up to a create or an adopt that, without the
\* lock, puts a fresh row there.

\* Between its second look and its registration a clone has met no row, or one
\* that a create or an adopt has just made.
CloneMeetsFresh ==
    \A t \in Threads :
        thread[t].pc \in {"rename", "clone_register"} =>
            rows[On(t)] \in {None, FreshRow}

IInv ==
    /\ TypeOK
    /\ ThreadsWellFormed
    /\ LocksExact
    /\ CheckedRowStays
    /\ CloneMeetsFresh

\* The steps that a thread reaches after looking at its row.
Looked == {"upload_write", "clone_start", "rename", "clone_register"}

LEMMA InitIInv == ConstantsAssumption /\ Init => IInv
<1> SUFFICES ASSUME ConstantsAssumption, Init PROVE IInv
    OBVIOUS
<1>1. Idle \in Thread /\ Idle.pc = "idle"
    BY DEF Idle, Thread, Unlocked
<1>2. TypeOK BY <1>1 DEF Init, TypeOK, ConstantsAssumption
<1>3. \A t \in Threads : thread[t] = Idle BY DEF Init
<1>4. ThreadsWellFormed
    BY <1>1, <1>3 DEF ThreadsWellFormed, WellFormed
<1>5. \A t \in Threads : thread[t].pc \notin Locked \cup Looked
    BY <1>1, <1>3 DEF Locked, Looked
<1> QED BY <1>2, <1>4, <1>5 DEF IInv, Init, LocksExact, Holds, CheckedRowStays,
           CloneMeetsFresh, Looked

\* Where the building blocks of an action leave their thread.
LEMMA WhereTo ==
    ASSUME TypeOK, NEW t \in Threads
    PROVE  /\ \A pc : Goto(t, pc) => thread'[t].pc = pc /\ On(t)' = On(t)
           /\ \A pc, value :
                 GotoWith(t, pc, "name", value) \/ GotoWith(t, pc, "ok", value)
                     => thread'[t].pc = pc
           /\ Release(t) => thread'[t].pc = "idle"
<1>1. thread \in [Threads -> Thread] BY DEF TypeOK
<1>2. ASSUME NEW pc, Goto(t, pc) PROVE thread'[t].pc = pc /\ On(t)' = On(t)
    BY <1>1, <1>2 DEF Goto, On, Thread
<1>3. ASSUME NEW pc, NEW value,
             GotoWith(t, pc, "name", value) \/ GotoWith(t, pc, "ok", value)
      PROVE  thread'[t].pc = pc
    <2>1. CASE GotoWith(t, pc, "name", value)
        BY <1>1, <2>1 DEF GotoWith, Thread
    <2>2. CASE GotoWith(t, pc, "ok", value)
        BY <1>1, <2>2 DEF GotoWith, Thread
    <2> QED BY <1>3, <2>1, <2>2
<1>4. Release(t) => thread'[t].pc = "idle"
    BY <1>1 DEF Release, Idle
<1> QED BY <1>2, <1>3, <1>4

\* A step that leaves its thread where a row has been looked at is the step
\* that looked at it, or one that follows it under the same lock.
LEMMA WorkLooks ==
    ASSUME TypeOK, ThreadsWellFormed, NEW t \in Threads, Work(t),
           thread'[t].pc \in Looked
    PROVE  /\ CheckRow(t) \/ CloneCheck(t) \/ CloneRename(t) \/ CloneRegister(t)
           /\ Goto(t, thread'[t].pc)
<1>1. CASE TakeLock(t)
    <2>1. PICK pc \in Entry(thread[t].pc) :
              thread' = [thread EXCEPT ![t].pc = pc]
        BY <1>1 DEF TakeLock, TakeLockIf
    <2>2. thread'[t].pc = pc BY <2>1 DEF TypeOK, Thread
    <2> QED BY <2>1, <2>2 DEF Entry, Looked
<1>2. CASE Busy(t) \/ Register(t)
    BY <1>2 DEF Busy, Register, Idle, TypeOK, Looked
<1>3. CASE StopForRestart(t)
    BY <1>3, WhereTo DEF StopForRestart, ComposeDown, Looked
<1>4. CASE Stop(t) BY <1>4, WhereTo DEF Stop, ComposeDown, Looked
<1>5. CASE RecordName(t) BY <1>5, WhereTo DEF RecordName, Looked
<1>6. CASE WriteOverlay(t)
    <2>1. \/ Goto(t, "compose")
          \/ \E good \in BOOLEAN : GotoWith(t, "report", "ok", good)
        BY <1>6 DEF WriteOverlay
    <2> QED BY <2>1, WhereTo DEF Looked
<1>7. CASE ComposeUp(t)
    <2>1. \/ Goto(t, "report")
          \/ \E good \in BOOLEAN : GotoWith(t, "report", "ok", good)
        BY <1>7 DEF ComposeUp
    <2> QED BY <2>1, WhereTo DEF Looked
<1>8. CASE \/ Report(t) \/ RecordStopped(t) \/ Unregister(t) \/ LandFiles(t)
           \/ Unlink(t)
    BY <1>8, WhereTo DEF Report, RecordStopped, Record, Unregister, LandFiles,
       Unlink, Looked
<1>9. CASE RemoveStack(t)
    <2>1. \E good \in BOOLEAN, pc \in {"purge", "unregister"} :
              GotoWith(t, pc, "ok", good)
        BY <1>9 DEF RemoveStack
    <2> QED BY <2>1, WhereTo DEF Looked
<1>10. CASE Purge(t)
    <2>1. \/ Goto(t, "unregister")
          \/ \E good \in BOOLEAN : GotoWith(t, "unregister", "ok", good)
        BY <1>10 DEF Purge
    <2> QED BY <2>1, WhereTo DEF Looked
<1>11. CASE GitClone(t)
    <2>1. \/ \E n \in Names \cup {None} : GotoWith(t, "clone_check", "name", n)
          \/ Release(t)
        BY <1>11 DEF GitClone
    <2> QED BY <2>1, WhereTo DEF Looked
<1>12. CASE CloneStart(t)
    BY <1>12, WhereTo DEF CloneStart, CloneStartBy, HandOver, Looked
<1>13. CASE CreateMkdir(t) BY <1>13, WhereTo DEF CreateMkdir, Looked
<1>14. CASE CheckRow(t) BY <1>14, WhereTo DEF CheckRow, Looked
<1>15. CASE CloneCheck(t) BY <1>15, WhereTo DEF CloneCheck, CloneCheckIf, Looked
<1>16. CASE CloneRename(t) BY <1>16, WhereTo DEF CloneRename, Looked
<1>17. CASE CloneRegister(t) BY <1>17, WhereTo DEF CloneRegister, Looked
<1> QED BY <1>1, <1>2, <1>3, <1>4, <1>5, <1>6, <1>7, <1>8, <1>9, <1>10, <1>11,
           <1>12, <1>13, <1>14, <1>15, <1>16, <1>17 DEF Work

\* A step of one thread leaves the row under another one's lock alone, unless
\* it puts a fresh one there, and never removes it.
LEMMA OthersRow ==
    ASSUME ConstantsAssumption, TypeOK, ThreadsWellFormed, LocksExact,
           NEW t \in Threads, NEW u \in Threads \ {t}, Work(t),
           thread[u].pc \in Locked
    PROVE  /\ rows'[On(u)] \in {rows[On(u)], FreshRow}
           /\ thread'[u] = thread[u]
<1>1. On(u) \in Projects /\ Holds(u, On(u))
    BY DEF ThreadsWellFormed, WellFormed, Locked, On, Holds
<1>2. ~Holds(t, On(u)) BY <1>1 DEF LocksExact, Holds
<1>3. RowChange(t) BY WorkRows
<1>4. thread'[u] = thread[u]
    BY WorkShape DEF Shape, TypeOK
<1> QED BY <1>1, <1>2, <1>3, <1>4 DEF RowChange

LEMMA LookedStep ==
    ASSUME ConstantsAssumption, IInv, [Next]_vars
    PROVE  CheckedRowStays' /\ CloneMeetsFresh'
<1> USE DEF IInv
<1>0. Looked \subseteq Locked BY DEF Looked, Locked
<1>1. CASE UNCHANGED rows /\ UNCHANGED thread
    BY <1>1 DEF CheckedRowStays, CloneMeetsFresh, On
<1>2. ASSUME NEW t \in Threads, Work(t)
      PROVE  CheckedRowStays' /\ CloneMeetsFresh'
    <2>1. ASSUME NEW u \in Threads \ {t}, thread'[u].pc \in Looked
          PROVE  /\ thread'[u] = thread[u]
                 /\ rows'[On(u)] \in {rows[On(u)], FreshRow}
        <3>1. thread'[u] = thread[u] BY <1>2, WorkShape DEF Shape, TypeOK
        <3>2. thread[u].pc \in Locked BY <1>0, <2>1, <3>1
        <3> QED BY <1>2, <3>2, OthersRow
    <2>2. ASSUME thread'[t].pc \in Looked
          PROVE  /\ thread'[t].pc \in {"upload_write", "clone_start"} =>
                       rows'[On(t)'] # None
                 /\ thread'[t].pc \in {"rename", "clone_register"} =>
                       rows'[On(t)'] \in {None, FreshRow}
        <3>1. /\ CheckRow(t) \/ CloneCheck(t) \/ CloneRename(t) \/ CloneRegister(t)
              /\ Goto(t, thread'[t].pc)
            BY <1>2, <2>2, WorkLooks
        <3>2. On(t)' = On(t) BY <3>1, WhereTo
        <3>3. CASE CheckRow(t)
            BY <2>2, <3>2, <3>3, WhereTo DEF CheckRow, Looked
        <3>4. CASE CloneCheck(t)
            BY <2>2, <3>2, <3>4, WhereTo DEF CloneCheck, CloneCheckIf, Looked
        <3>5. CASE CloneRename(t)
            BY <2>2, <3>2, <3>5, WhereTo DEF CloneRename, CloneMeetsFresh, At, Looked
        <3>6. CASE CloneRegister(t)
            <4>1. On(t) \in Projects /\ thread'[t].pc = "clone_start"
                BY <3>6, WhereTo DEF CloneRegister, At, ThreadsWellFormed,
                   WellFormed, On
            <4>2. rows'[On(t)] = FreshRow
                BY <3>6, <4>1 DEF CloneRegister, AddProject, TypeOK
            <4> QED BY <3>2, <4>1, <4>2, FreshRowIsRow
        <3> QED BY <3>1, <3>3, <3>4, <3>5, <3>6
    <2>3. CheckedRowStays'
        <3> SUFFICES ASSUME NEW u \in Threads,
                            thread'[u].pc \in {"upload_write", "clone_start"}
                     PROVE  rows'[On(u)'] # None
            BY DEF CheckedRowStays
        <3>1. thread'[u].pc \in Looked BY DEF Looked
        <3>2. CASE u # t
            <4>1. /\ thread'[u] = thread[u]
                  /\ rows'[On(u)] \in {rows[On(u)], FreshRow}
                BY <2>1, <3>1, <3>2
            <4> QED BY <4>1, FreshRowIsRow DEF CheckedRowStays, On
        <3> QED BY <2>2, <3>1, <3>2
    <2>4. CloneMeetsFresh'
        <3> SUFFICES ASSUME NEW u \in Threads,
                            thread'[u].pc \in {"rename", "clone_register"}
                     PROVE  rows'[On(u)'] \in {None, FreshRow}
            BY DEF CloneMeetsFresh
        <3>1. thread'[u].pc \in Looked BY DEF Looked
        <3>2. CASE u # t
            <4>1. /\ thread'[u] = thread[u]
                  /\ rows'[On(u)] \in {rows[On(u)], FreshRow}
                BY <2>1, <3>1, <3>2
            <4> QED BY <4>1 DEF CloneMeetsFresh, On
        <3> QED BY <2>2, <3>1, <3>2
    <2> QED BY <2>3, <2>4
\* A step that is no thread's work takes a thread nowhere near a looked-at row.
<1>3. ASSUME UNCHANGED rows,
             \A u \in Threads : thread'[u] = thread[u] \/ thread'[u].pc \notin Looked
      PROVE  CheckedRowStays' /\ CloneMeetsFresh'
    BY <1>3 DEF CheckedRowStays, CloneMeetsFresh, On, Looked
<1>4. ASSUME NEW t \in Threads, Request(t)
      PROVE  \A u \in Threads : thread'[u] = thread[u] \/ thread'[u].pc \notin Looked
    <2>1. CASE Raise(t)
        BY <2>1 DEF Raise, Idle, TypeOK, Looked
    <2>2. ASSUME NEW p \in Projects, Ask(t, p)
          PROVE  \E pc \in Unlocked : \E name : thread' = [thread EXCEPT
                    ![t] = [pc |-> pc, on |-> p, name |-> name, ok |-> TRUE]]
        BY <2>2 DEF Ask, AskUp, AskDown, AskDelete, AskDeleteFor, AskClone,
           AskWrite, AskWriteFor, AskUnlink, AskFinishUpload, AskCreate, AskAdopt,
           Arrive, Unlocked
    <2>3. ASSUME NEW p \in Projects, Ask(t, p)
          PROVE  \A u \in Threads : thread'[u] = thread[u] \/ thread'[u].pc \notin Looked
        BY <2>2, <2>3 DEF TypeOK, Unlocked, Looked
    <2> QED BY <1>4, <2>1, <2>3 DEF Request
<1>5. ASSUME NEW p \in Projects, Resume(p)
      PROVE  \A u \in Threads : thread'[u] = thread[u] \/ thread'[u].pc \notin Looked
    BY <1>5 DEF Resume, TypeOK, Looked
<1>6. ASSUME Die
      PROVE  \A u \in Threads : thread'[u].pc \notin Looked
    BY <1>6 DEF Die, Idle, Looked
<1>7. ASSUME (\E p \in Projects : AgentEdit(p)) \/ Boot \/ Serve \/ UNCHANGED vars
      PROVE  UNCHANGED rows /\ UNCHANGED thread
    BY <1>7 DEF AgentEdit, Boot, Serve, vars
<1> QED BY <1>1, <1>2, <1>3, <1>4, <1>5, <1>6, <1>7, OtherRows DEF Next, Step

LEMMA StepIInv ==
    ASSUME ConstantsAssumption, IInv, [Next]_vars
    PROVE  IInv'
BY LocksStep, TypeStep, LookedStep DEF IInv

\* The inductive invariant holds in every state the program reaches.
THEOREM Inductive == Spec => []IInv
<1>1. Init => IInv BY ConstantsAssumption, InitIInv
<1>2. IInv /\ [Next]_vars => IInv' BY ConstantsAssumption, StepIInv
<1> QED BY <1>1, <1>2, PTL DEF Spec

\* Every variable has its type: rows, folders and stacks included.
THEOREM TypeCorrect == Spec => []TypeOK
<1>1. IInv => TypeOK BY DEF IInv
<1> QED BY <1>1, Inductive, PTL

\* ProjectLocks holds exactly the projects some thread is at work on under
\* their lock, and no two threads work on one project (app.py:71-98 and every
\* acquire and release after it).
THEOREM LocksAreExact == Spec => []LocksExact
<1>1. IInv => LocksExact BY DEF IInv
<1> QED BY <1>1, Inductive, PTL

\* A row seen or made under the lock is there until the lock is given back
\* (app.py:727-730, 611-619).
THEOREM CheckedRowsStay == Spec => []CheckedRowStays
<1>1. IInv => CheckedRowStays BY DEF IInv
<1> QED BY <1>1, Inductive, PTL

\* No clone resets the row of a project that has run (app.py:606-612).
THEOREM ClonesResetNothing == Spec => CloneResetsNothing
<1>1. IInv /\ [Next]_vars =>
        [\A t \in Threads : CloneRegister(t) => rows[On(t)] \in {None, FreshRow}]_vars
    BY DEF IInv, CloneMeetsFresh, CloneRegister, At
<1> QED BY <1>1, Inductive, PTL DEF Spec, CloneResetsNothing

-----------------------------------------------------------------------------
\* Files during a start.  Only the holder of the lock changes a folder that is
\* there, and not while it is at the overlay or at compose.

LEMMA WorkFolders ==
    ASSUME TypeOK, ThreadsWellFormed, NEW t \in Threads, Work(t),
           NEW p \in Projects, folders[p] # "gone"
    PROVE  \/ folders'[p] = folders[p]
           \/ Holds(t, p) /\ thread[t].pc \notin {"overlay", "compose"}
<1>1. CASE WriteOverlay(t) \/ CreateMkdir(t)
    BY <1>1 DEF WriteOverlay, CreateMkdir, MakeFolder, TypeOK
<1>2. CASE Purge(t) \/ CloneRename(t) \/ LandFiles(t) \/ Unlink(t)
    <2>1. /\ thread[t].pc \in Locked
          /\ thread[t].pc \notin {"overlay", "compose"}
        BY <1>2 DEF Purge, CloneRename, LandFiles, Unlink, At, Locked
    <2>2. \/ UNCHANGED folders
          \/ \E c : folders' = [folders EXCEPT ![On(t)] = c]
        BY <1>2 DEF Purge, CloneRename, LandFiles, Unlink
    <2>3. p = On(t) \/ folders'[p] = folders[p]
        BY <2>2 DEF TypeOK
    <2> QED BY <2>1, <2>3 DEF Holds
<1>3. CASE UNCHANGED folders
    BY <1>3
<1>4. CASE \/ TakeLock(t) \/ Busy(t) \/ StopForRestart(t) \/ RecordName(t)
           \/ ComposeUp(t) \/ Report(t) \/ Stop(t) \/ RecordStopped(t)
           \/ RemoveStack(t) \/ Unregister(t) \/ GitClone(t) \/ CloneCheck(t)
           \/ CloneRegister(t) \/ CloneStart(t) \/ Register(t) \/ CheckRow(t)
    BY <1>3, <1>4 DEF TakeLock, TakeLockIf, Busy, StopForRestart, RecordName,
       ComposeUp, Report, Stop, ComposeDown, RecordStopped, Record, RemoveStack,
       Unregister, GitClone, CloneCheck, CloneCheckIf, CloneRegister, CloneStart,
       CloneStartBy, Register, CheckRow
<1> QED BY <1>1, <1>2, <1>4 DEF Work

LEMMA OtherFolders ==
    ASSUME \/ \E t \in Threads : Request(t)
           \/ \E p \in Projects : Resume(p)
           \/ Die \/ Boot \/ Serve \/ UNCHANGED vars
    PROVE  UNCHANGED folders
<1>1. CASE \E t \in Threads : Request(t)
    BY <1>1, RequestsWait
<1>2. CASE \/ \E p \in Projects : Resume(p)
           \/ Die \/ Boot \/ Serve \/ UNCHANGED vars
    BY <1>2 DEF Resume, Arrive, Die, Boot, Serve, vars
<1> QED BY <1>1, <1>2

\* While a start goes from its overlay to compose no other operation of the
\* API touches the files (app.py:830-843, 875-886).
THEOREM FilesAreSteady == Spec => FilesSteadyDuringStart
<1>1. ASSUME IInv, [Next]_vars, NEW t \in Threads,
             thread[t].pc \in {"overlay", "compose"}, folders[On(t)] # "gone"
      PROVE  \/ folders'[On(t)] = folders[On(t)]
             \/ \E p \in Projects : AgentEdit(p)
    <2>1. On(t) \in Projects /\ Holds(t, On(t))
        BY <1>1 DEF IInv, ThreadsWellFormed, WellFormed, On, Holds, Locked
    <2>2. ASSUME NEW u \in Threads, Work(u)
          PROVE  folders'[On(t)] = folders[On(t)]
        <3>1. Holds(u, On(t)) => u = t
            BY <1>1, <2>1 DEF IInv, LocksExact, Holds
        <3> QED BY <1>1, <2>1, <2>2, <3>1, WorkFolders DEF IInv
    <2> QED BY <1>1, <2>2, OtherFolders DEF Next, Step
<1>2. IInv /\ [Next]_vars =>
        [\A t \in Threads :
          (thread[t].pc \in {"overlay", "compose"} /\ folders[On(t)] # "gone")
             => \/ folders'[On(t)] = folders[On(t)]
                \/ \E p \in Projects : AgentEdit(p)]_vars
    BY <1>1
<1> QED BY <1>2, Inductive, PTL DEF Spec, FilesSteadyDuringStart

-----------------------------------------------------------------------------
\* The locks implement OneAtATime.

OwnerFacts ==
    \A p \in Projects :
        /\ p \notin locks => Owner[p] = None
        /\ p \in locks => \E t \in Threads : Holds(t, p)
        /\ \A t \in Threads : Holds(t, p) => Owner[p] = t

LEMMA OwnerIsHolder == LocksExact => OwnerFacts
<1> SUFFICES ASSUME LocksExact, NEW p \in Projects
             PROVE  /\ p \notin locks => Owner[p] = None
                    /\ p \in locks => \E t \in Threads : Holds(t, p)
                    /\ \A t \in Threads : Holds(t, p) => Owner[p] = t
    BY DEF OwnerFacts
<1>1. p \notin locks => Owner[p] = None BY DEF Owner
<1>2. p \in locks => \E t \in Threads : Holds(t, p) BY DEF LocksExact
<1>3. ASSUME NEW t \in Threads, Holds(t, p) PROVE Owner[p] = t
    <2>1. p \in locks BY <1>3 DEF LocksExact
    <2>2. \A u \in Threads : Holds(u, p) => u = t
        BY <1>3 DEF LocksExact, Holds
    <2> DEFINE o == CHOOSE u \in Threads : Holds(u, p)
    <2>3. o \in Threads /\ Holds(o, p) BY <1>3
    <2>4. o = t BY <2>2, <2>3
    <2> QED BY <2>1, <2>4 DEF Owner
<1> QED BY <1>1, <1>2, <1>3

LEMMA OwnerIsHolderNext == LocksExact' => OwnerFacts'
BY OwnerIsHolder, PTL

LEMMA ShapeImplements ==
    ASSUME ConstantsAssumption, IInv, IInv', NEW t \in Threads, Shape(t)
    PROVE  [Abstract!Next]_Owner
<1> PICK r \in Thread :
        /\ WellFormed(r)
        /\ thread' = [thread EXCEPT ![t] = r]
        /\ Keeps(t, r) \/ Takes(t, r) \/ Frees(t, r)
    BY DEF Shape
<1>1. /\ thread'[t] = r
      /\ \A u \in Threads \ {t} : thread'[u] = thread[u]
    BY DEF IInv, TypeOK
<1>2. OwnerFacts /\ OwnerFacts'
    BY OwnerIsHolder, OwnerIsHolderNext DEF IInv
<1>3. /\ Owner = [p \in Projects |-> Owner[p]]
      /\ Owner' = [p \in Projects |-> Owner'[p]]
    BY DEF Owner
<1>4. CASE Keeps(t, r)
    <2>1. \A u \in Threads, p \in Projects : Holds(u, p)' <=> Holds(u, p)
        BY <1>1, <1>4 DEF Keeps, Holds, On
    <2>2. \A p \in Projects : Owner'[p] = Owner[p]
        BY <1>2, <1>4, <2>1 DEF Keeps, OwnerFacts
    <2>3. Owner' = Owner BY <1>3, <2>2
    <2> QED BY <2>3
<1>5. CASE Takes(t, r)
    <2>1. r.on \in Projects BY <1>5 DEF Takes, WellFormed, Locked
    <2>2. \A u \in Threads, p \in Projects :
              Holds(u, p)' <=> (Holds(u, p) \/ (u = t /\ p = r.on))
        BY <1>1, <1>5 DEF Takes, Holds, On
    <2>3. \A p \in Projects : Owner'[p] = IF p = r.on THEN t ELSE Owner[p]
        BY <1>2, <1>5, <2>1, <2>2 DEF Takes, OwnerFacts
    <2>4. Owner' = [Owner EXCEPT ![r.on] = t]
        BY <1>3, <2>1, <2>3
    <2>5. Owner[r.on] = None BY <1>2, <1>5, <2>1 DEF Takes, OwnerFacts
    <2>6. ASSUME NEW q \in Projects PROVE Owner[q] # t
        <3>1. ~Holds(t, q) BY <1>5 DEF Takes, Holds
        <3>2. q \notin locks => Owner[q] = None BY <1>2 DEF OwnerFacts
        <3>3. q \in locks => \E u \in Threads : Holds(u, q) /\ Owner[q] = u
            BY <1>2 DEF OwnerFacts
        <3> QED BY <3>1, <3>2, <3>3 DEF ConstantsAssumption
    <2>7. Abstract!Begin(r.on, t)
        BY <2>4, <2>5, <2>6 DEF Abstract!Begin
    <2> QED BY <2>1, <2>7 DEF Abstract!Next
<1>6. CASE Frees(t, r)
    <2>1. On(t) \in Projects /\ Holds(t, On(t))
        BY <1>6 DEF Frees, IInv, ThreadsWellFormed, WellFormed, On, Holds, Locked
    <2>2. \A u \in Threads, p \in Projects :
              Holds(u, p)' <=> (Holds(u, p) /\ u # t)
        BY <1>1, <1>6 DEF Frees, Holds, On, Idle, Locked
    <2>3. Owner[On(t)] = t /\ t # None
        BY <1>2, <2>1 DEF OwnerFacts, ConstantsAssumption
    <2>4. \A p \in Projects \ {On(t)} : Owner'[p] = Owner[p]
        BY <1>2, <1>6, <2>2 DEF Frees, OwnerFacts, Holds
    <2>5. Owner'[On(t)] = None
        BY <1>2, <1>6, <2>1 DEF Frees, OwnerFacts
    <2>6. Owner' = [Owner EXCEPT ![On(t)] = None]
        BY <1>3, <2>1, <2>4, <2>5
    <2>7. Abstract!End(On(t)) BY <2>3, <2>6 DEF Abstract!End
    <2> QED BY <2>1, <2>7 DEF Abstract!Next
<1> QED BY <1>4, <1>5, <1>6

LEMMA StepImplements ==
    ASSUME ConstantsAssumption, IInv, IInv', [Next]_vars
    PROVE  [Abstract!Next]_Owner
<1>1. CASE UNCHANGED <<locks, thread>>
    <2>1. OwnerFacts /\ OwnerFacts'
        BY OwnerIsHolder, OwnerIsHolderNext DEF IInv
    <2>2. \A u \in Threads, p \in Projects : Holds(u, p)' <=> Holds(u, p)
        BY <1>1 DEF Holds, On
    <2>3. \A p \in Projects : Owner'[p] = Owner[p]
        BY <1>1, <2>1, <2>2 DEF OwnerFacts
    <2>4. /\ Owner = [p \in Projects |-> Owner[p]]
          /\ Owner' = [p \in Projects |-> Owner'[p]]
        BY DEF Owner
    <2>5. Owner' = Owner BY <2>3, <2>4
    <2> QED BY <2>5
<1>2. CASE \E t \in Threads : Shape(t) BY <1>2, ShapeImplements
<1>3. CASE Die
    <2>1. Owner' = [p \in Projects |-> None]
        BY <1>3 DEF Die, Owner
    <2>2. Abstract!ProcessDies BY <2>1 DEF Abstract!ProcessDies
    <2> QED BY <2>2 DEF Abstract!Next
<1>4. ASSUME NEW t \in Threads, Step(t) PROVE Shape(t)
    BY <1>4, WorkShape DEF Step, IInv
<1>5. ASSUME NEW t \in Threads, Request(t) PROVE Shape(t)
    BY <1>5, AskShape, RaiseShape DEF Request, IInv
<1>6. ASSUME \/ \E p \in Projects : AgentEdit(p)
             \/ Boot \/ Serve \/ UNCHANGED vars
      PROVE  UNCHANGED <<locks, thread>>
    BY <1>6 DEF AgentEdit, Boot, Serve, vars
<1>7. ASSUME NEW p \in Projects, Resume(p)
      PROVE  (\E t \in Threads : Shape(t)) \/ UNCHANGED <<locks, thread>>
    BY <1>7, ResumeShape DEF IInv
<1> QED BY <1>1, <1>2, <1>3, <1>4, <1>5, <1>6, <1>7 DEF Next

\* "One lifecycle operation per project at a time" (app.py:72): with whoever is
\* under the lock as the owner, every behaviour of the API is one of OneAtATime.
THEOREM ImplementsOneAtATime == Spec => OneOperationPerProject
<1>1. Init => Abstract!Init
    BY DEF Init, Abstract!Init, Owner
<1>2. IInv /\ IInv' /\ [Next]_vars => [Abstract!Next]_Owner
    BY ConstantsAssumption, StepImplements
<1> QED BY <1>1, <1>2, Inductive, PTL DEF Spec, OneOperationPerProject, Abstract!Spec
=============================================================================
