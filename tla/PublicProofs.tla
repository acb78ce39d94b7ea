---------------------------- MODULE PublicProofs ----------------------------
(***************************************************************************)
(* Theorems about Public, for every set of projects, turn-ons and calls.   *)
(* Types come with the control flow: which steps a turn-on, a turn-off, a  *)
(* delete and a sign-out go through, and what each has got by then.        *)
(***************************************************************************)
EXTENDS Public, TLAPS

OnlyTurns == {"asked", "post", "write", "start", "recreate", "commit", "undo",
              "fail", "finish"}
OnlySignOuts == {"release_all", "logout", "clear"}
NoSignOuts == {"release", "remember"}
HasUrl == {"write", "start", "recreate", "commit"}
AboutOne == {"end_release", "end_remember"}

\* The record r is one that call t can have.
Fits(t, r) ==
    /\ r.kind = "on" <=> t \in Turns
    /\ r.pc \in OnlyTurns => t \in Turns
    /\ r.pc \in OnlySignOuts => r.kind = "sign_out"
    /\ r.pc \in NoSignOuts => r.kind # "sign_out"
    /\ r.pc = "unregister" => r.kind = "delete"
    /\ r.pc \notin {"ready", "done"} /\ r.kind # "sign_out" => r.project \in Projects
    /\ r.pc \in HasUrl => r.session # 0

Control ==
    /\ \A t \in Threads : Fits(t, thread[t])
    /\ pass.pc \in AboutOne => pass.current \in Projects
    /\ pass.pc = "adopt" => pass.answer # None

Typed == TypeOK /\ Control

ThreadsFit ==
    thread \in [Threads -> Thread] /\ \A t \in Threads : Fits(t, thread[t])

\* Whoever remembers a session of the service remembers one it has made.
SessionsMade ==
    /\ service # None => service.session <= sessions
    /\ \A p \in Projects : on[p] # None => on[p].session <= sessions
    /\ \A t \in Threads : thread[t].session <= sessions
    /\ \A p \in Projects :
          pass.before[p] # None => pass.before[p].session <= sessions
    /\ pass.answer # None => pass.answer.session <= sessions

\* A record says who made it, and whoever did makes no other.
MadeOnce ==
    /\ \A p \in Projects : on[p] # None /\ on[p].by \in Turns =>
           thread[on[p].by].pc \in {"finish", "done"}
    /\ \A p \in Projects : pass.before[p] # None /\ pass.before[p].by \in Turns =>
           thread[pass.before[p].by].pc \in {"finish", "done"}

\* What was on before the service was asked and is its URL now, it answered.
Answered(p) ==
    (pass.before[p] # None /\
     service = [project |-> p, session |-> pass.before[p].session])
        => pass.answer = service

\* ... and that is not among what the pass forgets, unless it is being released.
Spared(p) ==
    (/\ pass.before[p] # None /\ on[p] = pass.before[p] /\ p \notin releasing
     /\ service = [project |-> p, session |-> pass.before[p].session])
        => p \notin pass.urls

AnswerIsNew ==
    \A p \in projects \cap mapped :
        /\ pass.pc \in {"resolve", "look"} => Answered(p)
        /\ pass.pc = "forget" => Spared(p)

\* Once a sign-out has cleared the dictionaries, no turn-on that has a URL is
\* still wanted.
NoneWanted ==
    (~signedIn /\ \A t \in Threads : ~At(t, "clear")) =>
        \A t \in Turns : thread[t].pc \in HasUrl => enabling[Of(t)] # t

-----------------------------------------------------------------------------
\* One call moves on.
LEMMA OneMoves ==
    ASSUME Typed, NEW t \in Threads, NEW r \in Thread, Fits(t, r),
           thread' = [thread EXCEPT ![t] = r]
    PROVE  /\ ThreadsFit'
           /\ thread'[t] = r
           /\ \A u \in Threads \ {t} : thread'[u] = thread[u]
BY DEF Typed, TypeOK, Control, ThreadsFit

LEMMA OverFits ==
    ASSUME PublicAssumption, Typed, NEW t \in Threads
    PROVE  /\ Over(t) \in Thread /\ Fits(t, Over(t))
           /\ Over(t).pc = "done" /\ Over(t).session = 0
           /\ Over(t).kind = thread[t].kind
<1>1. thread[t] \in Thread /\ Fits(t, thread[t])
    BY DEF Typed, TypeOK, Control
<1>2. Over(t) = [pc |-> "done", project |-> None, kind |-> thread[t].kind,
                 session |-> 0, token |-> 0, urls |-> {}]
    BY DEF Over, NotYet
<1> QED BY <1>1, <1>2 DEF Thread, Fits, Steps, Tokens, PublicAssumption,
           OnlyTurns, OnlySignOuts, NoSignOuts, HasUrl

\* What OneMoves concludes, of a call that only goes on to another step.
LEMMA GotoFits ==
    ASSUME PublicAssumption, Typed, NEW t \in Threads, NEW pc \in Steps \ {"ready"},
           Goto(t, pc),
           Fits(t, [thread[t] EXCEPT !.pc = pc]) \/ pc = "done"
    PROVE  /\ ThreadsFit'
           /\ thread'[t].pc = pc
           /\ \A u \in Threads \ {t} : thread'[u] = thread[u]
<1> DEFINE r == IF pc = "done" THEN Over(t) ELSE [thread[t] EXCEPT !.pc = pc]
<1>1. thread' = [thread EXCEPT ![t] = r]
    BY DEF Goto, Typed, TypeOK
<1>2. thread[t] \in Thread /\ Fits(t, thread[t])
    BY DEF Typed, TypeOK, Control
<1>3. CASE pc = "done"
    <2>1. r \in Thread /\ Fits(t, r) /\ r.pc = pc
        BY <1>3, OverFits
    <2> QED BY <1>1, <2>1, OneMoves
<1>4. CASE pc # "done"
    <2>1. r \in Thread /\ Fits(t, r) /\ r.pc = pc
        BY <1>2, <1>4 DEF Thread
    <2> QED BY <1>1, <2>1, OneMoves
<1> QED BY <1>3, <1>4

-----------------------------------------------------------------------------
\* A URL that was asked for and made, or was on already, is the project's.
LEMMA MakeUrlTyped ==
    ASSUME PublicAssumption, Typed, NEW p \in Projects, MakeUrl(p)
    PROVE  service' \in Urls /\ sessions' \in 0..MaxSessions /\ sessions <= sessions'
<1>0. sessions \in 0..MaxSessions /\ MaxSessions \in Nat
    BY DEF Typed, TypeOK, PublicAssumption
<1>1. CASE UNCHANGED <<service, sessions>> /\ service # None
    BY <1>0, <1>1 DEF Typed, TypeOK
<1>2. CASE /\ sessions < MaxSessions /\ sessions' = sessions + 1
           /\ service' = [project |-> p, session |-> sessions + 1]
    BY <1>0, <1>2 DEF Urls
<1> QED BY <1>1, <1>2 DEF MakeUrl

\* A turn-on's own steps.
LEMMA TurnOnTyped ==
    ASSUME PublicAssumption, Typed, NEW t \in Threads,
           \/ \E p \in Projects : Enable(t, p)
           \/ Begin(t) \/ Post(t) \/ WriteToken(t) \/ Start(t) \/ Commit(t)
           \/ Undo(t) \/ Finish(t)
    PROVE  Typed'
<1> USE DEF Typed, TypeOK, Control, ThreadsFit
<1>0. thread[t] \in Thread /\ Fits(t, thread[t]) /\ None \notin Projects
    BY DEF PublicAssumption
<1>1. ASSUME NEW p \in Projects, Enable(t, p) PROVE Typed'
    <2> DEFINE r == [thread[t] EXCEPT !.pc = "asked", !.project = p]
    <2>1. r \in Thread /\ Fits(t, r)
        BY <1>0, <1>1 DEF Enable, At, Thread, Steps, Fits, OnlySignOuts, NoSignOuts, HasUrl
    <2>2. thread' = [thread EXCEPT ![t] = r]
        BY <1>1 DEF Enable
    <2> QED BY <1>1, <2>1, <2>2, OneMoves DEF Enable, account, cloud, tunnel, memory
<1>2. CASE Begin(t)
    <2>0. At(t, "asked") /\ t \in Turns /\ Of(t) \in Projects
        BY <1>0, <1>2 DEF Begin, At, Of, Fits, OnlyTurns
    <2>1. PICK pc \in {"post", "done"} : Goto(t, pc)
        BY <1>2 DEF Begin
    <2>2. Fits(t, [thread[t] EXCEPT !.pc = pc]) \/ pc = "done"
        BY <1>0, <2>0 DEF Thread, At, Fits, OnlySignOuts, NoSignOuts, HasUrl
    <2>3. pc \in Steps \ {"ready"}
        BY DEF Steps
    <2>4. ThreadsFit'
        BY <2>1, <2>2, <2>3, GotoFits
    <2> QED BY <1>2, <2>0, <2>4 DEF Begin, account, cloud, tunnel, memory
<1>3. CASE Post(t)
    <2>0. At(t, "post") /\ t \in Turns /\ Of(t) \in Projects
        BY <1>0, <1>3 DEF Post, PostOr, At, Of, Fits, OnlyTurns
    <2>1. ASSUME \E pc \in {"finish", "fail"} : Goto(t, pc) PROVE ThreadsFit'
        <3>1. PICK pc \in {"finish", "fail"} : Goto(t, pc)
            BY <2>1
        <3>2. Fits(t, [thread[t] EXCEPT !.pc = pc])
            BY <1>0, <2>0 DEF Thread, At, Fits, OnlySignOuts, NoSignOuts, HasUrl
        <3>3. pc \in Steps \ {"ready"}
            BY DEF Steps
        <3> QED BY <3>1, <3>2, <3>3, GotoFits DEF ThreadsFit
    <2>2. ASSUME MakeUrl(Of(t)),
                 \E credentials \in {pairing, 0} :
                     thread' = [thread EXCEPT ![t].pc = "write",
                                   ![t].session = service'.session,
                                   ![t].token = credentials]
          PROVE  ThreadsFit'
        <3>1. PICK credentials \in {pairing, 0} :
                 thread' = [thread EXCEPT ![t].pc = "write",
                               ![t].session = service'.session,
                               ![t].token = credentials]
            BY <2>2
        <3> DEFINE r == [thread[t] EXCEPT !.pc = "write",
                            !.session = service'.session, !.token = credentials]
        <3>2. service'.session \in 1..MaxSessions
            BY <2>0, <2>2, MakeUrlTyped DEF Urls
        <3>3. credentials \in Tokens
            BY DEF Tokens, PublicAssumption
        <3>4. r \in Thread
            <4>1. service'.session \in 0..MaxSessions /\ "write" \in Steps
                BY <3>2 DEF PublicAssumption, Steps
            <4> QED BY <1>0, <3>3, <4>1 DEF Thread
        <3>5. Fits(t, r)
            BY <1>0, <2>0, <3>2 DEF Thread, At, Fits, OnlySignOuts, NoSignOuts
        <3>6. thread' = [thread EXCEPT ![t] = r]
            BY <3>1
        <3> QED BY <3>4, <3>5, <3>6, OneMoves
    <2>3. ThreadsFit'
        BY <1>3, <2>1, <2>2 DEF Post, PostOr
    <2>4. service' \in Urls \cup {None} /\ sessions' \in 0..MaxSessions
        BY <1>3, <2>0, MakeUrlTyped DEF Post, PostOr
    <2>5. faults' \in 0..MaxFaults
        BY <1>3 DEF Post, PostOr, Fault, PublicAssumption
    <2> QED BY <1>3, <2>3, <2>4, <2>5 DEF Post, PostOr, account, tunnel, memory
<1>4. CASE WriteToken(t)
    <2>0. At(t, "write") /\ t \in Turns /\ Of(t) \in Projects /\ thread[t].session # 0
        BY <1>0, <1>4 DEF WriteToken, At, Of, Fits, OnlyTurns, HasUrl
    <2>1. CASE thread[t].token # 0
        <3> DEFINE r == [thread[t] EXCEPT !.token = 0,
               !.pc = IF token = thread[t].token THEN "start" ELSE "recreate"]
        <3>0. r \in Thread
            <4>1. 0 \in Tokens /\ {"start", "recreate"} \subseteq Steps
                BY DEF PublicAssumption, Tokens, Steps
            <4> QED BY <1>0, <4>1 DEF Thread
        <3>1. Fits(t, r)
            BY <1>0, <2>0 DEF Thread, At, Fits, OnlySignOuts, NoSignOuts
        <3>2. thread' = [thread EXCEPT ![t] = r]
            BY <1>4, <2>1 DEF WriteToken
        <3>3. thread[t].token \in Tokens
            BY <1>0 DEF Thread
        <3> QED BY <1>4, <2>1, <3>0, <3>1, <3>2, <3>3, OneMoves
                DEF WriteToken, account, cloud, memory
    <2>2. CASE thread[t].token = 0
        <3>1. PICK pc \in {"start", "undo"} : Goto(t, pc)
            BY <1>4, <2>2 DEF WriteToken
        <3>2. Fits(t, [thread[t] EXCEPT !.pc = pc])
            BY <1>0, <2>0 DEF Thread, At, Fits, OnlySignOuts, NoSignOuts
        <3>3. pc \in Steps \ {"ready"}
            BY DEF Steps
        <3>4. ThreadsFit'
            BY <3>1, <3>2, <3>3, GotoFits
        <3> QED BY <1>4, <2>2, <3>4 DEF WriteToken, account, cloud, memory
    <2> QED BY <2>1, <2>2
<1>5. CASE Start(t)
    <2>0. /\ thread[t].pc \in {"start", "recreate"} /\ t \in Turns
          /\ Of(t) \in Projects /\ thread[t].session # 0
        BY <1>0, <1>5 DEF Start, Of, Fits, OnlyTurns, HasUrl
    <2>1. PICK pc \in {"commit", "undo"} : Goto(t, pc)
        BY <1>5 DEF Start
    <2>2. Fits(t, [thread[t] EXCEPT !.pc = pc])
        BY <1>0, <2>0 DEF Thread, Fits, OnlySignOuts, NoSignOuts
    <2>3. pc \in Steps \ {"ready"}
        BY DEF Steps
    <2>4. ThreadsFit'
        BY <2>1, <2>2, <2>3, GotoFits
    <2>5. faults' \in 0..MaxFaults /\ client' \in Tokens \cup {None}
        BY <1>5 DEF Start, StartClient, Fault, PublicAssumption
    <2> QED BY <1>5, <2>4, <2>5 DEF Start, account, cloud, memory
<1>6. CASE Commit(t)
    <2>0. At(t, "commit") /\ t \in Turns /\ Of(t) \in Projects /\ thread[t].session # 0
        BY <1>0, <1>6 DEF Commit, CommitIf, At, Of, Fits, OnlyTurns, HasUrl
    <2>1. PICK pc \in {"finish", "undo"} : Goto(t, pc)
        BY <1>6 DEF Commit, CommitIf
    <2>2. Fits(t, [thread[t] EXCEPT !.pc = pc])
        BY <1>0, <2>0 DEF Thread, At, Fits, OnlySignOuts, NoSignOuts, HasUrl
    <2>3. pc \in Steps \ {"ready"}
        BY DEF Steps
    <2>4. ThreadsFit'
        BY <2>1, <2>2, <2>3, GotoFits
    <2>5. [by |-> t, session |-> thread[t].session] \in Records
        BY <1>0, <2>0 DEF Records, Thread, PublicAssumption
    <2>6. on' \in [Projects -> Records \cup {None}]
        BY <1>6, <2>0, <2>5 DEF Commit, CommitIf
    <2> QED BY <1>6, <2>4, <2>6 DEF Commit, CommitIf, account, cloud, tunnel, memory
<1>7. CASE Undo(t)
    <2>0. At(t, "undo") /\ t \in Turns /\ Of(t) \in Projects
        BY <1>0, <1>7 DEF Undo, At, Of, Fits, OnlyTurns
    <2>1. PICK pc \in {"fail", "stop"} : Goto(t, pc)
        BY <1>7 DEF Undo
    <2>2. Fits(t, [thread[t] EXCEPT !.pc = pc])
        BY <1>0, <2>0 DEF Thread, At, Fits, OnlySignOuts, NoSignOuts, HasUrl
    <2>3. pc \in Steps \ {"ready"}
        BY DEF Steps
    <2>4. ThreadsFit'
        BY <2>1, <2>2, <2>3, GotoFits
    <2> QED BY <1>7, <2>4 DEF Undo, account, cloud, tunnel, memory
<1>8. CASE Finish(t)
    <2>0. thread[t].pc \in {"fail", "finish"} /\ t \in Turns /\ Of(t) \in Projects
        BY <1>0, <1>8 DEF Finish, FinishIf, Of, Fits, OnlyTurns
    <2>1. Goto(t, "done") /\ "done" \in Steps \ {"ready"}
        BY <1>8 DEF Finish, FinishIf, Steps
    <2>2. ThreadsFit'
        BY <2>1, GotoFits
    <2> QED BY <1>8, <2>0, <2>2 DEF Finish, FinishIf, account, cloud, tunnel, memory
<1> QED BY <1>1, <1>2, <1>3, <1>4, <1>5, <1>6, <1>7, <1>8

LEMMA ReleaseAtTyped ==
    ASSUME PublicAssumption, Typed, NEW p, NEW gone \in BOOLEAN, ReleaseAt(p, gone)
    PROVE  service' \in Urls \cup {None} /\ faults' \in 0..MaxFaults
BY DEF Typed, TypeOK, PublicAssumption, ReleaseAt, Fault

LEMMA StopClientTyped ==
    ASSUME PublicAssumption, Typed, StopClient
    PROVE  client' \in Tokens \cup {None} /\ faults' \in 0..MaxFaults
BY DEF Typed, TypeOK, PublicAssumption, StopClient, Fault

\* What turn-offs, deletes and sign-outs do, and turn-ons that undo themselves.
LEMMA CallTyped ==
    ASSUME PublicAssumption, Typed, NEW t \in Threads,
           \/ \E p \in Projects : Disable(t, p)
           \/ StopUnlessNeeded(t) \/ Halt(t) \/ DropToken(t) \/ Release(t)
           \/ Remember(t) \/ Unregister(t)
           \/ SignOut(t) \/ ReleaseAll(t) \/ Logout(t) \/ Clear(t)
    PROVE  Typed'
<1> USE DEF Typed, TypeOK, Control, ThreadsFit
<1>0. /\ thread[t] \in Thread /\ Fits(t, thread[t])
      /\ None \notin Projects /\ After(t) \in {"fail", "unregister", "done"}
    BY DEF PublicAssumption, After
<1>1. CASE StopUnlessNeeded(t)
    <2>0. At(t, "stop")
        BY <1>1 DEF StopUnlessNeeded
    <2>1. PICK pc \in {"release", "halt"} :
              Goto(t, pc) /\ (pc = "release" => thread[t].kind # "sign_out")
        BY <1>1 DEF StopUnlessNeeded
    <2>2. Fits(t, [thread[t] EXCEPT !.pc = pc])
        BY <1>0, <2>0, <2>1 DEF Thread, At, Fits, OnlyTurns, OnlySignOuts, NoSignOuts, HasUrl
    <2>3. pc \in Steps \ {"ready"}
        BY DEF Steps
    <2>4. ThreadsFit'
        BY <2>1, <2>2, <2>3, GotoFits
    <2> QED BY <1>1, <2>4 DEF StopUnlessNeeded, account, cloud, memory
<1>2. CASE Halt(t)
    <2>0. At(t, "halt") /\ Goto(t, "drop") /\ "drop" \in Steps \ {"ready"}
        BY <1>2 DEF Halt, Steps
    <2>1. Fits(t, [thread[t] EXCEPT !.pc = "drop"])
        BY <1>0, <2>0 DEF Thread, At, Fits, OnlyTurns, OnlySignOuts, NoSignOuts, HasUrl
    <2>2. ThreadsFit'
        BY <2>0, <2>1, GotoFits
    <2> QED BY <1>2, <2>2, StopClientTyped DEF Halt, account, cloud, memory
<1>3. CASE DropToken(t)
    <2>0. At(t, "drop")
        BY <1>3 DEF DropToken
    <2>1. PICK pc \in {"release", "done"} :
              Goto(t, pc) /\ (pc = "release" => thread[t].kind # "sign_out")
        BY <1>3 DEF DropToken
    <2>2. Fits(t, [thread[t] EXCEPT !.pc = pc]) \/ pc = "done"
        BY <1>0, <2>0, <2>1 DEF Thread, At, Fits, OnlyTurns, OnlySignOuts, NoSignOuts, HasUrl
    <2>3. pc \in Steps \ {"ready"} /\ 0 \in Tokens
        BY DEF Steps, Tokens, PublicAssumption
    <2>4. ThreadsFit'
        BY <2>1, <2>2, <2>3, GotoFits
    <2> QED BY <1>3, <2>3, <2>4 DEF DropToken, account, cloud, memory
<1>4. CASE Release(t)
    <2>0. At(t, "release") /\ Of(t) \in Projects /\ thread[t].kind # "sign_out"
        BY <1>0, <1>4 DEF Release, At, Of, Fits, NoSignOuts
    <2>1. PICK gone \in BOOLEAN :
              /\ ReleaseAt(Of(t), gone)
              /\ Goto(t, IF gone \/ t \in Turns THEN After(t) ELSE "remember")
        BY <1>4 DEF Release
    <2> DEFINE pc == IF gone \/ t \in Turns THEN After(t) ELSE "remember"
    <2>2. Fits(t, [thread[t] EXCEPT !.pc = pc]) \/ pc = "done"
        BY <1>0, <2>0 DEF After, Thread, At, Fits, OnlyTurns, OnlySignOuts, NoSignOuts, HasUrl
    <2>3. pc \in Steps \ {"ready"}
        BY <1>0 DEF Steps
    <2>4. ThreadsFit'
        BY <2>1, <2>2, <2>3, GotoFits
    <2> QED BY <1>4, <2>1, <2>4, ReleaseAtTyped DEF Release, account, tunnel, memory
<1>5. CASE Remember(t)
    <2>0. At(t, "remember") /\ Of(t) \in Projects /\ Goto(t, After(t))
        BY <1>0, <1>5 DEF Remember, At, Of, Fits, NoSignOuts
    <2>2. Fits(t, [thread[t] EXCEPT !.pc = After(t)]) \/ After(t) = "done"
        BY <1>0, <2>0 DEF After, Thread, At, Fits, OnlyTurns, OnlySignOuts, NoSignOuts, HasUrl
    <2>3. After(t) \in Steps \ {"ready"}
        BY <1>0 DEF Steps
    <2>4. ThreadsFit'
        BY <2>0, <2>2, <2>3, GotoFits
    <2> QED BY <1>5, <2>0, <2>4 DEF Remember, account, cloud, tunnel
<1>6. CASE Unregister(t)
    <2>1. Goto(t, "done") /\ "done" \in Steps \ {"ready"}
        BY <1>6 DEF Unregister, Steps
    <2>2. ThreadsFit'
        BY <2>1, GotoFits
    <2> QED BY <1>6, <2>2 DEF Unregister, cloud, tunnel, memory
<1>7. ASSUME NEW p \in Projects, Disable(t, p) PROVE Typed'
    <2>0. At(t, "ready") /\ thread[t].kind \in {"off", "delete"}
        BY <1>7 DEF Disable
    <2>1. PICK r : /\ thread' = [thread EXCEPT ![t] = r]
                   /\ \/ r = Over(t)
                      \/ \E pc \in {"stop", "unregister"} :
                            /\ r = [thread[t] EXCEPT !.project = p, !.pc = pc]
                            /\ pc = "unregister" => thread[t].kind = "delete"
        BY <1>0, <1>7, <2>0 DEF Disable, After
    <2>2. ASSUME r = Over(t) PROVE r \in Thread /\ Fits(t, r)
        BY <1>0, <2>2, OverFits
    <2>3. ASSUME NEW pc \in {"stop", "unregister"},
                 r = [thread[t] EXCEPT !.project = p, !.pc = pc],
                 pc = "unregister" => thread[t].kind = "delete"
          PROVE  r \in Thread /\ Fits(t, r)
        <3>1. pc \in Steps
            BY DEF Steps
        <3>2. r \in Thread /\ r.pc = pc /\ r.kind = thread[t].kind /\ r.project = p
            BY <1>0, <2>3, <3>1 DEF Thread
        <3>3. r.kind = "on" <=> t \in Turns
            BY <1>0, <3>2 DEF Fits
        <3> QED BY <2>0, <2>3, <3>2, <3>3 DEF Fits,
                  OnlyTurns, OnlySignOuts, NoSignOuts, HasUrl
    <2>4. ThreadsFit'
        BY <2>1, <2>2, <2>3, OneMoves
    <2> QED BY <1>7, <2>4 DEF Disable, account, cloud, tunnel
<1>8. CASE SignOut(t)
    <2> DEFINE r == [thread[t] EXCEPT !.pc = "release_all",
                        !.urls = releasing \cup
                            {p \in Projects : on[p] # None \/ enabling[p] # None}]
    <2>1. r \in Thread
        BY <1>0 DEF Thread, Steps
    <2>2. Fits(t, r)
        BY <1>0, <1>8 DEF SignOut, Thread, Fits, OnlyTurns, NoSignOuts, HasUrl
    <2>3. thread' = [thread EXCEPT ![t] = r]
        BY <1>8 DEF SignOut
    <2> QED BY <1>8, <2>1, <2>2, <2>3, OneMoves DEF SignOut, account, cloud, tunnel, memory
<1>9. CASE ReleaseAll(t)
    <2>0. At(t, "release_all") /\ thread[t].kind = "sign_out"
        BY <1>0, <1>9 DEF ReleaseAll, At, Fits, OnlySignOuts
    <2>1. CASE thread[t].urls = {}
        <3>1. Goto(t, "logout") /\ "logout" \in Steps \ {"ready"}
            BY <1>9, <2>1 DEF ReleaseAll, Steps
        <3>2. Fits(t, [thread[t] EXCEPT !.pc = "logout"])
            BY <1>0, <2>0 DEF Thread, At, Fits, OnlyTurns, NoSignOuts, HasUrl
        <3>3. ThreadsFit'
            BY <3>1, <3>2, GotoFits
        <3> QED BY <1>9, <2>1, <3>3 DEF ReleaseAll, account, tunnel, memory
    <2>2. CASE thread[t].urls # {}
        <3>1. PICK p \in thread[t].urls, gone \in BOOLEAN :
                 /\ ReleaseAt(p, gone)
                 /\ thread' = [thread EXCEPT ![t].urls = @ \ {p}]
            BY <1>9, <2>2 DEF ReleaseAll
        <3> DEFINE r == [thread[t] EXCEPT !.urls = @ \ {p}]
        <3>2. r \in Thread
            BY <1>0 DEF Thread
        <3>3. Fits(t, r)
            BY <1>0, <2>0 DEF Thread, At, Fits, OnlyTurns, NoSignOuts, HasUrl
        <3>4. ThreadsFit'
            BY <3>1, <3>2, <3>3, OneMoves
        <3>5. service' \in Urls \cup {None} /\ faults' \in 0..MaxFaults
            BY <3>1, ReleaseAtTyped
        <3> QED BY <1>9, <3>4, <3>5 DEF ReleaseAll, account, tunnel, memory
    <2> QED BY <2>1, <2>2
<1>10. CASE Logout(t)
    <2>0. At(t, "logout") /\ thread[t].kind = "sign_out"
        BY <1>0, <1>10 DEF Logout, At, Fits, OnlySignOuts
    <2>1. Goto(t, "clear") /\ "clear" \in Steps \ {"ready"}
        BY <1>10 DEF Logout, Steps
    <2>2. Fits(t, [thread[t] EXCEPT !.pc = "clear"])
        BY <1>0, <2>0 DEF Thread, At, Fits, OnlyTurns, NoSignOuts, HasUrl
    <2>3. ThreadsFit'
        BY <2>1, <2>2, GotoFits
    <2> QED BY <1>10, <2>3 DEF Logout, cloud, tunnel, memory
<1>11. CASE Clear(t)
    <2>0. At(t, "clear") /\ thread[t].kind = "sign_out"
        BY <1>0, <1>11 DEF Clear, At, Fits, OnlySignOuts
    <2>1. Goto(t, "stop") /\ "stop" \in Steps \ {"ready"}
        BY <1>11 DEF Clear, Steps
    <2>2. Fits(t, [thread[t] EXCEPT !.pc = "stop"])
        BY <1>0, <2>0 DEF Thread, At, Fits, OnlyTurns, NoSignOuts, HasUrl
    <2>3. ThreadsFit'
        BY <2>1, <2>2, GotoFits
    <2> QED BY <1>11, <2>3 DEF Clear, account, cloud, tunnel
<1> QED BY <1>1, <1>2, <1>3, <1>4, <1>5, <1>6, <1>7, <1>8, <1>9, <1>10, <1>11

LEMMA NoPassTyped == PublicAssumption => NoPass \in Pass /\ NoPass.pc = "idle"
BY DEF NoPass, Pass, PublicAssumption

LEMMA PassAt ==
    ASSUME NEW r \in Pass, NEW pc \in {"retry", "snapshot", "ask", "client", "lock",
                                     "halt", "drop", "end", "adopt"}
    PROVE  /\ [r EXCEPT !.pc = pc] \in Pass
           /\ [r EXCEPT !.pc = pc].pc = pc
           /\ [r EXCEPT !.pc = pc].answer = r.answer
BY DEF Pass

LEMMA PassWithAnswer ==
    ASSUME NEW r \in Pass, NEW a \in Urls \cup {None},
           NEW pc \in {"resolve", "look"}
    PROVE  /\ [r EXCEPT !.pc = pc, !.answer = a] \in Pass
           /\ [r EXCEPT !.pc = pc, !.answer = a].pc = pc
           /\ [r EXCEPT !.pc = pc, !.answer = a].answer = a
           /\ [r EXCEPT !.pc = pc, !.answer = a].before = r.before
BY DEF Pass

LEMMA PassWithCurrent ==
    ASSUME NEW p \in Projects, NEW pc \in {"discard", "end_release"}, pass \in Pass,
           pass' = [pass EXCEPT !.pc = pc, !.current = p, !.urls = @ \ {p}]
    PROVE  /\ pass' \in Pass /\ pass'.pc = pc /\ pass'.current = p
           /\ pass'.before = pass.before /\ pass'.answer = pass.answer
BY DEF Pass

\* What the pass compares its answer with.
Active(a) == IF a # None /\ a.project \notin releasing THEN a ELSE None

LEMMA LookMakes ==
    ASSUME pass \in Pass, Look
    PROVE  /\ pass' \in Pass /\ pass'.pc = "forget"
           /\ pass'.before = pass.before /\ pass'.answer = Active(pass.answer)
           /\ pass'.urls = {p \in Projects :
                  /\ pass.before[p] # None
                  /\ Active(pass.answer) # None => Active(pass.answer).project # p}
<1>1. Active(pass.answer) \in Urls \cup {None}
    BY DEF Active, Pass
<1> DEFINE urls == {p \in Projects :
                  /\ pass.before[p] # None
                  /\ Active(pass.answer) # None => Active(pass.answer).project # p}
<1>2. pass' = [pass EXCEPT !.pc = "forget", !.answer = Active(pass.answer),
                  !.before = pass.before, !.urls = urls]
    BY DEF Look, LookWith, Active
<1>3. urls \subseteq Projects
    OBVIOUS
<1>4. pass.before \in [Projects -> Records \cup {None}]
    BY DEF Pass
<1> HIDE DEF urls
<1>5. pass' \in Pass /\ pass'.pc = "forget" /\ pass'.before = pass.before
      /\ pass'.answer = Active(pass.answer) /\ pass'.urls = urls
    BY <1>1, <1>2, <1>3, <1>4 DEF Pass
<1> QED BY <1>5 DEF urls

\* The reconcile pass, until it has the service's answer.
LEMMA PassAsksTyped ==
    ASSUME PublicAssumption, Typed,
           StartPass \/ RetryRelease \/ Discard \/ Snapshot \/ Ask \/ Resolve \/ Look
    PROVE  Typed'
<1> USE DEF Typed, TypeOK, Control, AboutOne
<1>0. NoPass \in Pass /\ NoPass.pc = "idle" /\ None \notin Projects
    BY NoPassTyped DEF PublicAssumption
<1>1. CASE StartPass
    <2>1. pass' \in Pass /\ pass'.pc = "retry"
        BY <1>0, <1>1 DEF StartPass, StartPassWith, Pass
    <2> QED BY <1>1, <2>1 DEF StartPass, StartPassWith, account, cloud, tunnel, memory
<1>2. CASE RetryRelease
    <2>0. pass.urls \subseteq Projects
        BY DEF Pass
    <2>1. CASE pass.urls = {}
        <3>0. pass' = [pass EXCEPT !.pc = "snapshot"]
            BY <1>2, <2>1 DEF RetryRelease, PassTo
        <3>1. pass' \in Pass /\ pass'.pc = "snapshot"
            BY <3>0, PassAt
        <3> QED BY <1>2, <2>1, <3>1 DEF RetryRelease, account, tunnel, memory
    <2>2. CASE pass.urls # {}
        <3>1. PICK p \in pass.urls, gone \in BOOLEAN :
                 /\ ReleaseAt(p, gone)
                 /\ pass' = IF gone THEN [pass EXCEPT !.pc = "discard", !.current = p,
                                                      !.urls = @ \ {p}]
                            ELSE [pass EXCEPT !.urls = @ \ {p}]
            BY <1>2, <2>2 DEF RetryRelease
        <3>2. service' \in Urls \cup {None} /\ faults' \in 0..MaxFaults
            BY <3>1, ReleaseAtTyped
        <3>3. pass' \in Pass /\ pass'.pc \in {"discard", "retry"}
            <4>1. CASE gone
                BY <2>0, <3>1, <4>1, PassWithCurrent
            <4>2. CASE ~gone
                BY <1>2, <3>1, <4>2 DEF Pass, RetryRelease
            <4> QED BY <4>1, <4>2
        <3> QED BY <1>2, <3>2, <3>3 DEF RetryRelease, account, tunnel, memory
    <2> QED BY <2>1, <2>2
<1>3. CASE Discard
    <2>1. pass' \in Pass /\ pass'.pc = "retry"
        BY <1>3 DEF Discard, Pass
    <2> QED BY <1>3, <2>1 DEF Discard, account, cloud, tunnel
<1>4. CASE Snapshot
    <2>1. pass' \in Pass /\ pass'.pc = "ask"
        BY <1>4 DEF Snapshot, Pass
    <2> QED BY <1>4, <2>1 DEF Snapshot, account, cloud, tunnel, memory
<1>5. CASE Ask
    <2>1. pass' \in Pass /\ pass'.pc \in {"idle", "resolve"}
        <3>1. CASE pass' = [pass EXCEPT !.pc = "resolve", !.answer = service]
            BY <3>1 DEF Pass
        <3> QED BY <1>0, <1>5, <3>1 DEF Ask, AskIf
    <2>2. faults' \in 0..MaxFaults
        BY <1>5 DEF Ask, AskIf, Fault, PublicAssumption
    <2> QED BY <1>5, <2>1, <2>2 DEF Ask, AskIf, account, cloud, tunnel, memory
<1>6. CASE Resolve
    <2>1. PICK a \in {pass.answer, None} : pass' = [pass EXCEPT !.pc = "look", !.answer = a]
        BY <1>6 DEF Resolve
    <2>2. a \in Urls \cup {None}
        BY DEF Pass
    <2>3. pass' \in Pass /\ pass'.pc = "look"
        BY <2>1, <2>2, PassWithAnswer
    <2> QED BY <1>6, <2>3 DEF Resolve, account, cloud, tunnel, memory
<1>7. CASE Look
    BY <1>7, LookMakes DEF Look, LookWith, account, cloud, tunnel, memory
<1> QED BY <1>1, <1>2, <1>3, <1>4, <1>5, <1>6, <1>7

\* How it uses the answer.
LEMMA PassActsTyped ==
    ASSUME PublicAssumption, Typed,
           \/ Forget \/ Adopt \/ LookAtClient \/ ReconcileClient \/ PassHalts
           \/ PassDrops \/ EndUrl \/ EndAtService \/ EndRemember
    PROVE  Typed'
<1> USE DEF Typed, TypeOK, Control, AboutOne
<1>0. NoPass \in Pass /\ NoPass.pc = "idle" /\ None \notin Projects
    BY NoPassTyped DEF PublicAssumption
<1>1. CASE Forget
    <2>1. /\ pass' \in Pass /\ pass'.pc \in {"client", "adopt", "forget"}
          /\ pass'.pc = "adopt" => pass'.answer # None
        <3>1. CASE pass' = [NoPass EXCEPT !.pc = "client"]
            BY <1>0, <3>1, PassAt
        <3>2. CASE pass' = [pass EXCEPT !.pc = "adopt"] /\ pass.answer # None
            BY <3>2, PassAt
        <3>3. ASSUME NEW p \in pass.urls, pass' = [pass EXCEPT !.urls = @ \ {p}]
              PROVE  pass' \in Pass /\ pass'.pc = "forget"
            BY <1>1, <3>3 DEF Pass, Forget
        <3> QED BY <1>1, <3>1, <3>2, <3>3 DEF Forget, PassTo
    <2>2. on' \in [Projects -> Records \cup {None}]
        BY <1>1 DEF Forget, ForgetRecord
    <2> QED BY <1>1, <2>1, <2>2 DEF Forget, account, cloud, tunnel
<1>2. CASE Adopt
    <2>1. pass.answer \in Urls
        BY <1>2 DEF Adopt, Pass
    <2>2. [by |-> "pass", session |-> pass.answer.session] \in Records
        BY <2>1 DEF Urls, Records
    <2>3. on' \in [Projects -> Records \cup {None}] /\ failed' \subseteq Projects
        BY <1>2, <2>2 DEF Adopt
    <2>4. pass' \in Pass /\ pass'.pc \in {"client", "idle"}
        <3>1. CASE pass' = [NoPass EXCEPT !.pc = "client"]
            BY <1>0, <3>1, PassAt
        <3> QED BY <1>0, <1>2, <3>1 DEF Adopt
    <2>5. faults' \in 0..MaxFaults
        BY <1>2 DEF Adopt, Fault, PublicAssumption
    <2> QED BY <1>2, <2>3, <2>4, <2>5 DEF Adopt, account, cloud, tunnel
<1>3. CASE LookAtClient
    <2>1. pass' \in Pass /\ pass'.pc \in {"lock", "idle"}
        BY <1>0, <1>3 DEF LookAtClient, Pass
    <2> QED BY <1>3, <2>1 DEF LookAtClient, account, cloud, tunnel, memory
<1>4. CASE ReconcileClient
    <2>1. pass' \in Pass /\ pass'.pc \in {"idle", "halt", "end"}
        <3>1. \/ pass' = NoPass
              \/ \E pc \in {"halt", "end"} : pass' = [pass EXCEPT !.pc = pc]
            BY <1>4 DEF ReconcileClient, ReconcileClientIf, PassTo
        <3>2. ASSUME NEW pc \in {"halt", "end"}, pass' = [pass EXCEPT !.pc = pc]
              PROVE  pass' \in Pass /\ pass'.pc = pc
            BY <3>2 DEF Pass
        <3> QED BY <1>0, <3>1, <3>2
    <2>2. /\ client' \in Tokens \cup {None} /\ faults' \in 0..MaxFaults
          /\ clientLock' \in Threads \cup {"pass", None}
        BY <1>4 DEF ReconcileClient, ReconcileClientIf, StartClient, Fault, PublicAssumption
    <2> QED BY <1>4, <2>1, <2>2
            DEF ReconcileClient, ReconcileClientIf, account, cloud, memory
<1>5. CASE PassHalts
    <2>1. pass' \in Pass /\ pass'.pc = "drop"
        BY <1>5, PassAt DEF PassHalts, PassTo
    <2> QED BY <1>5, <2>1, StopClientTyped DEF PassHalts, account, cloud, memory
<1>6. CASE PassDrops
    <2>1. 0 \in Tokens
        BY DEF Tokens, PublicAssumption
    <2> QED BY <1>0, <1>6, <2>1 DEF PassDrops, account, cloud, memory
<1>7. CASE EndUrl
    <2>1. /\ pass' \in Pass /\ pass'.pc \in {"idle", "end_release"}
          /\ pass'.pc = "end_release" => pass'.current \in Projects
        <3>1. \/ pass' = NoPass
              \/ \E p \in pass.urls :
                    pass' = [pass EXCEPT !.pc = "end_release", !.current = p,
                                         !.urls = @ \ {p}]
            BY <1>7 DEF EndUrl
        <3>2. pass.urls \subseteq Projects
            BY DEF Pass
        <3>3. ASSUME NEW p \in pass.urls,
                     pass' = [pass EXCEPT !.pc = "end_release", !.current = p,
                                          !.urls = @ \ {p}]
              PROVE  /\ pass' \in Pass /\ pass'.pc = "end_release"
                     /\ pass'.current \in Projects
            BY <3>2, <3>3 DEF Pass
        <3>4. CASE pass' = NoPass BY <1>0, <3>4
        <3> QED BY <3>1, <3>3, <3>4
    <2>2. on' \in [Projects -> Records \cup {None}]
        BY <1>7 DEF EndUrl, ForgetRecord
    <2> QED BY <1>7, <2>1, <2>2 DEF EndUrl, account, cloud, tunnel
<1>8. CASE EndAtService
    <2>1. PICK gone \in BOOLEAN :
             /\ ReleaseAt(pass.current, gone)
             /\ pass' = IF gone THEN [pass EXCEPT !.pc = "end", !.current = None]
                        ELSE [pass EXCEPT !.pc = "end_remember"]
        BY <1>8 DEF EndAtService
    <2>2. service' \in Urls \cup {None} /\ faults' \in 0..MaxFaults
        BY <2>1, ReleaseAtTyped
    <2>3. /\ pass' \in Pass /\ pass'.pc \in {"end", "end_remember"}
          /\ pass'.pc = "end_remember" => pass'.current \in Projects
        BY <1>8, <2>1 DEF EndAtService, Pass
    <2> QED BY <1>8, <2>2, <2>3 DEF EndAtService, account, tunnel, memory
<1>9. CASE EndRemember
    <2>1. pass' \in Pass /\ pass'.pc = "end" /\ pass.current \in Projects
        BY <1>9 DEF EndRemember, Pass
    <2> QED BY <1>9, <2>1 DEF EndRemember, account, cloud, tunnel
<1> QED BY <1>1, <1>2, <1>3, <1>4, <1>5, <1>6, <1>7, <1>8, <1>9

LEMMA PassTyped ==
    ASSUME PublicAssumption, Typed, Reconcile
    PROVE  Typed'
BY PassAsksTyped, PassActsTyped DEF Reconcile

\* The rest of the sync pass, the service's own doings, and a restart.
LEMMA OtherTyped ==
    ASSUME PublicAssumption, Typed,
           \/ \E p \in Projects : SyncCreate(p) \/ SyncDelete(p)
           \/ SignIn \/ TakeDown \/ Restart
           \/ \E s \in 1..MaxSessions : Expire(s)
           \/ UNCHANGED vars
    PROVE  Typed'
<1> USE DEF Typed, TypeOK, Control
<1>1. CASE \E p \in Projects : SyncCreate(p) \/ SyncDelete(p)
    BY <1>1 DEF SyncCreate, SyncDelete, cloud, tunnel, memory
<1>2. CASE SignIn
    <2>1. pairing' \in Tokens
        BY <1>2 DEF SignIn, Tokens, PublicAssumption
    <2> QED BY <1>2, <2>1 DEF SignIn, cloud, tunnel, memory
<1>3. CASE TakeDown
    BY <1>3 DEF TakeDown, account, tunnel, memory
<1>4. CASE Restart
    <2>1. pass' \in Pass /\ pass'.pc \notin AboutOne \cup {"adopt"} /\ faults' \in 0..MaxFaults
        BY <1>4, NoPassTyped DEF Restart, Fault, AboutOne, PublicAssumption
    <2>2. /\ thread' \in [Threads -> Thread]
          /\ \A t \in Threads : Fits(t, thread'[t])
        <3>1. \A t \in Threads : Over(t) \in Thread /\ Fits(t, Over(t))
            BY OverFits
        <3> QED BY <1>4, <3>1 DEF Restart
    <2> QED BY <1>4, <2>1, <2>2 DEF Restart, account, cloud
<1>5. ASSUME NEW s \in 1..MaxSessions, Expire(s) PROVE Typed'
    BY <1>5 DEF Expire, account, tunnel, memory
<1>6. CASE UNCHANGED vars
    BY <1>6 DEF vars, account, cloud, tunnel, memory
<1> QED BY <1>1, <1>2, <1>3, <1>4, <1>5, <1>6

LEMMA InitTyped == PublicAssumption /\ Init => Typed
<1> SUFFICES ASSUME PublicAssumption, Init PROVE Typed
    OBVIOUS
<1>1. ASSUME NEW k \in Kinds \cup {"on"} PROVE NotYet(k) \in Thread
    BY DEF NotYet, Thread, Steps, Tokens, PublicAssumption
<1>2. thread \in [Threads -> Thread] /\ \A t \in Threads : Fits(t, thread[t])
    <2>1. \A t \in Threads : thread[t].pc = "ready"
        BY DEF Init, NotYet
    <2> QED BY <1>1, <2>1 DEF Init, Fits, OnlyTurns, OnlySignOuts, NoSignOuts, HasUrl
<1>3. pass \in Pass /\ pass.pc = "idle"
    BY NoPassTyped DEF Init
<1>4. 1 \in Tokens /\ 0 \in Tokens /\ 0 \in 0..MaxSessions /\ 0 \in 0..MaxFaults
    BY DEF Tokens, PublicAssumption
<1> QED BY <1>2, <1>3, <1>4 DEF Init, Typed, TypeOK, Control, AboutOne

LEMMA TypedNext == PublicAssumption /\ Typed /\ [Next]_vars => Typed'
BY TurnOnTyped, CallTyped, PassTyped, OtherTyped DEF Next, Run

LEMMA AlwaysTyped == Spec => []Typed
BY PublicAssumption, InitTyped, TypedNext, PTL DEF Spec

\* Every variable keeps its type, however turn-ons, turn-offs, deletes,
\* sign-outs, passes and restarts interleave: no record without a session, no
\* lock held by nobody, no pass about a project that is not one.
THEOREM TypeCorrect == Spec => []TypeOK
<1>1. Typed => TypeOK
    BY DEF Typed
<1> QED BY <1>1, AlwaysTyped, PTL

-----------------------------------------------------------------------------
\* What a step of one call may do to the attempts: it drops some, or makes one
\* its own.
Resting == {"ready", "asked", "done"}

OthersStay(t) == \A u \in Threads \ {t} : thread'[u] = thread[u]

OnlyDrops == \A p \in Projects : enabling'[p] \in {enabling[p], None}

Shape(t) ==
    /\ OthersStay(t)
    /\ \/ OnlyDrops /\ \A p \in Projects : enabling'[p] # t
       \/ OnlyDrops /\ thread'[t].pc \notin Resting /\ thread'[t].project = Of(t)
       \/ /\ thread'[t].pc = "post" /\ thread'[t].project = Of(t)
          /\ enabling' = [enabling EXCEPT ![Of(t)] = t]

LEMMA GotoMoves ==
    ASSUME Typed, NEW t \in Threads, NEW pc \in Steps, Goto(t, pc)
    PROVE  /\ OthersStay(t) /\ thread'[t].pc = pc
           /\ pc # "done" => thread'[t].project = Of(t)
<1>1. thread[t] \in Thread /\ thread \in [Threads -> Thread]
    BY DEF Typed, TypeOK
<1>2. CASE pc # "done"
    BY <1>1, <1>2 DEF Goto, OthersStay, Of, Thread
<1>3. CASE pc = "done"
    <2>1. Over(t).pc = "done"
        BY DEF Over, NotYet
    <2> QED BY <1>1, <1>3, <2>1 DEF Goto, OthersStay
<1> QED BY <1>2, <1>3

\* A call that rests is nobody's attempt, and no attempt is a turn-off's.
LEMMA NoAttempt ==
    ASSUME PublicAssumption, Typed, NoGhostTurnOn, NEW t \in Threads,
           thread[t].pc \in Resting \/ t \notin Turns
    PROVE  \A p \in Projects : enabling[p] # t
BY DEF PublicAssumption, Typed, TypeOK, NoGhostTurnOn, Resting, Threads

LEMMA TurnOnShape ==
    ASSUME PublicAssumption, Typed, NoGhostTurnOn, NEW t \in Threads,
           \/ \E p \in Projects : Enable(t, p)
           \/ Begin(t) \/ Post(t) \/ WriteToken(t) \/ Start(t) \/ Commit(t)
           \/ Undo(t) \/ Finish(t)
    PROVE  Shape(t)
<1>0. thread[t] \in Thread /\ thread \in [Threads -> Thread] /\ Fits(t, thread[t])
    BY DEF Typed, TypeOK, Control
<1>1. ASSUME NEW p \in Projects, Enable(t, p) PROVE Shape(t)
    <2>1. OthersStay(t) /\ thread'[t].pc = "asked" /\ thread[t].pc = "ready"
        BY <1>0, <1>1 DEF Enable, OthersStay, Thread, At
    <2>2. \A q \in Projects : enabling[q] # t
        BY <2>1, NoAttempt DEF Resting
    <2> QED BY <1>1, <2>1, <2>2
            DEF Enable, memory, Shape, OnlyDrops
<1>2. CASE Begin(t)
    <2>0. thread[t].pc = "asked" /\ Of(t) \in Projects
        BY <1>0, <1>2 DEF Begin, At, Of, Fits, OnlyTurns
    <2>1. CASE enabling[Of(t)] = None
        <3>1. Goto(t, "post") /\ "post" \in Steps
            BY <1>2, <2>1 DEF Begin, Steps
        <3> QED BY <1>2, <2>0, <2>1, <3>1, GotoMoves
                DEF Begin, Shape, Resting
    <2>2. CASE enabling[Of(t)] # None
        <3>1. Goto(t, "done") /\ "done" \in Steps
            BY <1>2, <2>2 DEF Begin, Steps
        <3>2. \A q \in Projects : enabling[q] # t
            BY <2>0, NoAttempt DEF Resting
        <3> QED BY <1>2, <2>0, <2>2, <3>1, <3>2, GotoMoves
                DEF Begin, Shape, OnlyDrops
    <2> QED BY <2>1, <2>2
<1>3. ASSUME NEW pc \in {"finish", "fail", "start", "undo", "commit", "stop"},
             Goto(t, pc), enabling' = enabling
      PROVE  Shape(t)
    <2>1. pc \in Steps
        BY DEF Steps
    <2> QED BY <1>3, <2>1, GotoMoves
            DEF Shape, OnlyDrops, Resting
<1>4. CASE Post(t)
    <2>1. enabling' = enabling
        BY <1>4 DEF Post, PostOr, memory
    <2>2. CASE \E pc \in {"finish", "fail"} : Goto(t, pc)
        BY <1>3, <2>1, <2>2
    <2>3. CASE \E credentials \in {pairing, 0} :
                 thread' = [thread EXCEPT ![t].pc = "write",
                               ![t].session = service'.session,
                               ![t].token = credentials]
        <3>1. OthersStay(t) /\ thread'[t].pc = "write" /\ thread'[t].project = Of(t)
            BY <1>0, <2>3 DEF OthersStay, Of, Thread
        <3> QED BY <2>1, <3>1
                DEF Shape, OnlyDrops, Resting
    <2> QED BY <1>4, <2>2, <2>3 DEF Post, PostOr
<1>5. CASE WriteToken(t)
    <2>1. enabling' = enabling
        BY <1>5 DEF WriteToken, memory
    <2>2. CASE \E pc \in {"start", "undo"} : Goto(t, pc)
        BY <1>3, <2>1, <2>2
    <2>3. CASE \E pc \in {"start", "recreate"} :
                  thread' = [thread EXCEPT ![t].token = 0, ![t].pc = pc]
        <3>1. /\ OthersStay(t) /\ thread'[t].pc \in {"start", "recreate"}
              /\ thread'[t].project = Of(t)
            BY <1>0, <2>3 DEF OthersStay, Of, Thread
        <3> QED BY <2>1, <3>1
                DEF Shape, OnlyDrops, Resting
    <2> QED BY <1>5, <2>2, <2>3 DEF WriteToken
<1>6. CASE Start(t) BY <1>3, <1>6 DEF Start, memory
<1>7. CASE Commit(t) BY <1>3, <1>7 DEF Commit, CommitIf
<1>8. CASE Undo(t) BY <1>3, <1>8 DEF Undo, memory
<1>9. CASE Finish(t)
    <2>0. /\ thread[t].pc \in {"fail", "finish"} /\ Of(t) \in Projects
          /\ Goto(t, "done") /\ "done" \in Steps
        BY <1>0, <1>9 DEF Finish, FinishIf, Of, Fits, OnlyTurns, Steps
    <2>1. \A p \in Projects : enabling[p] = t => p = Of(t)
        BY DEF NoGhostTurnOn, PublicAssumption
    <2>2. OnlyDrops /\ \A p \in Projects : enabling'[p] # t
        BY <1>9, <2>0, <2>1 DEF Finish, FinishIf, OnlyDrops, Typed, TypeOK, PublicAssumption
    <2> QED BY <2>0, <2>2, GotoMoves DEF Shape
<1> QED BY <1>1, <1>2, <1>4, <1>5, <1>6, <1>7, <1>8, <1>9

LEMMA CallShape ==
    ASSUME PublicAssumption, Typed, NoGhostTurnOn, NEW t \in Threads,
           \/ \E p \in Projects : Disable(t, p)
           \/ StopUnlessNeeded(t) \/ Halt(t) \/ DropToken(t) \/ Release(t)
           \/ Remember(t) \/ Unregister(t)
           \/ SignOut(t) \/ ReleaseAll(t) \/ Logout(t) \/ Clear(t)
    PROVE  Shape(t)
<1>0. thread[t] \in Thread /\ thread \in [Threads -> Thread] /\ Fits(t, thread[t])
    BY DEF Typed, TypeOK, Control
<1>1. ASSUME NEW pc \in Steps \ {"done"}, pc \notin Resting, Goto(t, pc),
             enabling' = enabling
      PROVE  Shape(t)
    BY <1>1, GotoMoves DEF Shape, OnlyDrops
<1>2. ASSUME t \notin Turns, OthersStay(t), OnlyDrops PROVE Shape(t)
    <2>1. \A p \in Projects : enabling[p] # t
        BY <1>2, NoAttempt
    <2> QED BY <1>2, <2>1 DEF Shape, OnlyDrops, PublicAssumption
<1>3. CASE StopUnlessNeeded(t) \/ Halt(t)
    <2>1. PICK pc \in {"release", "halt", "drop"} : Goto(t, pc)
        BY <1>3 DEF StopUnlessNeeded, Halt
    <2>2. pc \in Steps \ {"done"} /\ pc \notin Resting /\ enabling' = enabling
        BY <1>3 DEF Steps, Resting, StopUnlessNeeded, Halt, memory
    <2> QED BY <1>1, <2>1, <2>2
<1>4. CASE DropToken(t) \/ Release(t) \/ Remember(t)
    <2>0. enabling' = enabling
        BY <1>4 DEF DropToken, Release, Remember, memory
    <2>1. PICK pc \in {"release", "fail", "unregister", "done", "remember"} :
              Goto(t, pc) /\ (t \in Turns => pc \in {"release", "fail"})
        BY <1>0, <1>4 DEF DropToken, Release, Remember, After, Fits
    <2>2. pc \in Steps
        BY DEF Steps
    <2>3. OthersStay(t) /\ OnlyDrops
        BY <2>0, <2>1, <2>2, GotoMoves DEF OnlyDrops
    <2> QED BY <1>1, <1>2, <2>0, <2>1, <2>2, <2>3 DEF Resting
<1>5. CASE Unregister(t)
    <2>0. /\ enabling' = enabling /\ thread[t].pc = "unregister"
          /\ Goto(t, "done") /\ "done" \in Steps
        BY <1>5 DEF Unregister, At, memory, Steps
    <2>1. t \notin Turns
        BY <1>0, <2>0 DEF Fits
    <2> QED BY <1>2, <2>0, <2>1, GotoMoves DEF OnlyDrops
<1>6. ASSUME NEW p \in Projects, Disable(t, p) PROVE Shape(t)
    <2>0. thread[t].kind \in {"off", "delete"} /\ OnlyDrops
        BY <1>6 DEF Disable, OnlyDrops, Typed, TypeOK
    <2>1. t \notin Turns
        BY <1>0, <2>0 DEF Fits
    <2>2. OthersStay(t)
        BY <1>0, <1>6 DEF Disable, OthersStay
    <2> QED BY <1>2, <2>0, <2>1, <2>2
<1>7. CASE SignOut(t) \/ ReleaseAll(t) \/ Logout(t) \/ Clear(t)
    <2>1. thread[t].kind = "sign_out" /\ t \notin Turns
        BY <1>0, <1>7
           DEF SignOut, ReleaseAll, Logout, Clear, At, Fits, OnlySignOuts
    <2>2. OnlyDrops
        BY <1>7 DEF SignOut, ReleaseAll, Logout, Clear, memory, OnlyDrops
    <2>3. OthersStay(t)
        <3>1. CASE SignOut(t)
            BY <1>0, <3>1 DEF SignOut, OthersStay
        <3>2. CASE ReleaseAll(t) /\ thread[t].urls # {}
            BY <1>0, <3>2 DEF ReleaseAll, OthersStay
        <3>3. CASE \E pc \in {"logout", "clear", "stop"} : Goto(t, pc)
            <4>1. {"logout", "clear", "stop"} \subseteq Steps
                BY DEF Steps
            <4> QED BY <3>3, <4>1, GotoMoves
        <3> QED BY <1>7, <3>1, <3>2, <3>3 DEF ReleaseAll, Logout, Clear
    <2> QED BY <1>2, <2>1, <2>2, <2>3
<1> QED BY <1>3, <1>4, <1>5, <1>6, <1>7

-----------------------------------------------------------------------------
LEMMA ShapeKeepsNoGhost ==
    ASSUME PublicAssumption, Typed, NoGhostTurnOn, NEW t \in Threads, Shape(t), Typed'
    PROVE  NoGhostTurnOn'
<1> SUFFICES ASSUME NEW p \in Projects, enabling'[p] # None
             PROVE  /\ thread'[enabling'[p]].project = p
                    /\ thread'[enabling'[p]].pc \notin Resting
    BY DEF NoGhostTurnOn, Of, Resting
<1>0. enabling'[p] \in Threads /\ enabling \in [Projects -> Turns \cup {None}]
    BY DEF Typed, TypeOK, Threads
<1>1. CASE enabling'[p] # t
    <2>1. enabling'[p] = enabling[p]
        BY <1>0, <1>1 DEF Shape, OnlyDrops
    <2>2. thread'[enabling[p]] = thread[enabling[p]]
        BY <1>0, <1>1, <2>1 DEF Shape, OthersStay
    <2> QED BY <2>1, <2>2 DEF NoGhostTurnOn, Of, Resting
<1>2. CASE enabling'[p] = t
    <2>1. thread'[t].pc \notin Resting /\ thread'[t].project = Of(t)
        BY <1>2 DEF Shape, Resting
    <2>2. enabling[p] = t \/ p = Of(t)
        BY <1>0, <1>2 DEF Shape, OnlyDrops
    <2>3. Of(t) = p
        BY <1>2, <2>2 DEF NoGhostTurnOn
    <2> QED BY <1>2, <2>1, <2>3
<1> QED BY <1>1, <1>2

LEMMA ThreadsShape ==
    ASSUME PublicAssumption, Typed, NoGhostTurnOn, NEW t \in Threads,
           \/ Run(t) \/ SignOut(t)
           \/ \E p \in Projects : Enable(t, p) \/ Disable(t, p)
    PROVE  Shape(t) /\ pass' = pass
<1>1. Shape(t)
    BY TurnOnShape, CallShape DEF Run
<1>2. pass' = pass
    BY DEF Run, SignOut, Enable, Disable, Begin, Post, PostOr, WriteToken, Start,
           Commit, CommitIf, Undo, Finish, FinishIf, StopUnlessNeeded,
           Halt, DropToken, Release, Remember, Unregister,
           ReleaseAll, Logout, Clear
<1> QED BY <1>1, <1>2

\* Everything else leaves the calls and their attempts alone.
Others ==
    \/ Reconcile \/ SignIn \/ TakeDown
    \/ \E p \in Projects : SyncCreate(p) \/ SyncDelete(p)
    \/ \E s \in 1..MaxSessions : Expire(s)
    \/ UNCHANGED vars

LEMMA OthersLeaveCalls == Others => UNCHANGED <<thread, enabling>>
BY DEF Others, Reconcile, StartPass, StartPassWith, RetryRelease, Snapshot, Ask, AskIf,
       Discard, Resolve, Look, LookWith, Forget, Adopt, EndRemember, LookAtClient, ReconcileClient, ReconcileClientIf, PassHalts,
       PassDrops, EndUrl, EndAtService, SignIn, TakeDown, SyncCreate, SyncDelete,
       Expire, memory, vars

LEMMA NextSplits ==
    ASSUME [Next]_vars
    PROVE  \/ \E t \in Threads : \/ Run(t) \/ SignOut(t)
                               \/ \E p \in Projects : Enable(t, p) \/ Disable(t, p)
           \/ Restart
           \/ Others
BY DEF Next, Others

LEMMA NoGhostNext ==
    ASSUME PublicAssumption, Typed, Typed', NoGhostTurnOn, [Next]_vars
    PROVE  NoGhostTurnOn'
<1>1. ASSUME NEW t \in Threads,
             \/ Run(t) \/ SignOut(t)
             \/ \E p \in Projects : Enable(t, p) \/ Disable(t, p)
      PROVE  NoGhostTurnOn'
    BY <1>1, ThreadsShape, ShapeKeepsNoGhost
<1>2. CASE Restart
    BY <1>2 DEF Restart, NoGhostTurnOn
<1>3. CASE Others
    BY <1>3, OthersLeaveCalls DEF NoGhostTurnOn, Of
<1> QED BY <1>1, <1>2, <1>3, NextSplits

\* No crash, sign-out, turn-off or delete leaves a project "enabling" with no
\* turn-on at work for it, which would answer "busy" for good.
THEOREM NoGhost == Spec => []NoGhostTurnOn
<1>1. Init => NoGhostTurnOn
    BY DEF Init, NoGhostTurnOn
<1> QED BY <1>1, PublicAssumption, AlwaysTyped, NoGhostNext, PTL DEF Spec

-----------------------------------------------------------------------------
\* Only a turn-on that is still wanted and a pass ever put a URL on.
LEMMA WhoTurnsOn ==
    ASSUME Typed, [Next]_vars, NEW p \in Projects, on'[p] # on[p], on'[p] # None
    PROVE  \/ Adopt /\ on'[p] = [by |-> "pass", session |-> pass.answer.session]
              /\ pass.answer # None
           \/ \E t \in Threads : Commit(t) /\ enabling[p] = t /\ on'[p].by = t
                               /\ on'[p].session = thread[t].session
<1>0. on \in [Projects -> Records \cup {None}]
    BY DEF Typed, TypeOK
<1>1. ASSUME NEW t \in Threads,
             \/ Run(t) \/ SignOut(t)
             \/ \E q \in Projects : Enable(t, q) \/ Disable(t, q)
      PROVE  Commit(t) /\ enabling[p] = t /\ on'[p].by = t
             /\ on'[p].session = thread[t].session
    <2>1. CASE Commit(t)
        BY <1>0, <2>1 DEF Commit, CommitIf
    <2>2. CASE ~Commit(t)
        BY <1>0, <1>1, <2>2
           DEF Run, SignOut, Enable, Disable, Begin, Post, PostOr, WriteToken, Start,
               Undo, Finish, FinishIf, StopUnlessNeeded, Halt,
               DropToken, Release, Remember, Unregister, ReleaseAll, Logout, Clear, memory
    <2> QED BY <2>1, <2>2
<1>2. CASE Restart
    BY <1>2 DEF Restart
<1>3. CASE Adopt
    BY <1>0, <1>3 DEF Adopt, Typed, TypeOK, Control
<1>4. CASE Others /\ ~Adopt
    BY <1>0, <1>4
       DEF Others, Reconcile, StartPass, StartPassWith, RetryRelease, Snapshot, Ask, AskIf,
           Discard, Resolve, Look, LookWith, Forget, ForgetRecord, EndRemember,
           LookAtClient, ReconcileClient, ReconcileClientIf, PassHalts, PassDrops,
           EndUrl, EndAtService, SignIn, TakeDown, SyncCreate, SyncDelete, Expire,
           memory, vars
<1> QED BY <1>1, <1>2, <1>3, <1>4, NextSplits

-----------------------------------------------------------------------------
\* The service numbers its URLs; what was remembered is older than a new one.
LEMMA ServiceMoves ==
    ASSUME PublicAssumption, Typed, [Next]_vars
    PROVE  \/ sessions' = sessions /\ service' \in {service, None}
           \/ /\ sessions' = sessions + 1
              /\ \E p \in Projects : service' = [project |-> p, session |-> sessions + 1]
<1>1. ASSUME NEW t \in Threads, Post(t)
      PROVE  \/ sessions' = sessions /\ service' \in {service, None}
             \/ /\ sessions' = sessions + 1
                /\ \E p \in Projects : service' = [project |-> p, session |-> sessions + 1]
    <2>1. Of(t) \in Projects
        BY <1>1 DEF Post, PostOr, At, Of, Typed, TypeOK, Control, Fits, OnlyTurns,
              PublicAssumption, Threads
    <2> QED BY <1>1, <2>1 DEF Post, PostOr, MakeUrl
<1>2. ASSUME NEW t \in Threads, ~Post(t),
             \/ Run(t) \/ SignOut(t)
             \/ \E q \in Projects : Enable(t, q) \/ Disable(t, q)
      PROVE  sessions' = sessions /\ service' \in {service, None}
    BY <1>2
       DEF Run, SignOut, Enable, Disable, Begin, WriteToken, Start, Commit, CommitIf,
           Undo, Finish, FinishIf, StopUnlessNeeded, Halt,
           DropToken, Release, ReleaseAt, Remember, Unregister, ReleaseAll, Logout,
           Clear, cloud
<1>3. CASE Restart
    BY <1>3 DEF Restart, cloud
<1>4. CASE Others
    BY <1>4
       DEF Others, Reconcile, StartPass, StartPassWith, RetryRelease, ReleaseAt,
           Snapshot, Ask, AskIf, Discard, Resolve, Look, LookWith, Forget, Adopt, EndRemember, LookAtClient, ReconcileClient,
           ReconcileClientIf, PassHalts, PassDrops, EndUrl, EndAtService, SignIn,
           TakeDown, SyncCreate, SyncDelete, Expire, cloud, vars
<1> QED BY <1>1, <1>2, <1>3, <1>4, NextSplits

\* What a call knows of a URL comes from the service's answer to it.
LEMMA ThreadSessions ==
    ASSUME PublicAssumption, Typed, [Next]_vars, NEW t \in Threads
    PROVE  \/ thread'[t].session \in {thread[t].session, 0}
           \/ service' # None /\ thread'[t].session = service'.session
<1>0. /\ thread \in [Threads -> Thread] /\ \A u \in Threads : thread[u] \in Thread
      /\ \A u \in Threads : Over(u).session = 0
    BY OverFits DEF Typed, TypeOK
<1>1. ASSUME NEW u \in Threads, NEW pc, Goto(u, pc)
      PROVE  thread'[t].session \in {thread[t].session, 0}
    BY <1>0, <1>1 DEF Goto, Thread
<1>2. ASSUME NEW u \in Threads, Post(u), ~\E pc \in Steps : Goto(u, pc)
      PROVE  \/ thread'[t].session \in {thread[t].session, 0}
             \/ service' # None /\ thread'[t].session = service'.session
    <2>1. PICK credentials \in {pairing, 0} :
             /\ MakeUrl(Of(u))
             /\ thread' = [thread EXCEPT ![u].pc = "write",
                              ![u].session = service'.session,
                              ![u].token = credentials]
        BY <1>2 DEF Post, PostOr, Steps
    <2>2. Of(u) \in Projects
        BY <1>2 DEF Post, PostOr, At, Of, Typed, TypeOK, Control, Fits, OnlyTurns,
              PublicAssumption, Threads
    <2>3. service' # None
        BY <2>1, <2>2, MakeUrlTyped DEF PublicAssumption
    <2> QED BY <1>0, <2>1, <2>3 DEF Thread
<1>3. ASSUME NEW u \in Threads, ~Post(u),
             \/ Run(u) \/ SignOut(u)
             \/ \E q \in Projects : Enable(u, q) \/ Disable(u, q)
      PROVE  thread'[t].session \in {thread[t].session, 0}
    <2>1. CASE \E pc : Goto(u, pc)
        BY <1>1, <2>1
    <2>2. CASE \E q \in Projects : Enable(u, q) \/ Disable(u, q)
        <3>1. CASE \E q \in Projects : Enable(u, q)
            BY <1>0, <3>1 DEF Enable, Thread
        <3>2. ASSUME NEW q \in Projects, Disable(u, q)
              PROVE  \/ thread' = [thread EXCEPT ![u] = Over(u)]
                     \/ \E pc : thread' = [thread EXCEPT ![u] =
                                            [@ EXCEPT !.project = q, !.pc = pc]]
            BY <3>2 DEF Disable
        <3>3. ASSUME NEW q, NEW pc, thread' = [thread EXCEPT ![u] =
                                            [@ EXCEPT !.project = q, !.pc = pc]]
              PROVE  thread'[t].session \in {thread[t].session, 0}
            BY <1>0, <3>3 DEF Thread
        <3>4. ASSUME thread' = [thread EXCEPT ![u] = Over(u)]
              PROVE  thread'[t].session \in {thread[t].session, 0}
            BY <1>0, <3>4
        <3> QED BY <2>2, <3>1, <3>2, <3>3, <3>4
    <2>3. CASE SignOut(u) \/ WriteToken(u) \/ ReleaseAll(u)
        BY <1>0, <1>1, <2>3 DEF SignOut, WriteToken, ReleaseAll, Thread
    <2> QED BY <1>3, <2>1, <2>2, <2>3
            DEF Run, Begin, Start, Commit, CommitIf, Undo, Finish, FinishIf,
                StopUnlessNeeded, Halt, DropToken, Release,
                Remember, Unregister, Logout, Clear
<1>4. CASE Restart
    BY <1>0, <1>4 DEF Restart
<1>5. CASE Others
    BY <1>5, OthersLeaveCalls
<1> QED BY <1>1, <1>2, <1>3, <1>4, <1>5, NextSplits

\* What a pass has looked up: its snapshot of the records, and the answer.  The
\* answer comes with Ask, loses what is no project here with Resolve and what is
\* being released with Look; from then on the list of what goes only shrinks.
PassGoes ==
    /\ \A p \in Projects : pass'.before[p] \in {pass.before[p], on[p], None}
    /\ pass'.answer \in {pass.answer, service, None}
    /\ pass'.pc = "resolve" => pass' = pass \/ Ask
    /\ pass'.pc = "look" => pass' = pass \/ Resolve
    /\ pass'.pc = "forget" =>
          \/ Look
          \/ /\ pass.pc = "forget" /\ pass'.before = pass.before
             /\ pass'.urls \subseteq pass.urls

\* A pass that goes on to a step that has nothing to do with the answer.
LEMMA PassGoesOn ==
    ASSUME pass'.pc \notin {"resolve", "look", "forget"},
           \A p \in Projects : pass'.before[p] \in {pass.before[p], on[p], None},
           pass'.answer \in {pass.answer, None}
    PROVE  PassGoes
BY DEF PassGoes

LEMMA PassLooks ==
    ASSUME PublicAssumption, Typed, [Next]_vars
    PROVE  PassGoes
<1>0. /\ pass \in Pass /\ NoPass \in Pass /\ NoPass.pc = "idle" /\ NoPass.answer = None
      /\ \A p \in Projects : NoPass.before[p] = None
      /\ on \in [Projects -> Records \cup {None}]
    BY NoPassTyped DEF Typed, TypeOK, NoPass
<1>1. CASE pass' = pass BY <1>0, <1>1 DEF PassGoes
<1>2. CASE pass' = NoPass BY <1>0, <1>2, PassGoesOn
<1>3. CASE StartPass BY <1>0, <1>3, PassGoesOn DEF StartPass, StartPassWith, Pass
<1>4. CASE RetryRelease
    <2>1. CASE pass' = [pass EXCEPT !.pc = "snapshot"]
        BY <1>0, <2>1, PassGoesOn DEF Pass
    <2>2. ASSUME NEW p \in pass.urls,
                 \/ pass' = [pass EXCEPT !.pc = "discard", !.current = p, !.urls = @ \ {p}]
                 \/ pass' = [pass EXCEPT !.urls = @ \ {p}]
          PROVE  PassGoes
        <3>1. pass.pc = "retry"
            BY <1>4 DEF RetryRelease
        <3>2. pass'.pc \in {"discard", "retry"} /\ pass'.before = pass.before
              /\ pass'.answer = pass.answer
            <4>1. CASE pass' = [pass EXCEPT !.pc = "discard", !.current = p,
                                            !.urls = @ \ {p}]
                BY <1>0, <4>1 DEF Pass
            <4>2. CASE pass' = [pass EXCEPT !.urls = @ \ {p}]
                BY <1>0, <3>1, <4>2 DEF Pass
            <4> QED BY <2>2, <4>1, <4>2
        <3> QED BY <3>2, PassGoesOn
    <2> QED BY <1>4, <2>1, <2>2 DEF RetryRelease, PassTo
<1>5. CASE Discard
    <2>1. pass'.pc = "retry" /\ pass'.before = pass.before /\ pass'.answer = pass.answer
        BY <1>0, <1>5 DEF Discard, Pass
    <2> QED BY <2>1, PassGoesOn
<1>6. CASE Snapshot
    <2>1. pass'.pc = "ask" /\ pass'.before = on /\ pass'.answer = pass.answer
        BY <1>0, <1>6 DEF Snapshot, Pass
    <2> QED BY <2>1, PassGoesOn
<1>7. CASE Ask
    <2>1. CASE pass' = [pass EXCEPT !.pc = "resolve", !.answer = service]
        <3>1. pass'.pc = "resolve" /\ pass'.before = pass.before /\ pass'.answer = service
            BY <1>0, <2>1 DEF Pass
        <3> QED BY <1>7, <3>1 DEF PassGoes
    <2> QED BY <1>2, <1>7, <2>1 DEF Ask, AskIf
<1>8. CASE Resolve
    <2>1. PICK a \in {pass.answer, None} : pass' = [pass EXCEPT !.pc = "look", !.answer = a]
        BY <1>8 DEF Resolve
    <2>2. pass'.pc = "look" /\ pass'.before = pass.before /\ pass'.answer = a
        BY <1>0, <2>1 DEF Pass
    <2> QED BY <1>8, <2>1, <2>2 DEF PassGoes
<1>9. CASE Look
    <2>1. /\ pass'.pc = "forget" /\ pass'.before = pass.before
          /\ pass'.answer \in {pass.answer, None}
        BY <1>0, <1>9, LookMakes DEF Active
    <2> QED BY <1>9, <2>1 DEF PassGoes
<1>10. CASE Forget
    <2>1. CASE pass' = [NoPass EXCEPT !.pc = "client"]
        <3>1. pass'.pc = "client" /\ pass'.before = NoPass.before /\ pass'.answer = None
            BY <1>0, <2>1 DEF Pass
        <3> QED BY <1>0, <3>1, PassGoesOn
    <2>2. CASE pass' = [pass EXCEPT !.pc = "adopt"]
        <3>1. pass'.pc = "adopt" /\ pass'.before = pass.before /\ pass'.answer = pass.answer
            BY <1>0, <2>2 DEF Pass
        <3> QED BY <3>1, PassGoesOn
    <2>3. ASSUME NEW p \in pass.urls, pass' = [pass EXCEPT !.urls = @ \ {p}]
          PROVE  PassGoes
        <3>1. /\ pass.pc = "forget" /\ pass'.pc = "forget" /\ pass'.before = pass.before
              /\ pass'.answer = pass.answer /\ pass'.urls \subseteq pass.urls
            BY <1>0, <1>10, <2>3 DEF Pass, Forget
        <3> QED BY <1>10, <3>1 DEF PassGoes
    <2> QED BY <1>10, <2>1, <2>2, <2>3 DEF Forget, PassTo
<1>11. CASE Adopt
    <2>1. CASE pass' = [NoPass EXCEPT !.pc = "client"]
        <3>1. pass'.pc = "client" /\ pass'.before = NoPass.before /\ pass'.answer = None
            BY <1>0, <2>1 DEF Pass
        <3> QED BY <1>0, <3>1, PassGoesOn
    <2> QED BY <1>2, <1>11, <2>1 DEF Adopt
<1>12. CASE LookAtClient
    <2>1. CASE pass' # NoPass
        <3> DEFINE live == {p \in Projects : Live(p)}
                   before == [p \in Projects |-> IF p \in live THEN on[p] ELSE None]
        <3>1. pass' = [NoPass EXCEPT !.pc = "lock", !.urls = live, !.before = before]
            BY <1>12, <2>1 DEF LookAtClient
        <3>2. \A p \in Projects : before[p] \in {on[p], None}
            OBVIOUS
        <3> HIDE DEF live, before
        <3>3. pass'.pc = "lock" /\ pass'.before = before /\ pass'.answer = None
            BY <1>0, <3>1 DEF Pass
        <3> QED BY <3>2, <3>3, PassGoesOn
    <2> QED BY <1>2, <2>1
<1>13. CASE \E pc \in {"halt", "end", "drop"} : pass' = [pass EXCEPT !.pc = pc]
    BY <1>0, <1>13, PassGoesOn DEF Pass
<1>14. CASE ReconcileClient
    BY <1>1, <1>2, <1>13, <1>14 DEF ReconcileClient, ReconcileClientIf, PassTo
<1>15. CASE PassHalts BY <1>13, <1>15 DEF PassHalts, PassTo
<1>16. CASE PassDrops BY <1>2, <1>16 DEF PassDrops
<1>17. CASE EndUrl
    <2>1. ASSUME NEW p \in pass.urls,
                 pass' = [pass EXCEPT !.pc = "end_release", !.current = p,
                                      !.urls = @ \ {p}]
          PROVE  PassGoes
        <3>1. pass'.pc = "end_release" /\ pass'.before = pass.before
              /\ pass'.answer = pass.answer
            BY <1>0, <2>1 DEF Pass
        <3> QED BY <3>1, PassGoesOn
    <2> QED BY <1>2, <1>17, <2>1 DEF EndUrl
<1>18. CASE EndAtService
    <2>1. /\ pass'.pc \in {"end", "end_remember"} /\ pass'.before = pass.before
          /\ pass'.answer = pass.answer
        BY <1>0, <1>18 DEF EndAtService, Pass
    <2> QED BY <2>1, PassGoesOn
<1>19. CASE EndRemember
    <2>1. pass'.pc = "end" /\ pass'.before = pass.before /\ pass'.answer = pass.answer
        BY <1>0, <1>19 DEF EndRemember, Pass
    <2> QED BY <2>1, PassGoesOn
<1>20. ASSUME NEW t \in Threads,
             \/ Run(t) \/ SignOut(t)
             \/ \E p \in Projects : Enable(t, p) \/ Disable(t, p)
       PROVE  pass' = pass
    BY <1>20
       DEF Run, SignOut, Enable, Disable, Begin, Post, PostOr, WriteToken, Start,
           Commit, CommitIf, Undo, Finish, FinishIf, StopUnlessNeeded,
           Halt, DropToken, Release, Remember, Unregister, ReleaseAll, Logout, Clear
<1>21. CASE Restart BY <1>2, <1>21 DEF Restart
<1>22. CASE Others
    BY <1>1, <1>3, <1>4, <1>5, <1>6, <1>7, <1>8, <1>9, <1>10, <1>11, <1>12, <1>14,
       <1>15, <1>16, <1>17, <1>18, <1>19, <1>22
    DEF Others, Reconcile, SignIn, TakeDown, SyncCreate, SyncDelete, Expire, vars
<1> QED BY <1>1, <1>20, <1>21, <1>22, NextSplits

LEMMA SessionsMadeNext ==
    ASSUME PublicAssumption, Typed, Typed', SessionsMade, [Next]_vars
    PROVE  SessionsMade'
<1>0. /\ sessions \in Nat /\ sessions' \in Nat /\ sessions <= sessions'
      /\ \A t \in Threads : thread[t].session \in Nat
    <2>1. sessions \in Nat /\ sessions' \in Nat
        BY DEF Typed, TypeOK, PublicAssumption
    <2>2. \A t \in Threads : thread[t].session \in Nat
        BY DEF Typed, TypeOK, Thread, PublicAssumption
    <2> QED BY <2>1, <2>2, ServiceMoves
<1>1. service' # None => service'.session <= sessions'
    BY <1>0, ServiceMoves DEF SessionsMade
<1>2. ASSUME NEW p \in Projects, on'[p] # None PROVE on'[p].session <= sessions'
    <2>1. CASE on'[p] = on[p]
        <3>1. on[p].session \in Nat
            BY <1>2, <2>1 DEF Typed, TypeOK, Records, PublicAssumption
        <3> QED BY <1>0, <1>2, <2>1, <3>1 DEF SessionsMade
    <2>2. CASE \E t \in Threads : on'[p].session = thread[t].session
        BY <1>0, <2>2 DEF SessionsMade
    <2>3. CASE pass.answer # None /\ on'[p].session = pass.answer.session
        <3>1. pass.answer.session \in Nat
            BY <2>3 DEF Typed, TypeOK, Pass, Urls, PublicAssumption
        <3> QED BY <1>0, <2>3, <3>1 DEF SessionsMade
    <2> QED BY <1>2, <2>1, <2>2, <2>3, WhoTurnsOn
<1>3. ASSUME NEW t \in Threads PROVE thread'[t].session <= sessions'
    BY <1>0, <1>1, ThreadSessions DEF SessionsMade
<1>4. ASSUME NEW p \in Projects, pass'.before[p] # None
      PROVE  pass'.before[p].session <= sessions'
    <2>1. pass'.before[p] \in {pass.before[p], on[p]}
        BY <1>4, PassLooks DEF PassGoes
    <2>2. pass'.before[p].session \in Nat
        BY <1>4 DEF Typed, TypeOK, Pass, Records, PublicAssumption
    <2> QED BY <1>0, <1>4, <2>1, <2>2 DEF SessionsMade
<1>5. ASSUME pass'.answer # None PROVE pass'.answer.session <= sessions'
    <2>1. pass'.answer \in {pass.answer, service}
        BY <1>5, PassLooks DEF PassGoes
    <2>2. pass'.answer.session \in Nat
        BY <1>5 DEF Typed, TypeOK, Pass, Urls, PublicAssumption
    <2> QED BY <1>0, <1>5, <2>1, <2>2 DEF SessionsMade
<1> QED BY <1>1, <1>2, <1>3, <1>4, <1>5 DEF SessionsMade

LEMMA AlwaysSessionsMade == Spec => []SessionsMade
<1>1. PublicAssumption /\ Init => SessionsMade
    <2>1. ASSUME Init, NEW t \in Threads PROVE thread[t].session = 0
        BY <2>1 DEF Init, NotYet
    <2> QED BY <2>1 DEF Init, SessionsMade, NoPass
<1> QED BY <1>1, PublicAssumption, AlwaysTyped, SessionsMadeNext, PTL DEF Spec

-----------------------------------------------------------------------------
\* While a pass is under way no project is added to the account.
LEMMA MappedShrinks ==
    ASSUME [Next]_vars, pass.pc # "idle"
    PROVE  projects' \cap mapped' \subseteq projects \cap mapped
<1>1. ASSUME NEW t \in Threads,
             \/ Run(t) \/ SignOut(t)
             \/ \E p \in Projects : Enable(t, p) \/ Disable(t, p)
      PROVE  projects' \cap mapped' \subseteq projects \cap mapped
    BY <1>1
       DEF Run, SignOut, Enable, Disable, Begin, Post, PostOr, WriteToken, Start,
           Commit, CommitIf, Undo, Finish, FinishIf, StopUnlessNeeded,
           Halt, DropToken, Release, Remember, Unregister,
           ReleaseAll, Logout, Clear, account
<1>2. CASE Restart
    BY <1>2 DEF Restart, account
<1>3. CASE Others
    BY <1>3
       DEF Others, Reconcile, StartPass, StartPassWith, RetryRelease, Snapshot, Ask,
           AskIf, Discard, Resolve, Look, LookWith, Forget, Adopt, EndRemember,
           LookAtClient, ReconcileClient, ReconcileClientIf, PassHalts,
           PassDrops, EndUrl, EndAtService, SignIn, TakeDown, SyncCreate, SyncDelete,
           Expire, account, vars
<1> QED BY <1>1, <1>2, <1>3, NextSplits

\* A step of a call moves no other call.
LEMMA OnlyOneMoves ==
    ASSUME PublicAssumption, Typed, NEW t \in Threads,
           \/ Run(t) \/ SignOut(t)
           \/ \E p \in Projects : Enable(t, p) \/ Disable(t, p)
    PROVE  OthersStay(t)
<1>0. thread \in [Threads -> Thread]
    BY DEF Typed, TypeOK
<1>1. CASE \E pc : Goto(t, pc)
    BY <1>0, <1>1 DEF Goto, OthersStay
<1>2. CASE \E p \in Projects : Enable(t, p) \/ Disable(t, p)
    BY <1>0, <1>2 DEF Enable, Disable, OthersStay
<1>3. CASE SignOut(t) \/ WriteToken(t) \/ ReleaseAll(t) \/ Post(t)
    BY <1>0, <1>1, <1>3 DEF SignOut, WriteToken, ReleaseAll, Post, PostOr, OthersStay
<1> QED BY <1>1, <1>2, <1>3
        DEF Run, Begin, Start, Commit, CommitIf, Undo, Finish, FinishIf,
            StopUnlessNeeded, Halt, DropToken, Release, Remember, Unregister,
            Logout, Clear

\* A turn-on that has put its URL on has only its end left.
LEMMA FinishedStays ==
    ASSUME PublicAssumption, Typed, [Next]_vars, NEW u \in Turns,
           thread[u].pc \in {"finish", "done"}
    PROVE  thread'[u].pc \in {"finish", "done"}
<1>0. /\ u \in Threads /\ thread \in [Threads -> Thread]
      /\ Over(u).pc = "done" /\ thread[u].kind = "on"
    BY OverFits DEF Typed, TypeOK, Control, Fits, Threads
<1>1. ASSUME NEW t \in Threads, t # u,
             \/ Run(t) \/ SignOut(t)
             \/ \E p \in Projects : Enable(t, p) \/ Disable(t, p)
      PROVE  thread'[u] = thread[u]
    BY <1>0, <1>1, OnlyOneMoves DEF OthersStay
<1>2. ASSUME \/ Run(u) \/ SignOut(u)
             \/ \E p \in Projects : Enable(u, p) \/ Disable(u, p)
      PROVE  thread'[u].pc = "done"
    <2>1. Finish(u)
        BY <1>0, <1>2
           DEF Run, SignOut, Enable, Disable, Begin, Post, PostOr, WriteToken, Start,
               Commit, CommitIf, Undo, StopUnlessNeeded, Halt, DropToken, Release,
               Remember, Unregister, ReleaseAll, Logout, Clear, At
    <2> QED BY <1>0, <2>1 DEF Finish, FinishIf, Goto
<1>3. CASE Restart
    BY <1>0, <1>3 DEF Restart, At
<1>4. CASE Others
    BY <1>4, OthersLeaveCalls
<1> QED BY <1>1, <1>2, <1>3, <1>4, NextSplits

LEMMA CommitEnds ==
    ASSUME PublicAssumption, Typed, NEW t \in Threads, NEW p \in Projects, Commit(t),
           on'[p] # on[p]
    PROVE  thread[t].pc = "commit" /\ thread'[t].pc = "finish" /\ on'[p].by = t
<1>1. "finish" \in Steps
    BY DEF Steps
<1>2. Goto(t, "finish") /\ on' = [on EXCEPT ![Of(t)] = [by |-> t, session |-> thread[t].session]]
    BY DEF Commit, CommitIf
<1> QED BY <1>1, <1>2, GotoMoves DEF Commit, CommitIf, At, Typed, TypeOK

LEMMA MadeOnceNext ==
    ASSUME PublicAssumption, Typed, Typed', MadeOnce, [Next]_vars
    PROVE  MadeOnce'
<1>1. ASSUME NEW p \in Projects, on'[p] # None, on'[p].by \in Turns
      PROVE  thread'[on'[p].by].pc \in {"finish", "done"}
    <2>1. CASE on'[p] = on[p]
        BY <1>1, <2>1, FinishedStays DEF MadeOnce
    <2>2. CASE on'[p] # on[p]
        <3>1. on'[p].by # "pass"
            BY <1>1 DEF PublicAssumption, Threads
        <3>2. PICK t \in Threads : Commit(t) /\ on'[p].by = t
            BY <1>1, <2>2, <3>1, WhoTurnsOn
        <3> QED BY <2>2, <3>2, CommitEnds
    <2> QED BY <2>1, <2>2
<1>2. ASSUME NEW p \in Projects, pass'.before[p] # None, pass'.before[p].by \in Turns
      PROVE  thread'[pass'.before[p].by].pc \in {"finish", "done"}
    <2>1. pass'.before[p] \in {pass.before[p], on[p]}
        BY <1>2, PassLooks DEF PassGoes
    <2> QED BY <1>2, <2>1, FinishedStays DEF MadeOnce
<1> QED BY <1>1, <1>2 DEF MadeOnce

LEMMA AlwaysMadeOnce == Spec => []MadeOnce
<1>1. Init => MadeOnce
    BY DEF Init, NoPass, MadeOnce
<1> QED BY <1>1, PublicAssumption, AlwaysTyped, MadeOnceNext, PTL DEF Spec

\* What was on before and is the service's URL after a step, was so before it.
LEMMA ServiceWas ==
    ASSUME PublicAssumption, Typed, SessionsMade, [Next]_vars, NEW p \in Projects,
           pass.before[p] # None,
           service' = [project |-> p, session |-> pass.before[p].session]
    PROVE  service' = service
<1>1. pass.before[p] \in Records
    BY DEF Typed, TypeOK, Pass
<1>2. pass.before[p].session <= sessions /\ sessions \in Nat
    BY DEF SessionsMade, Typed, TypeOK, PublicAssumption
<1>3. /\ service'.session = pass.before[p].session /\ service' # None
      /\ pass.before[p].session \in Nat
    BY <1>1 DEF Urls, Records, PublicAssumption
<1>4. service'.session # sessions + 1
    BY <1>2, <1>3
<1>5. service' \in {service, None}
    BY <1>4, ServiceMoves
<1> QED BY <1>3, <1>5

\* Nor did a record that is there now come, or a release go, while the pass was
\* forgetting.
LEMMA ForgettingWas ==
    ASSUME PublicAssumption, Typed, MadeOnce, [Next]_vars, NEW p \in Projects,
           pass.pc = "forget", pass'.pc = "forget", pass'.before = pass.before,
           on'[p] # None, on'[p] = pass.before[p], p \notin releasing'
    PROVE  on[p] = pass.before[p] /\ p \notin releasing
<1>1. on'[p] = on[p]
    <2>1. SUFFICES ASSUME on'[p] # on[p] PROVE FALSE
        OBVIOUS
    <2>2. ~Adopt
        BY DEF Adopt
    <2>3. PICK t \in Threads : Commit(t) /\ on'[p].by = t
        BY <2>1, <2>2, WhoTurnsOn
    <2>4. thread[t].pc = "commit" /\ t \in Turns
        BY <2>1, <2>3, CommitEnds DEF Typed, TypeOK, Control, Fits, OnlyTurns
    <2>5. thread[t].pc \in {"finish", "done"}
        BY <2>3, <2>4 DEF MadeOnce
    <2> QED BY <2>4, <2>5
<1>2. releasing \subseteq releasing'
    <2>1. ASSUME NEW t \in Threads, Run(t) \/ SignOut(t)
                 \/ \E q \in Projects : Enable(t, q) \/ Disable(t, q)
          PROVE  releasing \subseteq releasing'
        <3>1. CASE Clear(t) BY <3>1 DEF Clear
        <3>2. CASE ~Clear(t)
            BY <2>1, <3>2
               DEF Run, SignOut, Enable, Disable, Begin, Post, PostOr, WriteToken,
                   Start, Commit, CommitIf, Undo, Finish, FinishIf, StopUnlessNeeded,
                   Halt, DropToken, Release, Remember, Unregister, ReleaseAll, Logout,
                   memory
        <3> QED BY <3>1, <3>2
    <2>2. CASE Restart BY <2>2 DEF Restart
    <2>3. CASE Others
        BY <2>3
           DEF Others, Reconcile, StartPass, StartPassWith, RetryRelease, Discard,
               Snapshot, Ask, AskIf, Resolve, Look, LookWith, Forget, Adopt,
               LookAtClient, ReconcileClient, ReconcileClientIf, PassHalts, PassDrops,
               EndUrl, EndAtService, EndRemember, SignIn, TakeDown, SyncCreate,
               SyncDelete, Expire, memory, vars
    <2> QED BY <2>1, <2>2, <2>3, NextSplits
<1> QED BY <1>1, <1>2

LEMMA AnswerIsNewNext ==
    ASSUME PublicAssumption, Typed, Typed', SessionsMade, MadeOnce, AnswerIsNew,
           [Next]_vars
    PROVE  AnswerIsNew'
<1> SUFFICES ASSUME NEW p \in projects' \cap mapped', pass'.before[p] # None,
                    service' = [project |-> p, session |-> pass'.before[p].session]
             PROVE  /\ pass'.pc \in {"resolve", "look"} => pass'.answer = service'
                    /\ (/\ pass'.pc = "forget" /\ on'[p] = pass'.before[p]
                        /\ p \notin releasing')
                           => p \notin pass'.urls
    BY DEF AnswerIsNew, Answered, Spared
<1>0. /\ p \in Projects /\ pass'.before[p] \in Records /\ pass \in Pass
      /\ service' \in Urls /\ service'.project = p /\ service' # None
    BY DEF Typed, TypeOK, Pass, Urls, Records, PublicAssumption
<1>1. ASSUME pass'.pc \in {"resolve", "look"}, pass' = pass
      PROVE  pass'.answer = service'
    <2>1. p \in projects \cap mapped
        BY <1>1, MappedShrinks
    <2> QED BY <1>0, <1>1, <2>1, ServiceWas DEF AnswerIsNew, Answered
<1>2. CASE Ask
    <2>1. service' = service
        BY <1>2 DEF Ask, AskIf, cloud
    <2>2. pass' = [pass EXCEPT !.pc = "resolve", !.answer = service]
        <3>1. NoPass.before[p] = None
            BY <1>0 DEF NoPass
        <3> QED BY <1>2, <3>1 DEF Ask, AskIf
    <2>3. pass'.pc = "resolve" /\ pass'.answer = service
        BY <1>0, <2>2 DEF Pass
    <2> QED BY <2>1, <2>3
<1>3. CASE Resolve
    <2>1. service' = service /\ projects' = projects /\ mapped' = mapped
        BY <1>3 DEF Resolve, cloud, account
    <2>2. PICK a : /\ pass' = [pass EXCEPT !.pc = "look", !.answer = a]
                   /\ pass.answer = service => a = service
        <3>1. p \in projects \cap mapped /\ pass' = [pass EXCEPT !.pc = "look",
                 !.answer = IF @ # None /\ @.project \in projects \cap mapped
                            THEN @ ELSE None]
            BY <1>3, <2>1 DEF Resolve
        <3> QED BY <1>0, <2>1, <3>1
    <2>3. pass'.pc = "look" /\ pass'.before = pass.before /\ pass'.answer = a
        BY <1>0, <2>2 DEF Pass
    <2>4. pass.answer = service
        BY <1>0, <1>3, <2>1, <2>3 DEF AnswerIsNew, Answered, Resolve
    <2> QED BY <2>1, <2>2, <2>3, <2>4
<1>4. CASE Look
    <2>1. /\ service' = service /\ projects' = projects /\ mapped' = mapped
          /\ releasing' = releasing /\ pass.pc = "look"
        BY <1>4 DEF Look, LookWith, cloud, account, memory
    <2>2. pass'.pc = "forget" /\ pass'.before = pass.before
        BY <1>0, <1>4, LookMakes
    <2>3. pass.answer = service
        BY <1>0, <2>1, <2>2 DEF AnswerIsNew, Answered
    <2>4. p \notin releasing => Active(pass.answer) = service
        BY <1>0, <2>1, <2>3 DEF Active
    <2>5. p \in pass'.urls => (Active(pass.answer) # None => Active(pass.answer).project # p)
        BY <1>0, <1>4, LookMakes
    <2> QED BY <1>0, <2>1, <2>2, <2>4, <2>5
<1>5. ASSUME pass.pc = "forget", pass'.pc = "forget", pass'.before = pass.before,
             pass'.urls \subseteq pass.urls, on'[p] = pass'.before[p], p \notin releasing'
      PROVE  p \notin pass'.urls
    <2>1. p \in projects \cap mapped
        BY <1>5, MappedShrinks
    <2>2. on[p] = pass.before[p] /\ p \notin releasing
        BY <1>0, <1>5, ForgettingWas
    <2>3. service' = service
        BY <1>0, <1>5, ServiceWas
    <2> QED BY <1>5, <2>1, <2>2, <2>3 DEF AnswerIsNew, Spared
<1>6. PassGoes
    BY PassLooks
<1> QED BY <1>1, <1>2, <1>3, <1>4, <1>5, <1>6 DEF PassGoes

LEMMA AlwaysAnswerIsNew == Spec => []AnswerIsNew
<1>1. Init => AnswerIsNew
    <2>1. NoPass.pc = "idle"
        BY DEF NoPass
    <2> QED BY <2>1 DEF Init, AnswerIsNew
<1> QED BY <1>1, PublicAssumption, AlwaysTyped, AlwaysSessionsMade, AlwaysMadeOnce,
           AnswerIsNewNext, PTL DEF Spec

LEMMA PassKeepsStep ==
    ASSUME PublicAssumption, Typed, AnswerIsNew, Forget, NEW p \in Projects,
           Live(p), p \notin releasing, p \in projects \cap mapped,
           service = [project |-> p, session |-> on[p].session]
    PROVE  on'[p] # None
<1>0. on[p] # None /\ pass.pc = "forget" /\ on \in [Projects -> Records \cup {None}]
    BY DEF Live, Forget, Typed, TypeOK
<1>1. CASE on[p] = pass.before[p]
    <2>1. p \notin pass.urls
        BY <1>0, <1>1 DEF AnswerIsNew, Spared
    <2> QED BY <1>0, <2>1 DEF Forget, ForgetRecord
<1>2. CASE on[p] # pass.before[p]
    BY <1>0, <1>2 DEF Forget, ForgetRecord, Unchanged
<1> QED BY <1>1, <1>2

\* The service's answer may be old when a pass applies it: what the pass forgets
\* for it is never a URL the service has now, be it one that a turn-on has made
\* meanwhile or one that was on all along.
THEOREM PassForgetsNothing == Spec => PassKeepsWhatIsOn
<1>1. PublicAssumption /\ Typed /\ AnswerIsNew /\ [Next]_vars =>
        [\A p \in Projects :
            (/\ Forget /\ Live(p) /\ p \notin releasing
             /\ p \in projects \cap mapped
             /\ service = [project |-> p, session |-> on[p].session])
               => on'[p] # None]_vars
    BY PassKeepsStep
<1> QED BY <1>1, PublicAssumption, AlwaysTyped, AlwaysAnswerIsNew, PTL
        DEF Spec, PassKeepsWhatIsOn

-----------------------------------------------------------------------------
\* Sign-outs.  Only a turn-on of somebody who is signed in comes to have a URL.
LEMMA UrlsComeSignedIn ==
    ASSUME PublicAssumption, Typed, ~signedIn, NEW t \in Threads,
           \/ Run(t) \/ SignOut(t)
           \/ \E p \in Projects : Enable(t, p) \/ Disable(t, p),
           thread'[t].pc \in HasUrl
    PROVE  thread[t].pc \in HasUrl /\ thread'[t].project = Of(t)
<1>0. thread[t] \in Thread /\ thread \in [Threads -> Thread]
    BY DEF Typed, TypeOK
<1>1. ASSUME NEW pc \in Steps, Goto(t, pc)
      PROVE  pc \in HasUrl /\ thread'[t].project = Of(t)
    BY <1>1, GotoMoves DEF HasUrl
<1>2. CASE WriteToken(t)
    <2>1. thread[t].pc \in HasUrl
        BY <1>2 DEF WriteToken, At, HasUrl
    <2>2. CASE \E pc \in {"start", "undo"} : Goto(t, pc)
        BY <1>1, <2>1, <2>2 DEF Steps
    <2>3. CASE \E pc \in {"start", "recreate"} :
                  thread' = [thread EXCEPT ![t].token = 0, ![t].pc = pc]
        BY <1>0, <2>1, <2>3 DEF Thread, Of
    <2> QED BY <1>2, <2>2, <2>3 DEF WriteToken
<1>3. CASE Start(t)
    <2>1. thread[t].pc \in HasUrl
        BY <1>3 DEF Start, HasUrl
    <2>2. PICK pc \in {"commit", "undo"} : Goto(t, pc)
        BY <1>3 DEF Start
    <2>3. pc \in Steps
        BY DEF Steps
    <2> QED BY <1>1, <2>1, <2>2, <2>3
<1>4. ASSUME \E pc \in {"post", "done", "finish", "fail", "undo", "stop", "release",
                        "halt", "drop", "remember", "unregister", "logout", "clear"} :
                 Goto(t, pc)
      PROVE  FALSE
    <2>1. PICK pc \in {"post", "done", "finish", "fail", "undo", "stop", "release",
                       "halt", "drop", "remember", "unregister", "logout", "clear"} :
                 Goto(t, pc)
        BY <1>4
    <2>2. pc \in Steps /\ pc \notin HasUrl
        BY DEF Steps, HasUrl
    <2> QED BY <1>1, <2>1, <2>2
<1>5. CASE Begin(t) \/ Post(t) \/ Commit(t) \/ Undo(t) \/ Finish(t)
    BY <1>4, <1>5 DEF Begin, Post, PostOr, Commit, CommitIf, Undo, Finish, FinishIf
<1>6. CASE \/ StopUnlessNeeded(t) \/ Halt(t) \/ DropToken(t) \/ Release(t)
           \/ Remember(t) \/ Unregister(t) \/ Logout(t) \/ Clear(t)
    BY <1>4, <1>6 DEF StopUnlessNeeded, Halt, DropToken, Release, Remember, Unregister,
                      Logout, Clear, After
<1>7. CASE ReleaseAll(t)
    <2>1. CASE thread[t].urls # {}
        BY <1>0, <1>7, <2>1 DEF ReleaseAll, At, Thread, HasUrl
    <2> QED BY <1>4, <1>7, <2>1 DEF ReleaseAll
<1>8. CASE SignOut(t)
    BY <1>8 DEF SignOut
<1>9. CASE \E p \in Projects : Enable(t, p)
    BY <1>9 DEF Enable
<1>10. ASSUME NEW p \in Projects, Disable(t, p) PROVE FALSE
    <2>1. Over(t).pc = "done"
        BY OverFits
    <2>2. PICK r : /\ thread' = [thread EXCEPT ![t] = r]
                   /\ \/ r = Over(t)
                      \/ \E pc \in {"stop", "unregister", "fail", "done"} :
                            r = [thread[t] EXCEPT !.project = p, !.pc = pc]
        BY <1>10 DEF Disable, After
    <2>3. r.pc \notin HasUrl
        BY <1>0, <2>1, <2>2 DEF HasUrl, Thread
    <2> QED BY <1>0, <2>2, <2>3
<1> QED BY <1>2, <1>3, <1>5, <1>6, <1>7, <1>8, <1>9, <1>10 DEF Run

\* A sign-out is over when its Clear is; who is signed out stays so.
LEMMA StillSignedOut ==
    ASSUME PublicAssumption, Typed, [Next]_vars, ~Restart,
           \A t \in Threads : ~Clear(t),
           ~signedIn', \A t \in Threads : thread'[t].pc # "clear"
    PROVE  ~signedIn /\ \A t \in Threads : ~At(t, "clear")
<1>0. thread \in [Threads -> Thread] /\ "clear" \in Steps
    BY DEF Typed, TypeOK, Steps
<1>1. ASSUME NEW t \in Threads,
             \/ Run(t) \/ SignOut(t)
             \/ \E p \in Projects : Enable(t, p) \/ Disable(t, p)
      PROVE  ~signedIn /\ thread[t].pc # "clear"
    <2>1. CASE Logout(t)
        BY <1>0, <2>1, GotoMoves DEF Logout
    <2>2. CASE ~Logout(t)
        <3>1. signedIn' = signedIn
            BY <1>1, <2>2
               DEF Run, SignOut, Enable, Disable, Begin, Post, PostOr, WriteToken, Start,
                   Commit, CommitIf, Undo, Finish, FinishIf, StopUnlessNeeded, Halt,
                   DropToken, Release, Remember, Unregister, ReleaseAll, Clear, account
        <3>2. thread[t].pc # "clear"
            BY <1>1, <2>2
               DEF Run, SignOut, Enable, Disable, Begin, Post, PostOr, WriteToken, Start,
                   Commit, CommitIf, Undo, Finish, FinishIf, StopUnlessNeeded, Halt,
                   DropToken, Release, Remember, Unregister, ReleaseAll, At
        <3> QED BY <3>1, <3>2
    <2> QED BY <2>1, <2>2
<1>2. CASE \E t \in Threads : \/ Run(t) \/ SignOut(t)
                            \/ \E p \in Projects : Enable(t, p) \/ Disable(t, p)
    <2>1. PICK t \in Threads : \/ Run(t) \/ SignOut(t)
                               \/ \E p \in Projects : Enable(t, p) \/ Disable(t, p)
        BY <1>2
    <2>2. OthersStay(t)
        BY <2>1, OnlyOneMoves
    <2> QED BY <1>1, <2>1, <2>2 DEF OthersStay, At
<1>3. CASE Others
    <2>1. ~signedIn
        BY <1>3
           DEF Others, Reconcile, StartPass, StartPassWith, RetryRelease, Discard,
               Snapshot, Ask, AskIf, Resolve, Look, LookWith, Forget, Adopt,
               LookAtClient, ReconcileClient, ReconcileClientIf, PassHalts, PassDrops,
               EndUrl, EndAtService, EndRemember, SignIn, TakeDown, SyncCreate,
               SyncDelete, Expire, account, vars
    <2> QED BY <1>3, <2>1, OthersLeaveCalls DEF At
<1> QED BY <1>2, <1>3, NextSplits

LEMMA NoneWantedNext ==
    ASSUME PublicAssumption, Typed, Typed', NoGhostTurnOn, NoneWanted, [Next]_vars
    PROVE  NoneWanted'
<1> SUFFICES ASSUME ~signedIn', \A t \in Threads : thread'[t].pc # "clear",
                    NEW t \in Turns, thread'[t].pc \in HasUrl
             PROVE  enabling'[thread'[t].project] # t
    BY DEF NoneWanted, At, Of
<1>0. /\ t \in Threads /\ None \notin Turns /\ thread'[t].project \in Projects
      /\ enabling \in [Projects -> Turns \cup {None}]
    BY DEF Typed, TypeOK, Control, Fits, HasUrl, Threads, PublicAssumption
<1>1. CASE \E u \in Threads : Clear(u)
    BY <1>0, <1>1 DEF Clear
<1>2. CASE Restart
    BY <1>0, <1>2 DEF Restart
<1>3. CASE ~Restart /\ \A u \in Threads : ~Clear(u)
    <2>0. ~signedIn /\ \A u \in Threads : ~At(u, "clear")
        BY <1>3, StillSignedOut
    <2>1. CASE Others
        BY <2>0, <2>1, OthersLeaveCalls DEF NoneWanted, Of
    <2>2. ASSUME NEW u \in Threads,
                 \/ Run(u) \/ SignOut(u)
                 \/ \E p \in Projects : Enable(u, p) \/ Disable(u, p)
          PROVE  enabling'[thread'[t].project] # t
        <3>1. Shape(u)
            BY <2>2, ThreadsShape
        <3>2. thread[t].pc \in HasUrl /\ thread'[t].project = Of(t)
            <4>1. CASE t = u
                BY <1>0, <2>0, <2>2, <4>1, UrlsComeSignedIn
            <4>2. CASE t # u
                BY <1>0, <3>1, <4>2 DEF Shape, OthersStay, Of
            <4> QED BY <4>1, <4>2
        <3>3. enabling[Of(t)] # t
            BY <2>0, <3>2 DEF NoneWanted
        <3>4. CASE OnlyDrops
            BY <1>0, <3>2, <3>3, <3>4 DEF OnlyDrops
        <3>5. CASE thread'[u].pc = "post" /\ enabling' = [enabling EXCEPT ![Of(u)] = u]
            <4>1. u # t
                BY <3>5 DEF HasUrl
            <4> QED BY <1>0, <3>2, <3>3, <3>5, <4>1
        <3> QED BY <3>1, <3>4, <3>5 DEF Shape
    <2> QED BY <1>3, <2>1, <2>2, NextSplits
<1> QED BY <1>1, <1>2, <1>3

LEMMA NoneOutlivesNext ==
    ASSUME PublicAssumption, Typed, NoneWanted, NoTurnOnOutlivesSignOut, [Next]_vars
    PROVE  NoTurnOnOutlivesSignOut'
<1> SUFFICES ASSUME ~signedIn', \A t \in Threads : thread'[t].pc # "clear",
                    NEW p \in Projects, on'[p] # None
             PROVE  on'[p].by = "pass"
    BY DEF NoTurnOnOutlivesSignOut, At
<1>1. ~Restart /\ \A u \in Threads : ~Clear(u)
    BY DEF Restart, Clear
<1>2. ~signedIn /\ \A u \in Threads : ~At(u, "clear")
    BY <1>1, StillSignedOut
<1>3. CASE on'[p] = on[p]
    BY <1>2, <1>3 DEF NoTurnOnOutlivesSignOut
<1>4. CASE on'[p] # on[p]
    <2>1. ASSUME NEW t \in Threads, Commit(t), enabling[p] = t PROVE FALSE
        <3>1. thread[t].pc \in HasUrl /\ t \in Turns
            BY <2>1 DEF Commit, CommitIf, At, HasUrl, Typed, TypeOK, PublicAssumption, Threads
        <3>2. Of(t) = p
            BY <1>4, <2>1 DEF Commit, CommitIf, Typed, TypeOK
        <3> QED BY <1>2, <2>1, <3>1, <3>2 DEF NoneWanted
    <2> QED BY <1>4, <2>1, WhoTurnsOn
<1> QED BY <1>3, <1>4

\* Whatever a turn-on was doing when its user signed out, it shows no URL once
\* the sign-out has cleared the dictionaries, until somebody signs in again.
THEOREM SignOutDropsTurnOns == Spec => []NoTurnOnOutlivesSignOut
<1>1. Init => NoneWanted /\ NoTurnOnOutlivesSignOut
    BY DEF Init, NoneWanted, NoTurnOnOutlivesSignOut
<1>2. ASSUME PublicAssumption, Typed, Typed', NoGhostTurnOn, NoneWanted,
             NoTurnOnOutlivesSignOut, [Next]_vars
      PROVE  NoneWanted' /\ NoTurnOnOutlivesSignOut'
    <2>1. NoneWanted'
        BY <1>2, NoneWantedNext
    <2>2. NoTurnOnOutlivesSignOut'
        BY <1>2, NoneOutlivesNext
    <2> QED BY <2>1, <2>2
<1> QED BY <1>1, <1>2, PublicAssumption, AlwaysTyped, NoGhost, PTL DEF Spec
=============================================================================
