-------------------------- MODULE GitHubLinkProofs --------------------------
(***************************************************************************)
(* Theorems about GitHubLink, for every set of accounts, users, requests   *)
(* and bound.  What ties the three writers of the VM together is the       *)
(* generation: it never goes back, a pass of the script works for one that *)
(* has been written, and, unless a crash tore a change, nothing but a new  *)
(* generation ends the time in which token and login may differ.           *)
(***************************************************************************)
EXTENDS GitHubLink, TLAPS

\* A token that is kept, written or judged is some user's.
TokensReal ==
    /\ token = NoToken \/ token.login # None
    /\ section.token = NoToken \/ section.token.login # None
    /\ poller.at = "user" => poller.token.login # None
    /\ poller.at \in {"asked", "user"} => poller.token.code # 0
    /\ \A r \in Connects \cup Asks :
          request[r].at = "asked" => request[r].token.login # None

\* Whoever lets go of `_lock` has written all there was to write.
LockOK ==
    /\ Unlocked => section = Free
    /\ section.at \in {"desired", "generation"} => ~section.bad

Generations ==
    /\ row.generation <= desired.generation
    /\ applied.generation <= desired.generation
    /\ desired.generation <= NextGeneration
    /\ script.at \in {"login", "account"} =>
          applied.generation <= script.gen /\ script.gen <= desired.generation
    /\ section.at \in {"token", "row", "desired"} /\ ~section.bad => MayWrite

Typed == TypeOK /\ TokensReal /\ LockOK /\ Generations

\* Only a connect() asks GitHub for a code and starts the poller for it.
ConnectsAsk ==
    \A r \in Connects \cup Asks : request[r].at \in {"code", "ensure"} => r \in Connects

Polled == ConnectsAsk /\ CodeIsPolled

\* No change is half written, or what is being written drops the token.
Settled == section.at \in {"free", "generation"} \/ section.bad

\* Row, token and desired.json agree unless a change is under way, which knows
\* what it still has to write.
Agree ==
    /\ section.at # "generation" => row.generation = desired.generation
    /\ section.bad => section.login = row.login /\ section.token = NoToken
    /\ section.token # NoToken => section.token.login = section.login
    /\ section.at \in {"row", "desired"} => token = section.token
    /\ section.at = "desired" => row.login = section.login
    /\ Settled => desired.login = row.login
    /\ Settled /\ token # NoToken => token.login = row.login

\* What a pass of the script has done for the accounts it is done with.
SignedIn(done) ==
    Settled /\ row.login # None /\ ~row.bad /\ token # NoToken =>
        \A a \in done : row.login \in gh[a]

PassIsTrue ==
    script.at = "account" /\ script.gen = desired.generation =>
        /\ script.login = desired.login
        /\ script.connected <=> desired.login # None
        /\ script.ok => SignedIn(Accounts \ script.left)

ReportIsTrue ==
    applied.generation = desired.generation /\ applied.ok =>
        /\ desired.login # None => applied.login = desired.login
        /\ SignedIn(Accounts)

Whole == Agree /\ PassIsTrue /\ ReportIsTrue

\* Once a crash has cut a change short nothing of this is promised.
WholeUnlessTorn == ~torn => Whole

-----------------------------------------------------------------------------
\* Types, the lock and the generations.

Sections == [at : {"free", "token", "row", "desired", "generation"},
             login : Identity, token : Token, bad : BOOLEAN]

LEMMA Constants ==
    ASSUME GitHubLinkAssumption
    PROVE  /\ NoToken \in Token /\ Free \in Sections
           /\ Free.at = "free" /\ Free.bad = FALSE /\ Free.token = NoToken
           /\ Free.login = None
BY DEF GitHubLinkAssumption, NoToken, Token, Code, Identity, Free, Sections

\* The four changes, as they begin.
LEMMA SectionsBegin ==
    ASSUME GitHubLinkAssumption, NEW t \in Token, TypeOK
    PROVE  /\ DisconnectWrites \in Sections /\ DisconnectWrites.at = "token"
           /\ DisconnectWrites.token = NoToken /\ ~DisconnectWrites.bad
           /\ DisconnectWrites.login = None
           /\ ConnectWrites(t) \in Sections /\ ConnectWrites(t).at = "token"
           /\ ConnectWrites(t).token = t /\ ~ConnectWrites(t).bad
           /\ ConnectWrites(t).login = t.login
           /\ ReapplyWrites(t) \in Sections /\ ReapplyWrites(t).at = "row"
           /\ ReapplyWrites(t).token = t /\ ~ReapplyWrites(t).bad
           /\ ReapplyWrites(t).login = t.login
           /\ BadWrites \in Sections /\ BadWrites.at = "token"
           /\ BadWrites.token = NoToken /\ BadWrites.bad
           /\ BadWrites.login = row.login
<1>1. t.login \in Identity /\ row.login \in Identity
    BY DEF TypeOK, Token
<1> QED BY <1>1, Constants
        DEF DisconnectWrites, ConnectWrites, ReapplyWrites, BadWrites, Sections

Rows == [login : Identity, bad : BOOLEAN, generation : 0..MaxGen]

LEMMA RowWritten ==
    ASSUME NEW r \in Rows, NEW s \in Sections, NEW q,
           q = [r EXCEPT !.login = s.login, !.bad = s.bad]
    PROVE  /\ q \in Rows /\ q.generation = r.generation
           /\ q.login = s.login /\ q.bad = s.bad
BY DEF Rows, Sections

LEMMA TypedWrites ==
    ASSUME GitHubLinkAssumption, Typed, Writes
    PROVE  Typed'
<1> USE DEF Typed, TypeOK, TokensReal, LockOK, Generations
<1>0. /\ Free \in Sections /\ Free.at = "free" /\ Free.bad = FALSE
      /\ Free.token = NoToken /\ section \in Sections
    BY Constants DEF Sections
<1>1. CASE WriteToken
    <2>1. section' = [section EXCEPT !.at = "row"]
        BY <1>1 DEF WriteToken, Step
    <2>2. /\ section' \in Sections /\ section'.at = "row" /\ section'.token = section.token
          /\ section'.bad = section.bad
        BY <1>0, <2>1 DEF Sections
    <2>3. TypeOK'
        BY <1>0, <1>1, <2>2 DEF WriteToken, memory, github, machine, Sections
    <2> QED BY <1>1, <2>2, <2>3 DEF WriteToken, memory, github, machine, Unlocked,
               NextGeneration, MayWrite
<1>2. CASE WriteRow
    <2>0. /\ row' \in Rows /\ row'.generation = row.generation
          /\ row'.login = section.login /\ row'.bad = section.bad
        <3>1. row \in Rows
            BY DEF Rows
        <3>2. row' = [row EXCEPT !.login = section.login, !.bad = section.bad]
            BY <1>2 DEF WriteRow
        <3> QED BY <1>0, <3>1, <3>2, RowWritten
    <2>1. CASE section.bad
        <3>1. section' = Free
            BY <1>2, <2>1 DEF WriteRow
        <3>2. TypeOK'
            BY <1>0, <1>2, <2>0, <3>1 DEF WriteRow, memory, github, machine, Sections, Rows
        <3> QED BY <1>0, <1>2, <2>0, <3>1, <3>2
                DEF WriteRow, memory, github, machine, Unlocked, NextGeneration, MayWrite
    <2>2. CASE ~section.bad
        <3>1. section' = [section EXCEPT !.at = "desired"]
            BY <1>2, <2>2 DEF WriteRow, Step
        <3>3. /\ section' \in Sections /\ section'.at = "desired"
              /\ section'.token = section.token /\ section'.bad = section.bad
            BY <1>0, <3>1 DEF Sections
        <3>4. TypeOK'
            BY <1>0, <1>2, <2>0, <3>3 DEF WriteRow, memory, github, machine, Sections, Rows
        <3> QED BY <1>0, <1>2, <2>0, <2>2, <3>3, <3>4
                DEF WriteRow, memory, github, machine, Unlocked, NextGeneration, MayWrite
    <2> QED BY <2>1, <2>2
<1>3. CASE WriteDesired
    <2>1. section' = [section EXCEPT !.at = "generation"]
        BY <1>3 DEF WriteDesired, Step
    <2>2. /\ section' \in Sections /\ section'.at = "generation"
          /\ section'.token = section.token /\ section'.bad = section.bad
        BY <1>0, <2>1 DEF Sections
    <2>3. /\ NextGeneration \in 0..MaxGen /\ desired.generation <= NextGeneration
          /\ row.generation < NextGeneration /\ applied.generation < NextGeneration
        BY <1>3 DEF WriteDesired, NextGeneration, MayWrite, GitHubLinkAssumption
    <2>4. /\ desired' = [generation |-> NextGeneration, login |-> row.login]
          /\ changed' \in BOOLEAN
        BY <1>3 DEF WriteDesired
    <2>5. TypeOK'
        BY <1>0, <1>3, <2>2, <2>3, <2>4
           DEF WriteDesired, memory, github, Sections
    <2>6. /\ row' = row /\ applied' = applied /\ script' = script
          /\ desired'.generation = NextGeneration /\ NextGeneration' = NextGeneration
        BY <1>3, <2>4 DEF WriteDesired, NextGeneration
    <2>7. Generations'
        BY <1>3, <2>2, <2>3, <2>6 DEF GitHubLinkAssumption
    <2>8. TokensReal' /\ LockOK'
        BY <1>3, <2>2 DEF WriteDesired, memory, Unlocked
    <2> QED BY <2>5, <2>7, <2>8
<1>4. CASE WriteGeneration
    <2>1. section' = Free /\ row' = [row EXCEPT !.generation = desired.generation]
        BY <1>4 DEF WriteGeneration
    <2>2. TypeOK'
        BY <1>0, <1>4, <2>1 DEF WriteGeneration, memory, github, machine, Sections
    <2> QED BY <1>0, <1>4, <2>1, <2>2
            DEF WriteGeneration, memory, github, machine, Unlocked, NextGeneration, MayWrite,
                GitHubLinkAssumption
<1> QED BY <1>1, <1>2, <1>3, <1>4 DEF Writes

\* A change begins with none left over, and only one that writes desired.json
\* needs a generation.
LEMMA SectionTyped ==
    ASSUME GitHubLinkAssumption, Typed, UNCHANGED <<disk, machine>>,
           \/ section' = section
           \/ section' = Free
           \/ section' = DisconnectWrites /\ MayWrite
           \/ section' = BadWrites
           \/ \E t \in Token : /\ t.login # None /\ MayWrite
                              /\ section' \in {ConnectWrites(t), ReapplyWrites(t)}
    PROVE  /\ section' \in Sections
           /\ section'.token = NoToken \/ section'.token.login # None
           /\ LockOK' /\ Generations'
<1>0. Free \in Sections /\ Free.at = "free" /\ Free.bad = FALSE /\ Free.token = NoToken
      /\ section \in Sections /\ NoToken \in Token
    BY Constants DEF Sections, Typed, TypeOK
<1>1. /\ section' \in Sections
      /\ section'.token = NoToken \/ section'.token.login # None
      /\ section'.at = "free" => section' = Free
      /\ section'.at \in {"desired", "generation"} => section' = section
      /\ section'.at \in {"token", "row"} /\ ~section'.bad => section' = section \/ MayWrite
    <2>1. CASE section' = section
        BY <1>0, <2>1 DEF Typed, TokensReal, LockOK, Unlocked
    <2>2. CASE section' = Free
        BY <1>0, <2>2
    <2>3. CASE section' \in {DisconnectWrites, BadWrites}
        BY <1>0, <2>3, SectionsBegin DEF Typed
    <2>4. ASSUME NEW t \in Token, t.login # None, MayWrite,
                 section' = ConnectWrites(t) \/ section' = ReapplyWrites(t)
          PROVE  /\ section' \in Sections
                 /\ section'.token.login # None
                 /\ section'.at \in {"token", "row"}
        BY <2>4, SectionsBegin DEF Typed
    <2> QED BY <2>1, <2>2, <2>3, <2>4, SectionsBegin, <1>0 DEF Typed
<1>2. LockOK'
    BY <1>0, <1>1 DEF Typed, LockOK, Unlocked
<1>3. Generations'
    BY <1>0, <1>1 DEF Typed, Generations, NextGeneration, MayWrite, disk, machine
<1> QED BY <1>1, <1>2, <1>3

LEMMA TypedRequested ==
    ASSUME GitHubLinkAssumption, Typed,
           Requested \/ \E r \in Connects \cup Asks : Answered(r)
    PROVE  Typed'
<1> USE DEF Typed, TypeOK, TokensReal
<1>0. /\ NoToken \in Token /\ section \in Sections
      /\ Idle = [at |-> "idle", token |-> NoToken]
    BY Constants DEF Sections, Idle
<1>1. CASE Disconnect
    <2>1. section' = DisconnectWrites /\ MayWrite /\ UNCHANGED <<disk, machine>>
        BY <1>1 DEF Disconnect
    <2>2. /\ section' \in Sections /\ LockOK' /\ Generations'
          /\ section'.token = NoToken \/ section'.token.login # None
        BY <2>1, SectionTyped
    <2>3. 0 \in Code
        BY DEF Code, GitHubLinkAssumption
    <2>4. TypeOK'
        <3>1. lapsed' \in BOOLEAN /\ pending' \in Code
            BY <1>1, <2>3 DEF Disconnect
        <3>2. UNCHANGED <<row, token, desired, codes, revoked, applied, changed, script,
                          gh, torn, poller, request>>
            BY <1>1 DEF Disconnect, disk, github, machine
        <3> QED BY <2>2, <3>1, <3>2 DEF Sections
    <2>5. TokensReal'
        BY <1>1, <2>2 DEF Disconnect, disk
    <2> QED BY <2>2, <2>4, <2>5
<1>2. ASSUME NEW r \in Connects \cup Asks,
             NEW at \in {"idle", "code", "ensure"}, NEW token1 \in Token,
             request' = [request EXCEPT ![r] = [at |-> at, token |-> token1]]
      PROVE  /\ request' \in [Connects \cup Asks ->
                   [at : {"idle", "code", "ensure", "asked"}, token : Token]]
             /\ \A q \in Connects \cup Asks :
                   request'[q].at = "asked" => request'[q].token.login # None
    BY <1>2
<1>3. ASSUME NEW r \in Connects, Connect(r) PROVE Typed'
    <2>1. request' = [request EXCEPT ![r] = [at |-> "code", token |-> NoToken]]
        <3>1. [Idle EXCEPT !.at = "code"] = [at |-> "code", token |-> NoToken]
            BY DEF Idle
        <3> QED BY <1>3, <3>1 DEF Connect, Goto
    <2>2. section' \in Sections /\ LockOK' /\ Generations'
        BY <1>3, SectionTyped DEF Connect
    <2> QED BY <1>0, <1>2, <1>3, <2>1, <2>2
            DEF Connect, disk, github, machine, Sections
<1>4. ASSUME NEW r \in Asks, Ask(r) PROVE Typed'
    <2>1. request' = [request EXCEPT ![r] = [at |-> "asked", token |-> token]]
        BY <1>4 DEF Ask
    <2>2. section' \in Sections /\ LockOK' /\ Generations'
        BY <1>4, SectionTyped DEF Ask
    <2>3. token.login # None
        BY <1>4 DEF Ask, IsCurrent
    <2>4. /\ request' \in [Connects \cup Asks ->
                [at : {"idle", "code", "ensure", "asked"}, token : Token]]
          /\ \A q \in Connects \cup Asks :
                request'[q].at = "asked" => request'[q].token.login # None
        BY <2>1, <2>3
    <2> QED BY <1>4, <2>2, <2>4 DEF Ask, disk, github, machine, Sections
<1>5. ASSUME NEW r \in Connects \cup Asks, SetPending(r) PROVE Typed'
    <2>1. \E at \in {"idle", "code", "ensure"} :
              request' = [request EXCEPT ![r] = [at |-> at, token |-> NoToken]]
        BY <1>0, <1>5 DEF SetPending, Goto, Finished
    <2>2. section' \in Sections /\ LockOK' /\ Generations'
        BY <1>5, SectionTyped DEF SetPending
    <2>3. codes' \in Code /\ pending' \in Code /\ lapsed' \in BOOLEAN
        <3>1. codes \in 0..MaxCodes /\ codes < MaxCodes => codes + 1 \in 0..MaxCodes
            BY DEF GitHubLinkAssumption
        <3> QED BY <1>5, <3>1 DEF SetPending, Code
    <2> QED BY <1>0, <1>2, <1>5, <2>1, <2>2, <2>3
            DEF SetPending, disk, machine, Sections
<1>6. ASSUME NEW r \in Connects \cup Asks, EnsurePoller(r) PROVE Typed'
    <2>1. request' = [request EXCEPT ![r] = [at |-> "idle", token |-> NoToken]]
        BY <1>0, <1>6 DEF EnsurePoller, Finished
    <2>2. section' \in Sections /\ LockOK' /\ Generations'
        BY <1>6, SectionTyped DEF EnsurePoller
    <2>3. poller' = poller \/ poller' = [at |-> "poll", token |-> NoToken]
        BY <1>6 DEF EnsurePoller
    <2> QED BY <1>0, <1>2, <1>6, <2>1, <2>2, <2>3
            DEF EnsurePoller, disk, github, machine, Sections
<1>7. ASSUME NEW r \in Connects \cup Asks, Judged(r) PROVE Typed'
    <2>0. request[r].token \in Token /\ request[r].token.login # None
        BY <1>7 DEF Judged, JudgedIf
    <2>1. request' = [request EXCEPT ![r] = [at |-> "idle", token |-> NoToken]]
        BY <1>0, <1>7 DEF Judged, JudgedIf, Finished
    <2>2. /\ section' \in Sections /\ LockOK' /\ Generations'
          /\ section'.token = NoToken \/ section'.token.login # None
        BY <1>7, <2>0, SectionTyped DEF Judged, JudgedIf
    <2> QED BY <1>0, <1>2, <1>7, <2>1, <2>2
            DEF Judged, JudgedIf, disk, github, machine, Sections
<1> QED BY <1>1, <1>3, <1>4, <1>5, <1>6, <1>7 DEF Requested, Answered

Pollers == [at : {"off", "poll", "asked", "user", "leave"}, token : Token]

LEMMA TypedPolling ==
    ASSUME GitHubLinkAssumption, Typed,
           Polling \/ Lapse \/ Revoked \/ Crash \/ WriteFails \/ UNCHANGED vars
    PROVE  Typed'
<1> USE DEF Typed, TypeOK, TokensReal
<1>0. /\ NoToken \in Token /\ section \in Sections /\ 0 \in Code
      /\ NoToken = [code |-> 0, login |-> None] /\ None \in Identity
      /\ Idle.at = "idle" /\ Idle.token = NoToken
      /\ Idle \in [at : {"idle", "code", "ensure", "asked"}, token : Token]
    BY Constants DEF Sections, NoToken, Code, Identity, GitHubLinkAssumption, Idle
<1>1. ASSUME Polling \/ Lapse \/ Revoked \/ UNCHANGED vars
      PROVE  /\ UNCHANGED <<disk, machine, codes, request, torn>>
             /\ pending' \in {pending, 0}
             /\ lapsed' \in BOOLEAN /\ revoked' \subseteq 1..MaxCodes
    BY <1>1
       DEF Polling, Lapse, Revoked, Revoke, Poll, PollAnswered, UserAnswered,
           UserAnsweredIf, LeavePoller, LeavePollerFor, EndCode, github, memory, vars
<1>2. ASSUME Polling \/ Lapse \/ Revoked \/ UNCHANGED vars
      PROVE  /\ section' \in Sections /\ LockOK' /\ Generations'
             /\ section'.token = NoToken \/ section'.token.login # None
    <2>1. CASE UserAnswered
        <3>1. poller.token \in Token /\ poller.token.login # None
            BY <2>1 DEF UserAnswered, UserAnsweredIf
        <3>2. \/ section' = section
              \/ MayWrite /\ section' = ConnectWrites(poller.token)
            BY <2>1 DEF UserAnswered, UserAnsweredIf
        <3> QED BY <1>1, <1>2, <3>1, <3>2, SectionTyped
    <2>2. CASE ~UserAnswered
        <3>1. section' = section
            BY <1>2, <2>2
               DEF Polling, Lapse, Revoked, Revoke, Poll, PollAnswered, LeavePoller,
                   LeavePollerFor, vars
        <3> QED BY <1>1, <1>2, <3>1, SectionTyped
    <2> QED BY <2>1, <2>2
<1>3. ASSUME Polling \/ Lapse \/ Revoked \/ UNCHANGED vars
      PROVE  /\ poller' \in Pollers
             /\ poller'.at = "user" => poller'.token.login # None
             /\ poller'.at \in {"asked", "user"} => poller'.token.code # 0
    <2>1. CASE \E at \in {"off", "poll", "leave"} : PollerGoes(at)
        BY <1>0, <2>1 DEF PollerGoes, MovePoller, Pollers
    <2>2. CASE Poll /\ MovePoller("asked", pending, None) /\ pending # 0
        BY <1>0, <2>2 DEF MovePoller, Pollers, Token
    <2>3. CASE poller.at = "asked" /\ \E l \in Logins : MovePoller("user", poller.token.code, l)
        <3>1. PICK l \in Logins : MovePoller("user", poller.token.code, l)
            BY <2>3
        <3>2. l # None /\ l \in Identity /\ poller.token.code \in Code
            BY DEF GitHubLinkAssumption, Identity, Token
        <3> QED BY <2>3, <3>1, <3>2 DEF MovePoller, Pollers, Token
    <2>4. CASE poller' = poller
        BY <2>4 DEF Pollers
    <2> QED BY <1>3, <2>1, <2>2, <2>3, <2>4
            DEF Polling, Lapse, Revoked, Revoke, Poll, PollAnswered, UserAnswered,
                UserAnsweredIf, LeavePoller, LeavePollerFor, memory, vars
<1>4. CASE Polling \/ Lapse \/ Revoked \/ UNCHANGED vars
    <2>1. pending' \in Code
        BY <1>0, <1>1, <1>4
    <2>2. UNCHANGED <<row, token, desired, applied, changed, script, gh, codes, request, torn>>
        BY <1>1, <1>4 DEF disk, machine
    <2>3. TypeOK'
        BY <1>1, <1>2, <1>3, <1>4, <2>1, <2>2 DEF Sections, Pollers
    <2>4. TokensReal'
        BY <1>2, <1>3, <1>4, <2>2
    <2> QED BY <1>2, <1>4, <2>3, <2>4
<1>5. CASE Crash
    <2>1. UNCHANGED <<disk, machine, github>> /\ section' = Free
        BY <1>5 DEF Crash, CutShort
    <2>2. /\ section' \in Sections /\ LockOK' /\ Generations'
          /\ section'.token = NoToken \/ section'.token.login # None
        BY <2>1, SectionTyped
    <2>3. /\ poller' = [at |-> "off", token |-> NoToken]
          /\ request' = [r \in Connects \cup Asks |-> Idle]
          /\ pending' = 0 /\ lapsed' = FALSE /\ torn' = TRUE
        BY <1>0, <1>5 DEF Crash, CutShort, PollerGoes, MovePoller
    <2>4. UNCHANGED <<row, token, desired, codes, revoked, applied, changed, script, gh>>
        BY <2>1 DEF disk, machine, github
    <2>5. TypeOK'
        <3>1. poller' \in Pollers /\ pending' \in Code /\ lapsed' \in BOOLEAN
            <4>1. [at |-> "off", token |-> NoToken] \in Pollers
                BY Constants DEF Pollers
            <4>2. 0 \in Code
                BY DEF GitHubLinkAssumption, Code
            <4> QED BY <2>3, <4>1, <4>2
        <3>2. request' \in [Connects \cup Asks ->
                  [at : {"idle", "code", "ensure", "asked"}, token : Token]]
            BY <1>0, <2>3
        <3> QED BY <2>2, <2>3, <2>4, <3>1, <3>2 DEF Sections, Pollers
    <2>6. TokensReal'
        BY <1>0, <2>2, <2>3, <2>4
    <2> QED BY <2>2, <2>5, <2>6
<1>6. CASE WriteFails
    <2>1. /\ UNCHANGED <<memory, disk, machine, github>> /\ section' = Free
          /\ torn' = TRUE
        BY <1>6 DEF WriteFails, CutShort
    <2>2. /\ section' \in Sections /\ LockOK' /\ Generations'
          /\ section'.token = NoToken \/ section'.token.login # None
        BY <2>1, SectionTyped
    <2>3. UNCHANGED <<pending, lapsed, poller, request, row, token, desired, codes,
                      revoked, applied, changed, script, gh>>
        BY <2>1 DEF memory, disk, machine, github
    <2>4. TypeOK'
        BY <2>1, <2>2, <2>3 DEF Sections
    <2>5. TokensReal'
        BY <1>0, <2>1, <2>2, <2>3
    <2> QED BY <2>2, <2>4, <2>5
<1> QED BY <1>4, <1>5, <1>6

-----------------------------------------------------------------------------
\* The script.
Scripts == [at : {"off", "token", "generation", "login",
                  "account", "report", "recheck", "leave"},
            secret : BOOLEAN, gen : 0..MaxGen, connected : BOOLEAN,
            login : Identity, left : SUBSET Accounts, ok : BOOLEAN,
            pass : 1..MAX_PASSES]

LEMMA OffIsScript == GitHubLinkAssumption => Off \in Scripts
BY DEF Off, Scripts, Identity, GitHubLinkAssumption

LEMMA GhKeepsUsers ==
    ASSUME GitHubLinkAssumption, Typed, NEW a \in Accounts,
           NEW signedIn \in {gh[a], LoggedOut(a), AfterApply(a)}
    PROVE  signedIn \subseteq Logins
<1>1. gh[a] \subseteq Logins
    BY DEF Typed, TypeOK
<1>2. LoggedOut(a) \subseteq Logins
    BY <1>1 DEF LoggedOut
<1>3. script.connected /\ Works => token.login \in Logins
    BY DEF Works, Typed, TypeOK, TokensReal, Token, Identity
<1>4. AfterApply(a) \subseteq Logins
    BY <1>1, <1>2, <1>3 DEF AfterApply
<1> QED BY <1>1, <1>2, <1>4

\* What each step of the script does to its variables.
LEMMA ScriptTyped ==
    ASSUME GitHubLinkAssumption, Typed,
           Scripted \/ \E a \in Accounts : GhFails(a)
    PROVE  Typed'
<1> USE DEF Typed, TypeOK
<1>0. Off \in Scripts /\ script \in Scripts
    BY OffIsScript DEF Scripts
<1>1. UNCHANGED <<api, torn>>
    BY DEF Scripted, StartScript, ReadPieces, Reads, ApplyTo, GhFails, AccountDone,
           Report, ReportAs, Recheck, RecheckFor, LeaveScript
<1>2. UNCHANGED <<row, token, desired, pending, lapsed, poller, request, section, codes,
                  revoked, torn>>
    BY <1>1 DEF api, memory, disk, github
<1>3. TokensReal' /\ LockOK'
    BY <1>2 DEF TokensReal, LockOK, Unlocked
<1>4. ASSUME script' \in Scripts, changed' \in BOOLEAN, gh' \in [Accounts -> SUBSET Logins],
             applied' \in [generation : 0..MaxGen, login : Identity, ok : BOOLEAN],
             applied'.generation <= desired.generation,
             applied'.generation >= applied.generation,
             script'.at \in {"login", "account"} =>
                 applied'.generation <= script'.gen /\ script'.gen <= desired.generation
      PROVE  Typed'
    <2>1. Generations'
        <3>1. desired.generation <= NextGeneration'
            BY <1>2, <1>4 DEF Generations, NextGeneration, GitHubLinkAssumption
        <3> QED BY <1>2, <1>4, <3>1 DEF Generations, MayWrite
    <2> QED BY <1>2, <1>3, <1>4, <2>1 DEF Scripts
<1>5. applied.generation \in Nat /\ desired.generation \in Nat
    BY DEF GitHubLinkAssumption
<1>6. CASE StartScript \/ LeaveScript
    <2>1. script' \in Scripts /\ script'.at \in {"off", "token"}
        <3>1. CASE StartScript
            <4>1. script' = [Off EXCEPT !.at = "token"]
                BY <3>1 DEF StartScript
            <4> QED BY <4>1, OffIsScript DEF Scripts
        <3>2. CASE LeaveScript
            <4>1. script' = Off /\ Off.at = "off"
                BY <3>2 DEF LeaveScript, Off
            <4> QED BY <4>1, OffIsScript
        <3> QED BY <1>6, <3>1, <3>2
    <2>2. changed' \in BOOLEAN /\ UNCHANGED <<gh, applied>>
        BY <1>6 DEF StartScript, LeaveScript
    <2>3. applied.generation <= desired.generation
        BY DEF Generations
    <2> QED BY <1>4, <1>5, <2>1, <2>2, <2>3
<1>7. CASE ReadPieces
    <2>1. CASE Reads("token", "generation")
        <3>1. script' = [script EXCEPT !.at = "generation", !.secret = (token # NoToken)]
            BY <2>1 DEF Reads
        <3>2. script' \in Scripts /\ script'.at = "generation"
            BY <1>0, <3>1 DEF Scripts
        <3> QED BY <1>4, <1>5, <2>1, <3>2 DEF Reads, Generations
    <2>2. CASE Reads("generation", "login")
        <3>1. script' = [script EXCEPT !.at = "login", !.gen = desired.generation]
            BY <2>2 DEF Reads
        <3>2. script' \in Scripts /\ script'.at = "login" /\ script'.gen = desired.generation
            BY <1>0, <3>1 DEF Scripts
        <3> QED BY <1>4, <1>5, <2>2, <3>2 DEF Reads, Generations
    <2>3. CASE Reads("login", "account")
        <3>1. script' = [script EXCEPT !.at = "account", !.left = Accounts, !.ok = TRUE,
                                       !.connected = (desired.login # None),
                                       !.login = desired.login]
            BY <2>3 DEF Reads
        <3>2. /\ script' \in Scripts /\ script'.at = "account" /\ script'.gen = script.gen
            BY <1>0, <3>1 DEF Scripts
        <3>3. script.at = "login"
            BY <2>3 DEF Reads
        <3> QED BY <1>4, <1>5, <2>3, <3>2, <3>3 DEF Reads, Generations
    <2> QED BY <1>7, <2>1, <2>2, <2>3 DEF ReadPieces
<1>8. ASSUME NEW a \in Accounts, ApplyTo(a) \/ GhFails(a) PROVE Typed'
    <2>1. PICK ok \in BOOLEAN, signedIn \in {gh[a], LoggedOut(a), AfterApply(a)} :
              AccountDone(a, ok, signedIn)
        BY <1>8 DEF ApplyTo, GhFails, Works
    <2>2. signedIn \subseteq Logins
        BY GhKeepsUsers
    <2>3. script' = [script EXCEPT !.left = @ \ {a}, !.ok = @ /\ ok] /\ script.at = "account"
        BY <2>1 DEF AccountDone
    <2>4. script' \in Scripts /\ script'.at = "account" /\ script'.gen = script.gen
        BY <1>0, <2>3 DEF Scripts
    <2> QED BY <1>4, <1>5, <2>1, <2>2, <2>3, <2>4 DEF AccountDone, Generations
<1>9. CASE Report
    <2>1. /\ script' = [Off EXCEPT !.at = "recheck", !.gen = script.gen, !.pass = script.pass]
          /\ script.at = "account"
          /\ applied'.generation = script.gen
          /\ applied' \in [generation : 0..MaxGen, login : Identity, ok : BOOLEAN]
        BY <1>0, <1>9 DEF Report, ReportAs, Scripts, Identity
    <2>2. script' \in Scripts /\ script'.at = "recheck"
        BY <1>0, <2>1 DEF Scripts
    <2> QED BY <1>4, <1>5, <1>9, <2>1, <2>2 DEF Report, ReportAs, Generations
<1>10. CASE Recheck
    <2>1. script.pass < MAX_PASSES => script.pass + 1 \in 1..MAX_PASSES
        BY DEF GitHubLinkAssumption
    <2>2. script' \in Scripts /\ script'.at \in {"token", "leave"}
        BY <1>0, <1>10, <2>1 DEF Recheck, RecheckFor, Scripts
    <2> QED BY <1>4, <1>5, <1>10, <2>2 DEF Recheck, RecheckFor, Generations
<1> QED BY <1>6, <1>7, <1>8, <1>9, <1>10 DEF Scripted

LEMMA InitTyped == GitHubLinkAssumption /\ Init => Typed
<1> SUFFICES ASSUME GitHubLinkAssumption, Init PROVE Typed
    OBVIOUS
<1>1. /\ NoToken \in Token /\ Free \in Sections /\ Off \in Scripts
      /\ Free.at = "free" /\ ~Free.bad /\ Free.token = NoToken /\ Off.at = "off"
      /\ None \in Identity /\ 0 \in Code /\ 0 \in 0..MaxGen
      /\ Idle = [at |-> "idle", token |-> NoToken]
    <2>1. Off.at = "off"
        BY DEF Off
    <2>2. Idle = [at |-> "idle", token |-> NoToken]
        BY DEF Idle
    <2>3. None \in Identity /\ 0 \in Code /\ 0 \in 0..MaxGen
        BY DEF Identity, Code, GitHubLinkAssumption
    <2> QED BY <2>1, <2>2, <2>3, Constants, OffIsScript
<1>2. TypeOK
    BY <1>1 DEF Init, TypeOK, Sections, Scripts
<1>3. TokensReal /\ LockOK
    BY <1>1 DEF Init, TokensReal, LockOK
<1>4. Generations
    BY <1>1 DEF Init, Generations, NextGeneration
<1> QED BY <1>2, <1>3, <1>4 DEF Typed

LEMMA TypedNext == GitHubLinkAssumption /\ Typed /\ [Next]_vars => Typed'
BY TypedWrites, TypedRequested, TypedPolling, ScriptTyped DEF Next

LEMMA AlwaysTyped == Spec => []Typed
BY GitHubLinkAssumption, InitTyped, TypedNext, PTL DEF Spec

\* Every variable keeps its type; with it, the generations stay within their
\* bound in every file, also after a crash between two writes of one.
THEOREM TypeCorrect == Spec => []TypeOK
<1>1. Typed => TypeOK
    BY DEF Typed
<1> QED BY <1>1, AlwaysTyped, PTL

-----------------------------------------------------------------------------
\* What may begin while the lock is free, and why.
LEMMA WhatBegins ==
    ASSUME GitHubLinkAssumption, Typed, [Next]_vars, Unlocked
    PROVE  \/ section' = Free
           \/ section' = DisconnectWrites
           \/ section' = BadWrites /\ IsCurrent(token) /\ token.code \in revoked
           \/ IsCurrent(token) /\ section' = ReapplyWrites(token)
           \/ /\ pending = poller.token.code /\ poller.at = "user"
              /\ section' = ConnectWrites(poller.token)
<1>1. section = Free
    BY DEF Typed, LockOK
<1>2. CASE UNCHANGED section
    BY <1>1, <1>2
<1>3. CASE Disconnect
    BY <1>3 DEF Disconnect
<1>4. ASSUME NEW r \in Connects \cup Asks, Judged(r), section' # section
      PROVE  \/ section' = BadWrites /\ IsCurrent(token) /\ token.code \in revoked
             \/ IsCurrent(token) /\ section' = ReapplyWrites(token)
    <2>1. IsCurrent(request[r].token) /\ request[r].token = token
        BY <1>4 DEF Judged, JudgedIf, IsCurrent
    <2> QED BY <1>4, <2>1 DEF Judged, JudgedIf
<1>5. CASE UserAnswered /\ section' # section
    BY <1>5 DEF UserAnswered, UserAnsweredIf
<1>6. CASE Writes
    <2>1. section.at # "free"
        BY <1>6 DEF Writes, WriteToken, WriteRow, WriteDesired, WriteGeneration
    <2> QED BY <2>1 DEF Unlocked
<1>7. CASE Crash \/ WriteFails
    BY <1>7 DEF Crash, WriteFails, CutShort
<1>8. ASSUME \/ \E r \in Connects : Connect(r)
             \/ \E r \in Asks : Ask(r)
             \/ \E r \in Connects \cup Asks : SetPending(r) \/ EnsurePoller(r)
             \/ Poll \/ PollAnswered \/ LeavePoller \/ Lapse \/ Revoked \/ UNCHANGED vars
      PROVE  UNCHANGED section
    BY <1>8 DEF Connect, Ask, SetPending, EnsurePoller, Poll, PollAnswered, LeavePoller,
           LeavePollerFor, Lapse, Revoked, Revoke, vars
<1>9. ASSUME Scripted \/ \E a \in Accounts : GhFails(a)
      PROVE  UNCHANGED section
    BY <1>9 DEF Scripted, StartScript, ReadPieces, Reads, ApplyTo, GhFails, AccountDone,
           Report, ReportAs, Recheck, RecheckFor, LeaveScript, api
<1> QED BY <1>2, <1>3, <1>4, <1>5, <1>6, <1>7, <1>8, <1>9
        DEF Next, Requested, Answered, Polling

LEMMA DisconnectStaysStep ==
    ASSUME GitHubLinkAssumption, Typed, [Next]_vars,
           Unlocked, pending = 0, row.login = None
    PROVE  section'.login = None
<1>1. ~IsCurrent(token)
    BY DEF IsCurrent
<1>2. poller.at = "user" => poller.token.code # pending
    BY DEF Typed, TokensReal
<1>3. section' = Free \/ section' = DisconnectWrites
    BY <1>1, <1>2, WhatBegins
<1>4. NoToken \in Token
    BY Constants
<1> QED BY <1>3, <1>4, Constants, SectionsBegin DEF Typed

\* A disconnect stays: no answer of GitHub that is still on its way, to the
\* poller or to a request, starts to connect somebody afterwards.
THEOREM DisconnectIsFinal == Spec => DisconnectStays
<1>1. GitHubLinkAssumption /\ Typed /\ [Next]_vars =>
        [Unlocked /\ pending = 0 /\ row.login = None => section'.login = None]_vars
    BY DisconnectStaysStep
<1> QED BY <1>1, GitHubLinkAssumption, AlwaysTyped, PTL DEF Spec, DisconnectStays

LEMMA OnlyRefusedStep ==
    ASSUME GitHubLinkAssumption, Typed, [Next]_vars, section'.bad, Unlocked
    PROVE  token.code \in revoked
<1>1. /\ ~Free.bad /\ token \in Token /\ TypeOK /\ NoToken \in Token
      /\ poller.token \in Token
    BY Constants DEF Typed, TypeOK
<1>2. /\ ~DisconnectWrites.bad /\ ~ReapplyWrites(token).bad
      /\ ~ConnectWrites(poller.token).bad
    BY <1>1, SectionsBegin
<1> QED BY <1>1, <1>2, WhatBegins

\* Only a token GitHub has refused is dropped, never the one that replaced it
\* while the refusal was on its way.
THEOREM RefusalIsOfThisToken == Spec => OnlyRefusedIsBad
<1>1. GitHubLinkAssumption /\ Typed /\ [Next]_vars =>
        [section'.bad /\ Unlocked => token.code \in revoked]_vars
    BY OnlyRefusedStep
<1> QED BY <1>1, GitHubLinkAssumption, AlwaysTyped, PTL DEF Spec, OnlyRefusedIsBad

-----------------------------------------------------------------------------
\* The poller.
LEMMA PolledNext ==
    ASSUME GitHubLinkAssumption, Typed, Polled, [Next]_vars
    PROVE  Polled'
<1> USE DEF Polled, ConnectsAsk, CodeIsPolled
<1>0. /\ request \in [Connects \cup Asks ->
              [at : {"idle", "code", "ensure", "asked"}, token : Token]]
      /\ Idle.at = "idle" /\ poller \in Pollers
    BY DEF Idle, Typed, TypeOK, Pollers
<1>1. ASSUME UNCHANGED <<pending, poller, request>> PROVE Polled'
    BY <1>1
<1>2. CASE Disconnect
    BY <1>2 DEF Disconnect
<1>3. ASSUME NEW r \in Connects, Connect(r) PROVE Polled'
    <2>1. request' = [request EXCEPT ![r] = [Idle EXCEPT !.at = "code"]]
        BY <1>3 DEF Connect, Goto
    <2>2. /\ request'[r].at = "code"
          /\ \A q \in (Connects \cup Asks) \ {r} : request'[q] = request[q]
        BY <1>0, <2>1 DEF Idle
    <2>3. pending' = pending /\ poller' = poller /\ request[r].at = "idle"
        BY <1>3 DEF Connect
    <2> QED BY <1>0, <2>2, <2>3
<1>4. ASSUME NEW r \in Asks, Ask(r) PROVE Polled'
    <2>1. /\ request'[r].at = "asked"
          /\ \A q \in (Connects \cup Asks) \ {r} : request'[q] = request[q]
          /\ pending' = pending /\ poller' = poller /\ request[r].at = "idle"
        BY <1>0, <1>4 DEF Ask
    <2> QED BY <1>0, <2>1
<1>5. ASSUME NEW r \in Connects \cup Asks, SetPending(r) PROVE Polled'
    <2>1. r \in Connects /\ request[r].at = "code" /\ poller' = poller
        BY <1>5 DEF SetPending
    <2>2. CASE request' = [request EXCEPT ![r] = [Idle EXCEPT !.at = "ensure"]]
        <3>1. /\ request'[r].at = "ensure"
              /\ \A q \in (Connects \cup Asks) \ {r} : request'[q] = request[q]
            BY <1>0, <2>2 DEF Idle
        <3> QED BY <2>1, <3>1
    <2>3. CASE request' = [request EXCEPT ![r] = Idle] /\ pending' = pending
        <3>1. /\ request'[r].at = "idle"
              /\ \A q \in (Connects \cup Asks) \ {r} : request'[q] = request[q]
            BY <1>0, <2>3
        <3> QED BY <2>1, <2>3, <3>1
    <2> QED BY <1>5, <2>2, <2>3 DEF SetPending, Goto, Finished
<1>6. ASSUME NEW r \in Connects \cup Asks, EnsurePoller(r) PROVE Polled'
    <2>1. poller'.at # "off"
        BY <1>6 DEF EnsurePoller
    <2>2. /\ request'[r].at = "idle"
          /\ \A q \in (Connects \cup Asks) \ {r} : request'[q] = request[q]
        BY <1>0, <1>6 DEF EnsurePoller, Finished
    <2> QED BY <2>1, <2>2
<1>7. ASSUME NEW r \in Connects \cup Asks, Judged(r) PROVE Polled'
    <2>1. /\ request'[r].at = "idle" /\ request[r].at = "asked"
          /\ \A q \in (Connects \cup Asks) \ {r} : request'[q] = request[q]
          /\ pending' = pending /\ poller' = poller
        BY <1>0, <1>7 DEF Judged, JudgedIf, Finished
    <2> QED BY <2>1
<1>8. CASE Polling
    <2>1. request' = request /\ pending' \in {pending, 0}
        BY <1>8 DEF Polling, Poll, PollAnswered, UserAnswered, UserAnsweredIf,
              LeavePoller, LeavePollerFor, EndCode
    <2>2. poller'.at = "off" => pending' = 0
        BY <1>8 DEF Polling, Poll, PollAnswered, UserAnswered, UserAnsweredIf,
              LeavePoller, LeavePollerFor, EndCode, PollerGoes, MovePoller
    <2> QED BY <2>1, <2>2
<1>9. CASE Crash
    BY <1>0, <1>9 DEF Crash
<1>11. CASE WriteFails
    BY <1>1, <1>11 DEF WriteFails, memory
<1>10. CASE Writes \/ Lapse \/ Revoked \/ Scripted \/ UNCHANGED vars
            \/ \E a \in Accounts : GhFails(a)
    <2>1. UNCHANGED <<pending, poller, request>>
        BY <1>10
           DEF Writes, WriteToken, WriteRow, WriteDesired, WriteGeneration, Lapse, Revoked,
               Revoke, Scripted, StartScript, ReadPieces, Reads, ApplyTo, GhFails,
               AccountDone, Report, ReportAs, Recheck, RecheckFor, LeaveScript, api,
               memory, vars
    <2> QED BY <1>1, <2>1
<1> QED BY <1>2, <1>3, <1>4, <1>5, <1>6, <1>7, <1>8, <1>9, <1>10, <1>11
        DEF Next, Requested, Answered

\* A code the user is shown has a poller, or a connect() about to start one:
\* the poller's last look and a new connect() cannot miss each other.
THEOREM EveryCodeIsPolled == Spec => []CodeIsPolled
<1>1. Init => Polled
    <2>1. Idle.at = "idle"
        BY DEF Idle
    <2> QED BY <2>1 DEF Init, Polled, ConnectsAsk, CodeIsPolled
<1>2. Polled => CodeIsPolled
    BY DEF Polled
<1> QED BY <1>1, <1>2, GitHubLinkAssumption, AlwaysTyped, PolledNext, PTL DEF Spec

-----------------------------------------------------------------------------
\* "Ready" is true.

\* A change that begins, or none: the files stay, and so does all of it.
LEMMA WholeBegins ==
    ASSUME GitHubLinkAssumption, Typed, Whole, UNCHANGED <<disk, machine>>,
           \/ section' = section
           \/ /\ Unlocked
              /\ section'.at \in {"free", "token", "row"}
              /\ section'.bad => section'.login = row.login /\ section'.token = NoToken
              /\ section'.token # NoToken => section'.token.login = section'.login
              /\ section'.at = "row" => token = section'.token
    PROVE  Whole'
<1>0. /\ UNCHANGED <<row, token, desired, applied, script, gh>>
      /\ Settled' => Settled
    BY DEF disk, machine, Settled, Unlocked
<1>1. Agree'
    BY <1>0 DEF Whole, Agree, Settled, Unlocked
<1>2. PassIsTrue' /\ ReportIsTrue'
    BY <1>0 DEF Whole, PassIsTrue, ReportIsTrue, SignedIn
<1> QED BY <1>1, <1>2 DEF Whole

LEMMA WholeRequested ==
    ASSUME GitHubLinkAssumption, Typed, Whole, [Next]_vars, UNCHANGED <<disk, machine>>,
           ~Writes, ~CutShort
    PROVE  Whole'
<1>1. CASE section' = section
    BY <1>1, WholeBegins
<1>2. CASE section' # section
    <2>1. Unlocked
        BY <1>2 DEF Next, Crash, WriteFails, Requested, Disconnect, Connect, Ask, Answered, SetPending,
              EnsurePoller, Judged, JudgedIf, Polling, Poll, PollAnswered, UserAnswered,
              UserAnsweredIf, LeavePoller, LeavePollerFor, Lapse, Revoked, Revoke,
              Scripted, StartScript, ReadPieces, Reads, ApplyTo, GhFails, AccountDone,
              Report, ReportAs, Recheck, RecheckFor, LeaveScript, api, vars
    <2>2. /\ NoToken \in Token /\ token \in Token /\ poller.token \in Token /\ TypeOK
          /\ Free.at = "free" /\ ~Free.bad /\ Free.token = NoToken
        BY Constants DEF Typed, TypeOK
    <2>3. CASE section' = Free \/ section' = DisconnectWrites \/ section' = BadWrites
        BY <2>1, <2>2, <2>3, SectionsBegin, WholeBegins
    <2>4. CASE section' = ReapplyWrites(token)
        BY <2>1, <2>2, <2>4, SectionsBegin, WholeBegins
    <2>5. CASE section' = ConnectWrites(poller.token)
        BY <2>1, <2>2, <2>5, SectionsBegin, WholeBegins
    <2> QED BY <2>1, <2>3, <2>4, <2>5, WhatBegins
<1> QED BY <1>1, <1>2

LEMMA WholeWrites ==
    ASSUME GitHubLinkAssumption, Typed, Typed', Whole, Writes
    PROVE  Whole'
<1> USE DEF Whole
<1>0. /\ section \in Sections /\ Free.at = "free" /\ Free.bad = FALSE
      /\ Free.token = NoToken /\ row \in Rows
    BY Constants DEF Typed, TypeOK, Sections, Rows
<1>1. CASE WriteToken
    <2>1. /\ section.at = "token" /\ section'.at = "row" /\ section'.bad = section.bad
          /\ section'.token = section.token /\ section'.login = section.login
          /\ token' = section.token
          /\ UNCHANGED <<row, desired, applied, script, gh>>
        BY <1>0, <1>1 DEF WriteToken, Step, Sections, machine
    <2>2. Agree'
        BY <2>1 DEF Agree, Settled
    <2>3. Settled' => token' = NoToken
        BY <2>1 DEF Agree, Settled
    <2> QED BY <2>1, <2>2, <2>3 DEF PassIsTrue, ReportIsTrue, SignedIn
<1>2. CASE WriteRow
    <2>0. /\ section.at = "row" /\ row'.generation = row.generation
          /\ row'.login = section.login /\ row'.bad = section.bad
          /\ UNCHANGED <<token, desired, applied, script, gh>>
        <3>1. /\ section.at = "row"
              /\ row' = [row EXCEPT !.login = section.login, !.bad = section.bad]
              /\ UNCHANGED <<token, desired, applied, script, gh>>
            BY <1>2 DEF WriteRow, machine
        <3>2. row \in Rows /\ section \in Sections
            BY <1>0
        <3>3. /\ row'.generation = row.generation
              /\ row'.login = section.login /\ row'.bad = section.bad
            <4> HIDE DEF Whole
            <4> DEFINE written == [row EXCEPT !.login = section.login, !.bad = section.bad]
            <4>1. /\ written.generation = row.generation
                  /\ written.login = section.login /\ written.bad = section.bad
                BY <3>2 DEF Rows
            <4>2. row' = written
                BY <3>1
            <4> HIDE DEF written
            <4> QED BY <4>1, <4>2
        <3> QED BY <3>1, <3>3
    <2>1. CASE section.bad
        <3>1. section' = Free
            BY <1>2, <2>1 DEF WriteRow
        <3>2. Agree'
            BY <1>0, <2>0, <2>1, <3>1 DEF Agree, Settled
        <3> QED BY <2>0, <2>1, <3>1, <3>2 DEF PassIsTrue, ReportIsTrue, SignedIn
    <2>2. CASE ~section.bad
        <3>1. /\ section'.at = "desired" /\ section'.bad = section.bad
              /\ section'.token = section.token /\ section'.login = section.login
            BY <1>0, <1>2, <2>2 DEF WriteRow, Step, Sections
        <3>2. Agree'
            BY <2>0, <2>2, <3>1 DEF Agree, Settled
        <3>3. ~Settled'
            BY <2>2, <3>1 DEF Settled
        <3> QED BY <2>0, <3>2, <3>3 DEF PassIsTrue, ReportIsTrue, SignedIn
    <2> QED BY <2>1, <2>2
<1>3. CASE WriteDesired
    <2>1. /\ section.at = "desired" /\ section'.at = "generation"
          /\ section'.bad = section.bad /\ ~section.bad
          /\ section'.token = section.token /\ section'.login = section.login
          /\ desired' = [generation |-> NextGeneration, login |-> row.login]
          /\ UNCHANGED <<row, token, applied, script, gh>>
        BY <1>0, <1>3 DEF WriteDesired, Step, Sections, Typed, LockOK
    <2>2. Agree'
        BY <2>1 DEF Agree, Settled
    <2>3. desired'.generation > desired.generation
        BY <2>1 DEF Agree, NextGeneration, Typed, TypeOK, GitHubLinkAssumption
    <2>4. /\ applied.generation <= desired.generation
          /\ script.at = "account" => script.gen <= desired.generation
          /\ applied.generation \in Nat /\ script.gen \in Nat
          /\ desired.generation \in Nat /\ desired'.generation \in Nat
        BY DEF Typed, Generations, TypeOK, GitHubLinkAssumption
    <2>5. PassIsTrue' /\ ReportIsTrue'
        BY <2>1, <2>3, <2>4 DEF PassIsTrue, ReportIsTrue
    <2> QED BY <2>2, <2>5
<1>4. CASE WriteGeneration
    <2>1. /\ section.at = "generation" /\ section' = Free
          /\ row'.generation = desired.generation /\ row'.login = row.login
          /\ row'.bad = row.bad
          /\ UNCHANGED <<token, desired, applied, script, gh>>
        BY <1>0, <1>4 DEF WriteGeneration, machine, Rows
    <2>2. Agree' /\ Settled
        BY <1>0, <2>1 DEF Agree, Settled
    <2> QED BY <2>1, <2>2 DEF PassIsTrue, ReportIsTrue, SignedIn
<1> QED BY <1>1, <1>2, <1>3, <1>4 DEF Writes

\* One account is done: a pass that is not for the last generation concerns
\* nobody, and one that is never logs out the login the status shows.
LEMMA WholeAccountDone ==
    ASSUME GitHubLinkAssumption, Typed, Whole, NEW a \in Accounts,
           ApplyTo(a) \/ GhFails(a)
    PROVE  Whole'
<1>1. PICK ok \in BOOLEAN, signedIn \in {gh[a], LoggedOut(a), AfterApply(a)} :
          /\ AccountDone(a, ok, signedIn)
          /\ ok => Works /\ signedIn = AfterApply(a)
    BY DEF ApplyTo, GhFails, Works
<1>2. /\ script.at = "account" /\ script'.at = "account" /\ script'.gen = script.gen
      /\ script'.login = script.login /\ script'.connected = script.connected
      /\ script'.left = script.left \ {a} /\ script'.ok = (script.ok /\ ok)
      /\ UNCHANGED <<row, token, desired, section, applied>>
      /\ gh' = [gh EXCEPT ![a] = signedIn] /\ gh \in [Accounts -> SUBSET Logins]
    BY <1>1 DEF AccountDone, api, disk, Typed, TypeOK
<1>3. /\ gh'[a] = signedIn
      /\ \A b \in Accounts \ {a} : gh'[b] = gh[b]
    BY <1>2
<1>4. Agree'
    BY <1>2 DEF Whole, Agree, Settled
<1>5. PassIsTrue'
    <2> SUFFICES ASSUME script.gen = desired.generation, script.ok, ok,
                        Settled, row.login # None, token # NoToken, ~row.bad,
                        NEW b \in Accounts \ script'.left
                 PROVE  row.login \in gh'[b]
        BY <1>2 DEF Whole, PassIsTrue, SignedIn, Settled
    <2>1. CASE b # a
        <3>1. b \in Accounts \ script.left
            BY <1>2, <2>1
        <3> QED BY <1>2, <1>3, <2>1, <3>1 DEF Whole, PassIsTrue, SignedIn
    <2>2. CASE b = a
        <3>1. script.connected /\ token.login = row.login
            BY <1>2 DEF Whole, PassIsTrue, Agree
        <3>2. Works /\ script.secret
            BY <1>1, <3>1 DEF Works
        <3>3. signedIn = LoggedOut(a) \cup {token.login}
            BY <1>1, <3>1, <3>2 DEF AfterApply
        <3> QED BY <1>3, <2>2, <3>1, <3>3
    <2> QED BY <2>1, <2>2
<1>6. ReportIsTrue'
    <2> SUFFICES ASSUME applied.generation = desired.generation, applied.ok,
                        Settled, row.login # None, token # NoToken, ~row.bad,
                        NEW b \in Accounts
                 PROVE  row.login \in gh'[b]
        BY <1>2 DEF Whole, ReportIsTrue, SignedIn, Settled
    <2>1. row.login \in gh[b]
        BY DEF Whole, ReportIsTrue, SignedIn
    <2>2. script.gen = desired.generation
        BY <1>2 DEF Typed, Generations, TypeOK, GitHubLinkAssumption
    <2>3. script.connected /\ script.login = applied.login
        BY <1>2, <2>2 DEF Whole, Agree, PassIsTrue, ReportIsTrue
    <2>4. LoggedOut(a) = gh[a]
        BY <2>3 DEF LoggedOut
    <2>5. gh[a] \subseteq signedIn
        BY <1>1, <2>3, <2>4 DEF AfterApply
    <2> QED BY <1>3, <2>1, <2>5
<1> QED BY <1>4, <1>5, <1>6 DEF Whole

LEMMA WholeScripted ==
    ASSUME GitHubLinkAssumption, Typed, Whole,
           Scripted \/ \E a \in Accounts : GhFails(a)
    PROVE  Whole'
<1>0. script \in Scripts /\ Off \in Scripts
    BY OffIsScript DEF Typed, TypeOK, Scripts
<1>1. ASSUME NEW a \in Accounts, ApplyTo(a) \/ GhFails(a) PROVE Whole'
    BY <1>1, WholeAccountDone
<1>2. ASSUME UNCHANGED <<api, applied, gh>>, script'.at # "account" PROVE Whole'
    <2>1. UNCHANGED <<row, token, desired, section, applied, gh>>
        BY <1>2 DEF api, disk
    <2> QED BY <1>2, <2>1
            DEF Whole, Agree, PassIsTrue, ReportIsTrue, SignedIn, Settled
<1>3. CASE StartScript \/ LeaveScript \/ Recheck
    <2>1. script'.at # "account"
        BY <1>0, <1>3 DEF StartScript, LeaveScript, Recheck, RecheckFor, Off, Scripts
    <2> QED BY <1>2, <1>3, <2>1 DEF StartScript, LeaveScript, Recheck, RecheckFor
<1>4. CASE Reads("token", "generation") \/ Reads("generation", "login")
    <2>1. script'.at # "account"
        BY <1>0, <1>4 DEF Reads, Scripts
    <2> QED BY <1>2, <1>4, <2>1 DEF Reads
<1>5. CASE Reads("login", "account")
    <2>1. script' = [script EXCEPT !.at = "account", !.left = Accounts, !.ok = TRUE,
                                   !.connected = (desired.login # None),
                                   !.login = desired.login]
        BY <1>5 DEF Reads
    <2>2. /\ script'.login = desired.login /\ script'.left = Accounts
          /\ script'.connected <=> desired.login # None
        BY <1>0, <2>1 DEF Scripts
    <2>3. UNCHANGED <<row, token, desired, section, applied, gh>>
        BY <1>5 DEF Reads, api, disk
    <2>4. PassIsTrue'
        BY <2>2, <2>3 DEF PassIsTrue, SignedIn
    <2> QED BY <2>3, <2>4 DEF Whole, Agree, ReportIsTrue, SignedIn, Settled
<1>6. CASE Report
    <2>1. /\ script.at = "account" /\ script.left = {}
          /\ script' = [Off EXCEPT !.at = "recheck", !.gen = script.gen, !.pass = script.pass]
          /\ applied'.generation = script.gen /\ applied'.ok = script.ok
          /\ script.connected => applied'.login = script.login
          /\ UNCHANGED <<row, token, desired, section, gh>>
        BY <1>6 DEF Report, ReportAs, api, disk
    <2>2. script'.at = "recheck"
        BY <1>0, <2>1 DEF Scripts
    <2>3. ReportIsTrue'
        BY <2>1 DEF Whole, PassIsTrue, ReportIsTrue, SignedIn, Settled
    <2>4. PassIsTrue'
        BY <2>2 DEF PassIsTrue
    <2> QED BY <2>1, <2>3, <2>4 DEF Whole, Agree, Settled
<1> QED BY <1>1, <1>3, <1>4, <1>5, <1>6 DEF Scripted, ReadPieces

LEMMA WholeNext ==
    ASSUME GitHubLinkAssumption, Typed, Typed', WholeUnlessTorn, [Next]_vars
    PROVE  WholeUnlessTorn'
<1> SUFFICES ASSUME ~torn' PROVE Whole'
    BY DEF WholeUnlessTorn
<1>1. ~CutShort
    BY DEF CutShort
<1>2. ~torn
    <2>1. CASE Writes BY <2>1 DEF Writes, WriteToken, WriteRow, WriteDesired, WriteGeneration
    <2>2. CASE ~Writes
        BY <1>1, <2>2
           DEF Next, Crash, WriteFails, Requested, Disconnect, Connect, Ask, Answered, SetPending,
              EnsurePoller, Judged, JudgedIf, Polling, Poll, PollAnswered, UserAnswered,
              UserAnsweredIf, LeavePoller, LeavePollerFor, Lapse, Revoked, Revoke,
              Scripted, StartScript, ReadPieces, Reads, ApplyTo, GhFails, AccountDone,
              Report, ReportAs, Recheck, RecheckFor, LeaveScript, vars
    <2> QED BY <2>1, <2>2
<1>3. Whole
    BY <1>2 DEF WholeUnlessTorn
<1>4. CASE Writes
    BY <1>3, <1>4, WholeWrites
<1>5. CASE Scripted \/ \E a \in Accounts : GhFails(a)
    BY <1>3, <1>5, WholeScripted
<1>6. CASE /\ ~Writes /\ ~Scripted /\ ~\E a \in Accounts : GhFails(a)
    <2>1. UNCHANGED <<disk, machine>>
        BY <1>1, <1>6
           DEF Next, Crash, WriteFails, Requested, Disconnect, Connect, Ask, Answered, SetPending,
              EnsurePoller, Judged, JudgedIf, Polling, Poll, PollAnswered, UserAnswered,
              UserAnsweredIf, LeavePoller, LeavePollerFor, Lapse, Revoked, Revoke, vars,
              disk, machine
    <2> QED BY <1>1, <1>3, <1>6, <2>1, WholeRequested
<1> QED BY <1>4, <1>5, <1>6

\* When status() says that the accounts are ready, the gh of every account has
\* the login it shows, whatever the script read between two writes of the API:
\* a generation is written last, and a pass reports the one it read first.
THEOREM ReadyIsTrue == Spec => []ReadyMeansSignedIn
<1>1. GitHubLinkAssumption /\ Init => WholeUnlessTorn
    <2>1. Free.at = "free" /\ ~Free.bad /\ Free.token = NoToken /\ Off.at = "off"
        BY Constants DEF Off, Free
    <2>2. GitHubLinkAssumption /\ Init => Agree
        BY <2>1, Constants DEF Init, Agree
    <2>3. Init => PassIsTrue /\ ReportIsTrue
        BY <2>1 DEF Init, PassIsTrue, ReportIsTrue, SignedIn
    <2> QED BY <2>2, <2>3 DEF WholeUnlessTorn, Whole
<1>2. WholeUnlessTorn => ReadyMeansSignedIn
    <2> SUFFICES ASSUME WholeUnlessTorn, Unlocked, Ready, ~torn, NEW a \in Accounts
                 PROVE  row.login \in gh[a]
        BY DEF ReadyMeansSignedIn
    <2>1. Whole /\ Settled /\ section.at # "generation"
        BY DEF WholeUnlessTorn, Settled, Unlocked
    <2>2. applied.generation = desired.generation /\ applied.ok
        BY <2>1 DEF Ready, Whole, Agree
    <2> QED BY <2>1, <2>2 DEF Whole, ReportIsTrue, SignedIn, Ready, Connected
<1> QED BY <1>1, <1>2, GitHubLinkAssumption, AlwaysTyped, WholeNext, PTL DEF Spec
=============================================================================
