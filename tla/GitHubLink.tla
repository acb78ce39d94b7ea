----------------------------- MODULE GitHubLink -----------------------------
(***************************************************************************)
(* The GitHub connection of a VM: core/github_link.py in the API process,  *)
(* which keeps a token and says in desired.json what the VM's accounts     *)
(* should be signed in as, and install/lib/github-apply.sh, which systemd  *)
(* runs as root when that file changes and which answers in applied.json.  *)
(* The API holds `_lock` while it changes the connection, but the script   *)
(* and a crash see the files and the row between any two of its writes.    *)
(***************************************************************************)
EXTENDS Naturals, FiniteSets

CONSTANTS
    Accounts,    \* login accounts of the VM
    Logins,      \* GitHub users
    Connects,    \* calls of connect() that may be under way together
    Asks,        \* calls that take the token out to ask GitHub about it
    None,
    MAX_PASSES,  \* of one run of the script
    MaxCodes,    \* bound on device codes
    MaxGen       \* bound on generations

ASSUME GitHubLinkAssumption ==
    /\ None \notin Logins
    /\ MAX_PASSES \in Nat \ {0}
    /\ MaxCodes \in Nat /\ MaxGen \in Nat

VARIABLES
    row,        \* the row of state.db
    token,      \* the token file; a token is known by its device code and user
    desired,    \* desired.json
    applied,    \* applied.json
    pending,    \* the code that is waited for, 0 if none
    lapsed,     \* its time is up
    section,    \* the writes left to whoever holds `_lock`
    poller,     \* the thread that waits for the user to enter the code
    request,    \* where each request is
    codes,      \* at GitHub: how many codes it gave
    revoked,    \* at GitHub: tokens that are not accepted any more
    changed,    \* systemd has a change to start the script for
    script,     \* where the script is, and its shell variables
    gh,         \* per account, the GitHub users its gh is signed in as
    torn        \* a change was cut short between two of its writes

memory == <<pending, lapsed, poller, request>>
disk == <<row, token, desired>>
github == <<codes, revoked>>
machine == <<applied, changed, script, gh>>
vars == <<memory, disk, section, github, machine, torn>>

Code == 0..MaxCodes
Identity == Logins \cup {None}
Token == [code : Code, login : Identity]
NoToken == [code |-> 0, login |-> None]

\* `_lock` is free at "free"; else at names the next write to be done.
Free == [at |-> "free", login |-> None, token |-> NoToken, bad |-> FALSE]

Off == [at |-> "off", secret |-> FALSE, gen |-> 0, connected |-> FALSE,
        login |-> None, left |-> {}, ok |-> TRUE, pass |-> 1]

TypeOK ==
    /\ row \in [login : Identity, bad : BOOLEAN, generation : 0..MaxGen]
    /\ token \in Token
    /\ desired \in [generation : 0..MaxGen, login : Identity]
    /\ applied \in [generation : 0..MaxGen, login : Identity, ok : BOOLEAN]
    /\ pending \in Code /\ lapsed \in BOOLEAN
    /\ section \in [at : {"free", "token", "row", "desired", "generation"},
                    login : Identity, token : Token, bad : BOOLEAN]
    /\ poller \in [at : {"off", "poll", "asked", "user", "leave"},
                   token : Token]
    /\ request \in [Connects \cup Asks ->
          [at : {"idle", "code", "ensure", "asked"}, token : Token]]
    /\ codes \in Code
    /\ revoked \subseteq 1..MaxCodes
    /\ changed \in BOOLEAN
    /\ script \in [at : {"off", "token", "generation", "login",
                         "account", "report", "recheck", "leave"},
                   secret : BOOLEAN, gen : 0..MaxGen, connected : BOOLEAN,
                   login : Identity, left : SUBSET Accounts, ok : BOOLEAN,
                   pass : 1..MAX_PASSES]
    /\ gh \in [Accounts -> SUBSET Logins]
    /\ torn \in BOOLEAN

Idle == [at |-> "idle", token |-> NoToken]

\* A VM just installed: the script has run once, without a desired.json
\* (generation 0).
Init ==
    /\ row = [login |-> None, bad |-> FALSE, generation |-> 0]
    /\ token = NoToken
    /\ desired = [generation |-> 0, login |-> None]
    /\ applied = [generation |-> 0, login |-> None, ok |-> TRUE]
    /\ pending = 0 /\ lapsed = FALSE
    /\ section = Free
    /\ poller = [at |-> "off", token |-> NoToken]
    /\ request = [r \in Connects \cup Asks |-> Idle]
    /\ codes = 0
    /\ revoked = {}
    /\ changed = FALSE /\ script = Off
    /\ gh = [a \in Accounts |-> {}]
    /\ torn = FALSE

-----------------------------------------------------------------------------
Unlocked == section.at = "free"

\* status() says "connected".
Connected == pending = 0 /\ row.login # None /\ ~row.bad /\ token # NoToken

\* setup_state() says "ready".
Ready == Connected /\ applied.generation = row.generation /\ applied.ok

IsCurrent(t) == row.login # None /\ ~row.bad /\ t # NoToken /\ token = t

\* Mutant: the numbers of the two are added up.
NextGenerationOfBoth == 1 + row.generation + applied.generation

NextGeneration ==
    1 + IF row.generation > applied.generation
        THEN row.generation ELSE applied.generation

MayWrite == desired.generation < MaxGen

\* The writes of a disconnect, of a connection that was made, of a reapply
\* (which keeps the token) and of a token that GitHub has refused.
DisconnectWrites == [Free EXCEPT !.at = "token"]
ConnectWrites(t) == [Free EXCEPT !.at = "token", !.login = t.login, !.token = t]
ReapplyWrites(t) == [Free EXCEPT !.at = "row", !.login = t.login, !.token = t]
BadWrites == [Free EXCEPT !.at = "token", !.login = row.login, !.bad = TRUE]

Step(at) == section' = [section EXCEPT !.at = at]

WriteToken ==
    /\ section.at = "token" /\ Step("row")
    /\ token' = section.token
    /\ UNCHANGED <<memory, row, desired, github, machine, torn>>

WriteRow ==
    /\ section.at = "row"
    /\ row' = [row EXCEPT !.login = section.login, !.bad = section.bad]
    /\ IF section.bad THEN section' = Free ELSE Step("desired")
    /\ UNCHANGED <<memory, token, desired, github, machine, torn>>

\* systemd watches the file only while the script is not running.
WriteDesired ==
    /\ section.at = "desired" /\ Step("generation")
    /\ desired' = [generation |-> NextGeneration, login |-> row.login]
    /\ changed' = (changed \/ script.at = "off")
    /\ UNCHANGED <<memory, row, token, github, applied, script, gh, torn>>

WriteGeneration ==
    /\ section.at = "generation" /\ section' = Free
    /\ row' = [row EXCEPT !.generation = desired.generation]
    /\ UNCHANGED <<memory, token, desired, github, machine, torn>>

-----------------------------------------------------------------------------
Goto(r, at) == request' = [request EXCEPT ![r] = [Idle EXCEPT !.at = at]]

Finished(r) == request' = [request EXCEPT ![r] = Idle]

\* connect(): a code that still runs, or a connection, is answered as it is.
Connect(r) ==
    /\ request[r].at = "idle" /\ Unlocked
    /\ pending = 0 \/ lapsed
    /\ ~Connected
    /\ codes < MaxCodes
    /\ Goto(r, "code")
    /\ UNCHANGED <<pending, lapsed, poller, disk, section, github, machine, torn>>

\* GitHub's new code replaces whatever is pending by now; or no answer.
SetPending(r) ==
    /\ request[r].at = "code"
    /\ \/ /\ Unlocked /\ codes < MaxCodes
          /\ codes' = codes + 1 /\ pending' = codes + 1 /\ lapsed' = FALSE
          /\ Goto(r, "ensure")
       \/ Finished(r) /\ UNCHANGED <<codes, pending, lapsed>>
    /\ UNCHANGED <<poller, disk, section, revoked, machine, torn>>

EnsurePoller(r) ==
    /\ request[r].at = "ensure" /\ Finished(r)
    /\ poller' = IF poller.at = "off" THEN [at |-> "poll", token |-> NoToken] ELSE poller
    /\ UNCHANGED <<pending, lapsed, disk, section, github, machine, torn>>

\* On any thread that is free; it waits for nothing.
Disconnect ==
    /\ Unlocked /\ MayWrite
    /\ pending' = 0 /\ lapsed' = FALSE
    /\ section' = DisconnectWrites
    /\ UNCHANGED <<request, poller, disk, github, machine, torn>>

\* reapply() and check_token(), or a clone or a list of repositories that was
\* refused: each takes the token out of the lock to ask GitHub about it.
Ask(r) ==
    /\ request[r].at = "idle" /\ Unlocked
    /\ IsCurrent(token)
    /\ request' = [request EXCEPT ![r] = [at |-> "asked", token |-> token]]
    /\ UNCHANGED <<pending, lapsed, poller, disk, section, github, machine, torn>>

\* What GitHub says of the token a request asked about: nothing that matters,
\* a refusal, or to reapply() whose it is.
JudgedIf(r, current) ==
    LET t == request[r].token
    IN  /\ request[r].at = "asked" /\ Finished(r)
        /\ \/ section' = section
           \/ /\ Unlocked /\ t.code \in revoked /\ current
              /\ section' = BadWrites
           \/ /\ Unlocked /\ t.code \notin revoked /\ current /\ MayWrite
              /\ section' = ReapplyWrites(t)
        /\ UNCHANGED <<pending, lapsed, poller, disk, github, machine, torn>>

\* Mutant: the answer is taken without a look at what changed meanwhile.
JudgedAnyway(r) == JudgedIf(r, TRUE)

Judged(r) == JudgedIf(r, IsCurrent(request[r].token))

-----------------------------------------------------------------------------
MovePoller(at, c, l) == poller' = [at |-> at, token |-> [code |-> c, login |-> l]]

PollerGoes(at) == MovePoller(at, 0, None)

\* _end(), unless the code has been replaced.
EndCode(c) ==
    IF pending = c THEN pending' = 0 /\ lapsed' = FALSE
    ELSE UNCHANGED <<pending, lapsed>>

\* poll_once() up to its request.
Poll ==
    /\ poller.at = "poll" /\ Unlocked
    /\ IF pending = 0 \/ lapsed
       THEN PollerGoes("leave") /\ EndCode(pending)
       ELSE MovePoller("asked", pending, None) /\ UNCHANGED <<pending, lapsed>>
    /\ UNCHANGED <<request, disk, section, github, machine, torn>>

\* No answer or "not yet"; a refusal; or the token of the user who has
\* entered the code, be it one Omelet no longer waits for.
PollAnswered ==
    LET c == poller.token.code
    IN  /\ poller.at = "asked"
        /\ \/ /\ PollerGoes(IF pending = 0 THEN "leave" ELSE "poll")
              /\ UNCHANGED <<pending, lapsed>>
           \/ Unlocked /\ pending = c /\ PollerGoes("leave") /\ EndCode(c)
           \/ /\ \E l \in Logins : MovePoller("user", c, l)
              /\ UNCHANGED <<pending, lapsed>>
        /\ UNCHANGED <<request, disk, section, github, machine, torn>>

\* Whose the token is, and the connection: dropped unless still waited for.
UserAnsweredIf(wanted) ==
    LET c == poller.token.code
    IN  /\ poller.at = "user" /\ Unlocked
        /\ PollerGoes("leave")
        /\ EndCode(c)
        /\ \/ section' = section                     \* no answer, or refused
           \/ /\ wanted /\ c \notin revoked /\ MayWrite
              /\ section' = ConnectWrites(poller.token)
        /\ UNCHANGED <<request, disk, github, machine, torn>>

\* Mutant: the connection is made, whatever happened during the request.
UserAnsweredLate == UserAnsweredIf(TRUE)

UserAnswered == UserAnsweredIf(pending = poller.token.code)

LeavePollerFor(at) ==
    /\ poller.at = "leave" /\ Unlocked
    /\ PollerGoes(at)
    /\ UNCHANGED <<pending, lapsed, request, disk, section, github, machine, torn>>

\* Mutant: the poller goes when a code is done with.
LeavePollerAtOnce == LeavePollerFor("off")

\* The poller looks once more before it goes.
LeavePoller == LeavePollerFor(IF pending = 0 THEN "off" ELSE "poll")

\* The fifteen minutes of a code pass.
Lapse ==
    /\ pending # 0 /\ ~lapsed
    /\ lapsed' = TRUE
    /\ UNCHANGED <<pending, poller, request, disk, section, github, machine, torn>>

\* At GitHub one token is revoked, while somebody here still has it.
Held == {token, poller.token} \cup {request[r].token : r \in Asks}

Revoke(c) ==
    /\ revoked = {}
    /\ \E t \in Held : t.code = c /\ t.login # None
    /\ revoked' = {c}
    /\ UNCHANGED <<memory, disk, section, codes, machine, torn>>

\* A change is cut short between two of its writes, once.
CutShort ==
    /\ ~Unlocked /\ ~torn
    /\ torn' = TRUE /\ section' = Free
    /\ UNCHANGED <<disk, github, machine>>

\* A write raises: the lock is given back. A poller then looks once more before
\* it goes, as after any other answer.
WriteFails == CutShort /\ UNCHANGED memory

\* The API process stops, and is started again; not at other times, when it
\* would lose codes and answers as they get lost anyway.
Crash ==
    /\ CutShort
    /\ pending' = 0 /\ lapsed' = FALSE
    /\ PollerGoes("off")
    /\ request' = [r \in Connects \cup Asks |-> Idle]

-----------------------------------------------------------------------------
api == <<memory, disk, section, github>>

\* The path unit starts the script.
StartScript ==
    /\ changed /\ script.at = "off"
    /\ changed' = FALSE /\ script' = [Off EXCEPT !.at = "token"]
    /\ UNCHANGED <<api, applied, gh, torn>>

\* A pass reads the token, then desired.json: the generation before the rest.
Reads(at, next) ==
    /\ script.at = at
    /\ script' = CASE at = "token" ->
                        [script EXCEPT !.at = next, !.secret = (token # NoToken)]
                   [] at = "generation" ->
                        [script EXCEPT !.at = next, !.gen = desired.generation]
                   [] at = "login" ->
                        [script EXCEPT !.at = next, !.left = Accounts, !.ok = TRUE,
                                       !.connected = (desired.login # None),
                                       !.login = desired.login]
    /\ UNCHANGED <<api, applied, changed, gh, torn>>

ReadPieces ==
    \/ Reads("token", "generation")
    \/ Reads("generation", "login")
    \/ Reads("login", "account")

\* The previous login is logged out first, if it is another one.
LoggedOut(a) ==
    IF script.connected /\ applied.login = script.login
    THEN gh[a] ELSE gh[a] \ {applied.login}

\* gh takes the token from the file, whoever's it is by now.
Works ==
    script.connected =>
        script.secret /\ token # NoToken /\ token.code \notin revoked

AfterApply(a) ==
    IF ~script.connected THEN LoggedOut(a)
    ELSE IF ~script.secret THEN gh[a]
    ELSE IF Works THEN LoggedOut(a) \cup {token.login}
    ELSE LoggedOut(a)

AccountDone(a, ok, signedIn) ==
    /\ script.at = "account" /\ a \in script.left
    /\ script' = [script EXCEPT !.left = @ \ {a}, !.ok = @ /\ ok]
    /\ gh' = [gh EXCEPT ![a] = signedIn]
    /\ UNCHANGED <<api, applied, changed, torn>>

ApplyTo(a) == AccountDone(a, Works, AfterApply(a))

\* gh or git fails for an account, before or after it did something.
GhFails(a) ==
    \E signedIn \in {gh[a], LoggedOut(a), AfterApply(a)} :
        AccountDone(a, FALSE, signedIn)

ReportAs(gen) ==
    /\ script.at = "account" /\ script.left = {}
    /\ script' = [Off EXCEPT !.at = "recheck", !.gen = script.gen, !.pass = script.pass]
    /\ applied' = [generation |-> gen, ok |-> script.ok,
                   login |-> IF script.connected THEN script.login
                             ELSE IF script.ok THEN None ELSE applied.login]
    /\ UNCHANGED <<api, changed, gh, torn>>

\* Mutant: the generation is read when the work is done.
ReportLatest == ReportAs(desired.generation)

\* A disconnect that did not work everywhere keeps the login to log out.
Report == ReportAs(script.gen)

RecheckFor(again) ==
    /\ script.at = "recheck"
    /\ script' = IF again /\ script.pass < MAX_PASSES
                 THEN [Off EXCEPT !.at = "token", !.pass = script.pass + 1]
                 ELSE [Off EXCEPT !.at = "leave"]
    /\ UNCHANGED <<api, applied, changed, gh, torn>>

\* Mutant: one pass and no more.
RecheckNothing == RecheckFor(FALSE)

\* What was written while the pass ran starts nothing: look, and go again.
Recheck == RecheckFor(desired.generation # script.gen)

LeaveScript ==
    /\ script.at = "leave" /\ script' = Off
    /\ UNCHANGED <<api, applied, changed, gh, torn>>

-----------------------------------------------------------------------------
Writes == WriteToken \/ WriteRow \/ WriteDesired \/ WriteGeneration

Requested ==
    \/ Disconnect
    \/ \E r \in Connects : Connect(r)
    \/ \E r \in Asks : Ask(r)

Answered(r) == SetPending(r) \/ EnsurePoller(r) \/ Judged(r)

Polling == Poll \/ PollAnswered \/ UserAnswered \/ LeavePoller

Scripted ==
    \/ StartScript \/ ReadPieces
    \/ \E a \in Accounts : ApplyTo(a)
    \/ Report \/ Recheck \/ LeaveScript

Revoked == \E c \in 1..MaxCodes : Revoke(c)

Next ==
    \/ Writes \/ Requested \/ Polling \/ Lapse \/ Scripted \/ Revoked
    \/ Crash \/ WriteFails
    \/ \E r \in Connects \cup Asks : Answered(r)
    \/ \E a \in Accounts : GhFails(a)

\* systemd starts the script, and the script goes on; whoever holds `_lock`
\* goes on writing; what people and GitHub do is not counted on.
Fairness == WF_vars(Scripted) /\ WF_vars(Writes)

Spec == Init /\ [][Next]_vars /\ Fairness

-----------------------------------------------------------------------------
\* "Ready" is never said of accounts that are not signed in: unless a change
\* was cut short (github_link.py:202, "or "ready" would match stale work"), when status()
\* says that the accounts are ready, the gh of every account has the login the
\* status shows, whatever the script read in pieces meanwhile.
ReadyMeansSignedIn ==
    Unlocked /\ Ready /\ ~torn => \A a \in Accounts : row.login \in gh[a]

\* A disconnect stays: with no code waited for and no login, no answer still
\* on its way may start to connect somebody (poll_once's look after each call).
\* A connect() that was asking GitHub for a code meanwhile still sets it, and
\* the user who enters that code is connected: this is not excluded.
DisconnectStays ==
    [][Unlocked /\ pending = 0 /\ row.login = None => section'.login = None]_vars

\* Only a token GitHub has refused is dropped: the refusal of an earlier token
\* never drops the one that replaced it (_is_current).
OnlyRefusedIsBad == [][section'.bad /\ Unlocked => token.code \in revoked]_vars

\* A code the user is shown is never left without a poller, or the sign-in
\* would wait for ever: the poller's last look, under _poll_lock, against a
\* connect() that finds it still running.
CodeIsPolled ==
    pending # 0 => poller.at # "off" \/ \E r \in Connects : request[r].at = "ensure"

\* The last change reaches the accounts: a desired state written while the
\* script is off, or before its last look and with a pass left, is replaced or
\* applied, and where that went well the accounts have its login. If they had
\* no login but the applied one when the script was about to start, they have
\* no other in the end. A change cut short (torn) may use a number again, and
\* the script then leaves the accounts as they are: not asked of it.
Watched ==
    changed \/ (script.at \notin {"off", "leave"} /\ script.pass < MAX_PASSES)

Orderly == changed /\ script.at = "off" /\ \A a \in Accounts : gh[a] \subseteq {applied.login}

AppliedInTheEnd ==
    \A g \in 1..MaxGen :
        LET Last == ~torn /\ desired.generation = g
            Applied(fit(_)) ==
                /\ applied.generation = g
                /\ applied.ok => \A a \in Accounts : fit(gh[a])
        IN  /\ Last /\ Watched ~>
                  (Last => Applied(LAMBDA in : desired.login \in in \cup {None}))
            /\ Last /\ Orderly ~>
                  (Last => Applied(LAMBDA in : in = {desired.login} \ {None}))
=============================================================================
