---------------------------- MODULE AccountSync ----------------------------
(***************************************************************************)
(* The account of a device (core/account.py) and the passes that give each *)
(* local project a record in the service (core/sync.py, core/cloud.py).    *)
(* Sign-in waits for a code, tokens are refreshed by whoever meets an old  *)
(* one, the user signs out at any time, and every request to the service   *)
(* is made without a lock: its answer finds whatever the row is by then.   *)
(* What the last pass reported (sync_ok_at, sync_error) is left out.       *)
(***************************************************************************)
EXTENDS Naturals, FiniteSets

CONSTANTS
    Projects,    \* ids a local project may have
    MaxCodes,    \* bound on sign-in codes, and so on sessions
    MaxVersion,  \* bound on the tokens of the first session; a later has fewer
    MaxFaults    \* bound on restarts and lost answers

ASSUME AccountSyncAssumption ==
    /\ MaxCodes \in Nat /\ MaxVersion \in Nat \ {0}
    /\ MaxFaults \in Nat

VARIABLES
    row,      \* the account's row in state.db; a session is known by its code
    local,    \* the projects of the device
    mapping,  \* cloud_projects: whose record a project has, and of which org
    poller,   \* the thread that waits for the user to enter the code
    request,  \* where the calls of start_sign_in() and sign_out() are
    call,     \* where authed() is, in the thread of the passes and the poller
    pass,     \* where run_pass() is
    service,  \* sessions of the service: owner, newest token (0: it ended)
    records,  \* projects of the service, by owner
    codes,    \* how many codes the service gave
    faults

memory == <<poller, request, call, pass>>
device == <<row, local, mapping>>
cloud == <<service, records, codes>>
vars == <<memory, device, cloud, faults>>

Codes == 0..MaxCodes
\* An account of the service and its organisation; numbered as they come.
Owner == Codes
None == 0
Threads == {"sync", "poller"}
Token == [session : Codes, version : 0..MaxVersion]
Entry == [org : Owner, id : Owner]
Action == [kind : {"forget", "delete", "create"}, project : Projects, id : Owner]

TypeOK ==
    /\ row \in [code : Codes, token : Token, org : Owner]
    /\ local \subseteq Projects
    /\ mapping \in [Projects -> Entry]
    /\ poller \in [at : {"off", "poll", "asked", "identity"}, code : Codes]
    /\ request \in [in : {"idle", "code"}, out : {"idle", "asked"}]
    /\ call \in [Threads -> [at : {"idle", "ask", "refresh", "spend", "spent", "told"},
                             token : Token, second : BOOLEAN, ok : BOOLEAN]]
    /\ pass \in [at : {"idle", "identity", "apply"}, org : Owner, todo : SUBSET Action]
    /\ service \in [1..MaxCodes ->
          [owner : Owner, version : 0..MaxVersion, astray : BOOLEAN]]
    /\ records \subseteq Owner \X Projects
    /\ codes \in Codes /\ faults \in 0..MaxFaults

NoToken == [session |-> 0, version |-> 0]
NoEntry == [org |-> None, id |-> None]
SignedOut == [code |-> 0, token |-> NoToken, org |-> None]
NoPoller == [at |-> "off", code |-> 0]
NoCall == [at |-> "idle", token |-> NoToken, second |-> FALSE, ok |-> FALSE]
NoPass == [at |-> "idle", org |-> None, todo |-> {}]

Init ==
    /\ row = SignedOut
    /\ local = {} /\ mapping = [p \in Projects |-> NoEntry]
    /\ poller = NoPoller
    /\ request = [in |-> "idle", out |-> "idle"]
    /\ call = [t \in Threads |-> NoCall]
    /\ pass = NoPass
    /\ service = [s \in 1..MaxCodes |-> [owner |-> None, version |-> 0, astray |-> FALSE]]
    /\ records = {}
    /\ codes = 0 /\ faults = 0

-----------------------------------------------------------------------------
SignedIn == row.token # NoToken

\* Mutant: one refresh too many.
MayExpireLate(token) == token.version + token.session <= MaxVersion + 1

MayExpire(token) == token.version + token.session <= MaxVersion

OwnerOf(token) == service[token.session].owner

Fault == faults < MaxFaults /\ faults' = faults + 1

\* start_sign_in(), when there is no session, and no code or one whose time is
\* up (else it answers with what there is).
SignIn ==
    /\ request.in = "idle" /\ ~SignedIn
    /\ request' = [request EXCEPT !.in = "code"]
    /\ UNCHANGED <<poller, call, pass, device, cloud, faults>>

\* The code of the service, and its poller; a sign-in that landed meanwhile is
\* left alone. Or the service gives none.
SetCode ==
    /\ request.in = "code"
    /\ request' = [request EXCEPT !.in = "idle"]
    /\ \/ UNCHANGED <<codes, row, poller>>
       \/ /\ codes < MaxCodes /\ codes' = codes + 1
          /\ SignedIn /\ UNCHANGED <<row, poller>>
       \/ /\ codes < MaxCodes /\ codes' = codes + 1
          /\ ~SignedIn /\ row' = [row EXCEPT !.code = codes + 1]
          /\ poller' = IF poller.at = "off" THEN [NoPoller EXCEPT !.at = "poll"]
                       ELSE poller
    /\ UNCHANGED <<call, pass, local, mapping, service, records, faults>>

PollerTo(at) == poller' = [NoPoller EXCEPT !.at = at]

\* The poller goes, unless a code was stored after its last poll.
Leave(code) == PollerTo(IF code = 0 THEN "off" ELSE "poll")

\* poll_once(): without a code it is over; a code whose time is up is cleared.
Poll ==
    /\ poller.at = "poll"
    /\ \/ row.code = 0 /\ Leave(0) /\ UNCHANGED row
       \/ row.code # 0 /\ Leave(0) /\ row' = [row EXCEPT !.code = 0]
       \/ /\ row.code # 0
          /\ poller' = [at |-> "asked", code |-> row.code]
          /\ UNCHANGED row
    /\ UNCHANGED <<request, call, pass, local, mapping, cloud, faults>>

\* The answer: nothing yet, a refusal, or, when the user has entered the code
\* as the owner of an account, a session; it is nothing to a row that does not
\* wait for that code any more.
PollAnsweredIf(awaited) ==
    /\ poller.at = "asked"
    /\ \/ /\ ~awaited
          /\ Leave(row.code)
          /\ UNCHANGED <<row, service>>
       \/ awaited /\ PollerTo("poll") /\ UNCHANGED <<row, service>>
       \/ awaited /\ Leave(0) /\ row' = [row EXCEPT !.code = 0] /\ UNCHANGED service
       \/ \E owner \in 1..poller.code :
             /\ awaited /\ PollerTo("identity")
             /\ row' = [code |-> 0, org |-> None,
                        token |-> [session |-> poller.code, version |-> 1]]
             /\ service' = [service EXCEPT ![poller.code] =
                   [owner |-> owner, version |-> 1, astray |-> FALSE]]
    /\ UNCHANGED <<request, call, pass, local, mapping, records, codes, faults>>

\* Mutant: not asked whether a code is still the one that is waited for.
PollAnsweredLate == PollAnsweredIf(TRUE)

PollAnswered == PollAnsweredIf(row.code = poller.code)

-----------------------------------------------------------------------------
(* authed(): a call to the service with the token of the row.  The thread t *)
(* ends "told", with an answer or with an error; without a session it stops *)
(* at once (NotSignedIn).                                                   *)

Quiet == UNCHANGED <<request, device, cloud, faults>>

Goes(t, step) == call' = [call EXCEPT ![t] = step]

\* What a thread was calling the service for, when there is no session.
NotSignedIn(t) ==
    /\ Goes(t, NoCall)
    /\ IF t = "sync" THEN pass' = NoPass /\ UNCHANGED poller
       ELSE Leave(row.code) /\ UNCHANGED pass

\* A token that is about to expire is refreshed first.
Take(t) ==
    \/ /\ ~SignedIn /\ NotSignedIn(t)
    \/ /\ SignedIn /\ UNCHANGED <<poller, pass>>
       /\ \E at \in {"ask", "refresh"} :
             /\ at = "refresh" => MayExpire(row.token)
             /\ Goes(t, [NoCall EXCEPT !.at = at, !.token = row.token])

\* The action of the pass that is next: what is another account's is
\* forgotten, what is gone is deleted, what is new is created.
Current ==
    LET first == CHOOSE k \in {"forget", "delete", "create"} :
                    /\ \E a \in pass.todo : a.kind = k
                    /\ k = "delete" => \A a \in pass.todo : a.kind # "forget"
                    /\ k = "create" => \A a \in pass.todo : a.kind = "create"
    IN  CHOOSE a \in pass.todo : a.kind = first

\* What the call does in the service.  A project made twice with the same
\* client_ref is the same record; another account's record is not found.
Effect(t) ==
    LET owner == OwnerOf(call[t].token)
    IN  IF t = "poller" \/ pass.at = "identity" THEN records
        ELSE IF Current.kind = "create" THEN records \cup {<<owner, Current.project>>}
        ELSE IF Current.id = owner THEN records \ {<<owner, Current.project>>}
        ELSE records

\* The service answers, or the answer is lost, or there is none; a token that
\* has expired, or whose session has ended, is refreshed, but once.
Ask(t) ==
    LET c == call[t]
        live == service[c.token.session].version > 0
    IN  /\ c.at = "ask"
        /\ \/ /\ live
              /\ records' = Effect(t)
              /\ \/ Goes(t, [c EXCEPT !.at = "told", !.ok = TRUE]) /\ UNCHANGED faults
                 \/ Goes(t, [c EXCEPT !.at = "told"]) /\ Fault
           \/ /\ ~live \/ MayExpire(c.token)
              /\ IF c.second THEN Goes(t, [c EXCEPT !.at = "told"])
                 ELSE Goes(t, [c EXCEPT !.at = "refresh", !.second = TRUE])
              /\ UNCHANGED <<records, faults>>
           \/ /\ Goes(t, [c EXCEPT !.at = "told"]) /\ Fault
              /\ UNCHANGED records
        /\ UNCHANGED <<poller, request, pass, device, service, codes>>

Again(t, token) == Goes(t, [call[t] EXCEPT !.at = "ask", !.token = token, !.ok = FALSE])

\* _refresh(), one thread at a time; somebody may have refreshed meanwhile.
RefreshIf(t, alone) ==
    /\ call[t].at = "refresh" /\ alone
    /\ \/ /\ ~SignedIn /\ NotSignedIn(t)
       \/ /\ SignedIn /\ UNCHANGED <<poller, pass>>
          /\ IF row.token = call[t].token THEN Goes(t, [call[t] EXCEPT !.at = "spend"])
             ELSE Again(t, row.token)
    /\ Quiet

\* Mutant: without the lock.
RefreshTwice(t) == RefreshIf(t, TRUE)

Refresh(t) == RefreshIf(t, \A u \in Threads : call[u].at \notin {"spend", "spent"})

\* The service gives a new token for the newest it knows, and refuses others.
Spend(t) ==
    LET c == call[t]
        s == c.token.session
        fresh == service[s].version = c.token.version
    IN  /\ c.at = "spend"
        /\ \/ /\ Goes(t, [c EXCEPT !.at = "spent", !.ok = fresh])
              /\ service' = IF fresh THEN [service EXCEPT ![s].version = @ + 1] ELSE service
              /\ UNCHANGED faults
           \/ /\ fresh /\ Fault
              /\ Goes(t, [c EXCEPT !.at = "told"])
              /\ service' = [service EXCEPT ![s].version = @ + 1, ![s].astray = TRUE]
           \/ /\ Fault /\ UNCHANGED service
              /\ Goes(t, [c EXCEPT !.at = "told"])
        /\ UNCHANGED <<poller, request, pass, device, records, codes>>

NoMapping == [p \in Projects |-> NoEntry]

\* The answer is for the row as it was; a refusal signs the device out.
Spent(t) ==
    LET c == call[t]
        new == [c.token EXCEPT !.version = @ + 1]
    IN  /\ c.at = "spent"
        /\ \/ /\ ~SignedIn /\ NotSignedIn(t) /\ UNCHANGED <<row, mapping>>
           \/ /\ SignedIn /\ row.token # c.token /\ Again(t, row.token)
              /\ UNCHANGED <<poller, pass, row, mapping>>
           \/ /\ row.token = c.token /\ c.ok /\ Again(t, new)
              /\ row' = [row EXCEPT !.token = new]
              /\ UNCHANGED <<poller, pass, mapping>>
           \/ /\ row.token = c.token /\ ~c.ok /\ NotSignedIn(t)
              /\ row' = SignedOut /\ mapping' = NoMapping
        /\ UNCHANGED <<request, local, cloud, faults>>

-----------------------------------------------------------------------------
\* load_identity(): who the account is, unless that is known.  The answer must
\* have been for the token the row still has.
IdentityIf(t, same) ==
    /\ call[t].at = "told" /\ call[t].ok
    /\ IF same THEN row' = [row EXCEPT !.org = OwnerOf(call[t].token)] ELSE UNCHANGED row

\* Mutant: some session is there.
IdentityOfAny(t) == IdentityIf(t, SignedIn)

Identity(t) == IdentityIf(t, row.token = call[t].token)

\* The poller reads the identity once, whatever comes of it.
PollerIdentity ==
    /\ poller.at = "identity"
    /\ \/ /\ call["poller"].at = "idle"
          /\ IF row.org # None THEN Leave(row.code) /\ UNCHANGED <<call, pass>>
             ELSE Take("poller")
          /\ UNCHANGED row
       \/ /\ call["poller"].at = "told"
          /\ IF call["poller"].ok THEN Identity("poller") ELSE UNCHANGED row
          /\ Leave(row.code) /\ Goes("poller", NoCall) /\ UNCHANGED pass
    /\ UNCHANGED <<request, local, mapping, cloud, faults>>

\* run_pass(), which the loop does again and again.
StartPass ==
    /\ pass.at = "idle" /\ SignedIn
    /\ pass' = [NoPass EXCEPT !.at = "identity"]
    /\ UNCHANGED <<poller, request, call, device, cloud, faults>>

Do(kind, P) == {[kind |-> kind, project |-> p, id |-> mapping[p].id] : p \in P}

Mapped == {p \in Projects : mapping[p] # NoEntry}

\* Mutant: whatever is mapped has a record.
PlanUnowned(org) == Do("delete", Mapped \ local) \cup Do("create", local \ Mapped)

Plan(org) ==
    LET ours == {p \in Mapped : mapping[p].org = org}
    IN  Do("forget", Mapped \ ours) \cup Do("delete", ours \ local)
            \cup Do("create", local \ ours)

\* What is left to do; with nothing left the pass is over.
Left(org, todo) ==
    pass' = IF todo = {} THEN NoPass ELSE [at |-> "apply", org |-> org, todo |-> todo]

Planned(org) == Left(org, Plan(org))

PassIdentity ==
    /\ pass.at = "identity"
    /\ \/ /\ call["sync"].at = "idle"
          /\ IF row.org # None THEN Planned(row.org) /\ UNCHANGED <<call, poller>>
             ELSE Take("sync")
          /\ UNCHANGED row
       \/ /\ call["sync"].at = "told" /\ call["sync"].ok
          /\ Identity("sync") /\ Goes("sync", NoCall)
          /\ IF row.token = call["sync"].token THEN Planned(OwnerOf(call["sync"].token))
             ELSE pass' = NoPass
          /\ UNCHANGED poller
       \/ /\ call["sync"].at = "told" /\ ~call["sync"].ok
          /\ pass' = NoPass /\ Goes("sync", NoCall) /\ UNCHANGED <<poller, row>>
    /\ UNCHANGED <<request, local, mapping, cloud, faults>>

Finished == Left(pass.org, pass.todo \ {Current})

\* An action of apply(): what it does in the service, then in the mapping.
Apply ==
    /\ pass.at = "apply" /\ call["sync"].at = "idle"
    /\ IF Current.kind = "forget"
       THEN /\ mapping' = [mapping EXCEPT ![Current.project] = NoEntry]
            /\ Finished /\ UNCHANGED <<call, poller>>
       ELSE Take("sync") /\ UNCHANGED mapping
    /\ UNCHANGED <<request, row, local, cloud, faults>>

\* The record of an account, for the org the pass is for.
AppliedFor(org) ==
    /\ pass.at = "apply" /\ call["sync"].at = "told"
    /\ mapping' =
         IF ~call["sync"].ok THEN mapping
         ELSE [mapping EXCEPT ![Current.project] =
                 IF Current.kind = "delete" THEN NoEntry
                 ELSE [org |-> org, id |-> OwnerOf(call["sync"].token)]]
    /\ Finished /\ Goes("sync", NoCall)
    /\ UNCHANGED <<poller, request, row, local, cloud, faults>>

\* Mutant: for the org the row has by now.
AppliedForRow == AppliedFor(row.org)

Applied == AppliedFor(pass.org)

-----------------------------------------------------------------------------
\* sign_out() tells the service first, which may end the session or not, then
\* forgets the session of the row.
SignOut ==
    /\ request.out = "idle" /\ (SignedIn \/ row.code # 0)
    /\ request' = [request EXCEPT !.out = "asked"]
    /\ \/ UNCHANGED service
       \/ /\ SignedIn
          /\ service' = [service EXCEPT ![row.token.session].version = 0,
                                        ![row.token.session].astray = FALSE]
    /\ UNCHANGED <<poller, call, pass, device, records, codes, faults>>

Forget ==
    /\ request.out = "asked"
    /\ request' = [request EXCEPT !.out = "idle"]
    /\ row' = SignedOut /\ mapping' = NoMapping
    /\ UNCHANGED <<poller, call, pass, local, cloud, faults>>

\* The user makes or removes a project.
Change(p) ==
    /\ local' = IF p \in local THEN local \ {p} ELSE local \cup {p}
    /\ UNCHANGED <<memory, row, mapping, cloud, faults>>

\* _forget() writes the row first, the mapping last.
Forgetting ==
    \/ request.out = "asked"
    \/ \E t \in Threads : call[t].at = "spent" /\ ~call[t].ok /\ call[t].token = row.token

\* The API stops, and resume() starts the poller again if there is a code.
Restart ==
    /\ Fault
    /\ \/ UNCHANGED row
       \/ Forgetting /\ row' = SignedOut
    /\ poller' = IF row'.code = 0 THEN NoPoller ELSE [NoPoller EXCEPT !.at = "poll"]
    /\ request' = [in |-> "idle", out |-> "idle"]
    /\ call' = [t \in Threads |-> NoCall] /\ pass' = NoPass
    /\ service' = [s \in 1..MaxCodes |->
          IF \E t \in Threads : /\ call[t].at = "spent" /\ call[t].ok
                                /\ call[t].token.session = s
          THEN [service[s] EXCEPT !.astray = TRUE] ELSE service[s]]
    /\ UNCHANGED <<local, mapping, records, codes>>

User ==
    \/ SignIn \/ SignOut
    \/ \E p \in Projects : Change(p)

Poller == Poll \/ PollAnswered \/ PollerIdentity

Authed(t) == Ask(t) \/ Refresh(t) \/ Spend(t) \/ Spent(t)

Passes == StartPass \/ PassIdentity \/ Apply \/ Applied

Next ==
    \/ User \/ SetCode \/ Poller \/ Forget
    \/ \E t \in Threads : Authed(t)
    \/ Passes \/ Restart

\* The passes go on, and the poller does not keep the refresh lock.
Fairness ==
    /\ WF_vars(Passes \/ Authed("sync"))
    /\ WF_vars(PollerIdentity \/ Authed("poller"))

Spec == Init /\ [][Next]_vars /\ Fairness

-----------------------------------------------------------------------------
\* The organisation in the row is the one of the row's session, though the
\* answer that tells it comes after a sign-out, a refresh, or a sign-in as
\* somebody else (load_identity).
IdentityIsOwners ==
    row.org # None => SignedIn /\ row.org = OwnerOf(row.token)

\* No refresh token is used twice, which would end the session: the service
\* refuses the token the row has only when it was signed out, or when a new
\* one was lost on its way (_refresh, in two threads and across restarts).
NoTokenSpentTwice ==
    \A t \in Threads :
        call[t].at = "spent" /\ ~call[t].ok /\ call[t].token = row.token
            => LET s == service[row.token.session] IN s.version = 0 \/ s.astray

\* The account of the row signed in before, and another one in between.
CameBack ==
    \E first, other \in 1..MaxCodes :
        /\ first < other /\ other < row.token.session
        /\ service[first].owner = row.org
        /\ service[other].owner \notin {None, row.org}

\* An entry for the account that is signed in names a record of that account,
\* whoever was signed in when it was made (apply, in a pass that goes on
\* across a sign-out and a sign-in); only one who comes back after another may
\* find an entry that an old pass made with the other one's token.
MappedIsOurs ==
    \A p \in Projects : row.org # None /\ mapping[p].org = row.org /\ ~CameBack
        => mapping[p].id = row.org

\* The device is signed in by the code that is waited for and by nothing else:
\* no answer that comes after a sign-out brings a session back (poll_once,
\* _refresh).
OnlyItsCodeSignsIn ==
    [][row'.token.session \in {0, row.token.session, row.code}]_vars

\* Of who stays signed in, a project that stays is in the end mapped, and has
\* its record unless an answer was lost or the API restarted; one that is gone
\* is not mapped any more (run_pass, SyncLoop).
StaysSignedIn == SignedIn /\ request.out = "idle"

Has(p) == mapping[p].org = row.org /\ (faults = 0 => <<row.org, p>> \in records)

MappedInTheEnd ==
    \A p \in Projects :
        /\ <>[](StaysSignedIn /\ p \in local) => <>[]Has(p)
        /\ <>[](StaysSignedIn /\ p \notin local) => <>[](mapping[p] = NoEntry)
=============================================================================
