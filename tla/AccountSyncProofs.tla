------------------------- MODULE AccountSyncProofs -------------------------
(***************************************************************************)
(* Theorems about AccountSync, for every set of projects and every bound.  *)
(* Sessions are numbered by their codes, so that the session of the row is *)
(* the last one that began: what a pass took before, it took from a        *)
(* session that is no newer.  The newest token of a session is the row's,  *)
(* or one thread brings it, or it was lost.                                *)
(***************************************************************************)
EXTENDS AccountSync, TLAPS

\* A token of a session that some account has begun.
Begun(token, sessions) ==
    /\ token.session \in 1..MaxCodes /\ token.version > 0
    /\ sessions[token.session].owner # None

\* Codes and sessions are used in the order in which they came.
Numbered ==
    /\ \A s \in 1..MaxCodes : s > codes => service[s].owner = None
    /\ row.code <= codes
    /\ row.code # 0 =>
          /\ ~SignedIn
          /\ \A s \in 1..MaxCodes : s >= row.code => service[s].owner = None
    /\ poller.at = "asked" => poller.code # 0
    /\ SignedIn =>
          /\ Begun(row.token, service)
          /\ \A s \in 1..MaxCodes : s > row.token.session => service[s].owner = None

\* A call is made with a token there has been; a refresh that goes on is of a
\* token that has a next one, or of a session that was ended.
Fits(c, sessions) ==
    /\ c.at # "idle" => Begun(c.token, sessions)
    /\ c.at \in {"refresh", "spend", "spent"} =>
          MayExpire(c.token) \/ sessions[c.token.session].version = 0
    /\ c.at = "spent" /\ c.ok => MayExpire(c.token)

CallsFit == \A t \in Threads : Fits(call[t], service)

\* A thread calls the service for a pass, or for the poller's identity.
CallsAreFor ==
    /\ call["sync"].at # "idle" => pass.at # "idle"
    /\ pass.at = "apply" => pass.todo # {}

Typed == TypeOK /\ Numbered /\ CallsFit /\ CallsAreFor

\* The lock of _refresh().
Alone ==
    \A t, u \in Threads :
        call[t].at \in {"spend", "spent"} /\ call[u].at \in {"spend", "spent"} => t = u

\* The newest token of the row's session, and the one a thread has got.
Newest ==
    /\ SignedIn =>
          LET s == service[row.token.session]
          IN  \/ s.version \in {0, row.token.version} \/ s.astray
              \/ \E t \in Threads :
                    call[t].at = "spent" /\ call[t].ok /\ call[t].token = row.token
    /\ \A t \in Threads : call[t].at = "spent" /\ call[t].ok =>
          LET s == service[call[t].token.session]
          IN  s.version \in {0, call[t].token.version + 1} \/ s.astray

Spending == Alone /\ Newest /\ NoTokenSpentTwice

\* An account signed in, and one at the same time or later.
InOrder(org, owner) ==
    \E first, second \in 1..MaxCodes :
        /\ first <= second
        /\ service[first].owner = org /\ service[second].owner = owner
        /\ org # None /\ owner # None

\* The token a pass calls the service with is of its account or of a later
\* one, and so is what it records.
PassesForward ==
    /\ pass.at = "apply" =>
          \E first \in 1..MaxCodes :
              /\ service[first].owner = pass.org /\ pass.org # None
              /\ call["sync"].at # "idle" => first <= call["sync"].token.session
    /\ \A p \in Projects :
          mapping[p] # NoEntry => InOrder(mapping[p].org, mapping[p].id)

-----------------------------------------------------------------------------
\* What the actions do to a call, to the poller and to the pass.

Calls == [at : {"idle", "ask", "refresh", "spend", "spent", "told"},
          token : Token, second : BOOLEAN, ok : BOOLEAN]
Pollers == [at : {"off", "poll", "asked", "identity"}, code : Codes]
Passing == [at : {"idle", "identity", "apply"}, org : Owner, todo : SUBSET Action]
Sessions == [owner : Owner, version : 0..MaxVersion, astray : BOOLEAN]
Rows == [code : Codes, token : Token, org : Owner]

LEMMA Constants ==
    ASSUME AccountSyncAssumption
    PROVE  /\ 0 \in Codes /\ 0 \in 0..MaxVersion /\ 1 \in 0..MaxVersion
           /\ NoToken \in Token /\ NoCall \in Calls /\ NoCall.at = "idle"
           /\ NoEntry \in Entry /\ SignedOut \in Rows
           /\ NoPoller \in Pollers /\ NoPoller.at = "off"
           /\ NoPass \in Passing /\ NoPass.at = "idle"
<1>1. /\ 0 \in Codes /\ 0 \in 0..MaxVersion /\ 1 \in 0..MaxVersion
    BY DEF AccountSyncAssumption, Codes
<1>2. NoToken \in Token /\ NoEntry \in Entry
    BY <1>1 DEF NoToken, Token, NoEntry, Entry, Owner, None
<1>3. NoCall \in Calls /\ NoCall.at = "idle"
    BY <1>2 DEF NoCall, Calls
<1>4. NoPoller \in Pollers /\ NoPoller.at = "off"
    BY <1>1 DEF NoPoller, Pollers
<1>5. NoPass \in Passing /\ NoPass.at = "idle"
    BY <1>1 DEF NoPass, Passing, Owner, None
<1>6. SignedOut \in Rows
    BY <1>1, <1>2 DEF SignedOut, Rows, Owner, None
<1> QED BY <1>1, <1>2, <1>3, <1>4, <1>5, <1>6

\* A thread's call changes, the other's does not.
LEMMA CallGoes ==
    ASSUME call \in [Threads -> Calls], NEW t \in Threads, NEW c \in Calls, Goes(t, c)
    PROVE  /\ call' \in [Threads -> Calls]
           /\ call'[t] = c
           /\ \A u \in Threads : u # t => call'[u] = call[u]
BY DEF Goes

\* The poller leaves or polls again.
LEMMA PollerLeaves ==
    ASSUME AccountSyncAssumption, NEW code, Leave(code)
    PROVE  poller' \in Pollers /\ poller'.at \in {"off", "poll"}
<1> DEFINE at == IF code = 0 THEN "off" ELSE "poll"
<1>1. at \in {"off", "poll"}
    OBVIOUS
<1> HIDE DEF at
<1>2. poller' = [NoPoller EXCEPT !.at = at]
    BY DEF Leave, PollerTo, at
<1> QED BY <1>1, <1>2, Constants DEF Pollers

LEMMA CallEnds ==
    ASSUME AccountSyncAssumption, TypeOK, NEW t \in Threads, NotSignedIn(t)
    PROVE  /\ call' \in [Threads -> Calls]
           /\ call'[t] = NoCall
           /\ \A u \in Threads : u # t => call'[u] = call[u]
           /\ poller' \in Pollers /\ (poller' # poller => poller'.at # "asked")
           /\ pass' \in Passing
           /\ t = "sync" => pass' = NoPass /\ poller' = poller
           /\ t # "sync" => pass' = pass
<1>1. call \in [Threads -> Calls] /\ poller \in Pollers /\ pass \in Passing
    BY DEF TypeOK, Calls, Pollers, Passing
<1>2. Goes(t, NoCall)
    BY DEF NotSignedIn
<1>3. CASE t = "sync"
    <2>1. pass' = NoPass /\ poller' = poller
        BY <1>3 DEF NotSignedIn
    <2> QED BY <1>1, <1>2, <1>3, <2>1, CallGoes, Constants
<1>4. CASE t # "sync"
    <2>1. pass' = pass /\ Leave(row.code)
        BY <1>4 DEF NotSignedIn
    <2> QED BY <1>1, <1>2, <1>4, <2>1, CallGoes, PollerLeaves, Constants
<1> QED BY <1>3, <1>4

\* A call begins, if there is a session.
LEMMA CallBegins ==
    ASSUME AccountSyncAssumption, TypeOK, Numbered, CallsFit,
           NEW t \in Threads, Take(t)
    PROVE  /\ call' \in [Threads -> Calls]
           /\ \A u \in Threads : u # t => call'[u] = call[u]
           /\ call'[t].at \in {"idle", "ask", "refresh"} /\ Fits(call'[t], service)
           /\ call'[t].at # "idle" => call'[t].token = row.token /\ SignedIn
           /\ poller' \in Pollers /\ (poller' # poller => poller'.at # "asked")
           /\ pass' \in Passing
           /\ t = "sync" => poller' = poller
           /\ t # "sync" => pass' = pass
           /\ \/ pass' = pass
              \/ pass' = NoPass /\ call'[t].at = "idle"
<1>1. call \in [Threads -> Calls] /\ poller \in Pollers /\ pass \in Passing
    BY DEF TypeOK, Calls, Pollers, Passing
<1>2. CASE ~SignedIn
    <2>1. NotSignedIn(t)
        BY <1>2 DEF Take
    <2> QED BY <2>1, CallEnds, Constants DEF Fits
<1>3. CASE SignedIn
    <2>1. PICK at \in {"ask", "refresh"} :
             /\ at = "refresh" => MayExpire(row.token)
             /\ Goes(t, [NoCall EXCEPT !.at = at, !.token = row.token])
        BY <1>3 DEF Take
    <2> DEFINE c == [NoCall EXCEPT !.at = at, !.token = row.token]
    <2>2. row.token \in Token
        BY DEF TypeOK
    <2>3. c \in Calls /\ c.at = at /\ c.token = row.token
        BY <2>2, Constants DEF Calls
    <2>4. Goes(t, c)
        BY <2>1
    <2> HIDE DEF c
    <2>5. call' \in [Threads -> Calls] /\ call'[t] = c
          /\ \A u \in Threads : u # t => call'[u] = call[u]
        BY <1>1, <2>3, <2>4, CallGoes
    <2>6. Fits(c, service)
        BY <1>3, <2>1, <2>3 DEF Fits, Numbered
    <2>7. UNCHANGED <<poller, pass>>
        BY <1>3 DEF Take
    <2> QED BY <1>1, <1>3, <2>1, <2>3, <2>5, <2>6, <2>7
<1> QED BY <1>2, <1>3

\* There is an action to do, and it is one of those that are left.
LEMMA CurrentIsLeft ==
    ASSUME TypeOK, pass.todo # {}
    PROVE  Current \in pass.todo /\ Current \in Action
<1> DEFINE First(k) ==
        /\ \E a \in pass.todo : a.kind = k
        /\ k = "delete" => \A a \in pass.todo : a.kind # "forget"
        /\ k = "create" => \A a \in pass.todo : a.kind = "create"
<1>1. pass.todo \subseteq Action
    BY DEF TypeOK
<1>2. \A a \in pass.todo : a.kind \in {"forget", "delete", "create"}
    BY <1>1 DEF Action
<1>3. \E k \in {"forget", "delete", "create"} : First(k)
    BY <1>2
<1> DEFINE first == CHOOSE k \in {"forget", "delete", "create"} : First(k)
<1>4. First(first)
    BY <1>3
<1>5. \E a \in pass.todo : a.kind = first
    BY <1>4
<1>6. Current = CHOOSE a \in pass.todo : a.kind = first
    BY DEF Current
<1> HIDE DEF first
<1> QED BY <1>1, <1>5, <1>6

LEMMA PlanIsTyped ==
    ASSUME TypeOK, NEW org
    PROVE  Plan(org) \subseteq Action
<1>1. \A p \in Projects : mapping[p].id \in Owner
    BY DEF TypeOK, Entry
<1>2. \A kind \in {"forget", "delete", "create"}, P \in SUBSET Projects :
         Do(kind, P) \subseteq Action
    BY <1>1 DEF Do, Action
<1>3. local \subseteq Projects /\ Mapped \subseteq Projects
    BY DEF TypeOK, Mapped
<1> QED BY <1>2, <1>3 DEF Plan

\* The pass goes on with what is left, or it is over.
LEMMA PassGoesOn ==
    ASSUME AccountSyncAssumption, NEW org \in Owner, NEW todo \in SUBSET Action,
           Left(org, todo)
    PROVE  /\ pass' \in Passing
           /\ pass'.at # "identity"
           /\ pass'.at = "apply" => pass'.todo # {} /\ pass'.org = org
BY Constants DEF Left, Passing

-----------------------------------------------------------------------------
\* Every action keeps the types, and what makes them right.

\* A session that has begun keeps its owner, and one that ended stays so.
SessionsGoOn ==
    \A s \in 1..MaxCodes : service[s].owner # None =>
        /\ service'[s].owner = service[s].owner
        /\ service[s].version = 0 => service'[s].version = 0

LEMMA FitsLater ==
    ASSUME SessionsGoOn, NEW c, Fits(c, service)
    PROVE  Fits(c, service')
BY DEF SessionsGoOn, Fits, Begun, MayExpire

LEMMA CallsStayFit ==
    ASSUME CallsFit, SessionsGoOn, NEW t \in Threads,
           \A u \in Threads : u # t => call'[u] = call[u],
           Fits(call'[t], service')
    PROVE  CallsFit'
<1>1. \A u \in Threads : u # t => Fits(call'[u], service')
    BY FitsLater DEF CallsFit
<1> QED BY <1>1 DEF CallsFit

LEMMA TypedSignIn ==
    ASSUME AccountSyncAssumption, Typed, SignIn
    PROVE  Typed'
BY DEF SignIn, device, cloud, Typed, TypeOK, Numbered, CallsFit, CallsAreFor,
       SignedIn

LEMMA TypedSetCode ==
    ASSUME AccountSyncAssumption, Typed, SetCode
    PROVE  Typed'
<1> USE DEF Typed
<1> SUFFICES ASSUME ~UNCHANGED <<codes, row, poller>>
             PROVE  Typed'
    BY DEF SetCode, TypeOK, Numbered, CallsFit, CallsAreFor, SignedIn
<1>0. codes + 1 \in Codes /\ codes' = codes + 1 /\ codes \in Codes
    BY DEF SetCode, TypeOK, Codes, AccountSyncAssumption
<1>1. row \in Rows /\ poller \in Pollers
    BY DEF TypeOK, Rows, Pollers
<1>2. /\ row' \in Rows /\ row'.token = row.token
      /\ \/ row'.code = row.code
         \/ row'.code = codes + 1 /\ ~SignedIn
    BY <1>0, <1>1 DEF SetCode, Rows
<1>3. poller' \in Pollers /\ (poller'.at = "asked" => poller' = poller)
    BY <1>1, Constants DEF SetCode, Pollers
<1>4. /\ request' \in [in : {"idle", "code"}, out : {"idle", "asked"}]
      /\ UNCHANGED <<call, pass, local, mapping, service, records, faults>>
    BY DEF SetCode, TypeOK
<1>5. TypeOK'
    BY <1>0, <1>2, <1>3, <1>4 DEF TypeOK, Rows, Pollers
<1>6. Numbered'
    <2>1. codes \in Nat /\ row.code \in Nat
        BY <1>0, <1>1 DEF Rows, Codes
    <2>2. CASE row'.code = row.code
        BY <1>0, <1>2, <1>3, <1>4, <2>1, <2>2 DEF Numbered, SignedIn, Begun
    <2>3. CASE row'.code = codes + 1 /\ ~SignedIn
        BY <1>0, <1>2, <1>3, <1>4, <2>1, <2>3 DEF Numbered, SignedIn, Begun
    <2> QED BY <1>2, <2>2, <2>3
<1> QED BY <1>4, <1>5, <1>6 DEF CallsFit, CallsAreFor

LEMMA TypedPoll ==
    ASSUME AccountSyncAssumption, Typed, Poll
    PROVE  Typed'
<1> USE DEF Typed
<1>1. row \in Rows /\ poller \in Pollers
    BY DEF TypeOK, Rows, Pollers
<1>2. /\ row' \in Rows /\ row'.token = row.token
      /\ row'.code = row.code \/ row'.code = 0
    BY <1>1, Constants DEF Poll, Rows
<1>3. poller' \in Pollers /\ (poller'.at = "asked" => poller'.code # 0)
    <2>1. CASE Leave(0)
        BY <2>1, PollerLeaves
    <2>2. CASE row.code # 0 /\ poller' = [at |-> "asked", code |-> row.code]
        BY <1>1, <2>2 DEF Rows, Pollers
    <2> QED BY <2>1, <2>2 DEF Poll
<1>4. UNCHANGED <<request, call, pass, local, mapping, service, records, codes, faults>>
    BY DEF Poll, cloud
<1>5. TypeOK'
    BY <1>2, <1>3, <1>4 DEF TypeOK, Rows, Pollers
<1>6. Numbered'
    BY <1>1, <1>2, <1>3, <1>4, Constants DEF Numbered, SignedIn, Codes, TypeOK, Rows
<1> QED BY <1>4, <1>5, <1>6 DEF CallsFit, CallsAreFor

\* The session that a code brings is nobody's yet, and newer than all others.
LEMMA TypedPollAnswered ==
    ASSUME AccountSyncAssumption, Typed, PollAnswered
    PROVE  Typed'
<1> USE DEF Typed
<1>0. /\ poller.at = "asked" /\ poller.code # 0 /\ poller.code \in Codes
      /\ row.code \in Codes /\ row \in Rows /\ codes \in Codes
      /\ call \in [Threads -> Calls] /\ service \in [1..MaxCodes -> Sessions]
    BY DEF PollAnswered, PollAnsweredIf, Numbered, TypeOK, Rows, Calls, Sessions
<1>1. UNCHANGED <<request, call, pass, local, mapping, records, codes, faults>>
    BY DEF PollAnswered, PollAnsweredIf
<1>2. CASE Leave(row.code) /\ UNCHANGED <<row, service>>
    <2>1. poller' \in Pollers /\ poller'.at # "asked"
        BY <1>2, PollerLeaves
    <2> QED BY <1>1, <1>2, <2>1
            DEF TypeOK, Pollers, Numbered, SignedIn, CallsFit, CallsAreFor
<1>3. CASE PollerTo("poll") /\ UNCHANGED <<row, service>>
    <2>1. poller' \in Pollers /\ poller'.at # "asked"
        BY <1>3, Constants DEF PollerTo, Pollers
    <2> QED BY <1>1, <1>3, <2>1
            DEF TypeOK, Pollers, Numbered, SignedIn, CallsFit, CallsAreFor
<1>4. CASE Leave(0) /\ row' = [row EXCEPT !.code = 0] /\ UNCHANGED service
    <2>1. poller' \in Pollers /\ poller'.at # "asked"
        BY <1>4, PollerLeaves
    <2>2. row' \in Rows /\ row'.token = row.token /\ row'.code = 0
        BY <1>0, <1>4, Constants DEF Rows
    <2>3. TypeOK'
        BY <1>1, <1>4, <2>1, <2>2 DEF TypeOK, Pollers, Rows
    <2>4. Numbered'
        BY <1>0, <1>1, <1>4, <2>1, <2>2 DEF Numbered, SignedIn, Codes
    <2> QED BY <1>1, <1>4, <2>3, <2>4 DEF CallsFit, CallsAreFor
<1>5. ASSUME NEW owner \in 1..poller.code, row.code = poller.code,
             PollerTo("identity"),
             row' = [code |-> 0, org |-> None,
                     token |-> [session |-> poller.code, version |-> 1]],
             service' = [service EXCEPT ![poller.code] =
                   [owner |-> owner, version |-> 1, astray |-> FALSE]]
      PROVE  Typed'
    <2>1. poller' \in Pollers /\ poller'.at # "asked"
        BY <1>5, Constants DEF PollerTo, Pollers
    <2>2. owner \in Owner /\ owner # None /\ poller.code \in 1..MaxCodes
        BY <1>0 DEF Owner, Codes, None, AccountSyncAssumption
    <2>3. /\ row' \in Rows /\ row'.code = 0 /\ row'.token.session = poller.code
          /\ row'.token.version = 1
        BY <1>0, <1>5, Constants DEF Rows, Token, Owner, None
    <2>4. /\ service' \in [1..MaxCodes -> Sessions]
          /\ service'[poller.code].owner = owner
          /\ \A s \in 1..MaxCodes : s # poller.code => service'[s] = service[s]
        <3> DEFINE new == [owner |-> owner, version |-> 1, astray |-> FALSE]
        <3>1. new \in Sessions /\ new.owner = owner
            BY <2>2, Constants DEF Sessions
        <3>2. service' = [service EXCEPT ![poller.code] = new]
            BY <1>5
        <3> HIDE DEF new
        <3> QED BY <1>0, <2>2, <3>1, <3>2
    <2>5. TypeOK'
        BY <1>1, <2>1, <2>3, <2>4 DEF TypeOK, Pollers, Rows, Sessions
    <2>6. service[poller.code].owner = None
        BY <1>0, <1>5, <2>2 DEF Numbered, Codes
    <2>7. Numbered'
        BY <1>0, <1>1, <1>5, <2>1, <2>2, <2>3, <2>4
           DEF Numbered, SignedIn, Begun, Codes, NoToken
    <2>8. SessionsGoOn
        BY <2>4, <2>6 DEF SessionsGoOn
    <2>9. CallsFit'
        BY <1>1, <2>8, FitsLater DEF CallsFit
    <2> QED BY <1>1, <2>5, <2>7, <2>9 DEF CallsAreFor
<1> QED BY <1>2, <1>3, <1>4, <1>5 DEF PollAnswered, PollAnsweredIf

LEMMA TypedForget ==
    ASSUME AccountSyncAssumption, Typed, Forget
    PROVE  Typed'
<1>1. /\ row' \in Rows /\ row'.code = 0 /\ row'.token = NoToken
      /\ mapping' \in [Projects -> Entry]
    BY Constants DEF Forget, NoMapping, SignedOut
<1>2. UNCHANGED <<poller, call, pass, local, service, records, codes, faults>>
    BY DEF Forget, cloud
<1>3. request' \in [in : {"idle", "code"}, out : {"idle", "asked"}]
    BY DEF Forget, Typed, TypeOK
<1>4. TypeOK'
    BY <1>1, <1>2, <1>3 DEF Typed, TypeOK, Rows
<1>5. Numbered'
    BY <1>1, <1>2, <1>3 DEF Typed, TypeOK, Numbered, SignedIn, Codes
<1> QED BY <1>2, <1>4, <1>5 DEF Typed, CallsFit, CallsAreFor

LEMMA TypedSignOut ==
    ASSUME AccountSyncAssumption, Typed, SignOut
    PROVE  Typed'
<1> USE DEF Typed
<1>1. UNCHANGED <<poller, call, pass, row, local, mapping, records, codes, faults>>
    BY DEF SignOut, device
<1>2. request' \in [in : {"idle", "code"}, out : {"idle", "asked"}]
    BY DEF SignOut, TypeOK
<1>3. service \in [1..MaxCodes -> Sessions]
    BY DEF TypeOK, Sessions
<1>4. /\ service' \in [1..MaxCodes -> Sessions]
      /\ \A s \in 1..MaxCodes : 
            \/ service'[s] = service[s]
            \/ service'[s].owner = service[s].owner /\ service'[s].version = 0
    <2>1. CASE UNCHANGED service
        BY <1>3, <2>1
    <2>2. CASE SignedIn /\ ~UNCHANGED service
        <3>1. service' = [service EXCEPT ![row.token.session] =
                 [@ EXCEPT !.version = 0, !.astray = FALSE]]
            BY <2>2 DEF SignOut
        <3>2. \A r \in Sessions :
                 /\ [r EXCEPT !.version = 0, !.astray = FALSE] \in Sessions
                 /\ [r EXCEPT !.version = 0, !.astray = FALSE].owner = r.owner
                 /\ [r EXCEPT !.version = 0, !.astray = FALSE].version = 0
            BY Constants DEF Sessions
        <3>3. row.token.session \in 1..MaxCodes
            BY <2>2 DEF Numbered, Begun
        <3> QED BY <1>3, <3>1, <3>2, <3>3
    <2> QED BY <2>1, <2>2 DEF SignOut
<1>5. TypeOK'
    BY <1>1, <1>2, <1>4 DEF TypeOK, Sessions
<1>6. Numbered'
    BY <1>1, <1>4 DEF Numbered, SignedIn, Begun
<1>7. SessionsGoOn
    BY <1>4 DEF SessionsGoOn
<1>8. CallsFit'
    BY <1>1, <1>7, FitsLater DEF CallsFit
<1> QED BY <1>1, <1>5, <1>6, <1>8 DEF CallsAreFor

LEMMA TypedChange ==
    ASSUME Typed, NEW p \in Projects, Change(p)
    PROVE  Typed'
BY DEF Change, memory, cloud, Typed, TypeOK, Numbered, CallsFit, CallsAreFor, SignedIn

\* What all steps of a call have in common.
Calling(t) ==
    /\ UNCHANGED <<request, local, codes>>
    /\ SessionsGoOn
    /\ call' \in [Threads -> Calls]
    /\ \A u \in Threads : u # t => call'[u] = call[u]
    /\ Fits(call'[t], service')
    /\ poller' \in Pollers /\ (poller' # poller => poller'.at # "asked")

LEMMA CallingKeeps ==
    ASSUME Typed, NEW t \in Threads, Calling(t),
           row'.code = row.code, row'.token = row.token,
           \A s \in 1..MaxCodes : service'[s].owner = service[s].owner
    PROVE  Numbered' /\ CallsFit'
<1>1. CallsFit'
    BY CallsStayFit DEF Typed, Calling
<1>2. Numbered'
    BY DEF Typed, Numbered, Calling, SignedIn, Begun
<1> QED BY <1>1, <1>2

\* A thread that stops calling, in whatever place it was.
LEMMA CallOfPass ==
    ASSUME Typed, NEW t \in Threads, Calling(t),
           \/ pass' = pass /\ (call'[t].at # "idle" => pass.at # "idle" \/ t # "sync")
           \/ pass' = NoPass /\ t = "sync" /\ call'[t].at = "idle"
    PROVE  CallsAreFor'
<1>1. "sync" \in Threads /\ NoPass.at = "idle"
    BY DEF Threads, NoPass
<1> QED BY <1>1 DEF Typed, CallsAreFor, Calling

\* The token of a call of a thread that is in the midst of one.
LEMMA CallUnderWay ==
    ASSUME AccountSyncAssumption, Typed, NEW t \in Threads, call[t].at # "idle"
    PROVE  /\ call[t] \in Calls /\ call[t].token \in Token
           /\ call[t].token.session \in 1..MaxCodes /\ call[t].token.version \in 1..MaxVersion
           /\ service[call[t].token.session] \in Sessions
           /\ OwnerOf(call[t].token) \in Owner /\ OwnerOf(call[t].token) # None
           /\ t = "sync" => pass.at # "idle"
<1>1. call[t] \in Calls
    BY DEF Typed, TypeOK, Calls
<1>2. call[t].token \in Token
    BY <1>1 DEF Calls
<1>3. Begun(call[t].token, service)
    BY DEF Typed, CallsFit, Fits
<1>4. service \in [1..MaxCodes -> Sessions]
    BY DEF Typed, TypeOK, Sessions
<1>5. call[t].token.session \in 1..MaxCodes /\ call[t].token.version \in 1..MaxVersion
    BY <1>2, <1>3 DEF Token, Begun, AccountSyncAssumption
<1>6. service[call[t].token.session] \in Sessions
    BY <1>4, <1>5
<1> QED BY <1>1, <1>2, <1>3, <1>5, <1>6 DEF Begun, OwnerOf, Sessions, Typed, CallsAreFor

\* The steps of authed() that leave the row and the sessions alone.
LEMMA TypedRefresh ==
    ASSUME AccountSyncAssumption, Typed, NEW t \in Threads, Refresh(t)
    PROVE  Typed'
<1>0. /\ call[t].at = "refresh" /\ UNCHANGED <<request, device, cloud, faults>>
      /\ TypeOK /\ call \in [Threads -> Calls] /\ poller \in Pollers /\ row \in Rows
    BY DEF Refresh, RefreshIf, Quiet, Typed, TypeOK, Calls, Pollers, Rows
<1>1. SessionsGoOn
    BY <1>0 DEF cloud, SessionsGoOn
<1>2. CASE ~SignedIn
    <2>1. NotSignedIn(t)
        BY <1>2 DEF Refresh, RefreshIf
    <2>2. Calling(t) /\ pass' \in Passing
        BY <1>0, <1>1, <2>1, CallEnds, Constants DEF Calling, Fits, device, cloud
    <2>3. CallsAreFor'
        BY <2>1, <2>2, CallEnds, CallOfPass, Constants, <1>0
    <2>4. Numbered' /\ CallsFit'
        BY <1>0, <2>2, CallingKeeps DEF device, cloud
    <2>5. TypeOK'
        BY <1>0, <2>2 DEF TypeOK, Calling, Calls, Pollers, Passing, device, cloud
    <2> QED BY <2>3, <2>4, <2>5 DEF Typed
<1>3. CASE SignedIn
    <2>1. UNCHANGED <<poller, pass>>
        BY <1>3 DEF Refresh, RefreshIf
    <2>2. /\ call[t] \in Calls /\ row.token \in Token /\ Fits(call[t], service)
          /\ Begun(row.token, service)
        BY <1>0, <1>3 DEF Typed, CallsFit, Rows, Numbered
    <2>3. \E c \in Calls : Goes(t, c) /\ Fits(c, service)
        <3>1. CASE row.token = call[t].token
            <4> DEFINE c == [call[t] EXCEPT !.at = "spend"]
            <4>1. Goes(t, c)
                BY <1>3, <3>1 DEF Refresh, RefreshIf
            <4>2. c \in Calls /\ c.token = call[t].token /\ c.at = "spend"
                BY <2>2 DEF Calls
            <4> HIDE DEF c
            <4> QED BY <1>0, <2>2, <4>1, <4>2 DEF Fits
        <3>2. CASE row.token # call[t].token
            <4> DEFINE c == [call[t] EXCEPT !.at = "ask", !.token = row.token, !.ok = FALSE]
            <4>1. Goes(t, c)
                BY <1>3, <3>2 DEF Refresh, RefreshIf, Again
            <4>2. c \in Calls /\ c.token = row.token /\ c.at = "ask"
                BY <2>2 DEF Calls
            <4> HIDE DEF c
            <4> QED BY <2>2, <4>1, <4>2 DEF Fits
        <3> QED BY <3>1, <3>2
    <2>4. Calling(t)
        BY <1>0, <1>1, <2>1, <2>3, CallGoes, FitsLater DEF Calling, device, cloud
    <2>5. CallsAreFor'
        BY <1>0, <2>1, <2>4, CallOfPass, CallUnderWay
    <2>6. Numbered' /\ CallsFit'
        BY <1>0, <2>4, CallingKeeps DEF device, cloud
    <2>7. TypeOK'
        BY <1>0, <2>1, <2>4 DEF TypeOK, Calling, Calls, device, cloud
    <2> QED BY <2>5, <2>6, <2>7 DEF Typed
<1> QED BY <1>2, <1>3

LEMMA EffectIsTyped ==
    ASSUME AccountSyncAssumption, Typed, NEW t \in Threads, call[t].at # "idle"
    PROVE  Effect(t) \subseteq Owner \X Projects
<1>1. records \subseteq Owner \X Projects
    BY DEF Typed, TypeOK
<1>2. OwnerOf(call[t].token) \in Owner
    BY CallUnderWay
<1>3. CASE t = "poller" \/ pass.at = "identity"
    BY <1>1, <1>3 DEF Effect
<1>4. CASE ~(t = "poller" \/ pass.at = "identity")
    <2>1. pass.at = "apply"
        BY <1>4, CallUnderWay DEF Threads, Typed, TypeOK
    <2>2. Current \in Action
        BY <2>1, CurrentIsLeft DEF Typed, CallsAreFor
    <2>3. Current.project \in Projects
        BY <2>2 DEF Action
    <2> QED BY <1>1, <1>2, <2>3 DEF Effect
<1> QED BY <1>3, <1>4

LEMMA FaultCounts ==
    ASSUME AccountSyncAssumption, faults \in 0..MaxFaults, Fault
    PROVE  faults' \in 0..MaxFaults
BY DEF AccountSyncAssumption, Fault

LEMMA TypedAsk ==
    ASSUME AccountSyncAssumption, Typed, NEW t \in Threads, Ask(t)
    PROVE  Typed'
<1> DEFINE c == call[t]
           live == service[c.token.session].version > 0
<1>0. /\ c.at = "ask" /\ TypeOK /\ call \in [Threads -> Calls]
      /\ UNCHANGED <<poller, request, pass, row, local, mapping, service, codes>>
      /\ poller \in Pollers /\ c \in Calls /\ Begun(c.token, service)
      /\ service[c.token.session] \in Sessions
    BY CallUnderWay
       DEF Ask, device, Typed, TypeOK, Calls, Pollers, CallsFit, Fits
<1>1. /\ \/ UNCHANGED records
         \/ records' = Effect(t)
      /\ UNCHANGED faults \/ Fault
    BY DEF Ask
<1>2. records' \subseteq Owner \X Projects /\ faults' \in 0..MaxFaults
    BY <1>0, <1>1, EffectIsTyped, FaultCounts DEF TypeOK
<1>3. \E d \in Calls : Goes(t, d) /\ Fits(d, service) /\ d.at # "idle"
    <2>1. \A d \in Calls : d.at = "told" /\ d.token = c.token => Fits(d, service)
        BY <1>0 DEF Fits
    <2>2. CASE Goes(t, [c EXCEPT !.at = "told", !.ok = TRUE])
        <3> DEFINE d == [c EXCEPT !.at = "told", !.ok = TRUE]
        <3>1. d \in Calls /\ d.at = "told" /\ d.token = c.token
            BY <1>0 DEF Calls
        <3>2. Goes(t, d)
            BY <2>2
        <3> HIDE DEF d
        <3> QED BY <2>1, <3>1, <3>2
    <2>3. CASE Goes(t, [c EXCEPT !.at = "told"])
        <3> DEFINE d == [c EXCEPT !.at = "told"]
        <3>1. d \in Calls /\ d.at = "told" /\ d.token = c.token
            BY <1>0 DEF Calls
        <3>2. Goes(t, d)
            BY <2>3
        <3> HIDE DEF d
        <3> QED BY <2>1, <3>1, <3>2
    <2>4. CASE /\ ~live \/ MayExpire(c.token)
               /\ Goes(t, [c EXCEPT !.at = "refresh", !.second = TRUE])
        <3> DEFINE d == [c EXCEPT !.at = "refresh", !.second = TRUE]
        <3>1. d \in Calls /\ d.at = "refresh" /\ d.token = c.token
            BY <1>0 DEF Calls
        <3>2. Goes(t, d)
            BY <2>4
        <3>3. service[c.token.session].version = 0 \/ MayExpire(c.token)
            BY <1>0, <2>4 DEF Sessions
        <3> HIDE DEF d
        <3> QED BY <1>0, <3>1, <3>2, <3>3 DEF Fits
    <2> QED BY <2>2, <2>3, <2>4 DEF Ask
<1>4. SessionsGoOn
    BY <1>0 DEF SessionsGoOn
<1>5. Calling(t)
    BY <1>0, <1>3, <1>4, CallGoes, FitsLater DEF Calling
<1>6. CallsAreFor'
    BY <1>0, <1>5, CallOfPass, CallUnderWay
<1>7. Numbered' /\ CallsFit'
    BY <1>0, <1>5, CallingKeeps
<1>8. TypeOK'
    BY <1>0, <1>2, <1>5 DEF TypeOK, Calling, Calls
<1> QED BY <1>6, <1>7, <1>8 DEF Typed

\* A new token has a number the service can give.
LEMMA NextToken ==
    ASSUME AccountSyncAssumption, NEW token \in Token, MayExpire(token),
           token.session \in 1..MaxCodes
    PROVE  token.version + 1 \in 0..MaxVersion
BY DEF AccountSyncAssumption, Token, MayExpire, Codes

LEMMA TypedSpend ==
    ASSUME AccountSyncAssumption, Typed, NEW t \in Threads, Spend(t)
    PROVE  Typed'
<1> DEFINE c == call[t]
           s == c.token.session
           fresh == service[s].version = c.token.version
<1>0. /\ c.at = "spend" /\ TypeOK /\ call \in [Threads -> Calls]
      /\ UNCHANGED <<poller, request, pass, row, local, mapping, records, codes>>
      /\ poller \in Pollers /\ c \in Calls /\ Fits(c, service)
      /\ Begun(c.token, service) /\ service \in [1..MaxCodes -> Sessions]
      /\ s \in 1..MaxCodes /\ c.token \in Token /\ c.token.version \in 1..MaxVersion
    BY CallUnderWay
       DEF Spend, device, Typed, TypeOK, Calls, Pollers, CallsFit, Fits, Sessions
<1>1. fresh => MayExpire(c.token) /\ service[s].version + 1 \in 0..MaxVersion
    BY <1>0, NextToken DEF Fits
<1> DEFINE Steady ==
        /\ service' \in [1..MaxCodes -> Sessions]
        /\ \A u \in 1..MaxCodes : service'[u].owner = service[u].owner
        /\ SessionsGoOn
<1>2. Steady
    <2>1. CASE UNCHANGED service
        BY <1>0, <2>1 DEF SessionsGoOn
    <2>2. ASSUME fresh, NEW r \in Sessions, r.owner = service[s].owner,
                 service' = [service EXCEPT ![s] = r]
          PROVE  Steady
        BY <1>0, <2>2 DEF SessionsGoOn, Sessions
    <2>3. CASE fresh /\ service' = [service EXCEPT ![s].version = @ + 1]
        <3> DEFINE r == [service[s] EXCEPT !.version = @ + 1]
        <3>1. r \in Sessions /\ r.owner = service[s].owner
            BY <1>0, <1>1, <2>3 DEF Sessions
        <3>2. service' = [service EXCEPT ![s] = r]
            BY <1>0, <2>3
        <3> HIDE DEF r
        <3> QED BY <2>2, <2>3, <3>1, <3>2
    <2>4. CASE /\ fresh
               /\ service' = [service EXCEPT ![s].version = @ + 1, ![s].astray = TRUE]
        <3> DEFINE r == [service[s] EXCEPT !.version = @ + 1, !.astray = TRUE]
        <3>1. r \in Sessions /\ r.owner = service[s].owner
            BY <1>0, <1>1, <2>4 DEF Sessions
        <3>2. service' = [service EXCEPT ![s] = r]
            BY <1>0, <2>4
        <3> HIDE DEF r
        <3> QED BY <2>2, <2>4, <3>1, <3>2
    <2> QED BY <2>1, <2>3, <2>4 DEF Spend
<1>3. faults' \in 0..MaxFaults
    BY <1>0, FaultCounts DEF Spend, TypeOK
<1>4. \E d \in Calls : Goes(t, d) /\ Fits(d, service) /\ d.at # "idle"
    <2>1. CASE Goes(t, [c EXCEPT !.at = "told"])
        <3> DEFINE d == [c EXCEPT !.at = "told"]
        <3>1. d \in Calls /\ d.at = "told" /\ d.token = c.token
            BY <1>0 DEF Calls
        <3>2. Goes(t, d)
            BY <2>1
        <3> HIDE DEF d
        <3> QED BY <1>0, <3>1, <3>2 DEF Fits
    <2>2. CASE Goes(t, [c EXCEPT !.at = "spent", !.ok = fresh])
        <3> DEFINE d == [c EXCEPT !.at = "spent", !.ok = fresh]
        <3>1. d \in Calls /\ d.at = "spent" /\ d.token = c.token /\ d.ok = fresh
            BY <1>0 DEF Calls
        <3>2. Goes(t, d)
            BY <2>2
        <3> HIDE DEF d
        <3> QED BY <1>0, <1>1, <3>1, <3>2 DEF Fits
    <2> QED BY <2>1, <2>2 DEF Spend
<1>5. Calling(t)
    BY <1>0, <1>2, <1>4, CallGoes, FitsLater DEF Calling
<1>6. CallsAreFor'
    BY <1>0, <1>5, CallOfPass, CallUnderWay
<1>7. Numbered' /\ CallsFit'
    BY <1>0, <1>2, <1>5, CallingKeeps
<1>8. TypeOK'
    BY <1>0, <1>2, <1>3, <1>5 DEF TypeOK, Calling, Calls, Sessions
<1> QED BY <1>6, <1>7, <1>8 DEF Typed

LEMMA CallsAgain ==
    ASSUME AccountSyncAssumption, Typed, NEW t \in Threads, NEW token \in Token,
           Begun(token, service), Again(t, token), UNCHANGED service
    PROVE  /\ call' \in [Threads -> Calls]
           /\ \A u \in Threads : u # t => call'[u] = call[u]
           /\ call'[t].at = "ask" /\ call'[t].token = token
           /\ Fits(call'[t], service')
<1> DEFINE c == [call[t] EXCEPT !.at = "ask", !.token = token, !.ok = FALSE]
<1>0. call \in [Threads -> Calls] /\ call[t] \in Calls
    BY DEF Typed, TypeOK, Calls
<1>1. c \in Calls /\ c.at = "ask" /\ c.token = token
    BY <1>0 DEF Calls
<1>2. Goes(t, c) /\ call \in [Threads -> Calls]
    BY <1>0 DEF Again
<1> HIDE DEF c
<1>3. Fits(c, service)
    BY <1>1 DEF Fits
<1> QED BY <1>1, <1>2, <1>3, CallGoes

LEMMA TypedSpent ==
    ASSUME AccountSyncAssumption, Typed, NEW t \in Threads, Spent(t)
    PROVE  Typed'
<1> DEFINE c == call[t]
           new == [c.token EXCEPT !.version = @ + 1]
<1>0. /\ c.at = "spent" /\ TypeOK /\ call \in [Threads -> Calls]
      /\ UNCHANGED <<request, local, service, records, codes, faults>>
      /\ poller \in Pollers /\ c \in Calls /\ Fits(c, service)
      /\ Begun(c.token, service) /\ c.token.session \in 1..MaxCodes
      /\ c.token \in Token /\ row \in Rows /\ SessionsGoOn
      /\ t = "sync" => pass.at # "idle"
    BY CallUnderWay
       DEF Spent, cloud, Typed, TypeOK, Calls, Pollers, CallsFit, Fits, Rows, SessionsGoOn
<1>1. CASE ~SignedIn /\ NotSignedIn(t) /\ UNCHANGED <<row, mapping>>
    <2>1. Calling(t) /\ pass' \in Passing
        BY <1>0, <1>1, CallEnds, Constants DEF Calling, Fits
    <2>2. CallsAreFor'
        BY <1>0, <1>1, <2>1, CallEnds, CallOfPass, Constants
    <2>3. Numbered' /\ CallsFit'
        BY <1>0, <1>1, <2>1, CallingKeeps
    <2>4. TypeOK'
        BY <1>0, <1>1, <2>1 DEF TypeOK, Calling, Calls, Pollers, Passing
    <2> QED BY <2>2, <2>3, <2>4 DEF Typed
<1>2. CASE /\ SignedIn /\ Again(t, row.token)
           /\ UNCHANGED <<poller, pass, row, mapping>>
    <2>1. row.token \in Token /\ Begun(row.token, service)
        BY <1>0, <1>2 DEF Rows, Typed, Numbered
    <2>2. Calling(t)
        BY <1>0, <1>2, <2>1, CallsAgain DEF Calling
    <2>3. CallsAreFor'
        BY <1>0, <1>2, <2>2, CallOfPass
    <2>4. Numbered' /\ CallsFit'
        BY <1>0, <1>2, <2>2, CallingKeeps
    <2>5. TypeOK'
        BY <1>0, <1>2, <2>2 DEF TypeOK, Calling, Calls
    <2> QED BY <2>3, <2>4, <2>5 DEF Typed
<1>3. CASE /\ row.token = c.token /\ c.ok /\ Again(t, new)
           /\ row' = [row EXCEPT !.token = new]
           /\ UNCHANGED <<poller, pass, mapping>>
    <2>1. /\ new \in Token /\ new.session = c.token.session /\ new.version > 0
          /\ c.token # NoToken
        <3>1. c.token.version + 1 \in 0..MaxVersion /\ c.token.version \in 1..MaxVersion
            BY <1>0, <1>3, NextToken, CallUnderWay DEF Fits
        <3> QED BY <1>0, <3>1 DEF Token, NoToken
    <2>2. Begun(new, service)
        BY <1>0, <2>1 DEF Begun
    <2>3. row' \in Rows /\ row'.code = row.code /\ row'.token = new
        BY <1>0, <1>3, <2>1 DEF Rows
    <2> HIDE DEF new
    <2>4. Calling(t)
        BY <1>0, <1>3, <2>1, <2>2, CallsAgain DEF Calling
    <2>5. CallsAreFor'
        BY <1>0, <1>3, <2>4, CallOfPass
    <2>6. CallsFit'
        BY <2>4, CallsStayFit DEF Typed, Calling
    <2>7. Numbered'
        BY <1>0, <1>3, <2>1, <2>2, <2>3 DEF Typed, Numbered, SignedIn, Begun
    <2>8. TypeOK'
        BY <1>0, <1>3, <2>3, <2>4 DEF TypeOK, Calling, Calls, Rows
    <2> QED BY <2>5, <2>6, <2>7, <2>8 DEF Typed
<1>4. CASE NotSignedIn(t) /\ row' = SignedOut /\ mapping' = NoMapping
    <2>1. Calling(t) /\ pass' \in Passing
        BY <1>0, <1>4, CallEnds, Constants DEF Calling, Fits
    <2>2. CallsAreFor'
        BY <1>0, <1>4, <2>1, CallEnds, CallOfPass, Constants
    <2>3. CallsFit'
        BY <2>1, CallsStayFit DEF Typed, Calling
    <2>4. /\ row' \in Rows /\ row'.code = 0 /\ row'.token = NoToken
          /\ mapping' \in [Projects -> Entry]
        BY <1>4, Constants DEF NoMapping, SignedOut
    <2>5. Numbered'
        BY <1>0, <2>1, <2>4 DEF Calling, Typed, TypeOK, Numbered, SignedIn, Codes
    <2>6. TypeOK'
        BY <1>0, <2>1, <2>4 DEF TypeOK, Calling, Calls, Pollers, Passing, Rows
    <2> QED BY <2>2, <2>3, <2>5, <2>6 DEF Typed
<1> QED BY <1>1, <1>2, <1>3, <1>4 DEF Spent

\* The answer of the identity is put into the row.
LEMMA IdentityIsTyped ==
    ASSUME AccountSyncAssumption, Typed, NEW t \in Threads, call[t].at # "idle",
           Identity(t) \/ UNCHANGED row
    PROVE  /\ row' \in Rows /\ row'.code = row.code /\ row'.token = row.token
<1>1. row \in Rows
    BY DEF Typed, TypeOK, Rows
<1>2. OwnerOf(call[t].token) \in Owner
    BY CallUnderWay
<1> QED BY <1>1, <1>2 DEF Identity, IdentityIf, Rows

LEMMA TypedPollerIdentity ==
    ASSUME AccountSyncAssumption, Typed, PollerIdentity
    PROVE  Typed'
<1>0. /\ TypeOK /\ call \in [Threads -> Calls] /\ poller \in Pollers
      /\ row \in Rows /\ pass \in Passing /\ "poller" \in Threads
      /\ UNCHANGED <<request, local, mapping, service, records, codes, faults>>
      /\ SessionsGoOn
    BY DEF Typed, TypeOK, Calls, Pollers, Rows, Passing, Threads, PollerIdentity,
           cloud, SessionsGoOn
<1>1. CASE Leave(row.code) /\ UNCHANGED <<call, pass, row>>
    <2>1. poller' \in Pollers /\ poller'.at # "asked"
        BY <1>1, PollerLeaves
    <2> QED BY <1>0, <1>1, <2>1
            DEF Typed, TypeOK, Pollers, Numbered, SignedIn, CallsFit, CallsAreFor
<1>2. CASE Take("poller") /\ UNCHANGED row
    <2>1. /\ Calling("poller") /\ UNCHANGED pass
        BY <1>0, <1>2, CallBegins DEF Calling, Typed
    <2>2. CallsAreFor'
        BY <1>0, <2>1, CallOfPass
    <2>3. Numbered' /\ CallsFit'
        BY <1>0, <1>2, <2>1, CallingKeeps
    <2>4. TypeOK'
        BY <1>0, <1>2, <2>1 DEF TypeOK, Calling, Calls, Pollers
    <2> QED BY <2>2, <2>3, <2>4 DEF Typed
<1>3. CASE /\ call["poller"].at = "told"
           /\ Identity("poller") \/ UNCHANGED row
           /\ Leave(row.code) /\ Goes("poller", NoCall) /\ UNCHANGED pass
    <2>1. row' \in Rows /\ row'.code = row.code /\ row'.token = row.token
        BY <1>0, <1>3, IdentityIsTyped
    <2>2. Calling("poller")
        BY <1>0, <1>3, PollerLeaves, CallGoes, Constants DEF Calling, Fits
    <2>3. CallsAreFor'
        BY <1>0, <1>3, <2>2, CallOfPass
    <2>4. Numbered' /\ CallsFit'
        BY <1>0, <2>1, <2>2, CallingKeeps
    <2>5. TypeOK'
        BY <1>0, <1>3, <2>1, <2>2 DEF TypeOK, Calling, Calls, Pollers, Rows
    <2> QED BY <2>3, <2>4, <2>5 DEF Typed
<1> QED BY <1>1, <1>2, <1>3 DEF PollerIdentity

LEMMA TypedStartPass ==
    ASSUME AccountSyncAssumption, Typed, StartPass
    PROVE  Typed'
<1>1. pass' \in Passing /\ pass'.at = "identity"
    BY Constants DEF StartPass, Passing
<1>2. UNCHANGED <<poller, request, call, row, local, mapping, service, records,
                  codes, faults>>
    BY DEF StartPass, device, cloud
<1> QED BY <1>1, <1>2
        DEF Typed, TypeOK, Passing, Numbered, SignedIn, CallsFit, CallsAreFor

LEMMA PassIsPlanned ==
    ASSUME AccountSyncAssumption, Typed, NEW org \in Owner, Planned(org)
    PROVE  /\ pass' \in Passing
           /\ pass'.at = "apply" => pass'.todo # {} /\ pass'.org = org
BY PlanIsTyped, PassGoesOn DEF Planned, Typed

LEMMA PassIsFinished ==
    ASSUME AccountSyncAssumption, Typed, Finished
    PROVE  /\ pass' \in Passing
           /\ pass'.at = "apply" => pass'.todo # {} /\ pass'.org = pass.org
<1>1. pass.org \in Owner /\ pass.todo \ {Current} \in SUBSET Action
    BY DEF Typed, TypeOK
<1> QED BY <1>1, PassGoesOn DEF Finished

\* The pass goes on to something that needs no call, or is over.
LEMMA PassMoves ==
    ASSUME AccountSyncAssumption, Typed, Calling("sync"), call'["sync"].at = "idle",
           pass' \in Passing, pass'.at = "apply" => pass'.todo # {}
    PROVE  CallsAreFor'
BY DEF CallsAreFor

LEMMA TypedPassIdentity ==
    ASSUME AccountSyncAssumption, Typed, PassIdentity
    PROVE  Typed'
<1>0. /\ TypeOK /\ call \in [Threads -> Calls] /\ poller \in Pollers
      /\ row \in Rows /\ row.org \in Owner /\ pass \in Passing /\ "sync" \in Threads
      /\ UNCHANGED <<request, local, mapping, service, records, codes, faults>>
      /\ SessionsGoOn /\ pass.at = "identity"
    BY DEF Typed, TypeOK, Calls, Pollers, Rows, Passing, Threads, PassIdentity,
           cloud, SessionsGoOn
<1>1. CASE Planned(row.org) /\ UNCHANGED <<call, poller, row>> /\ call["sync"].at = "idle"
    <2>1. pass' \in Passing /\ (pass'.at = "apply" => pass'.todo # {})
        BY <1>0, <1>1, PassIsPlanned
    <2>2. Calling("sync")
        BY <1>0, <1>1 DEF Calling, Typed, CallsFit
    <2>3. CallsAreFor'
        BY <1>1, <2>1, <2>2, PassMoves
    <2>4. Numbered' /\ CallsFit'
        BY <1>0, <1>1, <2>2, CallingKeeps
    <2>5. TypeOK'
        BY <1>0, <1>1, <2>1 DEF TypeOK, Passing
    <2> QED BY <2>3, <2>4, <2>5 DEF Typed
<1>2. CASE Take("sync") /\ UNCHANGED row
    <2>1. Calling("sync") /\ pass' \in Passing
        BY <1>0, <1>2, CallBegins DEF Calling, Typed
    <2>2. CallsAreFor'
        BY <1>0, <1>2, <2>1, CallBegins, CallOfPass DEF Typed
    <2>3. Numbered' /\ CallsFit'
        BY <1>0, <1>2, <2>1, CallingKeeps
    <2>4. TypeOK'
        BY <1>0, <1>2, <2>1 DEF TypeOK, Calling, Calls, Pollers, Passing
    <2> QED BY <2>2, <2>3, <2>4 DEF Typed
<1>3. CASE /\ call["sync"].at = "told" /\ Goes("sync", NoCall) /\ UNCHANGED poller
           /\ Identity("sync") \/ UNCHANGED row
           /\ Planned(OwnerOf(call["sync"].token)) \/ pass' = NoPass
    <2>0. OwnerOf(call["sync"].token) \in Owner
        BY <1>0, <1>3, CallUnderWay
    <2>1. pass' \in Passing /\ (pass'.at = "apply" => pass'.todo # {})
        BY <1>3, <2>0, PassIsPlanned, Constants
    <2>2. row' \in Rows /\ row'.code = row.code /\ row'.token = row.token
        BY <1>0, <1>3, IdentityIsTyped
    <2>3. Calling("sync") /\ call'["sync"] = NoCall
        BY <1>0, <1>3, CallGoes, Constants DEF Calling, Fits
    <2>4. CallsAreFor'
        BY <2>1, <2>3, PassMoves, Constants
    <2>5. Numbered' /\ CallsFit'
        BY <1>0, <2>2, <2>3, CallingKeeps
    <2>6. TypeOK'
        BY <1>0, <2>1, <2>2, <2>3 DEF TypeOK, Calling, Calls, Pollers, Passing, Rows
    <2> QED BY <2>4, <2>5, <2>6 DEF Typed
<1> QED BY <1>1, <1>2, <1>3 DEF PassIdentity

LEMMA TypedApply ==
    ASSUME AccountSyncAssumption, Typed, Apply
    PROVE  Typed'
<1>0. /\ TypeOK /\ call \in [Threads -> Calls] /\ poller \in Pollers
      /\ pass \in Passing /\ "sync" \in Threads /\ SessionsGoOn
      /\ UNCHANGED <<request, row, local, service, records, codes, faults>>
      /\ pass.at = "apply" /\ call["sync"].at = "idle"
    BY DEF Typed, TypeOK, Calls, Pollers, Passing, Threads, Apply, cloud, SessionsGoOn
<1>1. CASE /\ mapping' = [mapping EXCEPT ![Current.project] = NoEntry]
           /\ Finished /\ UNCHANGED <<call, poller>>
    <2>1. pass' \in Passing /\ (pass'.at = "apply" => pass'.todo # {})
        BY <1>1, PassIsFinished
    <2>2. Calling("sync")
        BY <1>0, <1>1 DEF Calling, Typed, CallsFit
    <2>3. CallsAreFor'
        BY <1>0, <1>1, <2>1, <2>2, PassMoves
    <2>4. Numbered' /\ CallsFit'
        BY <1>0, <2>2, CallingKeeps
    <2>5. mapping' \in [Projects -> Entry]
        BY <1>0, <1>1, Constants DEF TypeOK
    <2>6. TypeOK'
        BY <1>0, <1>1, <2>1, <2>5 DEF TypeOK, Passing
    <2> QED BY <2>3, <2>4, <2>6 DEF Typed
<1>2. CASE Take("sync") /\ UNCHANGED mapping
    <2>1. Calling("sync") /\ pass' \in Passing
        BY <1>0, <1>2, CallBegins DEF Calling, Typed
    <2>2. CallsAreFor'
        BY <1>0, <1>2, <2>1, CallBegins, CallOfPass DEF Typed
    <2>3. Numbered' /\ CallsFit'
        BY <1>0, <2>1, CallingKeeps
    <2>4. TypeOK'
        BY <1>0, <1>2, <2>1 DEF TypeOK, Calling, Calls, Pollers, Passing
    <2> QED BY <2>2, <2>3, <2>4 DEF Typed
<1> QED BY <1>1, <1>2 DEF Apply

LEMMA TypedApplied ==
    ASSUME AccountSyncAssumption, Typed, Applied
    PROVE  Typed'
<1>0. /\ TypeOK /\ call \in [Threads -> Calls] /\ poller \in Pollers
      /\ pass \in Passing /\ "sync" \in Threads /\ SessionsGoOn
      /\ UNCHANGED <<poller, request, row, local, service, records, codes, faults>>
      /\ call["sync"].at = "told" /\ Finished /\ Goes("sync", NoCall)
    BY DEF Typed, TypeOK, Calls, Pollers, Passing, Threads, Applied, AppliedFor,
           cloud, SessionsGoOn
<1>1. pass' \in Passing /\ (pass'.at = "apply" => pass'.todo # {})
    BY <1>0, PassIsFinished
<1>2. Calling("sync") /\ call'["sync"] = NoCall
    BY <1>0, CallGoes, Constants DEF Calling, Fits
<1>3. CallsAreFor'
    BY <1>1, <1>2, PassMoves, Constants
<1>4. Numbered' /\ CallsFit'
    BY <1>0, <1>2, CallingKeeps
<1>5. mapping' \in [Projects -> Entry]
    <2>1. [org |-> pass.org, id |-> OwnerOf(call["sync"].token)] \in Entry
        BY <1>0, CallUnderWay DEF Entry, Passing
    <2>2. mapping \in [Projects -> Entry]
        BY <1>0 DEF TypeOK
    <2>3. \/ mapping' = mapping
          \/ \E e \in Entry : mapping' = [mapping EXCEPT ![Current.project] = e]
        BY <2>1, Constants DEF Applied, AppliedFor
    <2> QED BY <2>2, <2>3
<1>6. TypeOK'
    BY <1>0, <1>1, <1>2, <1>5 DEF TypeOK, Calling, Calls, Passing
<1> QED BY <1>3, <1>4, <1>6 DEF Typed

LEMMA TypedRestart ==
    ASSUME AccountSyncAssumption, Typed, Restart
    PROVE  Typed'
<1>0. /\ TypeOK /\ service \in [1..MaxCodes -> Sessions]
      /\ UNCHANGED <<local, mapping, records, codes>>
      /\ request' \in [in : {"idle", "code"}, out : {"idle", "asked"}]
      /\ call' = [t \in Threads |-> NoCall] /\ pass' = NoPass
      /\ row' = row \/ row' = SignedOut
    BY DEF Typed, TypeOK, Restart, Sessions
<1>9. SignedOut \in Rows /\ SignedOut.token = NoToken /\ SignedOut.code = 0
    BY Constants DEF SignedOut
<1>1. faults' \in 0..MaxFaults
    BY <1>0, FaultCounts DEF Restart, TypeOK
<1>2. poller' \in Pollers /\ poller'.at # "asked"
    BY Constants DEF Restart, Pollers
<1>3. call' \in [Threads -> Calls] /\ \A t \in Threads : call'[t].at = "idle"
    BY <1>0, Constants
<1>4. /\ service' \in [1..MaxCodes -> Sessions]
      /\ \A s \in 1..MaxCodes : service'[s].owner = service[s].owner
    <2>1. \A r \in Sessions : /\ [r EXCEPT !.astray = TRUE] \in Sessions
                              /\ [r EXCEPT !.astray = TRUE].owner = r.owner
        BY DEF Sessions
    <2>2. /\ DOMAIN service' = 1..MaxCodes
          /\ \A s \in 1..MaxCodes :
                service'[s] = service[s] \/ service'[s] = [service[s] EXCEPT !.astray = TRUE]
          /\ service' = [s \in 1..MaxCodes |-> service'[s]]
        BY DEF Restart
    <2>3. \A s \in 1..MaxCodes :
             service'[s] \in Sessions /\ service'[s].owner = service[s].owner
        <3> TAKE s \in 1..MaxCodes
        <3>1. service[s] \in Sessions
            BY <1>0
        <3> QED BY <2>1, <2>2, <3>1
    <2> QED BY <2>2, <2>3
<1>5. TypeOK'
    BY <1>0, <1>1, <1>2, <1>3, <1>4, <1>9, Constants
       DEF TypeOK, Rows, Pollers, Calls, Passing, Sessions
<1>6. Numbered'
    <2>1. CASE row' = row
        BY <1>0, <1>2, <1>4, <2>1 DEF Typed, Numbered, SignedIn, Begun
    <2>2. CASE row' = SignedOut
        <3>1. codes \in Nat /\ row'.code = 0 /\ ~SignedIn'
            BY <1>0, <1>9, <2>2 DEF TypeOK, Codes, SignedIn, AccountSyncAssumption
        <3>2. \A s \in 1..MaxCodes : s > codes' => service'[s].owner = None
            BY <1>0, <1>4 DEF Typed, Numbered
        <3> QED BY <1>0, <1>2, <3>1, <3>2 DEF Numbered
    <2> QED BY <1>0, <2>1, <2>2
<1>7. CallsFit'
    BY <1>3 DEF CallsFit, Fits
<1>8. CallsAreFor'
    BY <1>0, <1>3, Constants DEF CallsAreFor, Threads
<1> QED BY <1>5, <1>6, <1>7, <1>8 DEF Typed

LEMMA TypedInit ==
    ASSUME AccountSyncAssumption, Init
    PROVE  Typed
<1>1. TypeOK
    BY Constants DEF Init, TypeOK, Rows, Pollers, Calls, Passing, Sessions, SignedOut,
                     Owner, None, AccountSyncAssumption
<1>2. Numbered
    BY DEF Init, Numbered, SignedIn, SignedOut, None, NoPoller, AccountSyncAssumption
<1>3. CallsFit /\ CallsAreFor
    BY DEF Init, CallsFit, Fits, NoCall, CallsAreFor, NoPass, Threads
<1> QED BY <1>1, <1>2, <1>3 DEF Typed

LEMMA TypedStep ==
    ASSUME AccountSyncAssumption, Typed, [Next]_vars
    PROVE  Typed'
<1>1. CASE User
    BY <1>1, TypedSignIn, TypedSignOut, TypedChange DEF User
<1>2. CASE SetCode
    BY <1>2, TypedSetCode
<1>3. CASE Poller
    BY <1>3, TypedPoll, TypedPollAnswered, TypedPollerIdentity DEF Poller
<1>4. CASE Forget
    BY <1>4, TypedForget
<1>5. CASE \E t \in Threads : Authed(t)
    BY <1>5, TypedAsk, TypedRefresh, TypedSpend, TypedSpent DEF Authed
<1>6. CASE Passes
    BY <1>6, TypedStartPass, TypedPassIdentity, TypedApply, TypedApplied DEF Passes
<1>7. CASE Restart
    BY <1>7, TypedRestart
<1>8. CASE UNCHANGED vars
    BY <1>8 DEF vars, memory, device, cloud, Typed, TypeOK, Numbered, SignedIn,
                CallsFit, CallsAreFor
<1> QED BY <1>1, <1>2, <1>3, <1>4, <1>5, <1>6, <1>7, <1>8 DEF Next

\* AccountSync keeps its types, at every step of every run (all actions).
THEOREM TypeCorrect ==
    ASSUME AccountSyncAssumption
    PROVE  Spec => []TypeOK
<1>1. Init => Typed
    BY TypedInit
<1>2. Typed /\ [Next]_vars => Typed'
    BY TypedStep
<1>3. Typed => TypeOK
    BY DEF Typed
<1> QED BY <1>1, <1>2, <1>3, PTL DEF Spec

-----------------------------------------------------------------------------
\* Each refresh token is used once.

\* Nothing of a refresh happens: no call spends a token that did not before,
\* none that did is over, and the sessions that began stay or are ended.  A
\* token that is new in the row is of a session that was nobody's.
NothingSpent ==
    /\ \A t \in Threads : /\ call'[t].at \in {"spend", "spent"} => call'[t] = call[t]
                          /\ call[t].at = "spent" => call'[t] = call[t]
    /\ \A s \in 1..MaxCodes : service[s].owner # None =>
          service'[s] = service[s] \/ service'[s].version = 0
    /\ \/ row'.token \in {row.token, NoToken}
       \/ /\ row'.token.session \in 1..MaxCodes
          /\ service[row'.token.session].owner = None
          /\ service'[row'.token.session].version = row'.token.version

LEMMA SpendingStays ==
    ASSUME Typed, Spending, NothingSpent
    PROVE  Spending'
<1>1. \A t \in Threads : call'[t].at \in {"spend", "spent"} =>
         /\ call'[t] = call[t] /\ Begun(call[t].token, service)
    BY DEF NothingSpent, Typed, CallsFit, Fits
<1>2. Alone'
    BY <1>1 DEF Spending, Alone
<1>3. \A t \in Threads : call'[t].at = "spent" =>
         service'[call'[t].token.session] = service[call'[t].token.session]
            \/ service'[call'[t].token.session].version = 0
    BY <1>1 DEF NothingSpent, Begun
<1>4. CASE row'.token = row.token
    <2>1. SignedIn => Begun(row.token, service)
        BY DEF Typed, Numbered
    <2>2. SignedIn' => service'[row.token.session] = service[row.token.session]
                          \/ service'[row.token.session].version = 0
        BY <1>4, <2>1 DEF NothingSpent, Begun, SignedIn
    <2>3. Newest'
        BY <1>1, <1>3, <1>4, <2>2 DEF Spending, Newest, SignedIn, NothingSpent
    <2>4. \A t \in Threads : call'[t].at = "spent" => SignedIn' \/ row.token # call'[t].token
        BY <1>1, <1>4 DEF SignedIn, Begun, NoToken
    <2>5. NoTokenSpentTwice'
        BY <1>1, <1>4, <2>2, <2>4 DEF Spending, NoTokenSpentTwice, SignedIn
    <2> QED BY <1>2, <2>3, <2>5 DEF Spending
<1>5. CASE row'.token = NoToken
    <2>1. Newest'
        BY <1>1, <1>3, <1>5 DEF Spending, Newest, SignedIn
    <2>2. NoTokenSpentTwice'
        BY <1>1, <1>5 DEF NoTokenSpentTwice, Begun, NoToken
    <2> QED BY <1>2, <2>1, <2>2 DEF Spending
<1>6. CASE /\ row'.token.session \in 1..MaxCodes
           /\ service[row'.token.session].owner = None
           /\ service'[row'.token.session].version = row'.token.version
    <2>1. Newest'
        BY <1>1, <1>3, <1>6 DEF Spending, Newest, SignedIn
    <2>2. NoTokenSpentTwice'
        BY <1>1, <1>6 DEF NoTokenSpentTwice, Begun
    <2> QED BY <1>2, <2>1, <2>2 DEF Spending
<1> QED BY <1>4, <1>5, <1>6 DEF NothingSpent

\* A call that is not spending a token goes on to something else than that.
LEMMA CallSpendsNothing ==
    ASSUME Typed, NEW t \in Threads, call[t].at # "spent",
           \A u \in Threads : u # t => call'[u] = call[u],
           call'[t].at \notin {"spend", "spent"},
           row'.token = row.token, UNCHANGED service
    PROVE  NothingSpent
BY DEF NothingSpent

\* Every action but the steps of a refresh and a restart.
LEMMA NothingSpentBy ==
    ASSUME AccountSyncAssumption, Typed,
           \/ User \/ SetCode \/ Poller \/ Forget \/ Passes \/ UNCHANGED vars
           \/ \E t \in Threads : Ask(t)
    PROVE  NothingSpent
<1>0. /\ call \in [Threads -> Calls] /\ row \in Rows
      /\ service \in [1..MaxCodes -> Sessions]
      /\ NoCall \in Calls /\ NoCall.at = "idle" /\ "sync" \in Threads /\ "poller" \in Threads
    BY Constants DEF Typed, TypeOK, Calls, Rows, Sessions, Threads
<1>1. CASE SignIn \/ (\E p \in Projects : Change(p)) \/ StartPass \/ UNCHANGED vars
    BY <1>1 DEF SignIn, Change, StartPass, vars, memory, device, cloud, NothingSpent
<1>2. CASE SignOut
    <2>1. /\ UNCHANGED <<row, call>>
          /\ \A s \in 1..MaxCodes : service'[s] = service[s] \/ service'[s].version = 0
        <3>1. CASE UNCHANGED service
            BY <1>2, <3>1 DEF SignOut, device
        <3>2. CASE SignedIn /\ ~UNCHANGED service
            <4> DEFINE s == row.token.session
            <4>1. s \in 1..MaxCodes
                BY <3>2 DEF Typed, Numbered, Begun
            <4>2. service' = [service EXCEPT ![s] = [@ EXCEPT !.version = 0, !.astray = FALSE]]
                BY <1>2, <3>2 DEF SignOut
            <4>3. [service[s] EXCEPT !.version = 0, !.astray = FALSE].version = 0
                BY <1>0, <4>1 DEF Sessions
            <4> HIDE DEF s
            <4>4. service'[s].version = 0
                BY <1>0, <4>1, <4>2, <4>3
            <4>5. \A u \in 1..MaxCodes : u # s => service'[u] = service[u]
                BY <1>0, <4>2
            <4> QED BY <1>2, <4>4, <4>5 DEF SignOut, device
        <3> QED BY <1>2, <3>1, <3>2 DEF SignOut
    <2> QED BY <2>1 DEF NothingSpent
<1>3. CASE SetCode
    <2>1. row'.token = row.token /\ UNCHANGED <<call, service>>
        BY <1>0, <1>3 DEF SetCode, Rows
    <2> QED BY <2>1 DEF NothingSpent
<1>4. CASE Poll
    <2>1. row'.token = row.token /\ UNCHANGED <<call, service>>
        BY <1>0, <1>4 DEF Poll, Rows, cloud
    <2> QED BY <2>1 DEF NothingSpent
<1>5. CASE PollAnswered
    <2>1. UNCHANGED call /\ poller.code \in 1..MaxCodes
        BY <1>5 DEF PollAnswered, PollAnsweredIf, Typed, TypeOK, Numbered, Codes,
                    AccountSyncAssumption
    <2>2. CASE row'.token = row.token /\ UNCHANGED service
        BY <2>1, <2>2 DEF NothingSpent
    <2>3. ASSUME NEW owner \in 1..poller.code, row.code = poller.code,
                 row' = [code |-> 0, org |-> None,
                         token |-> [session |-> poller.code, version |-> 1]],
                 service' = [service EXCEPT ![poller.code] =
                       [owner |-> owner, version |-> 1, astray |-> FALSE]]
          PROVE  NothingSpent
        <3>1. service[poller.code].owner = None
            BY <2>1, <2>3 DEF Typed, Numbered
        <3>2. /\ service'[poller.code].version = 1
              /\ \A s \in 1..MaxCodes : s # poller.code => service'[s] = service[s]
            BY <1>0, <2>1, <2>3
        <3>3. row'.token.session = poller.code /\ row'.token.version = 1
            BY <2>3
        <3> QED BY <2>1, <3>1, <3>2, <3>3 DEF NothingSpent
    <2>4. CASE row' = [row EXCEPT !.code = 0] /\ UNCHANGED service
        BY <1>0, <2>2, <2>4 DEF Rows
    <2> QED BY <1>5, <2>2, <2>3, <2>4 DEF PollAnswered, PollAnsweredIf
<1>6. CASE PollerIdentity
    <2>1. UNCHANGED service
        BY <1>6 DEF PollerIdentity, cloud
    <2>2. CASE UNCHANGED <<call, row>>
        BY <2>1, <2>2 DEF NothingSpent
    <2>3. CASE Take("poller") /\ call["poller"].at = "idle" /\ UNCHANGED row
        BY <1>0, <2>1, <2>3, CallBegins, CallSpendsNothing DEF Typed
    <2>4. CASE /\ call["poller"].at = "told" /\ Goes("poller", NoCall)
               /\ Identity("poller") \/ UNCHANGED row
        BY <1>0, <2>1, <2>4, IdentityIsTyped, CallGoes, CallSpendsNothing
    <2> QED BY <1>6, <2>2, <2>3, <2>4 DEF PollerIdentity
<1>7. CASE Forget
    BY <1>7 DEF Forget, SignedOut, cloud, NothingSpent
<1>8. CASE PassIdentity
    <2>1. UNCHANGED service
        BY <1>8 DEF PassIdentity, cloud
    <2>2. CASE UNCHANGED <<call, row>>
        BY <2>1, <2>2 DEF NothingSpent
    <2>3. CASE Take("sync") /\ call["sync"].at = "idle" /\ UNCHANGED row
        BY <1>0, <2>1, <2>3, CallBegins, CallSpendsNothing DEF Typed
    <2>4. CASE /\ call["sync"].at = "told" /\ Goes("sync", NoCall)
               /\ Identity("sync") \/ UNCHANGED row
        BY <1>0, <2>1, <2>4, IdentityIsTyped, CallGoes, CallSpendsNothing
    <2> QED BY <1>8, <2>2, <2>3, <2>4 DEF PassIdentity
<1>9. CASE Apply
    <2>1. UNCHANGED <<service, row>> /\ call["sync"].at = "idle"
        BY <1>9 DEF Apply, cloud
    <2>2. CASE UNCHANGED call
        BY <2>1, <2>2 DEF NothingSpent
    <2>3. CASE Take("sync")
        BY <1>0, <2>1, <2>3, CallBegins, CallSpendsNothing DEF Typed
    <2> QED BY <1>9, <2>2, <2>3 DEF Apply
<1>10. CASE Applied
    <2>1. UNCHANGED <<service, row>> /\ call["sync"].at = "told" /\ Goes("sync", NoCall)
        BY <1>10 DEF Applied, AppliedFor, cloud
    <2> QED BY <1>0, <2>1, CallGoes, CallSpendsNothing
<1>11. ASSUME NEW t \in Threads, Ask(t)
       PROVE  NothingSpent
    <2>1. UNCHANGED <<service, row>> /\ call[t].at = "ask" /\ call[t] \in Calls
        BY <1>0, <1>11 DEF Ask, device
    <2>2. \E c \in Calls : Goes(t, c) /\ c.at \in {"told", "refresh"}
        <3>1. /\ [call[t] EXCEPT !.at = "told"] \in Calls
              /\ [call[t] EXCEPT !.at = "told"].at = "told"
              /\ [call[t] EXCEPT !.at = "refresh", !.second = TRUE] \in Calls
              /\ [call[t] EXCEPT !.at = "refresh", !.second = TRUE].at = "refresh"
            BY <2>1 DEF Calls
        <3>2. /\ [call[t] EXCEPT !.at = "told", !.ok = TRUE] \in Calls
              /\ [call[t] EXCEPT !.at = "told", !.ok = TRUE].at = "told"
            BY <2>1 DEF Calls
        <3> QED BY <1>11, <3>1, <3>2 DEF Ask
    <2> QED BY <1>0, <2>1, <2>2, CallGoes, CallSpendsNothing
<1> QED BY <1>1, <1>2, <1>3, <1>4, <1>5, <1>6, <1>7, <1>8, <1>9, <1>10, <1>11
        DEF User, Poller, Passes

LEMMA SpendingRefresh ==
    ASSUME AccountSyncAssumption, Typed, Spending, NEW t \in Threads, Refresh(t)
    PROVE  Spending'
<1>0. /\ call[t].at = "refresh" /\ UNCHANGED <<row, service>> /\ TypeOK
      /\ call \in [Threads -> Calls] /\ call[t] \in Calls
      /\ \A u \in Threads : call[u].at \notin {"spend", "spent"}
    BY DEF Refresh, RefreshIf, Quiet, device, cloud, Typed, TypeOK, Calls
<1>1. CASE call'[t].at \notin {"spend", "spent"}
           /\ \A u \in Threads : u # t => call'[u] = call[u]
    BY <1>0, <1>1, CallSpendsNothing, SpendingStays
<1>2. CASE Goes(t, [call[t] EXCEPT !.at = "spend"])
    <2> DEFINE c == [call[t] EXCEPT !.at = "spend"]
    <2>1. c \in Calls /\ c.at = "spend" /\ Goes(t, c)
        BY <1>0, <1>2 DEF Calls
    <2> HIDE DEF c
    <2>2. call'[t].at = "spend" /\ \A u \in Threads : u # t => call'[u] = call[u]
        BY <1>0, <2>1, CallGoes
    <2> QED BY <1>0, <2>2 DEF Spending, Alone, Newest, NoTokenSpentTwice, SignedIn
<1>3. CASE ~SignedIn
    BY <1>0, <1>1, <1>3, CallEnds, Constants DEF Refresh, RefreshIf
<1>4. CASE SignedIn /\ row.token # call[t].token
    <2>1. Again(t, row.token) /\ row.token \in Token /\ Begun(row.token, service)
        BY <1>0, <1>4 DEF Refresh, RefreshIf, TypeOK, Typed, Numbered
    <2> QED BY <1>0, <1>1, <2>1, CallsAgain
<1> QED BY <1>2, <1>3, <1>4 DEF Refresh, RefreshIf

\* What the service does with a token, fresh or not.
LEMMA SpendingSpend ==
    ASSUME AccountSyncAssumption, Typed, Spending, NEW t \in Threads, Spend(t)
    PROVE  Spending'
<1> DEFINE c == call[t]
           s == c.token.session
           fresh == service[s].version = c.token.version
<1>0. /\ c.at = "spend" /\ TypeOK /\ call \in [Threads -> Calls] /\ UNCHANGED row
      /\ service \in [1..MaxCodes -> Sessions] /\ c \in Calls
      /\ s \in 1..MaxCodes /\ c.token \in Token /\ c.token.version \in 1..MaxVersion
      /\ service[s] \in Sessions /\ row.token \in Token
    BY CallUnderWay DEF Spend, device, Typed, TypeOK, Calls, Sessions
<1>1. \A u \in Threads : u # t => call[u].at \notin {"spend", "spent"}
    BY <1>0 DEF Spending, Alone
<1>2. SignedIn /\ row.token.session = s =>
         \/ service[s].version \in {0, row.token.version}
         \/ service[s].astray
    BY <1>0, <1>1 DEF Spending, Newest
<1>3. SignedIn /\ row.token.session = s /\ row.token.version = c.token.version =>
         row.token = c.token
    BY <1>0 DEF Token
<1>4. CASE /\ Goes(t, [c EXCEPT !.at = "spent", !.ok = fresh])
           /\ service' = IF fresh THEN [service EXCEPT ![s].version = @ + 1] ELSE service
    <2> DEFINE d == [c EXCEPT !.at = "spent", !.ok = fresh]
    <2>1. d \in Calls /\ d.at = "spent" /\ d.ok = fresh /\ d.token = c.token /\ Goes(t, d)
        BY <1>0, <1>4 DEF Calls
    <2> HIDE DEF d
    <2>2. /\ call'[t].at = "spent" /\ call'[t].ok = fresh /\ call'[t].token = c.token
          /\ \A u \in Threads : u # t => call'[u] = call[u]
        BY <1>0, <2>1, CallGoes
    <2>3. CASE fresh
        <3>1. /\ service'[s].version = c.token.version + 1
              /\ service'[s].astray = service[s].astray
              /\ \A u \in 1..MaxCodes : u # s => service'[u] = service[u]
            <4> DEFINE r == [service[s] EXCEPT !.version = @ + 1]
            <4>1. r.version = c.token.version + 1 /\ r.astray = service[s].astray
                BY <1>0, <2>3 DEF Sessions
            <4>2. service' = [service EXCEPT ![s] = r]
                BY <1>0, <1>4, <2>3
            <4> HIDE DEF r
            <4> QED BY <1>0, <4>1, <4>2
        <3>2. SignedIn /\ row.token.session = s => row.token = c.token \/ service[s].astray
            BY <1>0, <1>2, <1>3, <2>3
        <3>3. SignedIn => row.token.session \in 1..MaxCodes
            BY DEF Typed, Numbered, Begun
        <3>4. Newest'
            <4>1. \A u \in Threads : call'[u].at = "spent" => u = t
                BY <1>1, <2>2
            <4>2. SignedIn =>
                     LET sess == service'[row.token.session]
                     IN  \/ sess.version \in {0, row.token.version} \/ sess.astray
                         \/ call'[t].token = row.token
                <5>1. CASE row.token.session = s
                    BY <2>2, <3>1, <3>2, <5>1
                <5>2. CASE row.token.session # s
                    BY <1>0, <1>1, <3>1, <3>3, <5>2 DEF Spending, Newest
                <5> QED BY <5>1, <5>2
            <4>3. SignedIn' <=> SignedIn
                BY <1>0 DEF SignedIn
            <4>4. call'[t].token.version + 1 = service'[call'[t].token.session].version
                BY <1>0, <2>2, <3>1
            <4> QED BY <1>0, <2>2, <2>3, <4>1, <4>2, <4>3, <4>4 DEF Newest
        <3>5. Alone' /\ NoTokenSpentTwice'
            BY <1>0, <1>1, <2>2, <2>3 DEF Alone, NoTokenSpentTwice
        <3> QED BY <3>4, <3>5 DEF Spending
    <2>4. CASE ~fresh
        <3>1. UNCHANGED service
            BY <1>4, <2>4
        <3>2. c.token = row.token => SignedIn
            BY <1>0 DEF SignedIn, NoToken
        <3>3. NoTokenSpentTwice'
            BY <1>0, <1>1, <1>2, <2>2, <2>4, <3>1, <3>2 DEF NoTokenSpentTwice
        <3>4. Alone'
            BY <1>1, <2>2 DEF Alone
        <3>5. Newest'
            BY <1>0, <1>1, <2>2, <2>4, <3>1 DEF Spending, Newest, SignedIn
        <3> QED BY <3>3, <3>4, <3>5 DEF Spending
    <2> QED BY <2>3, <2>4
<1>5. CASE /\ Goes(t, [c EXCEPT !.at = "told"])
           /\ \/ UNCHANGED service
              \/ service' = [service EXCEPT ![s].version = @ + 1, ![s].astray = TRUE]
    <2> DEFINE d == [c EXCEPT !.at = "told"]
    <2>1. d \in Calls /\ d.at = "told" /\ Goes(t, d)
        BY <1>0, <1>5 DEF Calls
    <2> HIDE DEF d
    <2>2. call'[t].at = "told" /\ \A u \in Threads : u # t => call'[u] = call[u]
        BY <1>0, <2>1, CallGoes
    <2>3. \A u \in Threads : call'[u].at \notin {"spend", "spent"}
        BY <1>1, <2>2
    <2>4. \A u \in 1..MaxCodes : service'[u] = service[u] \/ service'[u].astray
        <3>1. CASE service' = [service EXCEPT ![s].version = @ + 1, ![s].astray = TRUE]
            <4> DEFINE r == [service[s] EXCEPT !.version = @ + 1, !.astray = TRUE]
            <4>1. r.astray
                BY <1>0 DEF Sessions
            <4>2. service' = [service EXCEPT ![s] = r]
                BY <1>0, <3>1
            <4> HIDE DEF r
            <4> QED BY <1>0, <4>1, <4>2
        <3> QED BY <1>5, <3>1
    <2>5. SignedIn => row.token.session \in 1..MaxCodes
        BY DEF Typed, Numbered, Begun
    <2>6. Newest'
        BY <1>0, <1>1, <2>3, <2>4, <2>5 DEF Spending, Newest, SignedIn
    <2> QED BY <2>3, <2>6 DEF Spending, Alone, NoTokenSpentTwice
<1> QED BY <1>4, <1>5 DEF Spend

\* The new token is stored where the spent one was.
LEMMA SpendingSpent ==
    ASSUME AccountSyncAssumption, Typed, Spending, NEW t \in Threads, Spent(t)
    PROVE  Spending'
<1> DEFINE c == call[t]
           new == [c.token EXCEPT !.version = @ + 1]
<1>0. /\ c.at = "spent" /\ TypeOK /\ UNCHANGED service /\ c.token \in Token
      /\ row \in Rows /\ c.token.session \in 1..MaxCodes
      /\ c.token.version \in 1..MaxVersion /\ Begun(c.token, service) /\ Fits(c, service)
    BY CallUnderWay DEF Spent, cloud, Typed, TypeOK, Rows, CallsFit, Fits
<1>1. \A u \in Threads : u # t => call[u].at \notin {"spend", "spent"}
    BY <1>0 DEF Spending, Alone
<1> DEFINE Over == /\ call'[t].at \notin {"spend", "spent"}
                   /\ \A u \in Threads : u # t => call'[u] = call[u]
<1>2. ASSUME Over PROVE \A u \in Threads : call'[u].at \notin {"spend", "spent"}
    BY <1>1, <1>2
<1>3. CASE ~SignedIn /\ NotSignedIn(t) /\ UNCHANGED row
    <2>1. Over
        BY <1>0, <1>3, CallEnds, Constants
    <2> QED BY <1>2, <1>3, <2>1
            DEF Spending, Alone, Newest, NoTokenSpentTwice, SignedIn
<1>4. CASE SignedIn /\ row.token # c.token /\ Again(t, row.token) /\ UNCHANGED row
    <2>1. Over
        BY <1>0, <1>4, CallsAgain DEF Rows, Typed, Numbered
    <2>2. Newest'
        BY <1>0, <1>1, <1>2, <1>4, <2>1 DEF Spending, Newest, SignedIn
    <2> QED BY <1>2, <2>1, <2>2 DEF Spending, Alone, NoTokenSpentTwice
<1>5. CASE /\ row.token = c.token /\ c.ok /\ Again(t, new)
           /\ row' = [row EXCEPT !.token = new]
    <2>1. c.token.version + 1 \in 0..MaxVersion
        BY <1>0, <1>5, NextToken DEF Fits
    <2>2. /\ new \in Token /\ new.session = c.token.session
          /\ new.version = c.token.version + 1 /\ new.version > 0
        BY <1>0, <2>1 DEF Token
    <2>3. row'.token = new
        BY <1>0, <1>5 DEF Rows
    <2> HIDE DEF new
    <2>4. Over
        BY <1>0, <1>5, <2>2, CallsAgain DEF Begun
    <2>5. LET sess == service[c.token.session]
          IN  sess.version \in {0, c.token.version + 1} \/ sess.astray
        BY <1>0, <1>5 DEF Spending, Newest
    <2>6. Newest'
        BY <1>0, <1>2, <2>2, <2>3, <2>4, <2>5 DEF Newest, SignedIn
    <2> QED BY <1>2, <2>4, <2>6 DEF Spending, Alone, NoTokenSpentTwice
<1>6. CASE NotSignedIn(t) /\ row' = SignedOut
    <2>1. Over
        BY <1>0, <1>6, CallEnds, Constants
    <2>2. row'.token = NoToken
        BY <1>6 DEF SignedOut
    <2> QED BY <1>2, <2>1, <2>2 DEF Spending, Alone, Newest, NoTokenSpentTwice, SignedIn
<1> QED BY <1>3, <1>4, <1>5, <1>6 DEF Spent

\* A token that was on its way to a process that stops is lost.
LEMMA SpendingRestart ==
    ASSUME AccountSyncAssumption, Typed, Spending, Restart
    PROVE  Spending'
<1>0. /\ row' = row \/ row'.token = NoToken
      /\ call' = [t \in Threads |-> NoCall]
      /\ service \in [1..MaxCodes -> Sessions]
    BY DEF Restart, SignedOut, Typed, TypeOK, Sessions
<1>1. \A t \in Threads : call'[t].at = "idle"
    BY <1>0, Constants
<1>2. \A s \in 1..MaxCodes :
         \/ service'[s].astray
         \/ /\ service'[s] = service[s]
            /\ \A t \in Threads : call[t].at = "spent" /\ call[t].ok => call[t].token.session # s
    <2>1. \A r \in Sessions : [r EXCEPT !.astray = TRUE].astray
        BY DEF Sessions
    <2> QED BY <1>0, <2>1 DEF Restart
<1>3. SignedIn => row.token.session \in 1..MaxCodes
    BY DEF Typed, Numbered, Begun
<1>4. Newest'
    BY <1>0, <1>1, <1>2, <1>3 DEF Spending, Newest, SignedIn
<1> QED BY <1>1, <1>4 DEF Spending, Alone, NoTokenSpentTwice

LEMMA SpendingStep ==
    ASSUME AccountSyncAssumption, Typed, Spending, [Next]_vars
    PROVE  Spending'
<1>1. CASE \E t \in Threads : Refresh(t) \/ Spend(t) \/ Spent(t)
    BY <1>1, SpendingRefresh, SpendingSpend, SpendingSpent
<1>2. CASE Restart
    BY <1>2, SpendingRestart
<1>3. CASE ~Restart /\ ~\E t \in Threads : Refresh(t) \/ Spend(t) \/ Spent(t)
    BY <1>3, NothingSpentBy, SpendingStays DEF Next, Authed
<1> QED BY <1>1, <1>2, <1>3

\* No refresh token is used twice (Refresh, Spend and Spent in two threads,
\* across restarts, lost answers, sign-outs and sign-ins).
THEOREM TokensAreUsedOnce ==
    ASSUME AccountSyncAssumption
    PROVE  Spec => []NoTokenSpentTwice
<1>1. Init => Typed /\ Spending
    <2>1. Init => Spending
        BY DEF Init, Spending, Alone, Newest, NoTokenSpentTwice, SignedIn, SignedOut,
               NoCall
    <2> QED BY <2>1, TypedInit
<1>2. Typed /\ Spending /\ [Next]_vars => (Typed /\ Spending)'
    BY TypedStep, SpendingStep
<1>3. Spending => NoTokenSpentTwice
    BY DEF Spending
<1> QED BY <1>1, <1>2, <1>3, PTL DEF Spec

-----------------------------------------------------------------------------
\* Who the account is.

LEMMA OwnersStay ==
    ASSUME AccountSyncAssumption, Typed, [Next]_vars
    PROVE  \A s \in 1..MaxCodes :
              service[s].owner # None => service'[s].owner = service[s].owner
<1>0. service \in [1..MaxCodes -> Sessions]
    BY DEF Typed, TypeOK, Sessions
<1>1. CASE SignOut
    <2>1. \A r \in Sessions : [r EXCEPT !.version = 0, !.astray = FALSE].owner = r.owner
        BY DEF Sessions
    <2>2. \/ UNCHANGED service
          \/ service' = [service EXCEPT ![row.token.session] =
                 [@ EXCEPT !.version = 0, !.astray = FALSE]]
        BY <1>1 DEF SignOut
    <2> QED BY <1>0, <2>1, <2>2
<1>2. CASE PollAnswered
    <2>1. poller.at = "asked" /\ poller.code \in 1..MaxCodes
        BY <1>2 DEF PollAnswered, PollAnsweredIf, Typed, TypeOK, Numbered, Codes,
                    AccountSyncAssumption
    <2>2. \/ UNCHANGED service
          \/ /\ row.code = poller.code
             /\ \E r : service' = [service EXCEPT ![poller.code] = r]
        BY <1>2 DEF PollAnswered, PollAnsweredIf
    <2>3. row.code = poller.code => service[poller.code].owner = None
        BY <2>1 DEF Typed, Numbered
    <2> QED BY <1>0, <2>1, <2>2, <2>3
<1>3. ASSUME NEW t \in Threads, Spend(t)
      PROVE  \A s \in 1..MaxCodes : service'[s].owner = service[s].owner
    <2> DEFINE s == call[t].token.session
    <2>0. s \in 1..MaxCodes /\ service[s] \in Sessions
        BY <1>3, CallUnderWay DEF Spend
    <2>1. CASE service' = [service EXCEPT ![s].version = @ + 1]
        <3> DEFINE r == [service[s] EXCEPT !.version = @ + 1]
        <3>1. r.owner = service[s].owner
            BY <2>0 DEF Sessions
        <3>2. service' = [service EXCEPT ![s] = r]
            BY <1>0, <2>0, <2>1
        <3> HIDE DEF r
        <3> QED BY <1>0, <3>1, <3>2
    <2>2. CASE service' = [service EXCEPT ![s].version = @ + 1, ![s].astray = TRUE]
        <3> DEFINE r == [service[s] EXCEPT !.version = @ + 1, !.astray = TRUE]
        <3>1. r.owner = service[s].owner
            BY <2>0 DEF Sessions
        <3>2. service' = [service EXCEPT ![s] = r]
            BY <1>0, <2>0, <2>2
        <3> HIDE DEF r
        <3> QED BY <1>0, <3>1, <3>2
    <2> QED BY <1>3, <2>1, <2>2 DEF Spend
<1>4. CASE Restart
    <2>1. \A r \in Sessions : [r EXCEPT !.astray = TRUE].owner = r.owner
        BY DEF Sessions
    <2> QED BY <1>0, <1>4, <2>1 DEF Restart
<1>5. CASE /\ ~Restart /\ ~SignOut /\ ~PollAnswered /\ ~\E t \in Threads : Spend(t)
    <2>1. UNCHANGED service
        BY <1>5
           DEF Next, User, Poller, Authed, Passes, SignIn, Change, SetCode, Poll,
               PollerIdentity, Forget, Ask, Refresh, RefreshIf, Quiet, Spent, StartPass,
               PassIdentity, Apply, Applied, AppliedFor, device, cloud, vars, memory
    <2> QED BY <2>1
<1> QED BY <1>1, <1>2, <1>3, <1>4, <1>5

\* The ways in which the row may change.
RowGoesOn ==
    \/ row'.org = None /\ row'.token.session \in {0, row.token.session, row.code}
    \/ /\ row'.org = row.org
       /\ row'.token.session = row.token.session
       /\ SignedIn' <=> SignedIn
    \/ /\ SignedIn /\ row'.org = OwnerOf(row.token)
       /\ row'.token = row.token

LEMMA RowStep ==
    ASSUME AccountSyncAssumption, Typed, [Next]_vars
    PROVE  RowGoesOn
<1>0. row \in Rows /\ SignedOut.org = None /\ SignedOut.token.session = 0
    BY DEF Typed, TypeOK, Rows, SignedOut, NoToken
<1>1. CASE UNCHANGED row
    BY <1>1 DEF RowGoesOn, SignedIn
<1>2. CASE Forget
    BY <1>0, <1>2 DEF Forget, RowGoesOn
<1>3. CASE SetCode \/ Poll
    <2>1. row'.org = row.org /\ row'.token = row.token
        BY <1>0, <1>3 DEF SetCode, Poll, Rows
    <2> QED BY <2>1 DEF RowGoesOn, SignedIn
<1>4. CASE PollAnswered
    <2>1. \/ UNCHANGED row
          \/ row' = [row EXCEPT !.code = 0]
          \/ /\ row.code = poller.code
             /\ row' = [code |-> 0, org |-> None,
                        token |-> [session |-> poller.code, version |-> 1]]
        BY <1>4 DEF PollAnswered, PollAnsweredIf
    <2>2. row' = [row EXCEPT !.code = 0] => row'.org = row.org /\ row'.token = row.token
        BY <1>0 DEF Rows
    <2> QED BY <1>1, <2>1, <2>2 DEF RowGoesOn, SignedIn
<1>5. ASSUME NEW t \in Threads, Spent(t)
      PROVE  RowGoesOn
    <2> DEFINE new == [call[t].token EXCEPT !.version = @ + 1]
    <2>1. CASE row.token = call[t].token /\ row' = [row EXCEPT !.token = new]
        <3>1. call[t].token \in Token /\ call[t].token.version \in 1..MaxVersion
            BY <1>5, CallUnderWay DEF Spent
        <3>2. new.session = row.token.session /\ new.version > 0
            BY <2>1, <3>1 DEF Token
        <3>3. row'.token = new /\ row'.org = row.org
            BY <1>0, <2>1 DEF Rows
        <3> HIDE DEF new
        <3> QED BY <2>1, <3>1, <3>2, <3>3 DEF RowGoesOn, SignedIn, NoToken
    <2>2. CASE row' = SignedOut
        BY <1>0, <2>2 DEF RowGoesOn
    <2> QED BY <1>1, <1>5, <2>1, <2>2 DEF Spent
<1>6. ASSUME NEW t \in Threads, call[t].at # "idle", Identity(t)
      PROVE  RowGoesOn
    <2>1. CASE row.token = call[t].token
        <3>1. row' = [row EXCEPT !.org = OwnerOf(row.token)]
            BY <1>6, <2>1 DEF Identity, IdentityIf
        <3>2. row'.org = OwnerOf(row.token) /\ row'.token = row.token
            BY <1>0, <3>1 DEF Rows
        <3>3. SignedIn
            BY <1>6, <2>1, CallUnderWay DEF SignedIn, NoToken
        <3> QED BY <3>2, <3>3 DEF RowGoesOn
    <2> QED BY <1>1, <1>6, <2>1 DEF Identity, IdentityIf
<1>7. CASE PollerIdentity \/ PassIdentity
    <2>1. \/ UNCHANGED row
          \/ \E t \in Threads : call[t].at # "idle" /\ Identity(t)
        BY <1>7 DEF PollerIdentity, PassIdentity, Threads
    <2> QED BY <1>1, <1>6, <2>1
<1>9. CASE Restart
    BY <1>0, <1>1, <1>9 DEF Restart, RowGoesOn
<1>8. CASE ~ \/ Forget \/ SetCode \/ Poll \/ PollAnswered \/ PollerIdentity \/ PassIdentity
             \/ Restart \/ \E t \in Threads : Spent(t)
    <2>1. UNCHANGED row
        BY <1>8
           DEF Next, User, Poller, Authed, Passes, SignIn, SignOut, Change, Ask, Refresh,
               RefreshIf, Quiet, Spend, StartPass, Apply, Applied, AppliedFor,
               device, vars
    <2> QED BY <1>1, <2>1
<1> QED BY <1>2, <1>3, <1>4, <1>5, <1>7, <1>8, <1>9

\* No answer that comes late brings a session back (PollAnswered, Spent).
THEOREM NothingElseSignsIn ==
    ASSUME AccountSyncAssumption
    PROVE  Spec => OnlyItsCodeSignsIn
<1>1. Init => Typed
    BY TypedInit
<1>2. Typed /\ [Next]_vars => Typed'
    BY TypedStep
<1>3. Typed /\ [Next]_vars => [row'.token.session \in {0, row.token.session, row.code}]_vars
    BY RowStep DEF RowGoesOn
<1> QED BY <1>1, <1>2, <1>3, PTL DEF Spec, OnlyItsCodeSignsIn

LEMMA IdentityStep ==
    ASSUME AccountSyncAssumption, Typed, IdentityIsOwners, [Next]_vars
    PROVE  IdentityIsOwners'
<1>1. SignedIn => /\ row.token.session \in 1..MaxCodes
                  /\ service[row.token.session].owner # None
    BY DEF Typed, Numbered, Begun
<1>2. SignedIn => service'[row.token.session].owner = service[row.token.session].owner
    BY <1>1, OwnersStay
<1>3. RowGoesOn
    BY RowStep
<1> QED BY <1>1, <1>2, <1>3 DEF RowGoesOn, IdentityIsOwners, OwnerOf, SignedIn

\* The organisation in the row is the one of its session (Identity).
THEOREM IdentityIsTrue ==
    ASSUME AccountSyncAssumption
    PROVE  Spec => []IdentityIsOwners
<1>1. Init => Typed /\ IdentityIsOwners
    BY TypedInit DEF Init, IdentityIsOwners, SignedOut
<1>2. Typed /\ IdentityIsOwners /\ [Next]_vars => (Typed /\ IdentityIsOwners)'
    BY TypedStep, IdentityStep
<1> QED BY <1>1, <1>2, PTL DEF Spec

-----------------------------------------------------------------------------
\* What the passes record.

\* The sync thread's call is with the token it had, or with the row's.
SyncCallGoesOn ==
    \/ call'["sync"].at = "idle"
    \/ /\ call["sync"].at # "idle"
       /\ call'["sync"].token.session = call["sync"].token.session
    \/ SignedIn /\ call'["sync"].token = row.token

LEMMA SyncCallStep ==
    ASSUME AccountSyncAssumption, Typed, [Next]_vars
    PROVE  SyncCallGoesOn
<1>0. /\ call \in [Threads -> Calls] /\ "sync" \in Threads /\ "poller" \in Threads
      /\ TypeOK /\ Numbered /\ CallsFit
      /\ NoCall \in Calls /\ NoCall.at = "idle"
    BY Constants DEF Typed, TypeOK, Calls, Threads
<1>1. CASE call'["sync"] = call["sync"]
    BY <1>1 DEF SyncCallGoesOn
<1>2. ASSUME NEW t \in Threads, NotSignedIn(t)
      PROVE  SyncCallGoesOn
    BY <1>0, <1>1, <1>2, CallEnds DEF SyncCallGoesOn
<1>3. ASSUME NEW t \in Threads, Take(t)
      PROVE  SyncCallGoesOn
    BY <1>0, <1>1, <1>3, CallBegins DEF SyncCallGoesOn
<1>4. ASSUME NEW t \in Threads, Goes(t, NoCall)
      PROVE  SyncCallGoesOn
    BY <1>0, <1>1, <1>4, CallGoes DEF SyncCallGoesOn
<1>5. ASSUME NEW t \in Threads, call[t].at # "idle", NEW c \in Calls, Goes(t, c),
             \/ c.token.session = call[t].token.session
             \/ SignedIn /\ c.token = row.token
      PROVE  SyncCallGoesOn
    BY <1>0, <1>1, <1>5, CallGoes DEF SyncCallGoesOn
<1>6. ASSUME NEW t \in Threads, Ask(t)
      PROVE  SyncCallGoesOn
    <2>0. call[t].at = "ask" /\ call[t] \in Calls
        BY <1>0, <1>6 DEF Ask
    <2>1. \E c \in Calls : Goes(t, c) /\ c.token = call[t].token
        <3>1. /\ [call[t] EXCEPT !.at = "told"] \in Calls
              /\ [call[t] EXCEPT !.at = "told"].token = call[t].token
              /\ [call[t] EXCEPT !.at = "refresh", !.second = TRUE] \in Calls
              /\ [call[t] EXCEPT !.at = "refresh", !.second = TRUE].token = call[t].token
            BY <2>0 DEF Calls
        <3>2. /\ [call[t] EXCEPT !.at = "told", !.ok = TRUE] \in Calls
              /\ [call[t] EXCEPT !.at = "told", !.ok = TRUE].token = call[t].token
            BY <2>0 DEF Calls
        <3> QED BY <1>6, <3>1, <3>2 DEF Ask
    <2> QED BY <1>5, <2>0, <2>1
<1>7. ASSUME NEW t \in Threads, NEW token \in Token, Again(t, token), call[t].at # "idle",
             \/ token.session = call[t].token.session
             \/ SignedIn /\ token = row.token
      PROVE  SyncCallGoesOn
    <2> DEFINE c == [call[t] EXCEPT !.at = "ask", !.token = token, !.ok = FALSE]
    <2>0. call[t] \in Calls
        BY <1>0
    <2>1. c \in Calls /\ c.token = token /\ Goes(t, c)
        BY <1>7, <2>0 DEF Calls, Again
    <2> HIDE DEF c
    <2> QED BY <1>5, <1>7, <2>1
<1>8. ASSUME NEW t \in Threads, Refresh(t)
      PROVE  SyncCallGoesOn
    <2>0. call[t].at = "refresh" /\ call[t] \in Calls /\ row.token \in Token
        BY <1>0, <1>8 DEF Refresh, RefreshIf, TypeOK
    <2>1. CASE Goes(t, [call[t] EXCEPT !.at = "spend"])
        <3> DEFINE c == [call[t] EXCEPT !.at = "spend"]
        <3>1. c \in Calls /\ c.token = call[t].token /\ Goes(t, c)
            BY <2>0, <2>1 DEF Calls
        <3> HIDE DEF c
        <3> QED BY <1>5, <2>0, <3>1
    <2> QED BY <1>2, <1>7, <1>8, <2>0, <2>1 DEF Refresh, RefreshIf
<1>9. ASSUME NEW t \in Threads, Spend(t)
      PROVE  SyncCallGoesOn
    <2>0. call[t].at = "spend" /\ call[t] \in Calls
        BY <1>0, <1>9 DEF Spend
    <2>1. \A fresh \in BOOLEAN :
             /\ [call[t] EXCEPT !.at = "spent", !.ok = fresh] \in Calls
             /\ [call[t] EXCEPT !.at = "spent", !.ok = fresh].token = call[t].token
        BY <2>0 DEF Calls
    <2>2. /\ [call[t] EXCEPT !.at = "told"] \in Calls
          /\ [call[t] EXCEPT !.at = "told"].token = call[t].token
        BY <2>0 DEF Calls
    <2>3. \E c \in Calls : Goes(t, c) /\ c.token = call[t].token
        BY <1>9, <2>1, <2>2 DEF Spend
    <2> QED BY <1>5, <2>0, <2>3
<1>10. ASSUME NEW t \in Threads, Spent(t)
       PROVE  SyncCallGoesOn
    <2> DEFINE new == [call[t].token EXCEPT !.version = @ + 1]
    <2>0. call[t].at = "spent" /\ row.token \in Token
        BY <1>0, <1>10 DEF Spent, TypeOK
    <2>1. CASE call[t].ok /\ Again(t, new)
        <3>1. call[t].token.version + 1 \in 0..MaxVersion
            BY <2>0, <2>1, NextToken, CallUnderWay DEF Typed, CallsFit, Fits
        <3>2. new \in Token /\ new.session = call[t].token.session
            BY <2>0, <3>1, CallUnderWay DEF Token
        <3> HIDE DEF new
        <3> QED BY <1>7, <2>0, <2>1, <3>2
    <2> QED BY <1>2, <1>7, <1>10, <2>0, <2>1 DEF Spent
<1>11. CASE PollerIdentity \/ PassIdentity \/ Apply \/ Applied
    <2>1. \/ UNCHANGED call
          \/ \E t \in Threads : Take(t) \/ Goes(t, NoCall)
        BY <1>0, <1>11 DEF PollerIdentity, PassIdentity, Apply, Applied, AppliedFor
    <2> QED BY <1>1, <1>3, <1>4, <2>1
<1>12. CASE Restart
    BY <1>0, <1>12 DEF Restart, SyncCallGoesOn
<1>13. CASE \/ User \/ SetCode \/ Poll \/ PollAnswered \/ Forget \/ StartPass
            \/ UNCHANGED vars
    <2>1. UNCHANGED call
        BY <1>13
           DEF User, SignIn, SignOut, Change, SetCode, Poll, PollAnswered, PollAnsweredIf,
               Forget, StartPass, memory, vars
    <2> QED BY <1>1, <2>1
<1> QED BY <1>6, <1>8, <1>9, <1>10, <1>11, <1>12, <1>13 DEF Next, Poller, Authed, Passes

\* Records and passes that are there go on, and a new one is in order.
LEMMA ForwardStays ==
    ASSUME AccountSyncAssumption, Typed, PassesForward, [Next]_vars,
           pass'.at = "apply" => pass.at = "apply" /\ pass'.org = pass.org,
           \A p \in Projects : mapping'[p] \in {mapping[p], NoEntry}
    PROVE  PassesForward'
<1>1. ASSUME pass'.at = "apply"
      PROVE  \E first \in 1..MaxCodes :
                /\ service'[first].owner = pass'.org /\ pass'.org # None
                /\ call'["sync"].at # "idle" => first <= call'["sync"].token.session
    <2>1. PICK first \in 1..MaxCodes :
             /\ service[first].owner = pass.org /\ pass.org # None
             /\ call["sync"].at # "idle" => first <= call["sync"].token.session
        BY <1>1 DEF PassesForward
    <2>2. service'[first].owner = pass'.org /\ pass'.org # None
        BY <1>1, <2>1, OwnersStay
    <2>3. SignedIn => first <= row.token.session
        BY <2>1 DEF Typed, Numbered, Begun
    <2>4. call'["sync"].at # "idle" => first <= call'["sync"].token.session
        BY <2>1, <2>3, SyncCallStep DEF SyncCallGoesOn
    <2> QED BY <2>2, <2>4
<1>2. ASSUME NEW p \in Projects, mapping'[p] # NoEntry
      PROVE  InOrder(mapping[p].org, mapping[p].id)' /\ mapping'[p] = mapping[p]
    <2>1. mapping'[p] = mapping[p] /\ mapping[p] # NoEntry
        BY <1>2
    <2>2. PICK first, second \in 1..MaxCodes :
             /\ first <= second
             /\ service[first].owner = mapping[p].org
             /\ service[second].owner = mapping[p].id
             /\ mapping[p].org # None /\ mapping[p].id # None
        BY <2>1 DEF PassesForward, InOrder
    <2>3. /\ service'[first].owner = mapping'[p].org
          /\ service'[second].owner = mapping'[p].id
        BY <2>1, <2>2, OwnersStay
    <2> QED BY <2>1, <2>2, <2>3 DEF InOrder
<1> QED BY <1>1, <1>2 DEF PassesForward

LEMMA ForwardPlans ==
    ASSUME AccountSyncAssumption, Typed, PassesForward, IdentityIsOwners, PassIdentity
    PROVE  PassesForward'
<1>0. /\ call \in [Threads -> Calls] /\ "sync" \in Threads /\ "poller" \in Threads
      /\ NoCall \in Calls /\ NoCall.at = "idle" /\ row.org \in Owner
      /\ UNCHANGED <<mapping, service>>
      /\ pass.at = "identity" /\ NoPass.at = "idle"
    BY Constants DEF Typed, TypeOK, Calls, Threads, PassIdentity, cloud
<1>1. [Next]_vars
    BY DEF Next, Passes
<1>2. CASE pass'.at # "apply"
    BY <1>0, <1>1, <1>2, ForwardStays
<1>3. ASSUME NEW s \in 1..MaxCodes, service[s].owner # None, call'["sync"].at = "idle",
             Planned(service[s].owner)
      PROVE  PassesForward'
    <2>1. service[s].owner \in Owner
        BY DEF Typed, TypeOK
    <2>2. pass'.at = "apply" => pass'.org = service[s].owner
        BY <1>3, <2>1, PassIsPlanned
    <2>3. \A p \in Projects : mapping'[p] # NoEntry => InOrder(mapping[p].org, mapping[p].id)'
        BY <1>0 DEF PassesForward, InOrder
    <2>4. \A p \in Projects : mapping'[p] = mapping[p]
        BY <1>0
    <2> QED BY <1>0, <1>3, <2>2, <2>3, <2>4 DEF PassesForward
<1>4. CASE /\ call["sync"].at = "idle" /\ row.org # None
           /\ Planned(row.org) /\ UNCHANGED call
    <2>1. row.token.session \in 1..MaxCodes /\ row.org = service[row.token.session].owner
        BY <1>4 DEF IdentityIsOwners, Typed, Numbered, Begun, OwnerOf
    <2> QED BY <1>3, <1>4, <2>1
<1>5. CASE Take("sync")
    <2>1. pass' = pass \/ pass' = NoPass
        BY <1>0, <1>5, CallBegins DEF Typed
    <2> QED BY <1>0, <1>2, <2>1
<1>6. CASE /\ call["sync"].at = "told" /\ Goes("sync", NoCall)
           /\ Planned(OwnerOf(call["sync"].token))
    <2>1. /\ call["sync"].token.session \in 1..MaxCodes
          /\ OwnerOf(call["sync"].token) # None
        BY <1>0, <1>6, CallUnderWay
    <2>2. call'["sync"].at = "idle"
        BY <1>0, <1>6, CallGoes
    <2> QED BY <1>3, <1>6, <2>1, <2>2 DEF OwnerOf
<1>7. CASE pass' = NoPass
    BY <1>0, <1>2, <1>7
<1> QED BY <1>4, <1>5, <1>6, <1>7 DEF PassIdentity

LEMMA ForwardApplied ==
    ASSUME AccountSyncAssumption, Typed, PassesForward, Applied
    PROVE  PassesForward'
<1> DEFINE c == call["sync"]
           new == [org |-> pass.org, id |-> OwnerOf(c.token)]
<1>0. /\ call \in [Threads -> Calls] /\ "sync" \in Threads
      /\ NoCall \in Calls /\ NoCall.at = "idle"
      /\ mapping \in [Projects -> Entry]
      /\ pass.at = "apply" /\ c.at = "told" /\ Goes("sync", NoCall) /\ Finished
      /\ UNCHANGED service
    BY Constants DEF Typed, TypeOK, Calls, Threads, Applied, AppliedFor, cloud
<1>1. pass'.at = "apply" => pass'.org = pass.org
    BY <1>0, PassIsFinished
<1>2. \/ mapping' = mapping
      \/ mapping' = [mapping EXCEPT ![Current.project] = NoEntry]
      \/ mapping' = [mapping EXCEPT ![Current.project] = new]
    BY DEF Applied, AppliedFor
<1>3. PICK first \in 1..MaxCodes :
         /\ service[first].owner = pass.org /\ pass.org # None
         /\ first <= c.token.session
    BY <1>0 DEF PassesForward
<1>4. c.token.session \in 1..MaxCodes /\ OwnerOf(c.token) # None
    BY <1>0, CallUnderWay
<1>5. InOrder(new.org, new.id)
    BY <1>3, <1>4 DEF InOrder, OwnerOf
<1>6. \A p \in Projects : mapping'[p] \in {mapping[p], NoEntry, new}
    BY <1>0, <1>2
<1> HIDE DEF new
<1>7. \A p \in Projects : mapping'[p] # NoEntry => InOrder(mapping'[p].org, mapping'[p].id)
    BY <1>5, <1>6 DEF PassesForward
<1>8. \A p \in Projects : mapping'[p] # NoEntry => InOrder(mapping[p].org, mapping[p].id)'
    BY <1>0, <1>7 DEF InOrder
<1>9. call'["sync"].at = "idle"
    BY <1>0, CallGoes
<1> QED BY <1>0, <1>1, <1>3, <1>8, <1>9 DEF PassesForward

LEMMA ForwardStep ==
    ASSUME AccountSyncAssumption, Typed, PassesForward, IdentityIsOwners, [Next]_vars
    PROVE  PassesForward'
<1>0. NoPass.at = "idle" /\ mapping \in [Projects -> Entry]
    BY DEF NoPass, Typed, TypeOK
<1>1. CASE PassIdentity
    BY <1>1, ForwardPlans
<1>2. CASE Applied
    BY <1>2, ForwardApplied
<1>3. CASE ~PassIdentity /\ ~Applied
    <2>1. pass'.at = "apply" => pass.at = "apply" /\ pass'.org = pass.org
        <3>1. CASE pass' = pass \/ pass' = NoPass
            BY <1>0, <3>1
        <3>2. CASE Apply
            <4>1. CASE Finished
                BY <3>2, <4>1, PassIsFinished DEF Apply
            <4>2. CASE Take("sync")
                BY <1>0, <3>1, <4>2, CallBegins DEF Typed, Threads
            <4> QED BY <3>2, <4>1, <4>2 DEF Apply
        <3>3. CASE StartPass
            BY <3>3 DEF StartPass, NoPass
        <3>4. ASSUME NEW t \in Threads, NotSignedIn(t)
              PROVE  pass' = pass \/ pass' = NoPass
            BY <3>4 DEF NotSignedIn
        <3>5. ASSUME NEW t \in Threads, Take(t)
              PROVE  pass' = pass \/ pass' = NoPass
            BY <3>4, <3>5 DEF Take
        <3>6. CASE ~Apply /\ ~StartPass
            <4>1. \/ pass' = pass \/ pass' = NoPass
                  \/ \E t \in Threads : NotSignedIn(t) \/ Take(t)
                BY <1>3, <3>6
                   DEF Next, User, Poller, Authed, Passes, SignIn, SignOut, Change, SetCode,
                       Poll, PollAnswered, PollAnsweredIf, PollerIdentity, Forget, Ask,
                       Refresh, RefreshIf, Quiet, Spend, Spent, Restart, vars, memory,
                       Threads
            <4> QED BY <3>1, <3>4, <3>5, <4>1
        <3> QED BY <3>2, <3>3, <3>6
    <2>2. \A p \in Projects : mapping'[p] \in {mapping[p], NoEntry}
        <3>1. \/ mapping' = mapping \/ mapping' = NoMapping
              \/ mapping' = [mapping EXCEPT ![Current.project] = NoEntry]
            BY <1>3
               DEF Next, User, Poller, Authed, Passes, SignIn, SignOut, Change, SetCode,
                   Poll, PollAnswered, PollAnsweredIf, PollerIdentity, Forget, Ask,
                   Refresh, RefreshIf, Quiet, Spend, Spent, StartPass, Apply, Restart,
                   device, vars
        <3> QED BY <1>0, <3>1 DEF NoMapping
    <2> QED BY <2>1, <2>2, ForwardStays
<1> QED BY <1>1, <1>2, <1>3

\* What is recorded for the account of the row is a record of that account,
\* but for one that came back after another (Applied).
THEOREM RecordsAreOurs ==
    ASSUME AccountSyncAssumption
    PROVE  Spec => []MappedIsOurs
<1> DEFINE IInv == Typed /\ IdentityIsOwners /\ PassesForward
<1>1. Init => IInv
    BY TypedInit DEF Init, IdentityIsOwners, SignedOut, PassesForward, NoPass
<1>2. IInv /\ [Next]_vars => IInv'
    BY TypedStep, IdentityStep, ForwardStep
<1>3. IInv => MappedIsOurs
    <2> SUFFICES ASSUME IInv, NEW p \in Projects, row.org # None,
                        mapping[p].org = row.org, mapping[p].id # row.org
                 PROVE  CameBack
        BY DEF MappedIsOurs
    <2>1. mapping[p] # NoEntry
        BY DEF NoEntry
    <2>2. PICK first, second \in 1..MaxCodes :
             /\ first <= second
             /\ service[first].owner = row.org /\ service[second].owner = mapping[p].id
             /\ mapping[p].id # None
        BY <2>1 DEF PassesForward, InOrder
    <2>3. SignedIn /\ row.org = service[row.token.session].owner
        BY DEF IdentityIsOwners, OwnerOf
    <2>4. row.token.session \in 1..MaxCodes /\ second <= row.token.session
        BY <2>2, <2>3 DEF Typed, Numbered, Begun
    <2>5. first < second /\ second < row.token.session
        BY <2>2, <2>3, <2>4
    <2> QED BY <2>2, <2>5 DEF CameBack
<1> QED BY <1>1, <1>2, <1>3, PTL DEF Spec
=============================================================================
