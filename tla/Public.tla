------------------------------- MODULE Public -------------------------------
(***************************************************************************)
(* The public addresses of a VM (core/public.py).  The Omelet service is   *)
(* the record of the account's one public URL; the VM runs a tunnel client *)
(* and keeps a token for it.  Turn-ons run on threads of their own, turn-  *)
(* offs and the sign-out on request threads, and a reconcile pass goes     *)
(* round on the sync thread.  The dictionaries are guarded by `_lock`, one *)
(* short critical section at a time; `_client_lock` is held while a client *)
(* is stopped and its token removed, but not while a turn-on starts it.    *)
(***************************************************************************)
EXTENDS Naturals

CONSTANTS
    Projects,     \* project ids; the service's ids are theirs
    Turns,        \* calls of enable(), each with the thread it may spawn
    Calls,        \* calls of disable(), deletes and sign-outs
    None,
    Kinds,        \* what a call may be: "off", "delete", "sign_out"
    MaxPairings,  \* bound on sign-ins
    MaxSessions,  \* bound on the URLs the service ever makes
    MaxFaults     \* bound on lost requests, docker failures and restarts

VARIABLES
    pairing,      \* sign-ins so far; the service's token belongs to one
    mapped,       \* cloud_projects: {} when signed out
    signedIn,     \* the account holds an access token
    projects,     \* the projects of state.db
    service,      \* the service's one active URL
    sessions,     \* URLs the service has made
    expired,      \* those whose expires_at has passed
    client,       \* the token the tunnel client runs with, None if stopped
    token,        \* /opt/omelet/tunnel/token; 0 when there is none
    clientLock,   \* who holds _client_lock
    on, enabling, failed, releasing, \* Public's dictionaries
    thread,       \* where each call is
    pass,         \* where the reconcile pass is
    faults

account == <<pairing, mapped, signedIn, projects>>
cloud == <<service, sessions, expired>>
tunnel == <<client, token, clientLock>>
memory == <<on, enabling, failed, releasing>>
vars == <<account, cloud, tunnel, memory, thread, pass, faults>>

Threads == Turns \cup Calls

-----------------------------------------------------------------------------
Tokens == 0..MaxPairings

\* A kept record: compared by identity, which is who made it.
Records == [by : Turns \cup {"pass"}, session : 1..MaxSessions]

\* An active URL at the service.
Urls == [project : Projects, session : 1..MaxSessions]

ASSUME PublicAssumption ==
    /\ None \notin Projects \cup Threads \cup {"pass"} \cup Records \cup Urls
    /\ "pass" \notin Threads
    /\ Turns \cap Calls = {}
    /\ Kinds \subseteq {"off", "delete", "sign_out"}
    /\ MaxPairings \in Nat \ {0} /\ MaxSessions \in Nat /\ MaxFaults \in Nat

Steps == {"ready", "asked", "post", "write", "start", "recreate", "commit",
          "undo", "fail", "finish",
          "stop", "halt", "drop", "release", "remember", "unregister",
          "release_all", "logout", "clear", "done"}

Thread == [pc : Steps, project : Projects \cup {None},
           kind : {"on", "off", "delete", "sign_out"},
           session : 0..MaxSessions, token : Tokens, urls : SUBSET Projects]

Pass == [pc : {"idle", "retry", "discard", "snapshot", "ask", "resolve", "look",
               "forget", "adopt", "client", "lock", "halt", "drop",
               "end", "end_release", "end_remember"},
         before : [Projects -> Records \cup {None}], urls : SUBSET Projects,
         answer : Urls \cup {None}, current : Projects \cup {None}]

NotYet(kind) == [pc |-> "ready", project |-> None, kind |-> kind, session |-> 0,
                 token |-> 0, urls |-> {}]

NoPass == [pc |-> "idle", before |-> [p \in Projects |-> None], urls |-> {},
           answer |-> None, current |-> None]

TypeOK ==
    /\ pairing \in Tokens
    /\ mapped \subseteq Projects
    /\ signedIn \in BOOLEAN
    /\ projects \subseteq Projects
    /\ service \in Urls \cup {None}
    /\ sessions \in 0..MaxSessions
    /\ expired \subseteq 1..MaxSessions
    /\ client \in Tokens \cup {None}
    /\ token \in Tokens
    /\ clientLock \in Threads \cup {"pass", None}
    /\ on \in [Projects -> Records \cup {None}]
    /\ enabling \in [Projects -> Turns \cup {None}]
    /\ failed \subseteq Projects
    /\ releasing \subseteq Projects
    /\ thread \in [Threads -> Thread]
    /\ pass \in Pass
    /\ faults \in 0..MaxFaults

Init ==
    /\ pairing = 1 /\ signedIn = TRUE /\ mapped = Projects /\ projects = Projects
    /\ service = None /\ sessions = 0 /\ expired = {}
    /\ client = None /\ token = 0 /\ clientLock = None
    /\ on = [p \in Projects |-> None]
    /\ enabling = [p \in Projects |-> None]
    /\ failed = {} /\ releasing = {}
    /\ thread \in [Threads -> {NotYet(k) : k \in Kinds \cup {"on"}}]
    /\ \A t \in Threads : thread[t].kind = "on" <=> t \in Turns
    /\ pass = NoPass
    /\ faults = 0

-----------------------------------------------------------------------------
At(t, pc) == thread[t].pc = pc
Of(t) == thread[t].project

\* A call that is over has nothing left to know.
Over(t) == [NotYet(thread[t].kind) EXCEPT !.pc = "done"]
Goto(t, pc) ==
    thread' = [thread EXCEPT ![t] = IF pc = "done" THEN Over(t)
                                    ELSE [@ EXCEPT !.pc = pc]]
PassTo(pc) == pass' = [pass EXCEPT !.pc = pc]

\* One more lost request, docker failure or malformed reply.
Fault == faults < MaxFaults /\ faults' = faults + 1

Live(p) == on[p] # None /\ on[p].session \notin expired

\* status(): what the console shows.
Shown(p) == IF enabling[p] # None THEN "enabling"
            ELSE IF on[p] # None THEN (IF Live(p) THEN "on" ELSE "off")
            ELSE IF p \in failed THEN "failed" ELSE "off"

OthersOn(p) == \E q \in Projects \ {p} : enabling[q] # None \/ Live(q)

\* A turn-on's own test for a newer one of its project.
Superseded(t) ==
    /\ enabling[Of(t)] # t
    /\ enabling[Of(t)] # None \/ on[Of(t)] # None

\* _release: gone (released, 404, or nobody signed in), or not for sure.
ReleaseAt(p, gone) ==
    LET Without == IF service # None /\ service.project = p THEN None ELSE service
    IN  \/ gone /\ signedIn /\ service' = Without /\ UNCHANGED faults
        \/ gone /\ ~signedIn /\ UNCHANGED <<service, faults>>
        \/ ~gone /\ signedIn /\ Fault /\ service' \in {service, Without}

\* `docker compose rm -sf tunnel`, whose failure nobody looks at.
StopClient ==
    \/ client' = None /\ UNCHANGED faults
    \/ client # None /\ Fault /\ UNCHANGED client

\* `up -d`: a running client keeps its token unless it is recreated.
StartClient(recreate) ==
    client' = IF client = None \/ recreate THEN token ELSE client

-----------------------------------------------------------------------------
\* enable(): what it needs, then the attempt, then its thread.
Enable(t, p) ==
    /\ t \in Turns /\ At(t, "ready")
    /\ p \in projects \cap mapped
    /\ signedIn
    /\ enabling[p] = None /\ ~Live(p)
    /\ thread' = [thread EXCEPT ![t].pc = "asked", ![t].project = p]
    /\ UNCHANGED <<account, cloud, tunnel, memory, pass, faults>>

Begin(t) ==
    /\ At(t, "asked")
    /\ IF enabling[Of(t)] = None
       THEN /\ enabling' = [enabling EXCEPT ![Of(t)] = t]
            /\ on' = [on EXCEPT ![Of(t)] = None]
            /\ failed' = failed \ {Of(t)}
            /\ Goto(t, "post")
       ELSE Goto(t, "done") /\ UNCHANGED <<on, enabling, failed>>
    /\ UNCHANGED <<account, cloud, tunnel, releasing, pass, faults>>

\* The service answers with the URL that is on already, or with a new one.
MakeUrl(p) ==
    LET same == service # None /\ service.project = p
                /\ service.session \notin expired
    IN  \/ same /\ UNCHANGED <<service, sessions>>
        \/ /\ ~same
           /\ service # None => service.project = p
           /\ sessions < MaxSessions
           /\ sessions' = sessions + 1
           /\ service' = [project |-> p, session |-> sessions + 1]

PostOr(t, signedOut) ==
    /\ At(t, "post")
    /\ \/ ~signedIn /\ Goto(t, signedOut) /\ UNCHANGED <<service, sessions, faults>>
       \/ /\ signedIn /\ MakeUrl(Of(t)) /\ UNCHANGED faults
          /\ \E credentials \in {pairing} \cup (IF UNCHANGED service THEN {0} ELSE {}) :
                thread' = [thread EXCEPT ![t].pc = "write",
                              ![t].session = service'.session,
                              ![t].token = credentials]
       \* Refused: another URL is on, or the service will make no more.
       \/ /\ signedIn
          /\ sessions < MaxSessions => service # None /\ service.project # Of(t)
          /\ Goto(t, "fail") /\ UNCHANGED <<service, sessions, faults>>
       \* The request or its answer is lost.
       \/ /\ signedIn /\ Fault /\ Goto(t, "fail")
          /\ MakeUrl(Of(t)) \/ UNCHANGED <<service, sessions>>
    /\ UNCHANGED <<account, expired, tunnel, memory, pass>>

\* Mutant: being signed out is not told from an answer.
PostIgnoringSignOut(t) == PostOr(t, "commit")
Post(t) == PostOr(t, "finish")

\* A client that keeps restarting for want of a token finds the new one.
WriteToken(t) ==
    /\ At(t, "write")
    /\ LET new == thread[t].token
       IN  IF new # 0
           THEN /\ token' = new
                /\ client' = IF client = 0 THEN new ELSE client
                /\ thread' = [thread EXCEPT ![t].token = 0,
                      ![t].pc = IF token = new THEN "start" ELSE "recreate"]
           ELSE /\ Goto(t, IF token # 0 THEN "start" ELSE "undo")
                /\ UNCHANGED <<client, token>>
    /\ UNCHANGED <<account, cloud, clientLock, memory, pass, faults>>

Start(t) ==
    /\ thread[t].pc \in {"start", "recreate"}
    /\ \/ StartClient(At(t, "recreate")) /\ Goto(t, "commit") /\ UNCHANGED faults
       \* It does not start, or it does and the reply is malformed.
       \/ /\ Fault /\ Goto(t, "undo")
          /\ StartClient(At(t, "recreate")) \/ UNCHANGED client
    /\ UNCHANGED <<account, cloud, token, clientLock, memory, pass>>

CommitIf(t, current) ==
    /\ At(t, "commit")
    /\ IF current
       THEN /\ on' = [on EXCEPT ![Of(t)] = [by |-> t, session |-> thread[t].session]]
            /\ Goto(t, "finish")
       ELSE UNCHANGED on /\ Goto(t, "undo")
    /\ UNCHANGED <<account, cloud, tunnel, enabling, failed, releasing, pass, faults>>

\* Mutant: the attempt does not look whether it is still wanted.
CommitAlways(t) == CommitIf(t, TRUE)
Commit(t) == CommitIf(t, enabling[Of(t)] = t)

Undo(t) ==
    /\ At(t, "undo")
    /\ Goto(t, IF Superseded(t) THEN "fail" ELSE "stop")
    /\ UNCHANGED <<account, cloud, tunnel, memory, pass, faults>>

\* _fail and the `finally`; the status says "enabling" until the second.
FinishIf(t, current) ==
    /\ thread[t].pc \in {"fail", "finish"}
    /\ IF current
       THEN /\ enabling' = [enabling EXCEPT ![Of(t)] = None]
            /\ failed' = IF At(t, "fail") THEN failed \cup {Of(t)} ELSE failed
       ELSE UNCHANGED <<enabling, failed>>
    /\ Goto(t, "done")
    /\ UNCHANGED <<account, cloud, tunnel, on, releasing, pass, faults>>

\* Mutant: only a failure ends the attempt, a success leaves it.
FinishFailureOnly(t) == FinishIf(t, enabling[Of(t)] = t /\ At(t, "fail"))
Finish(t) == FinishIf(t, enabling[Of(t)] = t)

-----------------------------------------------------------------------------
\* _stop_unless_needed and _release, shared by a turn-on that undoes itself
\* and a turn-off; a sign-out stops the client whoever needs it.
StopUnlessNeeded(t) ==
    /\ At(t, "stop") /\ clientLock = None
    /\ IF thread[t].kind # "sign_out" /\ OthersOn(Of(t))
       THEN Goto(t, "release") /\ UNCHANGED clientLock
       ELSE Goto(t, "halt") /\ clientLock' = t
    /\ UNCHANGED <<account, cloud, client, token, memory, pass, faults>>

Halt(t) ==
    /\ At(t, "halt") /\ StopClient /\ Goto(t, "drop")
    /\ UNCHANGED <<account, cloud, token, clientLock, memory, pass>>

DropToken(t) ==
    /\ At(t, "drop")
    /\ token' = 0 /\ clientLock' = None
    /\ Goto(t, IF thread[t].kind = "sign_out" THEN "done" ELSE "release")
    /\ UNCHANGED <<account, cloud, client, memory, pass, faults>>

\* After it a turn-on reports its failure, a delete removes the row.
After(t) == CASE thread[t].kind = "on" -> "fail"
              [] thread[t].kind = "delete" -> "unregister"
              [] OTHER -> "done"

Release(t) ==
    /\ At(t, "release")
    /\ \E gone \in BOOLEAN :
          /\ ReleaseAt(Of(t), gone)
          /\ Goto(t, IF gone \/ t \in Turns THEN After(t) ELSE "remember")
    /\ UNCHANGED <<account, sessions, expired, tunnel, memory, pass>>

Remember(t) ==
    /\ At(t, "remember")
    /\ releasing' = releasing \cup {Of(t)}
    /\ Goto(t, After(t))
    /\ UNCHANGED <<account, cloud, tunnel, on, enabling, failed, pass, faults>>

\* disable(), by the console or, with force, at the start of a delete.
Disable(t, p) ==
    /\ At(t, "ready") /\ p \in projects
    /\ \/ thread[t].kind = "off" /\ enabling[p] = None
       \/ thread[t].kind = "delete"
    /\ enabling' = [enabling EXCEPT ![p] = None]
    /\ on' = [on EXCEPT ![p] = None]
    /\ failed' = failed \ {p}
    /\ thread' = [thread EXCEPT ![t] =
          IF on[p] = None /\ After(t) = "done" THEN Over(t)
          ELSE [@ EXCEPT !.project = p,
                         !.pc = IF on[p] # None THEN "stop" ELSE After(t)]]
    /\ UNCHANGED <<account, cloud, tunnel, releasing, pass, faults>>

\* The end of delete_project.
Unregister(t) ==
    /\ At(t, "unregister")
    /\ projects' = projects \ {Of(t)}
    /\ Goto(t, "done")
    /\ UNCHANGED <<pairing, mapped, signedIn, cloud, tunnel, memory, pass, faults>>

-----------------------------------------------------------------------------
\* Sign-out: release_all while the token is good, log out, forget_local.
SignOut(t) ==
    /\ At(t, "ready") /\ thread[t].kind = "sign_out" /\ signedIn
    /\ thread' = [thread EXCEPT ![t].pc = "release_all",
          ![t].urls = releasing \cup
                {p \in Projects : on[p] # None \/ enabling[p] # None}]
    /\ UNCHANGED <<account, cloud, tunnel, memory, pass, faults>>

ReleaseAll(t) ==
    /\ At(t, "release_all")
    /\ IF thread[t].urls = {}
       THEN Goto(t, "logout") /\ UNCHANGED <<service, faults>>
       ELSE \E p \in thread[t].urls, gone \in BOOLEAN :
                /\ ReleaseAt(p, gone)
                /\ thread' = [thread EXCEPT ![t].urls = @ \ {p}]
    /\ UNCHANGED <<account, sessions, expired, tunnel, memory, pass>>

Logout(t) ==
    /\ At(t, "logout")
    /\ signedIn' = FALSE /\ mapped' = {}
    /\ Goto(t, "clear")
    /\ UNCHANGED <<pairing, projects, cloud, tunnel, memory, pass, faults>>

\* forget_local; the client is stopped next, under its lock.
Clear(t) ==
    /\ At(t, "clear")
    /\ on' = [p \in Projects |-> None]
    /\ enabling' = [p \in Projects |-> None]
    /\ failed' = {} /\ releasing' = {}
    /\ Goto(t, "stop")
    /\ UNCHANGED <<account, cloud, tunnel, pass, faults>>

-----------------------------------------------------------------------------
\* reconcile(), on the sync thread.  First the releases that failed.
StartPassWith(pending) ==
    /\ pass.pc = "idle" /\ signedIn
    /\ pass' = [NoPass EXCEPT !.pc = "retry", !.urls = pending]
    /\ UNCHANGED <<account, cloud, tunnel, memory, thread, faults>>

\* Mutant: a pass does not retry the releases that failed.
StartPassForgetful == StartPassWith({})
StartPass == StartPassWith(releasing)

RetryRelease ==
    /\ pass.pc = "retry"
    /\ IF pass.urls = {}
       THEN PassTo("snapshot") /\ UNCHANGED <<service, faults>>
       ELSE \E p \in pass.urls, gone \in BOOLEAN :
                /\ ReleaseAt(p, gone)
                /\ pass' = IF gone THEN [pass EXCEPT !.pc = "discard", !.current = p,
                                                    !.urls = @ \ {p}]
                           ELSE [pass EXCEPT !.urls = @ \ {p}]
    /\ UNCHANGED <<account, sessions, expired, tunnel, memory, thread>>

Discard ==
    /\ pass.pc = "discard"
    /\ releasing' = releasing \ {pass.current}
    /\ pass' = [pass EXCEPT !.pc = "retry", !.current = None]
    /\ UNCHANGED <<account, cloud, tunnel, on, enabling, failed, thread, faults>>

Snapshot ==
    /\ pass.pc = "snapshot"
    /\ pass' = [pass EXCEPT !.pc = "ask", !.before = on]
    /\ UNCHANGED <<account, cloud, tunnel, memory, thread, faults>>

\* The request; without an answer the pass is over.
AskIf(answers) ==
    /\ pass.pc = "ask"
    /\ \/ /\ signedIn /\ answers /\ UNCHANGED faults
          /\ pass' = [pass EXCEPT !.pc = "resolve", !.answer = service]
       \/ ~(signedIn /\ answers) /\ pass' = NoPass /\ UNCHANGED faults
       \/ signedIn /\ Fault /\ pass' = NoPass
    /\ UNCHANGED <<account, cloud, tunnel, memory, thread>>

\* Mutant: that no URL is on (404) is taken for no answer.
AskIfAny == AskIf(service # None)
Ask == AskIf(TRUE)

\* The rows and the mapping are read afterwards; neither grows during a pass,
\* so that the two reads are as good as one.
Resolve ==
    /\ pass.pc = "resolve"
    /\ pass' = [pass EXCEPT !.pc = "look",
          !.answer = IF @ # None /\ @.project \in projects \cap mapped THEN @ ELSE None]
    /\ UNCHANGED <<account, cloud, tunnel, memory, thread, faults>>

\* A URL that is being released here is not taken for this VM's.
LookWith(before) ==
    /\ pass.pc = "look"
    /\ LET active == IF pass.answer # None /\ pass.answer.project \notin releasing
                     THEN pass.answer ELSE None
       IN  pass' = [pass EXCEPT !.pc = "forget", !.answer = active,
              !.before = before,
              !.urls = {p \in Projects : /\ before[p] # None
                                         /\ active # None => active.project # p}]
    /\ UNCHANGED <<account, cloud, tunnel, memory, thread, faults>>

\* Mutant: the records are copied when the answer is there, not before it.
LookLate == LookWith(on)
Look == LookWith(pass.before)

\* _forget: unless a turn-on or a turn-off has changed the record since.
Unchanged(p) == on[p] = pass.before[p]
ForgetRecord(p) ==
    on' = IF Unchanged(p) THEN [on EXCEPT ![p] = None] ELSE on

\* What the service no longer has goes, one project at a time.
Forget ==
    /\ pass.pc = "forget"
    /\ IF pass.urls = {}
       THEN UNCHANGED on /\ IF pass.answer = None
                            THEN pass' = [NoPass EXCEPT !.pc = "client"]
                            ELSE PassTo("adopt")
       ELSE \E p \in pass.urls : /\ ForgetRecord(p)
                                 /\ pass' = [pass EXCEPT !.urls = @ \ {p}]
    /\ UNCHANGED <<account, cloud, tunnel, enabling, failed, releasing, thread, faults>>

\* What it has is kept; or its answer cannot be read and the pass is over.
Adopt ==
    /\ pass.pc = "adopt"
    /\ \/ /\ LET p == pass.answer.project
             IN  IF enabling[p] = None /\ Unchanged(p)
                 THEN /\ on' = [on EXCEPT ![p] = [by |-> "pass",
                                                  session |-> pass.answer.session]]
                      /\ failed' = failed \ {p}
                 ELSE UNCHANGED <<on, failed>>
          /\ pass' = [NoPass EXCEPT !.pc = "client"] /\ UNCHANGED faults
       \/ Fault /\ pass' = NoPass /\ UNCHANGED <<on, failed>>
    /\ UNCHANGED <<account, cloud, tunnel, enabling, releasing, thread>>

\* Whether to look after the client now, and for which URLs.
LookAtClient ==
    /\ pass.pc = "client"
    /\ pass' = IF \E p \in Projects : enabling[p] # None THEN NoPass
               ELSE LET live == {p \in Projects : Live(p)}
                    IN  [NoPass EXCEPT !.pc = "lock", !.urls = live,
                           !.before = [p \in Projects |->
                                          IF p \in live THEN on[p] ELSE None]]
    /\ UNCHANGED <<account, cloud, tunnel, memory, thread, faults>>

\* Under the client lock: stop it, leave it, start it, or end the URLs.
ReconcileClientIf(leftovers) ==
    /\ pass.pc = "lock" /\ clientLock = None
    /\ \/ /\ pass.urls = {} /\ ~leftovers
          /\ pass' = NoPass /\ UNCHANGED <<client, clientLock, faults>>
       \/ /\ pass.urls = {} /\ leftovers
          /\ PassTo("halt") /\ clientLock' = "pass" /\ UNCHANGED <<client, faults>>
       \/ /\ pass.urls # {} /\ client # None
          /\ pass' = NoPass /\ UNCHANGED <<client, clientLock, faults>>
       \/ /\ pass.urls # {} /\ client = None /\ token # 0
          /\ pass' = NoPass /\ UNCHANGED clientLock
          /\ \/ StartClient(FALSE) /\ UNCHANGED faults
             \/ Fault /\ UNCHANGED client
       \/ /\ pass.urls # {} /\ client = None /\ token = 0
          /\ PassTo("end") /\ UNCHANGED <<client, clientLock, faults>>
    /\ UNCHANGED <<account, cloud, token, memory, thread>>

\* Mutant: a token without a client is not looked at.
ReconcileRunningClient == ReconcileClientIf(client # None)
ReconcileClient == ReconcileClientIf(client # None \/ token # 0)

PassHalts ==
    /\ pass.pc = "halt" /\ StopClient /\ PassTo("drop")
    /\ UNCHANGED <<account, cloud, token, clientLock, memory, thread>>

PassDrops ==
    /\ pass.pc = "drop"
    /\ token' = 0 /\ clientLock' = None /\ pass' = NoPass
    /\ UNCHANGED <<account, cloud, client, memory, thread, faults>>

\* A URL is on but there is no token to serve it with: forget it ...
EndUrl ==
    /\ pass.pc = "end"
    /\ IF pass.urls = {}
       THEN pass' = NoPass /\ UNCHANGED on
       ELSE \E p \in pass.urls :
              /\ ForgetRecord(p)
              /\ pass' = [pass EXCEPT !.pc = "end_release", !.current = p,
                                      !.urls = @ \ {p}]
    /\ UNCHANGED <<account, cloud, tunnel, enabling, failed, releasing, thread, faults>>

\* ... and release it.
EndAtService ==
    /\ pass.pc = "end_release"
    /\ \E gone \in BOOLEAN :
          /\ ReleaseAt(pass.current, gone)
          /\ pass' = IF gone THEN [pass EXCEPT !.pc = "end", !.current = None]
                     ELSE [pass EXCEPT !.pc = "end_remember"]
    /\ UNCHANGED <<account, sessions, expired, tunnel, memory, thread>>

EndRemember ==
    /\ pass.pc = "end_remember"
    /\ releasing' = releasing \cup {pass.current}
    /\ pass' = [pass EXCEPT !.pc = "end", !.current = None]
    /\ UNCHANGED <<account, cloud, tunnel, on, enabling, failed, thread, faults>>

-----------------------------------------------------------------------------
\* The rest of a sync pass (core/sync.py), as far as it matters here: a row is
\* mapped, a mapped project without a row is deleted at the service, which
\* releases its URL.
SyncCreate(p) ==
    /\ pass.pc = "idle" /\ signedIn
    /\ p \in projects \ mapped
    /\ mapped' = mapped \cup {p}
    /\ UNCHANGED <<pairing, signedIn, projects, cloud, tunnel, memory, thread, pass, faults>>

SyncDelete(p) ==
    /\ pass.pc = "idle" /\ signedIn
    /\ p \in mapped \ projects
    /\ mapped' = mapped \ {p}
    /\ service' = IF service # None /\ service.project = p THEN None ELSE service
    /\ UNCHANGED <<pairing, signedIn, projects, sessions, expired, tunnel, memory,
                   thread, pass, faults>>

SignIn ==
    /\ ~signedIn /\ pairing < MaxPairings
    /\ pairing' = pairing + 1 /\ signedIn' = TRUE
    /\ UNCHANGED <<mapped, projects, cloud, tunnel, memory, thread, pass, faults>>

\* A URL's time is up; the service takes it down, or the website does.
Expire(s) ==
    /\ s \in (1..sessions) \ expired
    /\ expired' = expired \cup {s}
    /\ UNCHANGED <<account, service, sessions, tunnel, memory, thread, pass, faults>>

TakeDown ==
    /\ service # None
    /\ service' = None
    /\ UNCHANGED <<account, sessions, expired, tunnel, memory, thread, pass, faults>>

\* The API restarts: the token, the client and the service stay.
Restart ==
    /\ Fault
    /\ on' = [p \in Projects |-> None]
    /\ enabling' = [p \in Projects |-> None]
    /\ failed' = {} /\ releasing' = {}
    /\ clientLock' = None
    /\ pass' = NoPass
    /\ thread' = [t \in Threads |-> IF At(t, "ready") THEN thread[t]
                                    ELSE Over(t)]
    /\ UNCHANGED <<account, cloud, client, token>>

-----------------------------------------------------------------------------
\* What a call goes on to do once it has been made, and a pass once begun.
Run(t) ==
    \/ Begin(t) \/ Post(t) \/ WriteToken(t) \/ Start(t) \/ Commit(t) \/ Undo(t)
    \/ Finish(t) \/ StopUnlessNeeded(t) \/ Halt(t) \/ DropToken(t) \/ Release(t)
    \/ Remember(t) \/ Unregister(t) \/ ReleaseAll(t) \/ Logout(t) \/ Clear(t)

Reconcile ==
    \/ StartPass \/ RetryRelease \/ Discard \/ Snapshot
    \/ Ask \/ Resolve \/ Look \/ Forget \/ Adopt \/ LookAtClient
    \/ ReconcileClient \/ PassHalts \/ PassDrops
    \/ EndUrl \/ EndAtService \/ EndRemember

Next ==
    \/ \E t \in Threads : Run(t) \/ SignOut(t)
    \/ \E t \in Threads, p \in Projects : Enable(t, p) \/ Disable(t, p)
    \/ Reconcile
    \/ \E p \in Projects : SyncCreate(p) \/ SyncDelete(p)
    \/ SignIn \/ TakeDown \/ Restart
    \/ \E s \in 1..MaxSessions : Expire(s)

\* Requests, sign-ins and the service's own turns come when they come; a call
\* that was made goes on, and the sync loop wakes at least once a minute.
Fairness ==
    /\ \A t \in Threads : WF_vars(Run(t))
    /\ WF_vars(Reconcile)
    /\ \A p \in Projects : SF_vars(SyncDelete(p))

Spec == Init /\ [][Next]_vars
FairSpec == Spec /\ Fairness

-----------------------------------------------------------------------------
\* A project reads "enabling" only while the turn-on it waits for is at work:
\* no crash, sign-out or delete leaves one that would answer "busy" for good.
NoGhostTurnOn ==
    \A p \in Projects :
        enabling[p] # None => /\ Of(enabling[p]) = p
                              /\ thread[enabling[p]].pc \notin {"ready", "asked", "done"}

\* Once a sign-out has cleared what the VM knows, no turn-on that was under way
\* brings a URL back: until the next sign-in, whatever shows as on was taken
\* over by a pass that had asked the service before.
NoTurnOnOutlivesSignOut ==
    (~signedIn /\ \A t \in Threads : ~At(t, "clear")) =>
        \A p \in Projects : on[p] # None => on[p].by = "pass"

\* The answer of the service may be old by the time it is applied; all the
\* same, what a pass forgets for the answer's sake (_refresh) is never a URL
\* that the service has now.  What it forgets for want of a token to serve it
\* with (EndUrl) is another matter: the service still has that.
PassKeepsWhatIsOn ==
    [][\A p \in Projects :
          (/\ Forget /\ Live(p) /\ p \notin releasing
           /\ p \in projects \cap mapped
           /\ service = [project |-> p, session |-> on[p].session])
             => on'[p] # None]_vars

\* Whatever raced, in the end every URL the VM shows as on is the one the
\* service has.
UrlsAgree ==
    <>[](signedIn => \A p \in Projects :
            Shown(p) = "on" => service = [project |-> p, session |-> on[p].session])

\* ... the tunnel client runs for it, and neither it nor its token is left
\* behind when nothing is on.
ClientAgrees ==
    <>[](signedIn => IF \E p \in Projects : Live(p) THEN client # None
                     ELSE client = None /\ token = 0)

\* ... and the other way round: a URL that the service counts for a project of
\* this VM is in the end one the VM has on record, for the user to see and to
\* turn off.  Neither a release that failed, nor a turn-on whose answer was
\* lost, nor a restart leaves one behind at the service.
NoUrlLeftBehind ==
    <>[](signedIn => \A u \in Urls :
            (service = u /\ u.project \in projects \cap mapped)
               => on[u.project] # None /\ on[u.project].session = u.session)

-----------------------------------------------------------------------------
\* What comments of the code say and the code does not do.

\* "One being released here, is not this VM's" (public.py:404): no URL is on
\* and waiting to be released at the same time.
NotOnAndReleasing == \A p \in Projects : p \in releasing => ~Live(p)

\* "Deciding the client's state now could stop what it just started"
\* (public.py:379-380): a pass never stops the client of a turn-on in flight.
PassSparesTurnOns ==
    [][(PassHalts /\ client # None /\ client' = None) =>
          \A t \in Turns : ~(At(t, "commit") /\ enabling[Of(t)] = t)]_vars
=============================================================================
