--------------------------- MODULE UploadsProofs ---------------------------
(***************************************************************************)
(* Theorems about Uploads, for every number of items and uploads, all      *)
(* sizes of files and chunks, and every bound.  What the store has of an   *)
(* upload is a prefix of its file at all times, for a chunk is written     *)
(* from where the last one ended and by one request at a time; the rest    *)
(* follows an upload's way, open, then landed or removed, and keeps what   *)
(* the queue knows of it.                                                  *)
(***************************************************************************)
EXTENDS Uploads, WellFoundedInduction, TLAPS

Runs == [at : {"off", "start", "status", "patch", "busy", "backoff", "returned"},
         key : Keys \cup {0}, sync : BOOLEAN, restarted : BOOLEAN,
         failures : 0..NETWORK_RETRIES]
Upload == [at : {"none", "open", "landed", "removed"}, size : Sizes \cup {0},
           data : SUBSET Bytes, replace : BOOLEAN]

\* The first n bytes of a file.
Prefix(n) == 0..(n - 1)

\* What is on disk.
Prefixed(upload) ==
    /\ \E n \in 0..upload.size : upload.data = Prefix(n)
    /\ upload.at = "landed" => upload.data = Prefix(upload.size)

StoreOK == \A u \in Ids : Prefixed(uploads[u])

Known(u) == u \in Ids /\ uploads[u].at # "none"

\* A call of the API knows of an upload that was made, and a chunk does not go
\* beyond the end of its file.
CallFits(c) ==
    /\ c.at \in {"start", "create"} => c.to \in Sizes \cup {0}
    /\ c.at \in {"status", "patch", "lock", "write", "finish", "land"} => Known(c.upload)
    /\ c.at \in {"patch", "lock", "write"} /\ Open(c.upload) =>
          c.to <= uploads[c.upload].size
    /\ c.at = "write" /\ Open(c.upload) =>
          /\ c.from <= uploads[c.upload].size
          /\ uploads[c.upload].data =
                Prefix(c.from) \cup (IF c.from < c.to THEN {c.from} ELSE {})
    /\ c.at = "land" => row /\ holder = "none"

CallsFit == \A c \in Slots : CallFits(calls[c])

\* One request at a time writes to an upload.
OneWriter ==
    \A c, d \in Slots :
        calls[c].at = "write" /\ calls[d].at = "write" /\ calls[c].upload = calls[d].upload
            => c = d

Stores == StoreOK /\ CallsFit /\ OneWriter

\* An item has an upload that was made, of its size.
ItemFits(it) ==
    /\ it.upload # 0 =>
          /\ Known(it.upload)
          /\ Open(it.upload) => uploads[it.upload].size = it.size
    /\ it.state = "done" /\ it.upload # 0 =>
          \/ uploads[it.upload].at = "landed"
          \/ uploads[it.upload].at = "removed" /\ it.finishing
    /\ it.state = "gone" => it.upload = 0

ItemsFit == \A k \in Keys : ItemFits(items[k])

\* The request that the queue waits for is the one send() made for its item.
Awaits(it, call) ==
    /\ run.at = "start" =>
          /\ call.at \in {"none", "start", "create", "finish", "land", "answered"}
          /\ it.upload = 0
          /\ call.at \in {"start", "create"} /\ it.state # "gone" => call.to = it.size
    /\ run.at = "status" => call.at \in {"none", "status", "answered"}
    /\ run.at = "patch" =>
          call.at \in {"none", "patch", "lock", "write", "finish", "land", "answered"}
    /\ run.at \in {"status", "patch"} =>
          \/ call.at \in {"none", "answered"} \/ it.state = "gone"
          \/ call.upload = it.upload
    /\ run.at \in {"busy", "backoff", "returned"} => call.at = "none"
    /\ run.at = "returned" => it.state # "going"
    /\ call.at = "answered" =>
          /\ call.answer = "started" =>
                /\ run.at = "start" /\ Known(call.upload)
                /\ Open(call.upload) /\ it.state # "gone" =>
                      uploads[call.upload].size = it.size
          /\ call.answer = "done" /\ it.upload # 0 => uploads[it.upload].at = "landed"
          /\ call.answer = "upload_not_found" /\ it.upload # 0 => ~Open(it.upload)

\* The item that send() works on, unless the user has paused or removed it.
Worked == {"going", "paused", "waiting", "stalled", "gone"}

RunFits ==
    IF run.at = "off" THEN calls["awaited"].at = "none"
    ELSE /\ Key \in Keys /\ items[Key].state \in Worked
         /\ Awaits(items[Key], calls["awaited"])

Tab == ItemsFit /\ RunFits /\ QueueMoves

\* What the queue was told of an upload is so while there is such an upload.
ListFits ==
    /\ swept \subseteq Ids /\ listed \subseteq Entry
    /\ \A entry \in listed :
          /\ Known(entry.upload)
          /\ Open(entry.upload) => uploads[entry.upload].size = entry.size

IInv == TypeOK /\ Stores /\ Tab /\ ListFits

-----------------------------------------------------------------------------
\* The least and the greatest of a set.

LEMMA LeastExists ==
    ASSUME NEW S \in SUBSET Nat, S # {}
    PROVE  Min(S) \in S /\ \A x \in S : Min(S) <= x
<1> DEFINE Below == {pair \in Nat \X Nat : pair[1] < pair[2]}
<1>1. IsWellFoundedOn(Below, Nat)
    BY NatLessThanWellFounded DEF OpToRel
<1>2. \A x, y \in S : <<y, x>> \in Below \/ x =< y
    OBVIOUS
<1> HIDE DEF Below
<1>3. \E x \in S : \A y \in S : <<y, x>> \notin Below
    BY <1>1, WFMin
<1>4. \E x \in S : \A y \in S : x =< y
    BY <1>2, <1>3
<1> QED BY <1>4 DEF Min

LEMMA LeastOfTwo ==
    ASSUME NEW a \in Nat, NEW b \in Nat
    PROVE  Min({a, b}) \in Nat /\ Min({a, b}) <= a /\ Min({a, b}) \in {a, b}
BY LeastExists

LEMMA GreatestOf ==
    ASSUME NEW S \in SUBSET Nat, NEW m \in S, \A x \in S : x <= m
    PROVE  Max(S) = m
<1>1. \A x \in S : (\A y \in S : x >= y) => x = m
    OBVIOUS
<1>2. \A y \in S : m >= y
    OBVIOUS
<1> QED BY <1>1, <1>2 DEF Max

\* The size of the data is the number of its bytes, since they are a prefix.
LEMMA StoredOf ==
    ASSUME NEW n \in Nat
    PROVE  Max({0} \cup {b + 1 : b \in Prefix(n)}) = n
<1> DEFINE S == {0} \cup {b + 1 : b \in Prefix(n)}
<1>1. S \in SUBSET Nat
    BY DEF Prefix
<1>2. \A x \in S : x <= n
    BY DEF Prefix
<1>3. n \in S
    <2>1. CASE n = 0
        BY <2>1
    <2>2. CASE n # 0
        <3>1. n - 1 \in Prefix(n) /\ (n - 1) + 1 = n
            BY <2>2 DEF Prefix
        <3> QED BY <3>1
    <2> QED BY <2>1, <2>2
<1> HIDE DEF S
<1>4. Max(S) = n
    BY <1>1, <1>2, <1>3, GreatestOf
<1> QED BY <1>4 DEF S

LEMMA PrefixGrows ==
    ASSUME NEW from \in Nat, NEW to \in Nat
    PROVE  /\ Prefix(from) \cup (IF from < to THEN {from} ELSE {})
                 = Prefix(IF from < to THEN from + 1 ELSE from)
           /\ (Prefix(from) \cup (IF from < to THEN {from} ELSE {})) \cup from..(to - 1)
                 = Prefix(IF from < to THEN to ELSE from)
           /\ {b \in Prefix(from) \cup (IF from < to THEN {from} ELSE {}) : b < from}
                 = Prefix(from)
BY DEF Prefix

\* What there is a largest of.
LEMMA SizesBounded ==
    ASSUME UploadsAssumption
    PROVE  /\ Max(Sizes) \in Nat /\ 0 \in Bytes /\ Bytes \subseteq Nat
           /\ Sizes \cup {0} \subseteq Bytes
           /\ \A b \in Bytes, n \in Nat : n <= b => n \in Bytes
<1>1. PICK largest \in Sizes : \A size \in Sizes : size <= largest
    BY DEF UploadsAssumption
<1>2. Max(Sizes) = largest /\ largest \in Nat
    BY <1>1, GreatestOf DEF UploadsAssumption
<1> QED BY <1>1, <1>2 DEF Bytes, UploadsAssumption

LEMMA Constants ==
    ASSUME UploadsAssumption
    PROVE  /\ NoItem \in Item /\ NoItem.state = "none" /\ NoItem.upload = 0
           /\ Off \in Runs /\ Off.at = "off" /\ Off.key = 0
           /\ NoCall \in Call /\ NoCall.at = "none"
           /\ NoUpload \in Upload /\ NoUpload.at = "none" /\ NoUpload.size = 0
           /\ NoUpload.data = {}
           /\ "awaited" \in Slots /\ "stray" \in Slots
<1>1. 0 \in Bytes /\ 0 \in 0..NETWORK_RETRIES
    BY SizesBounded DEF UploadsAssumption
<1>2. NoItem \in Item /\ NoItem.state = "none" /\ NoItem.upload = 0
    BY <1>1 DEF NoItem, Item, States
<1>3. Off \in Runs /\ Off.at = "off" /\ Off.key = 0
    BY <1>1 DEF Off, Runs
<1>4. NoCall \in Call /\ NoCall.at = "none"
    BY <1>1 DEF NoCall, Call
<1>5. /\ NoUpload \in Upload /\ NoUpload.at = "none" /\ NoUpload.size = 0
      /\ NoUpload.data = {}
    BY DEF NoUpload, Upload
<1> QED BY <1>2, <1>3, <1>4, <1>5 DEF Slots

-----------------------------------------------------------------------------
\* What the steps of the queue do.

\* The queue has sent a request for item k of its.
Asks(its, k) ==
    /\ its[k].state \in {"waiting", "going"}
    /\ items' \in [Keys -> Item]
    /\ \A j \in Keys : j # k => items'[j] = its[j]
    /\ items'[k].state = "going"
    /\ items'[k].upload = its[k].upload /\ items'[k].size = its[k].size
    /\ run' \in Runs /\ run'.key = k /\ run'.at \in {"start", "status", "patch"}
    /\ calls' \in [Slots -> Call] /\ calls'["stray"] = calls["stray"]
    /\ calls'["awaited"].at = run'.at
    /\ run'.at = "start" => its[k].upload = 0 /\ calls'["awaited"].to = its[k].size
    /\ run'.at # "start" => its[k].upload # 0 /\ calls'["awaited"].upload = its[k].upload
    /\ run'.at = "patch" => calls'["awaited"].to <= its[k].size

\* It has found nothing to do.
Rests(its) ==
    /\ items' = its /\ run' = Off
    /\ calls' \in [Slots -> Call] /\ calls'["stray"] = calls["stray"]
    /\ calls'["awaited"] = NoCall
    /\ Held(its) \/ Waiting(its) = {}

Moves(its) ==
    \/ Rests(its) /\ \A j \in Keys : its[j].state # "going"
    \/ \E k \in Keys : /\ Asks(its, k)
                       /\ \A j \in Keys : its[j].state = "going" => j = k

LEMMA RequestAsks ==
    ASSUME UploadsAssumption, calls \in [Slots -> Call],
           NEW its \in [Keys -> Item], NEW r \in Runs, r.key \in Keys,
           its[r.key].state = "going", Request(its, r)
    PROVE  Asks(its, r.key)
<1> DEFINE k == r.key
           it == its[k]
           call == IF it.upload = 0 THEN StartCall(it)
                   ELSE IF r.sync THEN StatusCall(it) ELSE PatchCall(it)
<1>1. /\ it \in Item /\ it.upload \in Ids \cup {0} /\ it.size \in Bytes
      /\ it.size \in Nat /\ it.offset \in Nat /\ it.offset \in Bytes
      /\ it.replace \in BOOLEAN
    BY SizesBounded DEF Item
<1>2. /\ StartCall(it) \in Call /\ StartCall(it).at = "start" /\ StartCall(it).to = it.size
    BY <1>1, Constants DEF StartCall, Call
<1>3. /\ StatusCall(it) \in Call /\ StatusCall(it).at = "status"
      /\ StatusCall(it).upload = it.upload
    BY <1>1, Constants DEF StatusCall, Call
<1>4. /\ PatchCall(it) \in Call /\ PatchCall(it).at = "patch"
      /\ PatchCall(it).upload = it.upload /\ PatchCall(it).to <= it.size
    <2> DEFINE end == Min({it.size, it.offset + Chunk})
    <2>1. it.offset + Chunk \in Nat
        BY <1>1 DEF UploadsAssumption
    <2>2. end \in Nat /\ end <= it.size
        BY <1>1, <2>1, LeastOfTwo
    <2>3. end \in Bytes
        BY <1>1, <2>2, SizesBounded
    <2>4. PatchCall(it) = [NoCall EXCEPT !.at = "patch", !.upload = it.upload,
                                         !.from = it.offset, !.to = end]
        BY DEF PatchCall
    <2> HIDE DEF end
    <2> QED BY <1>1, <2>2, <2>3, <2>4, Constants DEF Call
<1>5. /\ call \in Call /\ call.at \in {"start", "status", "patch"}
      /\ call.at = "start" => it.upload = 0 /\ call.to = it.size
      /\ call.at # "start" => it.upload # 0 /\ call.upload = it.upload
      /\ call.at = "patch" => call.to <= it.size
    BY <1>2, <1>3, <1>4
<1>6. /\ calls' = [calls EXCEPT !["awaited"] = call]
      /\ run' = [r EXCEPT !.at = call.at]
      /\ items' = its \/ \E b \in BOOLEAN : items' = [its EXCEPT ![k].finishing = b]
    BY DEF Request
<1> HIDE DEF call
<1>7. /\ calls' \in [Slots -> Call] /\ calls'["stray"] = calls["stray"]
      /\ calls'["awaited"] = call
    BY <1>5, <1>6 DEF Slots
<1>8. run' \in Runs /\ run'.key = k /\ run'.at = call.at
    BY <1>5, <1>6 DEF Runs
<1> DEFINE Marked ==
        /\ items' \in [Keys -> Item] /\ \A j \in Keys : j # k => items'[j] = its[j]
        /\ items'[k].state = it.state /\ items'[k].upload = it.upload
        /\ items'[k].size = it.size
<1>9. Marked
    <2>1. CASE items' = its
        BY <2>1
    <2>2. ASSUME NEW b \in BOOLEAN, items' = [its EXCEPT ![k].finishing = b]
          PROVE  Marked
        <3> DEFINE new == [it EXCEPT !.finishing = b]
        <3>1. /\ new \in Item /\ new.state = it.state /\ new.upload = it.upload
              /\ new.size = it.size
            BY <1>1 DEF Item
        <3>2. items' = [its EXCEPT ![k] = new]
            BY <2>2
        <3> HIDE DEF new
        <3> QED BY <3>1, <3>2
    <2> QED BY <1>6, <2>1, <2>2
<1> QED BY <1>5, <1>7, <1>8, <1>9 DEF Asks

LEMMA PickNextMoves ==
    ASSUME UploadsAssumption, calls \in [Slots -> Call],
           NEW its \in [Keys -> Item], \A j \in Keys : its[j].state # "going",
           PickNext(its)
    PROVE  Moves(its)
<1>1. CASE Held(its) \/ Waiting(its) = {}
    <2>1. /\ items' = its /\ run' = Off
          /\ calls' = [calls EXCEPT !["awaited"] = NoCall]
        BY <1>1 DEF PickNext
    <2> QED BY <1>1, <2>1, Constants DEF Moves, Rests, Slots
<1>2. CASE ~(Held(its) \/ Waiting(its) = {})
    <2> DEFINE k == Min(Waiting(its))
               going == [its EXCEPT ![k].state = "going"]
               sync == its[k].upload # 0
               r == [Off EXCEPT !.key = k, !.sync = sync]
    <2>1. k \in Keys /\ its[k].state = "waiting"
        <3>1. Waiting(its) \subseteq Nat /\ Waiting(its) # {}
            BY <1>2 DEF Waiting, Keys
        <3>2. k \in Waiting(its)
            BY <3>1, LeastExists
        <3> QED BY <3>2 DEF Waiting
    <2>2. Request(going, r)
        BY <1>2 DEF PickNext
    <2>3. /\ going \in [Keys -> Item] /\ going[k].state = "going"
          /\ going[k].upload = its[k].upload /\ going[k].size = its[k].size
          /\ \A j \in Keys : j # k => going[j] = its[j]
        <3> DEFINE new == [its[k] EXCEPT !.state = "going"]
        <3>1. /\ new \in Item /\ new.state = "going" /\ new.upload = its[k].upload
              /\ new.size = its[k].size
            BY <2>1 DEF Item, States
        <3>2. going = [its EXCEPT ![k] = new]
            OBVIOUS
        <3> HIDE DEF new, going, k
        <3> QED BY <2>1, <3>1, <3>2
    <2>4. sync \in BOOLEAN
        OBVIOUS
    <2> HIDE DEF sync
    <2>5. r \in Runs /\ r.key = k
        BY <2>1, <2>4, Constants DEF Runs
    <2> HIDE DEF k, going, r
    <2>6. Asks(going, k)
        BY <2>1, <2>2, <2>3, <2>5, RequestAsks
    <2>7. Asks(its, k)
        BY <2>1, <2>3, <2>6 DEF Asks
    <2> QED BY <2>1, <2>7 DEF Moves
<1> QED BY <1>1, <1>2

LEMMA ContinueMoves ==
    ASSUME UploadsAssumption, calls \in [Slots -> Call],
           NEW its \in [Keys -> Item], NEW r \in Runs, r.key \in Keys,
           \A j \in Keys : its[j].state = "going" => j = r.key,
           Continue(its, r)
    PROVE  Moves(its)
<1>1. CASE its[r.key].state = "going"
    <2>1. Asks(its, r.key)
        BY <1>1, RequestAsks DEF Continue
    <2> QED BY <2>1 DEF Moves
<1>2. CASE its[r.key].state # "going"
    <2>1. \A j \in Keys : its[j].state # "going"
        BY <1>2
    <2> QED BY <1>2, <2>1, PickNextMoves DEF Continue
<1> QED BY <1>1, <1>2

\* What a step of the tab leaves alone in the API.
TabStep ==
    /\ UNCHANGED <<uploads, present, row, holder, swept>> /\ listed' \subseteq listed
    /\ cancels' \subseteq Ids /\ events' \in 0..MaxEvents

LEMMA ListStays ==
    ASSUME ListFits, TabStep
    PROVE  ListFits'
BY DEF ListFits, TabStep, Known, Open

Fitting(its) == its \in [Keys -> Item] /\ \A k \in Keys : ItemFits(its[k])

LEMMA MovesKeep ==
    ASSUME UploadsAssumption, TypeOK, Stores, ListFits, TabStep,
           NEW its, Fitting(its), Moves(its)
    PROVE  IInv'
<1>3. ListFits'
    BY ListStays
<1>0. /\ calls \in [Slots -> Call] /\ "awaited" \in Slots /\ "stray" \in Slots
      /\ UNCHANGED <<uploads, present, row, holder>>
      /\ its \in [Keys -> Item] /\ \A k \in Keys : ItemFits(its[k])
    BY Constants DEF TypeOK, TabStep, Fitting
<1>1. CASE Rests(its) /\ \A j \in Keys : its[j].state # "going"
    <2>1. /\ items' = its /\ run' \in Runs /\ run'.at = "off" /\ run' = Off
          /\ calls' \in [Slots -> Call]
          /\ calls'["stray"] = calls["stray"] /\ calls'["awaited"].at = "none"
          /\ Held(its) \/ Waiting(its) = {}
        BY <1>1, Constants DEF Rests
    <2>2. TypeOK'
        BY <1>0, <1>3, <2>1 DEF TypeOK, Runs, TabStep, ListFits
    <2>3. CallsFit' /\ OneWriter'
        BY <1>0, <2>1 DEF Stores, CallsFit, CallFits, OneWriter, Slots, Known, Open
    <2>4. StoreOK'
        BY <1>0 DEF Stores, StoreOK
    <2>5. ItemsFit'
        BY <1>0, <2>1 DEF ItemsFit, ItemFits, Known, Open
    <2>6. RunFits'
        BY <2>1 DEF RunFits
    <2>7. QueueMoves'
        BY <1>1, <2>1 DEF QueueMoves, Waiting, Held
    <2> QED BY <1>3, <2>2, <2>3, <2>4, <2>5, <2>6, <2>7 DEF IInv, Stores, Tab
<1>2. ASSUME NEW k \in Keys, Asks(its, k),
             \A j \in Keys : its[j].state = "going" => j = k
      PROVE  IInv'
    <2>1. TypeOK'
        BY <1>0, <1>2, <1>3 DEF TypeOK, Runs, TabStep, Asks, ListFits
    <2>2. its[k].size \in Sizes \cup {0} /\ ItemFits(its[k])
        BY <1>0, <1>2 DEF Item
    <2>3. CallsFit'
        <3>1. CallFits(calls["stray"])' /\ calls'["stray"] = calls["stray"]
            BY <1>0, <1>2 DEF Asks, Stores, CallsFit, CallFits, Known, Open
        <3>2. CallFits(calls["awaited"])'
            BY <1>0, <1>2, <2>2 DEF Asks, CallFits, ItemFits, Known, Open
        <3> QED BY <3>1, <3>2 DEF CallsFit, Slots
    <2>4. OneWriter'
        BY <1>0, <1>2 DEF Asks, Stores, OneWriter, Slots
    <2>5. StoreOK'
        BY <1>0 DEF Stores, StoreOK
    <2>6. ItemsFit'
        <3>1. ItemFits(items[k])'
            BY <1>0, <1>2, <2>2 DEF Asks, ItemFits, Known, Open
        <3>2. \A j \in Keys : j # k => ItemFits(items[j])'
            BY <1>0, <1>2 DEF Asks, ItemFits, Known, Open
        <3> QED BY <3>1, <3>2 DEF ItemsFit
    <2>7. RunFits'
        <3>1. /\ run'.at \in {"start", "status", "patch"} /\ run'.key = k
              /\ items'[k].state = "going" /\ items'[k].upload = its[k].upload
              /\ items'[k].size = its[k].size
              /\ calls'["awaited"].at = run'.at
              /\ run'.at = "start" => its[k].upload = 0 /\ calls'["awaited"].to = its[k].size
              /\ run'.at # "start" => calls'["awaited"].upload = its[k].upload
            BY <1>2 DEF Asks
        <3>2. Awaits(items[k], calls["awaited"])'
            BY <3>1 DEF Awaits
        <3> QED BY <1>2, <3>1, <3>2 DEF RunFits, Key, Worked
    <2>8. QueueMoves'
        BY <1>2 DEF Asks, QueueMoves, Key
    <2> QED BY <1>3, <2>1, <2>3, <2>4, <2>5, <2>6, <2>7, <2>8 DEF IInv, Stores, Tab
<1> QED BY <1>1, <1>2 DEF Moves

LEMMA PickNextKeeps ==
    ASSUME UploadsAssumption, IInv, TabStep, NEW its, Fitting(its),
           \A j \in Keys : its[j].state # "going", PickNext(its)
    PROVE  IInv'
BY PickNextMoves, MovesKeep DEF IInv, TypeOK, Fitting

LEMMA ContinueKeeps ==
    ASSUME UploadsAssumption, IInv, TabStep, NEW its, Fitting(its),
           NEW r \in Runs, r.key \in Keys,
           \A j \in Keys : its[j].state = "going" => j = r.key, Continue(its, r)
    PROVE  IInv'
BY ContinueMoves, MovesKeep DEF IInv, TypeOK, Fitting

\* An item that is worked on stays so, with its upload, unless it is removed.
StillWorked(new, it) ==
    \/ new = it
    \/ new.state = "gone" /\ new.upload = 0
    \/ /\ it.state # "gone" /\ new.state \in Worked \ {"gone", "going"}
       /\ new.upload = it.upload /\ new.size = it.size

LEMMA StillAwaits ==
    ASSUME NEW it, NEW new, NEW call, StillWorked(new, it), Awaits(it, call)
    PROVE  Awaits(new, call)
BY DEF StillWorked, Awaits

\* Items change, and nothing else in the tab.
LEMMA ItemsChange ==
    ASSUME UploadsAssumption, IInv, TabStep, UNCHANGED <<run, calls>>,
           NEW its, Fitting(its), items' = its,
           run.at # "off" => StillWorked(its[Key], items[Key]),
           \A j \in Keys : its[j].state = "going" => items[j].state = "going",
           run.at = "off" /\ (\E j \in Keys : its[j].state = "waiting") => Held(its)
    PROVE  IInv'
<1>0. /\ UNCHANGED <<uploads, present, row, holder>> /\ items' \in [Keys -> Item]
    BY DEF TabStep, Fitting
<1>6. ListFits'
    BY ListStays DEF IInv
<1>1. TypeOK'
    BY <1>0, <1>6 DEF IInv, TypeOK, TabStep, ListFits
<1>2. Stores'
    BY <1>0 DEF IInv, Stores, StoreOK, CallsFit, CallFits, OneWriter, Known, Open
<1>3. ItemsFit'
    BY <1>0 DEF Fitting, ItemsFit, ItemFits, Known, Open
<1>4. RunFits'
    <2>1. CASE run.at = "off"
        BY <2>1 DEF IInv, Tab, RunFits
    <2>2. CASE run.at # "off"
        <3>0. /\ Key \in Keys /\ items[Key].state \in Worked
              /\ Awaits(items[Key], calls["awaited"])
            BY <2>2 DEF IInv, Tab, RunFits
        <3>1. Awaits(its[Key], calls["awaited"])
            BY <2>2, <3>0, StillAwaits
        <3>2. its[Key].state \in Worked
            BY <2>2, <3>0 DEF StillWorked, Worked
        <3>3. Awaits(items[Key], calls["awaited"])'
            BY <1>0, <3>1 DEF Awaits, Known, Open, Key
        <3> QED BY <2>2, <3>0, <3>2, <3>3 DEF RunFits, Key
    <2> QED BY <2>1, <2>2
<1>5. QueueMoves'
    BY DEF IInv, Tab, QueueMoves, Key, Held
<1> QED BY <1>1, <1>2, <1>3, <1>4, <1>5, <1>6 DEF IInv, Tab

LEMMA KickKeeps ==
    ASSUME UploadsAssumption, IInv, TabStep, NEW its, Fitting(its),
           \A j \in Keys : its[j].state = "going" => items[j].state = "going",
           run.at # "off" => StillWorked(its[Key], items[Key]),
           Kick(its)
    PROVE  IInv'
<1>1. CASE run.at = "off"
    <2>1. \A j \in Keys : its[j].state # "going"
        BY <1>1 DEF IInv, Tab, QueueMoves
    <2> QED BY <1>1, <2>1, PickNextKeeps DEF Kick
<1>2. CASE run.at # "off"
    BY <1>2, ItemsChange DEF Kick
<1> QED BY <1>1, <1>2

\* One item changes.
LEMMA ItemChanges ==
    ASSUME IInv, NEW k \in Keys, NEW new \in Item, ItemFits(new)
    PROVE  /\ Fitting([items EXCEPT ![k] = new])
           /\ [items EXCEPT ![k] = new][k] = new
           /\ \A j \in Keys : j # k => [items EXCEPT ![k] = new][j] = items[j]
<1> DEFINE its == [items EXCEPT ![k] = new]
<1>1. items \in [Keys -> Item] /\ \A j \in Keys : ItemFits(items[j])
    BY DEF IInv, TypeOK, Tab, ItemsFit
<1>2. /\ its \in [Keys -> Item] /\ its[k] = new
      /\ \A j \in Keys : j # k => its[j] = items[j]
    BY <1>1
<1> HIDE DEF its
<1>3. \A j \in Keys : ItemFits(its[j])
    BY <1>1, <1>2
<1>4. Fitting(its)
    BY <1>2, <1>3 DEF Fitting
<1> QED BY <1>2, <1>4 DEF its

\* An item goes to another state with what it has.
LEMMA StateChanges ==
    ASSUME IInv, NEW k \in Keys, NEW state \in States \ {"done", "gone"}
    PROVE  /\ Fitting([items EXCEPT ![k].state = state])
           /\ [items EXCEPT ![k].state = state][k].state = state
           /\ [items EXCEPT ![k].state = state][k].upload = items[k].upload
           /\ [items EXCEPT ![k].state = state][k].size = items[k].size
           /\ \A j \in Keys : j # k => [items EXCEPT ![k].state = state][j] = items[j]
<1> DEFINE new == [items[k] EXCEPT !.state = state]
           changed == [items EXCEPT ![k] = new]
<1>1. items[k] \in Item /\ ItemFits(items[k]) /\ items \in [Keys -> Item]
    BY DEF IInv, TypeOK, Tab, ItemsFit
<1>2. /\ new \in Item /\ new.state = state /\ new.upload = items[k].upload
      /\ new.size = items[k].size
    BY <1>1 DEF Item
<1>3. [items EXCEPT ![k].state = state] = changed
    OBVIOUS
<1> HIDE DEF new
<1>4. ItemFits(new)
    BY <1>1, <1>2 DEF ItemFits
<1>5. /\ Fitting(changed) /\ changed[k] = new
      /\ \A j \in Keys : j # k => changed[j] = items[j]
    BY <1>2, <1>4, ItemChanges
<1> HIDE DEF changed
<1> QED BY <1>2, <1>3, <1>5

LEMMA EventCounts ==
    ASSUME UploadsAssumption, IInv
    PROVE  /\ OnEvent => TabStep
           /\ Quietly => TabStep
           /\ Event => events' \in 0..MaxEvents
BY DEF UploadsAssumption, IInv, TypeOK, OnEvent, Quietly, Event, TabStep, beside, project

LEMMA KeptAdd ==
    ASSUME UploadsAssumption, IInv, NEW size \in Sizes, Add(size)
    PROVE  IInv'
<1> DEFINE free == {k \in Keys : items[k].state = "none"}
           k == Min(free)
           new == [NoItem EXCEPT !.state = "waiting", !.size = size]
           its == [items EXCEPT ![k] = new]
<1>1. k \in Keys /\ items[k].state = "none"
    <2>1. free \subseteq Nat /\ free # {}
        BY DEF Add, Keys
    <2>2. k \in free
        BY <2>1, LeastExists
    <2> QED BY <2>2
<1>2. new \in Item /\ new.state = "waiting" /\ new.upload = 0
    BY Constants DEF Item, States
<1>3. Kick(its) /\ TabStep
    BY EventCounts DEF Add
<1> HIDE DEF k, new
<1>4. ItemFits(new)
    BY <1>2 DEF ItemFits
<1>5. /\ Fitting(its) /\ its[k] = new
      /\ \A j \in Keys : j # k => its[j] = items[j]
    BY <1>1, <1>2, <1>4, ItemChanges
<1> HIDE DEF its
<1>6. \A j \in Keys : its[j].state = "going" => items[j].state = "going"
    BY <1>2, <1>5
<1>7. run.at # "off" => StillWorked(its[Key], items[Key])
    BY <1>1, <1>5 DEF StillWorked, IInv, Tab, RunFits, Worked
<1> QED BY <1>3, <1>5, <1>6, <1>7, KickKeeps

LEMMA KeptResume ==
    ASSUME UploadsAssumption, IInv, NEW k \in Keys, Resume(k)
    PROVE  IInv'
<1> DEFINE its == [items EXCEPT ![k].state = "waiting"]
<1>1. Kick(its) /\ TabStep /\ items[k].state \in {"paused", "stalled"}
    BY EventCounts DEF Resume
<1>2. /\ Fitting(its) /\ its[k].state = "waiting"
      /\ its[k].upload = items[k].upload /\ its[k].size = items[k].size
      /\ \A j \in Keys : j # k => its[j] = items[j]
    BY StateChanges DEF States
<1> HIDE DEF its
<1>3. \A j \in Keys : its[j].state = "going" => items[j].state = "going"
    BY <1>2
<1>4. run.at # "off" => StillWorked(its[Key], items[Key])
    BY <1>1, <1>2 DEF StillWorked, IInv, Tab, RunFits, Worked
<1> QED BY <1>1, <1>2, <1>3, <1>4, KickKeeps

LEMMA KeptReplace ==
    ASSUME UploadsAssumption, IInv, NEW k \in Keys, Replace(k)
    PROVE  IInv'
<1> DEFINE new == [items[k] EXCEPT !.state = "waiting", !.replace = TRUE]
           its == [items EXCEPT ![k] = new]
<1>0. items \in [Keys -> Item] /\ items[k] \in Item /\ ItemFits(items[k])
    BY DEF IInv, TypeOK, Tab, ItemsFit
<1>1. Kick(its) /\ TabStep /\ items[k].state = "exists"
    <2>1. its = [items EXCEPT ![k].state = "waiting", ![k].replace = TRUE]
        BY <1>0
    <2> QED BY <2>1, EventCounts DEF Replace
<1>2. /\ new \in Item /\ new.state = "waiting" /\ new.upload = items[k].upload
      /\ new.size = items[k].size
    BY <1>0 DEF Item, States
<1> HIDE DEF new
<1>3. ItemFits(new)
    BY <1>0, <1>2 DEF ItemFits
<1>4. Fitting(its) /\ its[k] = new /\ \A j \in Keys : j # k => its[j] = items[j]
    BY <1>2, <1>3, ItemChanges
<1> HIDE DEF its
<1>5. \A j \in Keys : its[j].state = "going" => items[j].state = "going"
    BY <1>2, <1>4
<1>6. run.at # "off" => StillWorked(its[Key], items[Key])
    BY <1>1, <1>4 DEF StillWorked, IInv, Tab, RunFits, Worked
<1> QED BY <1>1, <1>4, <1>5, <1>6, KickKeeps

LEMMA KeptCarryOn ==
    ASSUME UploadsAssumption, IInv, CarryOn
    PROVE  IInv'
<1>0. items \in [Keys -> Item] /\ \A k \in Keys : ItemFits(items[k])
    BY DEF IInv, TypeOK, Tab, ItemsFit
<1>1. PICK K \in SUBSET {k \in Keys : items[k].state = "noRoom"} :
         /\ Kick([k \in Keys |->
                    IF k \in K THEN [items[k] EXCEPT !.state = "waiting"] ELSE items[k]])
         /\ OnEvent
    BY DEF CarryOn
<1> DEFINE its == [k \in Keys |->
              IF k \in K THEN [items[k] EXCEPT !.state = "waiting"] ELSE items[k]]
<1>2. Kick(its) /\ TabStep
    BY <1>1, EventCounts
<1>3. ASSUME NEW k \in Keys
      PROVE  /\ its[k] \in Item /\ ItemFits(its[k])
             /\ \/ its[k] = items[k]
                \/ items[k].state = "noRoom" /\ its[k].state = "waiting"
    <2> DEFINE new == [items[k] EXCEPT !.state = "waiting"]
    <2>1. /\ new \in Item /\ new.state = "waiting" /\ new.upload = items[k].upload
          /\ new.size = items[k].size
        BY <1>0 DEF Item, States
    <2>2. its[k] = IF k \in K THEN new ELSE items[k]
        OBVIOUS
    <2> HIDE DEF new, its
    <2>3. ItemFits(new)
        BY <1>0, <2>1 DEF ItemFits
    <2> QED BY <1>0, <2>1, <2>2, <2>3
<1>4. its = [k \in Keys |-> its[k]]
    OBVIOUS
<1> HIDE DEF its
<1>5. Fitting(its)
    BY <1>3, <1>4 DEF Fitting
<1>6. run.at # "off" => StillWorked(its[Key], items[Key])
    BY <1>3 DEF StillWorked, IInv, Tab, RunFits, Worked
<1> QED BY <1>2, <1>3, <1>5, <1>6, KickKeeps

-----------------------------------------------------------------------------
\* The user's other steps, and a request that is left.

\* Whatever becomes of the call, it fits, and the queue waits for none.
LEMMA Leaves ==
    ASSUME UploadsAssumption, IInv, Leave, UNCHANGED <<uploads, present, row, holder>>
    PROVE  /\ calls' \in [Slots -> Call] /\ calls'["awaited"].at = "none"
           /\ Stores'
<1>1. calls \in [Slots -> Call] /\ NoCall \in Call /\ NoCall.at = "none"
    BY Constants DEF IInv, TypeOK
<1>2. /\ calls' \in [Slots -> Call] /\ calls'["awaited"] = NoCall
      /\ calls'["stray"] \in {calls["stray"], calls["awaited"]}
    <2>1. CASE calls' = [awaited |-> NoCall, stray |-> calls["awaited"]]
        <3>1. /\ DOMAIN calls' = Slots /\ calls'["awaited"] = NoCall
              /\ calls'["stray"] = calls["awaited"] /\ calls' = [c \in Slots |-> calls'[c]]
            BY <2>1 DEF Slots
        <3>2. \A c \in Slots : calls'[c] \in Call
            BY <1>1, <3>1 DEF Slots
        <3> QED BY <3>1, <3>2
    <2>2. CASE calls' = [calls EXCEPT !["awaited"] = NoCall]
        BY <1>1, <2>2 DEF Slots
    <2> QED BY <2>1, <2>2 DEF Leave
<1>3. StoreOK'
    BY DEF IInv, Stores, StoreOK
<1>4. CallsFit'
    <2>1. CallFits(calls["awaited"]) /\ CallFits(calls["stray"])
        BY DEF IInv, Stores, CallsFit, Slots
    <2>2. CallFits(calls["stray"])'
        BY <1>2, <2>1 DEF CallFits, Known, Open
    <2>3. CallFits(calls["awaited"])'
        BY <1>1, <1>2 DEF CallFits
    <2> QED BY <2>2, <2>3 DEF CallsFit, Slots
<1>5. OneWriter'
    BY <1>1, <1>2 DEF OneWriter, Slots
<1> QED BY <1>1, <1>2, <1>3, <1>4, <1>5 DEF Stores

LEMMA LeaveKeeps ==
    ASSUME UploadsAssumption, IInv, Leave, TabStep,
           NEW its, Fitting(its), items' = its, NEW r \in Runs, run' = r,
           \/ r.at = "off" /\ \A j \in Keys : its[j].state \notin {"going", "waiting"}
           \/ /\ r.at \in {"returned", "busy", "backoff"} /\ r.key \in Keys
              /\ its[r.key].state \in Worked
              /\ r.at = "returned" => its[r.key].state # "going"
              /\ \A j \in Keys : its[j].state = "going" => j = r.key
    PROVE  IInv'
<1>1. UNCHANGED <<uploads, present, row, holder>> /\ items' \in [Keys -> Item]
    BY DEF TabStep, Fitting
<1>2. calls' \in [Slots -> Call] /\ calls'["awaited"].at = "none" /\ Stores'
    BY <1>1, Leaves
<1>7. ListFits'
    BY ListStays DEF IInv
<1>3. TypeOK'
    BY <1>1, <1>2, <1>7 DEF IInv, TypeOK, TabStep, Runs, ListFits
<1>4. ItemsFit'
    BY <1>1 DEF Fitting, ItemsFit, ItemFits, Known, Open
<1>5. RunFits'
    BY <1>2 DEF RunFits, Awaits, Key
<1>6. QueueMoves'
    BY DEF QueueMoves, Key
<1> QED BY <1>2, <1>3, <1>4, <1>5, <1>6, <1>7 DEF IInv, Tab

\* Who is going, and the items as they are.
LEMMA Working ==
    ASSUME IInv
    PROVE  /\ Fitting(items) /\ items \in [Keys -> Item] /\ run \in Runs
           /\ \A j \in Keys : items[j] \in Item /\ ItemFits(items[j])
           /\ \A j \in Keys : items[j].state = "going" => j = run.key /\ run.at # "off"
           /\ run.at # "off" => /\ run.key \in Keys
                                /\ items[run.key].state \in Worked
                                /\ Awaits(items[run.key], calls["awaited"])
BY DEF IInv, TypeOK, Runs, Tab, ItemsFit, Fitting, QueueMoves, RunFits, Key

LEMMA RunAt ==
    ASSUME IInv, NEW at \in {"busy", "returned"}, NEW r, r = [run EXCEPT !.at = at]
    PROVE  r \in Runs /\ r.at = at /\ r.key = run.key
BY Working DEF Runs

LEMMA KeptPause ==
    ASSUME UploadsAssumption, IInv, NEW k \in Keys, Pause(k)
    PROVE  IInv'
<1> DEFINE its == [items EXCEPT ![k].state = "paused"]
<1>1. items' = its /\ TabStep /\ items[k].state = "going" /\ Abort(k)
    BY EventCounts DEF Pause
<1>2. /\ Fitting(its) /\ its[k].state = "paused"
      /\ its[k].upload = items[k].upload /\ its[k].size = items[k].size
      /\ \A j \in Keys : j # k => its[j] = items[j]
    BY StateChanges DEF States
<1> HIDE DEF its
<1>3. \A j \in Keys : its[j].state # "going"
    BY <1>1, <1>2, Working
<1>4. CASE run.at = "patch" /\ run.key = k
    <2> DEFINE r == [run EXCEPT !.at = "returned"]
    <2>1. r \in Runs /\ r.at = "returned" /\ r.key = k
        BY <1>4, RunAt
    <2>2. Leave /\ run' = r
        BY <1>1, <1>4 DEF Abort
    <2> HIDE DEF r
    <2> QED BY <1>1, <1>2, <1>3, <2>1, <2>2, LeaveKeeps DEF Worked
<1>5. CASE ~(run.at = "patch" /\ run.key = k)
    <2>1. UNCHANGED <<run, calls>>
        BY <1>1, <1>5 DEF Abort
    <2>2. run.at # "off" /\ Key = k
        BY <1>1, Working DEF Key
    <2>3. StillWorked(its[Key], items[Key])
        BY <1>1, <1>2, <2>2 DEF StillWorked, Worked
    <2> QED BY <1>1, <1>2, <1>3, <2>1, <2>2, <2>3, ItemsChange
<1> QED BY <1>4, <1>5

LEMMA KeptReturned ==
    ASSUME UploadsAssumption, IInv, Returned
    PROVE  IInv'
<1>1. run.at = "returned" /\ PickNext(items) /\ TabStep
    BY EventCounts DEF Returned
<1>2. \A j \in Keys : items[j].state # "going"
    BY <1>1, Working DEF Awaits
<1> QED BY <1>1, <1>2, Working, PickNextKeeps

LEMMA KeptRemove ==
    ASSUME UploadsAssumption, IInv, NEW k \in Keys, Remove(k)
    PROVE  IInv'
<1> DEFINE new == [NoItem EXCEPT !.state = "gone"]
           its == [items EXCEPT ![k] = new]
<1>1. TabStep
    <2>1. items[k].upload \in Ids \cup {0} /\ cancels \subseteq Ids
        BY Working DEF Item, IInv, TypeOK
    <2>2. cancels' \subseteq Ids
        BY <2>1 DEF Remove
    <2> QED BY <2>2, EventCounts DEF Remove, TabStep, beside, project
<1>2. IF run.at = "off" THEN PickNext(its) ELSE items' = its /\ Abort(k)
    BY DEF Remove, Removed
<1>3. new \in Item /\ new.state = "gone" /\ new.upload = 0
    BY Constants DEF Item, States
<1> HIDE DEF new
<1>4. ItemFits(new)
    BY <1>3 DEF ItemFits
<1>5. Fitting(its) /\ its[k] = new /\ \A j \in Keys : j # k => its[j] = items[j]
    BY <1>3, <1>4, ItemChanges
<1> HIDE DEF its
<1>6. \A j \in Keys : its[j].state = "going" => items[j].state = "going"
    BY <1>3, <1>5
<1>7. CASE run.at = "off"
    BY <1>1, <1>2, <1>5, <1>6, <1>7, Working, PickNextKeeps
<1>8. CASE run.at = "patch" /\ run.key = k
    <2> DEFINE r == [run EXCEPT !.at = "returned"]
    <2>1. r \in Runs /\ r.at = "returned" /\ r.key = k
        BY <1>8, RunAt
    <2>2. Leave /\ run' = r /\ items' = its
        BY <1>2, <1>8 DEF Abort
    <2>3. \A j \in Keys : its[j].state # "going"
        BY <1>3, <1>5, <1>6, <1>8, Working
    <2> HIDE DEF r
    <2> QED BY <1>1, <1>3, <1>5, <2>1, <2>2, <2>3, LeaveKeeps DEF Worked
<1>9. CASE run.at # "off" /\ ~(run.at = "patch" /\ run.key = k)
    <2>1. UNCHANGED <<run, calls>> /\ items' = its
        BY <1>2, <1>9 DEF Abort
    <2>2. StillWorked(its[Key], items[Key])
        BY <1>3, <1>5, <1>9, Working DEF StillWorked, Key
    <2> QED BY <1>1, <1>5, <1>6, <1>9, <2>1, <2>2, ItemsChange
<1> QED BY <1>7, <1>8, <1>9

LEMMA KeptReload ==
    ASSUME UploadsAssumption, IInv, Reload
    PROVE  IInv'
<1> DEFINE new == [NoItem EXCEPT !.state = "gone"]
           its == [k \in Keys |-> IF k \in Queued(items) THEN new ELSE items[k]]
<1>1. Leave /\ TabStep /\ items' = its /\ run' = Off
    BY EventCounts DEF Reload, TabStep, beside, project, IInv, TypeOK
<1>2. new \in Item /\ new.state = "gone" /\ new.upload = 0
    BY Constants DEF Item, States
<1> HIDE DEF new
<1>3. \A k \in Keys : /\ its[k] \in Item /\ ItemFits(its[k])
                      /\ its[k].state \in {"none", "gone"}
    BY <1>2, Working DEF ItemFits, Queued, Item
<1>4. its = [k \in Keys |-> its[k]]
    OBVIOUS
<1> HIDE DEF its
<1>5. Fitting(its)
    BY <1>3, <1>4 DEF Fitting
<1> QED BY <1>1, <1>3, <1>5, Constants, LeaveKeeps

\* What was listed, in items that were free.
LEMMA AdoptedFits ==
    ASSUME UploadsAssumption, IInv, NEW entry \in listed
    PROVE  /\ Adopted(entry) \in Item /\ Adopted(entry).state = "stalled"
           /\ ItemFits(Adopted(entry))
<1>1. /\ entry.upload \in Ids /\ entry.size \in Sizes \cup {0}
      /\ entry.replace \in BOOLEAN /\ Known(entry.upload)
      /\ Open(entry.upload) => uploads[entry.upload].size = entry.size
    BY DEF IInv, ListFits, Entry
<1>2. /\ Adopted(entry) \in Item /\ Adopted(entry).state = "stalled"
      /\ Adopted(entry).upload = entry.upload /\ Adopted(entry).size = entry.size
    BY <1>1, Constants DEF Adopted, Item, States
<1> QED BY <1>1, <1>2 DEF ItemFits

LEMMA Adopts ==
    ASSUME UploadsAssumption, IInv, Adopt
    PROVE  /\ TabStep /\ UNCHANGED <<run, calls>> /\ items' \in [Keys -> Item]
           /\ \A k \in Keys :
                 \/ items'[k] = items[k]
                 \/ /\ items[k].state = "none" /\ items'[k].state = "stalled"
                    /\ ItemFits(items'[k])
<1>1. TabStep /\ UNCHANGED <<run, calls>>
    BY DEF Adopt, TabStep, project, IInv, TypeOK
<1>2. PICK K \in SUBSET {k \in Keys : items[k].state = "none"} :
        \E entry \in [K -> listed] :
            items' = [k \in Keys |-> IF k \in K THEN Adopted(entry[k]) ELSE items[k]]
    <2>1. ASSUME NEW S, NEW T \in SUBSET listed, NEW f \in Bijection(S, T)
          PROVE  f \in [S -> listed]
        BY <2>1 DEF Bijection, Injection
    <2> QED BY <2>1 DEF Adopt
<1>3. PICK entry \in [K -> listed] :
            items' = [k \in Keys |-> IF k \in K THEN Adopted(entry[k]) ELSE items[k]]
    BY <1>2
<1>4. ASSUME NEW k \in Keys
      PROVE  /\ items'[k] \in Item
             /\ \/ items'[k] = items[k]
                \/ /\ items[k].state = "none" /\ items'[k].state = "stalled"
                   /\ ItemFits(items'[k])
    <2>1. CASE k \in K
        <3>1. items'[k] = Adopted(entry[k]) /\ entry[k] \in listed /\ items[k].state = "none"
            BY <1>3, <2>1
        <3> QED BY <3>1, AdoptedFits
    <2>2. CASE k \notin K
        BY <1>3, <2>2, Working
    <2> QED BY <2>1, <2>2
<1>5. items' = [k \in Keys |-> items'[k]]
    BY <1>3
<1> QED BY <1>1, <1>4, <1>5

LEMMA KeptAdopt ==
    ASSUME UploadsAssumption, IInv, Adopt
    PROVE  IInv'
<1> DEFINE its == items'
<1>1. /\ TabStep /\ UNCHANGED <<run, calls>> /\ its \in [Keys -> Item]
      /\ \A k \in Keys : \/ its[k] = items[k]
                         \/ /\ items[k].state = "none" /\ its[k].state = "stalled"
                            /\ ItemFits(its[k])
    BY Adopts
<1> HIDE DEF its
<1>2. Fitting(its)
    BY <1>1, Working DEF Fitting
<1>3. \A j \in Keys : its[j].state = "going" => items[j].state = "going"
    BY <1>1
<1>4. run.at # "off" => StillWorked(its[Key], items[Key])
    BY <1>1, Working DEF StillWorked, Worked, Key
<1>5. ASSUME run.at = "off", NEW j \in Keys, its[j].state = "waiting"
      PROVE  Held(its)
    <2>1. items[j].state = "waiting"
        BY <1>1, <1>5
    <2>2. PICK h \in Keys : items[h].state = "noRoom" /\ items[h].upload # 0
        BY <1>5, <2>1 DEF IInv, Tab, QueueMoves, Held
    <2>3. its[h] = items[h]
        BY <1>1, <2>2
    <2> QED BY <2>2, <2>3 DEF Held
<1>6. items' = its
    BY DEF its
<1> QED BY <1>1, <1>2, <1>3, <1>4, <1>5, <1>6, ItemsChange

-----------------------------------------------------------------------------
\* What send() does when it hears of its request.

LEMMA HeardOf ==
    ASSUME UploadsAssumption, IInv, NEW answers, Heard(answers)
    PROVE  /\ run.at \in {"start", "status", "patch"} /\ run \in Runs
           /\ Key = run.key /\ Key \in Keys /\ items[Key].state \in Worked
           /\ items[Key] \in Item /\ ItemFits(items[Key])
           /\ Awaits(items[Key], calls["awaited"]) /\ calls["awaited"] \in Call
           /\ calls["awaited"].at = "answered" /\ calls["awaited"].answer \in answers
           /\ \A j \in Keys : items[j].state = "going" => j = Key
<1>1. /\ calls["awaited"].at = "answered" /\ calls["awaited"].answer \in answers
      /\ calls["awaited"] \in Call
    BY Constants DEF Heard, Answer, IInv, TypeOK
<1>2. run.at # "off"
    BY <1>1 DEF IInv, Tab, RunFits
<1>3. run.at \in {"start", "status", "patch"}
    BY <1>1, <1>2, Working DEF Awaits, Runs
<1> QED BY <1>1, <1>2, <1>3, Working DEF Key

LEMMA EndAsKeeps ==
    ASSUME UploadsAssumption, IInv, TabStep, NEW answers, Heard(answers),
           NEW state \in States \ {"done", "gone", "going"}, EndAs(state)
    PROVE  IInv'
<1> DEFINE its == [items EXCEPT ![Key].state = state]
<1>1. Key \in Keys /\ \A j \in Keys : items[j].state = "going" => j = Key
    BY HeardOf
<1>2. CASE Going
    <2>1. PickNext(its)
        BY <1>2, <1>1, Working DEF EndAs, Its
    <2>2. state \in States \ {"done", "gone"}
        OBVIOUS
    <2>3. /\ Fitting(its) /\ its[Key].state = state
          /\ \A j \in Keys : j # Key => its[j] = items[j]
        BY <1>1, <2>2, StateChanges
    <2> HIDE DEF its
    <2> QED BY <1>1, <2>1, <2>3, PickNextKeeps
<1>3. CASE ~Going
    <2>1. PickNext(items)
        BY <1>3 DEF EndAs
    <2> QED BY <1>1, <1>3, <2>1, Working, PickNextKeeps DEF Going
<1> QED BY <1>2, <1>3

LEMMA LandKeeps ==
    ASSUME UploadsAssumption, IInv, TabStep, NEW answers, Heard(answers), Land,
           items[Key].upload # 0 =>
              \/ uploads[items[Key].upload].at = "landed"
              \/ uploads[items[Key].upload].at = "removed" /\ items[Key].finishing
    PROVE  IInv'
<1> DEFINE it == items[Key]
           new == [it EXCEPT !.state = "done", !.offset = it.size]
           its == [items EXCEPT ![Key] = new]
<1>1. /\ Key \in Keys /\ \A j \in Keys : items[j].state = "going" => j = Key
      /\ it \in Item /\ ItemFits(it) /\ it.state \in Worked
    BY HeardOf
<1>2. CASE Key \in Queued(items)
    <2>1. PickNext(its)
        BY <1>2, <1>1, Working DEF Land, Its
    <2>2. /\ new \in Item /\ new.state = "done" /\ new.upload = it.upload
          /\ new.size = it.size /\ new.finishing = it.finishing
        BY <1>1, SizesBounded DEF Item, States
    <2> HIDE DEF new
    <2>3. ItemFits(new)
        BY <1>1, <2>2 DEF ItemFits
    <2>4. Fitting(its) /\ its[Key] = new /\ \A j \in Keys : j # Key => its[j] = items[j]
        BY <1>1, <2>2, <2>3, ItemChanges
    <2> HIDE DEF its
    <2> QED BY <1>1, <2>1, <2>2, <2>4, PickNextKeeps
<1>3. CASE Key \notin Queued(items)
    <2>1. PickNext(items)
        BY <1>3 DEF Land
    <2>2. it.state = "gone"
        BY <1>1, <1>3 DEF Queued, Worked, States
    <2> QED BY <1>1, <2>1, <2>2, Working, PickNextKeeps
<1> QED BY <1>2, <1>3

\* send() goes on with its item changed.
LEMMA GoesOnWith ==
    ASSUME UploadsAssumption, IInv, TabStep, NEW answers, Heard(answers),
           NEW new \in Item, ItemFits(new), NEW r \in Runs, r.key = Key,
           Continue([items EXCEPT ![Key] = new], r)
    PROVE  IInv'
<1> DEFINE its == [items EXCEPT ![Key] = new]
<1>1. Key \in Keys /\ \A j \in Keys : items[j].state = "going" => j = Key
    BY HeardOf
<1>2. Fitting(its) /\ its[Key] = new /\ \A j \in Keys : j # Key => its[j] = items[j]
    BY <1>1, ItemChanges
<1> HIDE DEF its
<1>3. \A j \in Keys : its[j].state = "going" => j = r.key
    BY <1>1, <1>2
<1>4. Continue(its, r)
    BY DEF its
<1> QED BY <1>1, <1>2, <1>3, <1>4, ContinueKeeps

LEMMA GoesOnAsItIs ==
    ASSUME UploadsAssumption, IInv, TabStep, NEW answers, Heard(answers),
           NEW r \in Runs, r.key = Key, Continue(items, r)
    PROVE  IInv'
BY HeardOf, Working, ContinueKeeps

LEMMA KeptDone ==
    ASSUME UploadsAssumption, IInv, Done
    PROVE  IInv'
<1>1. Heard({"done"}) /\ Land /\ TabStep
    BY EventCounts DEF Done
<1>2. items[Key].upload # 0 => uploads[items[Key].upload].at = "landed"
    BY <1>1, HeardOf DEF Awaits
<1> QED BY <1>1, <1>2, LandKeeps

LEMMA KeptStarted ==
    ASSUME UploadsAssumption, IInv, Started
    PROVE  IInv'
<1> DEFINE it == items[Key]
           u == calls["awaited"].upload
           new == [it EXCEPT !.upload = u, !.offset = 0, !.finishing = FALSE]
           r == [run EXCEPT !.failures = 0]
<1>1. Heard({"started"})
    BY DEF Started
<1>2. /\ Key \in Keys /\ \A j \in Keys : items[j].state = "going" => j = Key
      /\ it \in Item /\ ItemFits(it) /\ it.state \in Worked /\ run \in Runs
      /\ Key = run.key
      /\ Known(u) /\ (Open(u) /\ it.state # "gone" => uploads[u].size = it.size)
    BY <1>1, HeardOf DEF Awaits
<1>3. CASE Key \in Queued(items)
    <2>1. Continue([items EXCEPT ![Key] = new], r) /\ TabStep
        BY <1>2, <1>3, Working DEF Started, Its, TabStep, beside, project, IInv, TypeOK
    <2>2. new \in Item /\ new.upload = u /\ new.state = it.state /\ new.size = it.size
        BY <1>2, SizesBounded DEF Item, Known
    <2>3. r \in Runs /\ r.key = Key
        BY <1>2, Constants DEF Runs, UploadsAssumption
    <2>4. it.state # "gone"
        BY <1>3 DEF Queued
    <2> HIDE DEF new, r
    <2>5. ItemFits(new)
        BY <1>2, <2>2, <2>4 DEF ItemFits, Worked
    <2> QED BY <1>1, <2>1, <2>2, <2>3, <2>5, GoesOnWith
<1>4. CASE Key \notin Queued(items)
    <2>1. PickNext(items) /\ TabStep
        BY <1>2, <1>4 DEF Started, TabStep, beside, project, IInv, TypeOK, Known
    <2>2. it.state = "gone"
        BY <1>2, <1>4 DEF Queued, Worked, States
    <2> QED BY <1>2, <2>1, <2>2, Working, PickNextKeeps
<1> QED BY <1>3, <1>4

LEMMA AtOffsetKeeps ==
    ASSUME UploadsAssumption, IInv, TabStep, NEW answers, Heard(answers),
           NEW finishing \in BOOLEAN, NEW r \in Runs, r.key = Key,
           Continue(AtOffset(finishing), r)
    PROVE  IInv'
<1> DEFINE it == items[Key]
           new == [it EXCEPT !.offset = calls["awaited"].from, !.finishing = finishing]
<1>1. CASE Key \in Queued(items)
    <2>1. Continue([items EXCEPT ![Key] = new], r)
        BY <1>1 DEF AtOffset, Its
    <2>2. /\ it \in Item /\ ItemFits(it) /\ it.state \in Worked
          /\ calls["awaited"].from \in Bytes
        BY HeardOf DEF Call
    <2>3. /\ new \in Item /\ new.upload = it.upload /\ new.state = it.state
          /\ new.size = it.size
        BY <2>2 DEF Item
    <2> HIDE DEF new
    <2>4. ItemFits(new)
        BY <2>2, <2>3 DEF ItemFits, Worked
    <2> QED BY <2>1, <2>3, <2>4, GoesOnWith
<1>2. CASE Key \notin Queued(items)
    BY <1>2, GoesOnAsItIs DEF AtOffset
<1> QED BY <1>1, <1>2

LEMMA KeptProgress ==
    ASSUME UploadsAssumption, IInv, Progress
    PROVE  IInv'
<1> DEFINE r == [run EXCEPT !.failures = 0, !.sync = FALSE]
<1>1. Heard({"at", "stored"}) /\ Continue(AtOffset(FALSE), r) /\ TabStep
    BY EventCounts DEF Progress
<1>2. run \in Runs /\ Key = run.key
    BY <1>1, HeardOf
<1>3. r \in Runs /\ r.key = Key
    <2>1. 0 \in 0..NETWORK_RETRIES
        BY DEF UploadsAssumption
    <2> QED BY <1>2, <2>1 DEF Runs
<1> HIDE DEF r
<1> QED BY <1>1, <1>3, AtOffsetKeeps

LEMMA KeptMismatch ==
    ASSUME UploadsAssumption, IInv, Mismatch
    PROVE  IInv'
<1>1. /\ Heard({"offset_mismatch"}) /\ Continue(AtOffset(items[Key].finishing), run)
      /\ TabStep
    BY EventCounts DEF Mismatch
<1>2. run \in Runs /\ Key = run.key /\ items[Key].finishing \in BOOLEAN
    BY <1>1, HeardOf DEF Item
<1> QED BY <1>1, <1>2, AtOffsetKeeps

LEMMA KeptBusy ==
    ASSUME UploadsAssumption, IInv, Busy
    PROVE  IInv'
<1> DEFINE it == items[Key]
           new == [it EXCEPT !.offset = it.size]
           its == [items EXCEPT ![Key] = new]
           r == [run EXCEPT !.at = "busy"]
<1>1. Heard({"project_busy"}) /\ TabStep
    BY EventCounts DEF Busy
<1>2. /\ Key \in Keys /\ \A j \in Keys : items[j].state = "going" => j = Key
      /\ it \in Item /\ ItemFits(it) /\ Key = run.key
      /\ calls["awaited"].at = "answered"
    BY <1>1, HeardOf
<1>3. CASE Going
    <2>1. items' = its /\ run' = r /\ Leave
        BY <1>2, <1>3 DEF Busy, Its, Leave
    <2>2. r \in Runs /\ r.at = "busy" /\ r.key = Key
        BY <1>2, RunAt
    <2>3. /\ new \in Item /\ new.state = "going" /\ new.upload = it.upload
          /\ new.size = it.size
        BY <1>2, <1>3, SizesBounded DEF Item, Going
    <2> HIDE DEF new, r
    <2>4. ItemFits(new)
        BY <1>2, <2>3 DEF ItemFits
    <2>5. Fitting(its) /\ its[Key] = new /\ \A j \in Keys : j # Key => its[j] = items[j]
        BY <1>2, <2>3, <2>4, ItemChanges
    <2> HIDE DEF its
    <2> QED BY <1>1, <1>2, <2>1, <2>2, <2>3, <2>5, LeaveKeeps DEF Worked
<1>4. CASE ~Going
    <2>1. PickNext(items)
        BY <1>4 DEF Busy
    <2> QED BY <1>1, <1>2, <1>4, <2>1, Working, PickNextKeeps DEF Going
<1> QED BY <1>3, <1>4

LEMMA KeptNoRoom ==
    ASSUME UploadsAssumption, IInv, NoRoom
    PROVE  IInv'
<1> DEFINE it == items[Key]
           off == IF Answer = "disk_full" THEN calls["awaited"].from ELSE it.offset
           new == [it EXCEPT !.state = "noRoom", !.offset = off]
           its == [items EXCEPT ![Key] = new]
<1>1. Heard({"disk_full", "not_enough_space"}) /\ TabStep
    BY EventCounts DEF NoRoom
<1>2. /\ Key \in Keys /\ \A j \in Keys : items[j].state = "going" => j = Key
      /\ it \in Item /\ ItemFits(it) /\ calls["awaited"].from \in Bytes
    BY <1>1, HeardOf DEF Call
<1>3. CASE Going
    <2>1. PickNext(its)
        BY <1>2, <1>3 DEF NoRoom, Its
    <2>2. off \in Bytes
        BY <1>2 DEF Item
    <2> HIDE DEF off
    <2>3. /\ new \in Item /\ new.state = "noRoom" /\ new.upload = it.upload
          /\ new.size = it.size
        BY <1>2, <2>2 DEF Item, States
    <2> HIDE DEF new
    <2>4. ItemFits(new)
        BY <1>2, <2>3 DEF ItemFits
    <2>5. Fitting(its) /\ its[Key] = new /\ \A j \in Keys : j # Key => its[j] = items[j]
        BY <1>2, <2>3, <2>4, ItemChanges
    <2> HIDE DEF its
    <2> QED BY <1>1, <1>2, <2>1, <2>3, <2>5, PickNextKeeps
<1>4. CASE ~Going
    <2>1. PickNext(items)
        BY <1>4 DEF NoRoom
    <2> QED BY <1>1, <1>2, <1>4, <2>1, Working, PickNextKeeps DEF Going
<1> QED BY <1>3, <1>4

LEMMA KeptNotFound ==
    ASSUME UploadsAssumption, IInv, NotFound
    PROVE  IInv'
<1> DEFINE it == items[Key]
           new == [it EXCEPT !.upload = 0, !.offset = 0, !.finishing = FALSE]
           r == [run EXCEPT !.restarted = TRUE]
<1>1. Heard({"upload_not_found"}) /\ TabStep
    BY EventCounts DEF NotFound
<1>2. /\ it \in Item /\ ItemFits(it) /\ it.state \in Worked
      /\ run \in Runs /\ Key = run.key /\ Key \in Keys
      /\ it.upload # 0 => ~Open(it.upload)
    BY <1>1, HeardOf DEF Awaits
<1>3. CASE Key \in Queued(items) /\ it.finishing
    <2>1. Land
        BY <1>3 DEF NotFound
    <2>2. ASSUME it.upload # 0
          PROVE  uploads[it.upload].at \in {"landed", "removed"}
        <3>1. Known(it.upload) /\ ~Open(it.upload)
            BY <1>2, <2>2 DEF ItemFits
        <3>2. uploads[it.upload].at \in {"none", "open", "landed", "removed"}
            BY <3>1 DEF Known, IInv, TypeOK
        <3> QED BY <3>1, <3>2 DEF Known, Open
    <2> QED BY <1>1, <1>3, <2>1, <2>2, LandKeeps
<1>4. CASE ~(Key \in Queued(items) /\ it.finishing) /\ run.restarted
    <2>1. EndAs("failed")
        BY <1>4 DEF NotFound
    <2> QED BY <1>1, <2>1, EndAsKeeps DEF States
<1>5. CASE ~(Key \in Queued(items) /\ it.finishing) /\ ~run.restarted
    <2>1. r \in Runs /\ r.key = Key
        BY <1>2 DEF Runs
    <2>2. Continue(IF Key \in Queued(items) THEN [items EXCEPT ![Key] = new] ELSE items, r)
        BY <1>5 DEF NotFound, Its
    <2>3. /\ new \in Item /\ new.upload = 0 /\ new.state = it.state
          /\ new.size = it.size
        BY <1>2, SizesBounded DEF Item
    <2> HIDE DEF new, r
    <2>4. ItemFits(new)
        BY <2>3 DEF ItemFits
    <2>5. CASE Key \in Queued(items)
        BY <1>1, <2>1, <2>2, <2>3, <2>4, <2>5, GoesOnWith
    <2>6. CASE Key \notin Queued(items)
        BY <1>1, <2>1, <2>2, <2>6, GoesOnAsItIs
    <2> QED BY <2>5, <2>6
<1> QED BY <1>3, <1>4, <1>5

LEMMA KeptDenied ==
    ASSUME UploadsAssumption, IInv, Denied
    PROVE  IInv'
<1> DEFINE it == items[Key]
           new == [it EXCEPT !.upload = 0, !.state = "failed"]
           its == [items EXCEPT ![Key] = new]
<1>1. Heard({"permission_denied"})
    BY DEF Denied
<1>2. /\ Key \in Keys /\ \A j \in Keys : items[j].state = "going" => j = Key
      /\ it \in Item
    BY <1>1, HeardOf
<1>3. TabStep
    BY <1>2 DEF Denied, TabStep, beside, project, IInv, TypeOK, Item
<1>4. CASE Going /\ it.upload # 0
    <2>1. PickNext(its)
        BY <1>2, <1>4 DEF Denied, Its
    <2>2. /\ new \in Item /\ new.state = "failed" /\ new.upload = 0
        BY <1>2 DEF Item, States
    <2> HIDE DEF new
    <2>3. ItemFits(new)
        BY <2>2 DEF ItemFits
    <2>4. Fitting(its) /\ its[Key] = new /\ \A j \in Keys : j # Key => its[j] = items[j]
        BY <1>2, <2>2, <2>3, ItemChanges
    <2> HIDE DEF its
    <2> QED BY <1>2, <1>3, <2>1, <2>2, <2>4, PickNextKeeps
<1>5. CASE ~(Going /\ it.upload # 0)
    <2>1. EndAs("failed")
        BY <1>5 DEF Denied
    <2> QED BY <1>1, <1>3, <2>1, EndAsKeeps DEF States
<1> QED BY <1>4, <1>5

LEMMA KeptSessionLost ==
    ASSUME UploadsAssumption, IInv, SessionLost
    PROVE  IInv'
BY EventCounts, EndAsKeeps DEF SessionLost, States

LEMMA KeptRefused ==
    ASSUME UploadsAssumption, IInv, Refused
    PROVE  IInv'
<1>1. Heard({"file_exists", "other"}) /\ TabStep
    BY EventCounts DEF Refused
<1>2. PICK state \in {"exists", "failed"} : EndAs(state)
    BY DEF Refused
<1> QED BY <1>1, <1>2, EndAsKeeps DEF States

LEMMA KeptUnreachable ==
    ASSUME UploadsAssumption, IInv, Unreachable
    PROVE  IInv'
<1>1. Asking /\ Leave /\ run.at # "off"
    BY DEF Unreachable, Asking
<1>2. TabStep
    BY EventCounts DEF Unreachable, TabStep, beside, project, IInv, TypeOK
<1>3. /\ run \in Runs /\ Key = run.key /\ Key \in Keys /\ items[Key].state \in Worked
      /\ \A j \in Keys : items[j].state = "going" => j = Key
      /\ run.failures \in Nat
    BY <1>1, Working DEF Key, Runs
<1>4. CASE run.failures < NETWORK_RETRIES
    <2> DEFINE more == run.failures + 1
               r == [run EXCEPT !.at = "backoff", !.failures = more]
    <2>1. run' = r /\ items' = items
        BY <1>4 DEF Unreachable
    <2>2. more \in 0..NETWORK_RETRIES
        BY <1>3, <1>4 DEF UploadsAssumption
    <2> HIDE DEF more
    <2>3. r \in Runs /\ r.at = "backoff" /\ r.key = Key
        BY <1>3, <2>2 DEF Runs
    <2> HIDE DEF r
    <2> QED BY <1>1, <1>2, <1>3, <2>1, <2>3, Working, LeaveKeeps
<1>5. CASE ~(run.failures < NETWORK_RETRIES)
    <2> DEFINE r == [run EXCEPT !.at = "returned"]
               its == [items EXCEPT ![Key].state = "stalled"]
    <2>1. r \in Runs /\ r.at = "returned" /\ r.key = Key
        BY <1>3, RunAt
    <2>2. run' = r
        BY <1>5 DEF Unreachable
    <2> HIDE DEF r
    <2>3. CASE Going
        <3>1. items' = its
            BY <1>3, <1>5, <2>3, Working DEF Unreachable, Its
        <3>2. /\ Fitting(its) /\ its[Key].state = "stalled"
              /\ \A j \in Keys : j # Key => its[j] = items[j]
            BY <1>3, StateChanges DEF States
        <3> HIDE DEF its
        <3> QED BY <1>1, <1>2, <1>3, <2>1, <2>2, <3>1, <3>2, LeaveKeeps DEF Worked
    <2>4. CASE ~Going
        <3>1. items' = items
            BY <1>5, <2>4 DEF Unreachable
        <3> QED BY <1>1, <1>2, <1>3, <2>1, <2>2, <2>4, <3>1, Working, LeaveKeeps DEF Going
    <2> QED BY <2>3, <2>4
<1> QED BY <1>4, <1>5

LEMMA KeptWake ==
    ASSUME UploadsAssumption, IInv, Wake
    PROVE  IInv'
<1> DEFINE sync == items[Key].upload # 0
<1>1. TabStep /\ run.at # "off"
    BY EventCounts DEF Wake
<1>2. /\ run \in Runs /\ Key = run.key /\ Key \in Keys
      /\ \A j \in Keys : items[j].state = "going" => j = Key
    BY <1>1, Working DEF Key
<1>3. sync \in BOOLEAN
    OBVIOUS
<1>4. \E r \in {run, [run EXCEPT !.sync = sync]} : Continue(items, r)
    BY DEF Wake
<1> HIDE DEF sync
<1>5. PICK r \in Runs : r.key = Key /\ Continue(items, r)
    <2>1. [run EXCEPT !.sync = sync] \in Runs /\ [run EXCEPT !.sync = sync].key = Key
        BY <1>2, <1>3 DEF Runs
    <2> QED BY <1>2, <1>4, <2>1
<1> QED BY <1>1, <1>2, <1>5, Working, ContinueKeeps

-----------------------------------------------------------------------------
\* The API.

\* The way of an upload.
Advances(old, new) ==
    \/ new = old
    \/ old.at = "none" /\ new.at = "open"
    \/ /\ old.at = "open" /\ new.at \in {"open", "landed", "removed"}
       /\ new.at = "open" => new.size = old.size

Advance ==
    /\ uploads' \in [Ids -> Upload] /\ StoreOK'
    /\ \A u \in Ids : Advances(uploads[u], uploads'[u])

\* Nobody finds other data than it has written, nor, with the project's lock,
\* the project deleted.
Spares(d) ==
    /\ calls[d].at = "write" =>
          \/ uploads'[calls[d].upload].at # "open"
          \/ uploads'[calls[d].upload].data = uploads[calls[d].upload].data
    /\ calls[d].at = "land" => row' /\ holder' = "none"

\* A step of the API, in which call c is dealt with.
Serves(c) ==
    /\ UNCHANGED tab /\ Advance
    /\ present' \in BOOLEAN /\ UNCHANGED <<row, holder, swept, listed>>
    /\ cancels' \subseteq Ids /\ events' \in 0..MaxEvents
    /\ \A d \in Slots : d # c => Spares(d)

\* What the answer says of the upload is so.
Told(c, answer, u) ==
    LET old == calls[c]
    IN  \/ answer \notin {"started", "done", "upload_not_found"}
        \/ /\ answer = "upload_not_found"
           /\ old.at \in {"status", "patch", "lock", "finish", "land"}
           /\ uploads'[old.upload].at # "open"
        \/ answer = "done" /\ old.at = "land" /\ uploads'[old.upload].at = "landed"
        \/ /\ answer = "started" /\ old.at = "create"
           /\ u \in Ids /\ uploads'[u].at = "open" /\ uploads'[u].size = old.to

Onward ==
    {<<"start", "create">>, <<"patch", "lock">>, <<"lock", "write">>,
     <<"write", "finish">>, <<"finish", "land">>}

LEMMA Stays ==
    ASSUME IInv, UNCHANGED uploads
    PROVE  Advance
BY DEF IInv, Stores, StoreOK, TypeOK, Advance, Advances, Upload

LEMMA UploadChanges ==
    ASSUME IInv, NEW u \in Ids, NEW new \in Upload, Prefixed(new),
           Advances(uploads[u], new), uploads' = [uploads EXCEPT ![u] = new]
    PROVE  /\ Advance /\ uploads'[u] = new
           /\ \A w \in Ids : w # u => uploads'[w] = uploads[w]
<1>1. uploads \in [Ids -> Upload] /\ \A w \in Ids : Prefixed(uploads[w])
    BY DEF IInv, TypeOK, Upload, Stores, StoreOK
<1>2. /\ uploads' \in [Ids -> Upload] /\ uploads'[u] = new
      /\ \A w \in Ids : w # u => uploads'[w] = uploads[w]
    BY <1>1
<1>3. \A w \in Ids : Prefixed(uploads'[w])
    BY <1>1, <1>2
<1>4. StoreOK'
    BY <1>3 DEF StoreOK, Prefixed
<1>5. \A w \in Ids : Advances(uploads[w], uploads'[w])
    BY <1>2 DEF Advances
<1> QED BY <1>2, <1>4, <1>5 DEF Advance

\* So does the list.
LEMMA ListGoesOn ==
    ASSUME IInv, Advance, swept' \subseteq Ids, listed' \subseteq listed
    PROVE  ListFits'
BY DEF IInv, ListFits, Advance, Advances, Known, Open

LEMMA CallStays ==
    ASSUME IInv, Advance, NEW d \in Slots, calls'[d] = calls[d], Spares(d)
    PROVE  CallFits(calls[d])'
<1>1. CallFits(calls[d])
    BY DEF IInv, Stores, CallsFit
<1>2. \A u \in Ids : Advances(uploads[u], uploads'[u])
    BY DEF Advance
<1>3. ASSUME Known(calls[d].upload)
      PROVE  /\ Known(calls[d].upload)'
             /\ Open(calls[d].upload)' =>
                  /\ Open(calls[d].upload)
                  /\ uploads'[calls[d].upload].size = uploads[calls[d].upload].size
    BY <1>2, <1>3 DEF Known, Open, Advances
<1> QED BY <1>1, <1>3 DEF CallFits, Spares, Known, Open

\* The items keep their uploads as these go their way.
LEMMA ItemsStay ==
    ASSUME IInv, Advance, UNCHANGED tab
    PROVE  ItemsFit' /\ QueueMoves'
<1>1. UNCHANGED <<items, run>> /\ \A u \in Ids : Advances(uploads[u], uploads'[u])
    BY DEF tab, Advance
<1>2. ASSUME NEW k \in Keys
      PROVE  ItemFits(items[k])'
    BY <1>1, Working DEF ItemFits, Known, Open, Advances
<1>3. QueueMoves'
    BY <1>1 DEF IInv, Tab, QueueMoves, Key, Held
<1> QED BY <1>2, <1>3 DEF ItemsFit

LEMMA AwaitedStays ==
    ASSUME IInv, Advance, UNCHANGED tab, calls'["awaited"] = calls["awaited"]
    PROVE  RunFits'
<1>1. UNCHANGED <<items, run>> /\ \A u \in Ids : Advances(uploads[u], uploads'[u])
    BY DEF tab, Advance
<1>2. CASE run.at = "off"
    BY <1>1, <1>2 DEF IInv, Tab, RunFits
<1>3. CASE run.at # "off"
    <2> DEFINE it == items[Key]
               call == calls["awaited"]
    <2>1. Key \in Keys /\ it.state \in Worked /\ Awaits(it, call) /\ ItemFits(it)
        BY <1>3, Working DEF Key
    <2>2. ASSUME it.upload # 0
          PROVE  /\ uploads[it.upload].at = "landed" => uploads'[it.upload].at = "landed"
                 /\ ~Open(it.upload) => uploads'[it.upload].at # "open"
        BY <1>1, <2>1, <2>2 DEF ItemFits, Known, Open, Advances
    <2>3. ASSUME Known(call.upload)
          PROVE  /\ uploads'[call.upload].at # "none"
                 /\ uploads'[call.upload].at = "open" =>
                      /\ Open(call.upload)
                      /\ uploads'[call.upload].size = uploads[call.upload].size
        BY <1>1, <2>3 DEF Known, Open, Advances
    <2>4. Awaits(items[Key], calls["awaited"])'
        BY <1>1, <2>1, <2>2, <2>3 DEF Awaits, Known, Open, Key
    <2> QED BY <1>1, <1>3, <2>1, <2>4 DEF RunFits, Key
<1> QED BY <1>2, <1>3

\* The request that the queue waits for is answered, or goes on.
LEMMA AwaitedGoesOn ==
    ASSUME IInv, Advance, UNCHANGED tab, calls["awaited"].at \notin {"none", "answered"},
           \/ /\ calls'["awaited"].at = "answered"
              /\ Told("awaited", calls'["awaited"].answer, calls'["awaited"].upload)
           \/ calls["awaited"].at = "create" /\ calls'["awaited"].at = "finish"
           \/ /\ <<calls["awaited"].at, calls'["awaited"].at>> \in Onward
              /\ calls'["awaited"].upload = calls["awaited"].upload
              /\ calls'["awaited"].to = calls["awaited"].to
    PROVE  RunFits'
<1> DEFINE it == items[Key]
           old == calls["awaited"]
           new == calls'["awaited"]
<1>1. UNCHANGED <<items, run>>
    BY DEF tab
<1>2. run.at # "off"
    BY DEF IInv, Tab, RunFits
<1>3. Key \in Keys /\ it.state \in Worked /\ Awaits(it, old) /\ ItemFits(it) /\ run \in Runs
    BY <1>2, Working DEF Key
<1>4. run.at \in {"start", "status", "patch"}
    BY <1>2, <1>3 DEF Awaits, Runs
<1>5. CASE new.at = "answered" /\ Told("awaited", new.answer, new.upload)
    <2>1. new.answer = "started" =>
             /\ run.at = "start" /\ new.upload \in Ids /\ uploads'[new.upload].at = "open"
             /\ it.state # "gone" => uploads'[new.upload].size = it.size
        <3>1. new.answer = "started" =>
                 /\ old.at = "create" /\ new.upload \in Ids
                 /\ uploads'[new.upload].at = "open" /\ uploads'[new.upload].size = old.to
            BY <1>5 DEF Told
        <3>2. old.at = "create" => run.at = "start" /\ (it.state # "gone" => old.to = it.size)
            BY <1>3, <1>4 DEF Awaits
        <3> QED BY <3>1, <3>2
    <2>2. new.answer = "done" /\ it.upload # 0 => uploads'[it.upload].at = "landed"
        BY <1>3, <1>4, <1>5 DEF Told, Awaits, ItemFits
    <2>3. new.answer = "upload_not_found" /\ it.upload # 0 => uploads'[it.upload].at # "open"
        BY <1>3, <1>4, <1>5 DEF Told, Awaits, ItemFits
    <2>4. Awaits(items[Key], calls["awaited"])'
        <3>1. new.at = "answered"
            BY <1>5
        <3>2. run.at = "start" => it.upload = 0
            BY <1>3 DEF Awaits
        <3> QED BY <1>1, <1>4, <2>1, <2>2, <2>3, <3>1, <3>2 DEF Awaits, Known, Open, Key
    <2> QED BY <1>1, <1>2, <1>3, <2>4 DEF RunFits, Key
<1>6. CASE old.at = "create" /\ new.at = "finish"
    <2>1. Awaits(items[Key], calls["awaited"])'
        BY <1>1, <1>3, <1>4, <1>6 DEF Awaits, Key
    <2> QED BY <1>1, <1>2, <1>3, <2>1 DEF RunFits, Key
<1>7. CASE <<old.at, new.at>> \in Onward /\ new.upload = old.upload /\ new.to = old.to
    <2>1. Awaits(items[Key], calls["awaited"])'
        BY <1>1, <1>3, <1>4, <1>7 DEF Awaits, Key, Onward
    <2> QED BY <1>1, <1>2, <1>3, <2>1 DEF RunFits, Key
<1> QED BY <1>5, <1>6, <1>7

\* One call is dealt with.
LEMMA ServedKeeps ==
    ASSUME UploadsAssumption, IInv, NEW c \in Slots, Serves(c),
           calls' \in [Slots -> Call], \A d \in Slots : d # c => calls'[d] = calls[d],
           CallFits(calls[c])',
           calls'[c].at = "write" =>
              \A d \in Slots : d # c =>
                 ~(calls[d].at = "write" /\ calls[d].upload = calls'[c].upload),
           c = "awaited" => RunFits'
    PROVE  IInv'
<1>1. Advance /\ UNCHANGED tab
    BY DEF Serves
<1>8. ListFits'
    BY <1>1, ListGoesOn DEF Serves, IInv, TypeOK
<1>2. TypeOK'
    BY DEF Serves, Advance, tab, IInv, TypeOK, Upload
<1>3. CallsFit'
    <2>1. \A d \in Slots : d # c => CallFits(calls[d])'
        BY <1>1, CallStays DEF Serves
    <2> QED BY <2>1 DEF CallsFit
<1>4. OneWriter'
    BY DEF IInv, Stores, OneWriter
<1>5. StoreOK'
    BY <1>1 DEF Advance
<1>6. ItemsFit' /\ QueueMoves'
    BY <1>1, ItemsStay
<1>7. RunFits'
    BY <1>1, AwaitedStays DEF Slots
<1> QED BY <1>2, <1>3, <1>4, <1>5, <1>6, <1>7, <1>8 DEF IInv, Stores, Tab

\* It is answered.
LEMMA AnsweredKeeps ==
    ASSUME UploadsAssumption, IInv, NEW c \in Slots, Serves(c),
           calls[c].at \notin {"none", "answered"},
           NEW answer \in Answers, NEW offset \in Bytes, NEW u \in Ids \cup {0},
           Reply(c, answer, offset, u), Told(c, answer, u)
    PROVE  IInv'
<1> DEFINE call == [NoCall EXCEPT !.at = "answered", !.answer = answer,
                                  !.from = offset, !.upload = u]
<1>1. NoCall \in Call /\ NoCall.at = "none" /\ calls \in [Slots -> Call]
    BY Constants DEF IInv, TypeOK
<1>2. /\ call \in Call /\ call.at = "answered" /\ call.answer = answer
      /\ call.upload = u
    BY <1>1 DEF Call
<1>3. calls' = [calls EXCEPT ![c] = IF c = "stray" THEN NoCall ELSE call]
    BY DEF Reply
<1> HIDE DEF call
<1>4. /\ calls' \in [Slots -> Call] /\ \A d \in Slots : d # c => calls'[d] = calls[d]
      /\ calls'[c] = IF c = "stray" THEN NoCall ELSE call
    BY <1>1, <1>2, <1>3
<1>5. calls'[c].at \in {"none", "answered"}
    BY <1>1, <1>2, <1>4
<1>6. CallFits(calls[c])'
    BY <1>5 DEF CallFits
<1>7. ASSUME c = "awaited" PROVE RunFits'
    <2>1. /\ calls'["awaited"].at = "answered" /\ calls'["awaited"].answer = answer
          /\ calls'["awaited"].upload = u
        BY <1>2, <1>4, <1>7
    <2>2. Told("awaited", calls'["awaited"].answer, calls'["awaited"].upload)
        BY <1>7, <2>1
    <2> QED BY <1>7, <2>1, <2>2, AwaitedGoesOn DEF Serves
<1> QED BY <1>4, <1>5, <1>6, <1>7, ServedKeeps

\* It goes on.
LEMMA GotoKeeps ==
    ASSUME UploadsAssumption, IInv, NEW c \in Slots, Serves(c),
           NEW at, Goto(c, at), <<calls[c].at, at>> \in Onward,
           CallFits(calls[c])',
           at = "write" =>
              \A d \in Slots : d # c =>
                 ~(calls[d].at = "write" /\ calls[d].upload = calls[c].upload)
    PROVE  IInv'
<1> DEFINE call == [calls[c] EXCEPT !.at = at]
<1>1. /\ calls \in [Slots -> Call] /\ calls[c] \in Call
      /\ at \in {"create", "lock", "write", "finish", "land"}
      /\ calls[c].at \notin {"none", "answered"}
    BY DEF IInv, TypeOK, Onward
<1>2. /\ call \in Call /\ call.at = at /\ call.upload = calls[c].upload
      /\ call.to = calls[c].to
    BY <1>1 DEF Call
<1>3. calls' = [calls EXCEPT ![c] = call]
    BY DEF Goto
<1> HIDE DEF call
<1>4. /\ calls' \in [Slots -> Call] /\ \A d \in Slots : d # c => calls'[d] = calls[d]
      /\ calls'[c] = call
    BY <1>1, <1>2, <1>3
<1>5. c = "awaited" => RunFits'
    BY <1>1, <1>2, <1>4, AwaitedGoesOn DEF Serves
<1> QED BY <1>2, <1>4, <1>5, ServedKeeps

-----------------------------------------------------------------------------
\* The steps of the API.

\* A call, and what the store has of its upload.
LEMMA CallOf ==
    ASSUME UploadsAssumption, IInv, NEW c \in Slots
    PROVE  /\ calls[c] \in Call /\ CallFits(calls[c])
           /\ calls[c].from \in Nat /\ calls[c].to \in Nat
BY SizesBounded DEF IInv, TypeOK, Stores, CallsFit, Call

LEMMA StoreOf ==
    ASSUME UploadsAssumption, IInv, NEW u \in Ids
    PROVE  /\ uploads[u] \in Upload /\ Prefixed(uploads[u])
           /\ uploads[u].size \in Nat /\ Stored(u) \in Bytes
           /\ uploads[u].data = Prefix(Stored(u)) /\ Stored(u) <= uploads[u].size
<1>1. uploads[u] \in Upload /\ Prefixed(uploads[u])
    BY DEF IInv, TypeOK, Upload, Stores, StoreOK
<1>2. uploads[u].size \in Bytes /\ uploads[u].size \in Nat
    BY <1>1, SizesBounded DEF Upload
<1>3. PICK n \in 0..uploads[u].size : uploads[u].data = Prefix(n)
    BY <1>1 DEF Prefixed
<1>4. Stored(u) = n
    <2>1. Max({0} \cup {b + 1 : b \in Prefix(n)}) = n
        BY <1>2, <1>3, StoredOf
    <2> QED BY <1>3, <2>1 DEF Stored
<1>5. n \in Bytes
    BY <1>2, <1>3, SizesBounded
<1> QED BY <1>1, <1>2, <1>3, <1>4, <1>5

LEMMA ServesWithout ==
    ASSUME UploadsAssumption, IInv, NEW c \in Slots,
           UNCHANGED <<tab, cancels, uploads, row, holder, swept, listed>>,
           present' \in BOOLEAN, events' \in 0..MaxEvents
    PROVE  Serves(c)
<1>1. Advance
    BY Stays
<1>2. \A d \in Slots : Spares(d)
    BY CallOf DEF Spares, CallFits
<1> QED BY <1>1, <1>2 DEF Serves, IInv, TypeOK

LEMMA ServesUpload ==
    ASSUME UploadsAssumption, IInv, NEW c \in Slots,
           UNCHANGED <<tab, cancels, row, holder, swept, listed>>,
           present' \in BOOLEAN, events' \in 0..MaxEvents, Advance,
           NEW u \in Ids, \A w \in Ids : w # u => uploads'[w] = uploads[w],
           \A d \in Slots : d # c /\ calls[d].at = "write" =>
              calls[d].upload # u \/ uploads'[u].at # "open"
    PROVE  Serves(c)
<1>1. ASSUME NEW d \in Slots, d # c PROVE Spares(d)
    <2>1. CallFits(calls[d])
        BY CallOf
    <2> QED BY <1>1, <2>1 DEF Spares, CallFits, Known
<1> QED BY <1>1 DEF Serves, IInv, TypeOK

\* An answer that says nothing of the upload.
LEMMA SaidKeeps ==
    ASSUME UploadsAssumption, IInv, NEW c \in Slots, Serves(c),
           calls[c].at \notin {"none", "answered"},
           NEW answer \in Answers, Say(c, answer), Told(c, answer, 0)
    PROVE  IInv'
<1>1. 0 \in Bytes /\ 0 \in Ids \cup {0}
    BY SizesBounded
<1> QED BY <1>1, AnsweredKeeps DEF Say

LEMMA KeptNoSession ==
    ASSUME UploadsAssumption, IInv, NEW c \in Slots, NoSession(c)
    PROVE  IInv'
<1>1. Serves(c)
    BY EventCounts, ServesWithout DEF NoSession, beside, project, IInv, TypeOK
<1> QED BY <1>1, SaidKeeps DEF NoSession, Told, Answers

LEMMA KeptStartCheck ==
    ASSUME UploadsAssumption, IInv, NEW c \in Slots, StartCheck(c)
    PROVE  IInv'
<1>1. Serves(c) /\ calls[c].at = "start"
    BY ServesWithout DEF StartCheck, Silent, beside, project, IInv, TypeOK
<1>2. CASE \E answer \in {"other", "file_exists"} : Say(c, answer)
    BY <1>1, <1>2, SaidKeeps DEF Told, Answers
<1>3. CASE Goto(c, "create")
    <2>1. CallFits(calls[c])'
        <3>1. /\ calls'[c].at = "create" /\ calls'[c].to = calls[c].to
            BY <1>3, CallOf DEF Goto, IInv, TypeOK, Call
        <3> QED BY <1>1, <3>1, CallOf DEF CallFits
    <2> QED BY <1>1, <1>3, <2>1, GotoKeeps DEF Onward
<1> QED BY <1>2, <1>3 DEF StartCheck

LEMMA KeptStart ==
    ASSUME UploadsAssumption, IInv, NEW c \in Slots, Start(c)
    PROVE  IInv'
<1>1. /\ calls[c].at = "create" /\ UNCHANGED <<tab, cancels, row, holder, swept, listed>>
      /\ present' \in BOOLEAN /\ events' \in 0..MaxEvents
    BY DEF Start, Silent, beside, project, IInv, TypeOK
<1>2. CASE Say(c, "not_enough_space") /\ UNCHANGED uploads
    BY <1>1, <1>2, ServesWithout, SaidKeeps DEF Told, Answers
<1>3. CASE ~(Say(c, "not_enough_space") /\ UNCHANGED uploads)
    <2> DEFINE free == {u \in Ids : uploads[u].at = "none"}
               u == Min(free)
               size == calls[c].to
               new == [NoUpload EXCEPT !.at = "open", !.size = size,
                                       !.replace = calls[c].replace]
               call == [NoCall EXCEPT !.at = "finish", !.upload = u]
    <2>1. /\ free # {} /\ uploads' = [uploads EXCEPT ![u] = new]
          /\ IF size = 0 THEN calls' = [calls EXCEPT ![c] = call]
             ELSE Reply(c, "started", 0, u)
        BY <1>3 DEF Start
    <2>2. u \in Ids /\ uploads[u].at = "none"
        <3>1. free \subseteq Nat
            BY DEF Ids
        <3>2. u \in free
            BY <2>1, <3>1, LeastExists
        <3> QED BY <3>2
    <2> HIDE DEF u
    <2>3. size \in Sizes \cup {0} /\ size \in Nat /\ calls[c].replace \in BOOLEAN
        BY <1>1, CallOf DEF CallFits, Call
    <2> HIDE DEF size
    <2>4. /\ new \in Upload /\ new.at = "open" /\ new.size = size /\ new.data = {}
        BY <2>3, Constants DEF Upload
    <2> HIDE DEF new
    <2>5. Prefixed(new)
        BY <2>3, <2>4 DEF Prefixed, Prefix
    <2>6. \A d \in Slots : calls[d].at = "write" => calls[d].upload # u
        BY <2>2, CallOf DEF CallFits, Known
    <2>7. Serves(c) /\ uploads'[u] = new
        <3>1. Advances(uploads[u], new) /\ uploads' = [uploads EXCEPT ![u] = new]
            BY <2>1, <2>2, <2>4 DEF Advances
        <3>2. /\ Advance /\ uploads'[u] = new
              /\ \A w \in Ids : w # u => uploads'[w] = uploads[w]
            BY <2>2, <2>4, <2>5, <3>1, UploadChanges
        <3> QED BY <1>1, <2>2, <2>6, <3>2, ServesUpload
    <2>8. CASE size # 0
        <3>1. Reply(c, "started", 0, u) /\ Told(c, "started", u)
            BY <1>1, <2>1, <2>2, <2>4, <2>7, <2>8 DEF Told, size
        <3> QED BY <1>1, <2>2, <2>7, <3>1, SizesBounded, AnsweredKeeps DEF Answers
    <2>9. CASE size = 0
        <3>1. /\ call \in Call /\ call.at = "finish" /\ call.upload = u
            BY <2>2, Constants DEF Call
        <3>2. calls' = [calls EXCEPT ![c] = call]
            BY <2>1, <2>9
        <3> HIDE DEF call
        <3>3. /\ calls' \in [Slots -> Call] /\ calls'[c] = call
              /\ \A d \in Slots : d # c => calls'[d] = calls[d]
            BY <3>1, <3>2 DEF IInv, TypeOK
        <3>4. CallFits(calls[c])'
            BY <2>2, <2>4, <2>7, <3>1, <3>3 DEF CallFits, Known
        <3>5. c = "awaited" => RunFits'
            BY <1>1, <2>7, <3>1, <3>3, AwaitedGoesOn DEF Serves
        <3> QED BY <2>7, <3>1, <3>3, <3>4, <3>5, ServedKeeps
    <2> QED BY <2>8, <2>9
<1> QED BY <1>2, <1>3

LEMMA KeptStatus ==
    ASSUME UploadsAssumption, IInv, NEW c \in Slots, Status(c)
    PROVE  IInv'
<1> DEFINE u == calls[c].upload
<1>1. Serves(c) /\ calls[c].at = "status" /\ u \in Ids /\ UNCHANGED uploads
    BY ServesWithout, CallOf DEF Status, Silent, beside, project, IInv, TypeOK, CallFits, Known
<1>2. CASE Open(u)
    <2>1. Reply(c, "at", Stored(u), 0) /\ Stored(u) \in Bytes
        BY <1>1, <1>2, StoreOf DEF Status
    <2> QED BY <1>1, <2>1, AnsweredKeeps DEF Told, Answers
<1>3. CASE ~Open(u)
    <2>1. Say(c, "upload_not_found") /\ Told(c, "upload_not_found", 0)
        BY <1>1, <1>3 DEF Status, Told, Open
    <2> QED BY <1>1, <2>1, SaidKeeps DEF Answers
<1> QED BY <1>2, <1>3

LEMMA KeptAppendFind ==
    ASSUME UploadsAssumption, IInv, NEW c \in Slots, AppendFind(c)
    PROVE  IInv'
<1> DEFINE u == calls[c].upload
<1>1. Serves(c) /\ calls[c].at = "patch" /\ UNCHANGED uploads
    BY ServesWithout DEF AppendFind, Silent, beside, project, IInv, TypeOK
<1>2. CASE Open(u)
    <2>1. Goto(c, "lock")
        BY <1>2 DEF AppendFind
    <2>2. /\ calls'[c].at = "lock" /\ calls'[c].upload = u
          /\ calls'[c].to = calls[c].to
        BY <2>1, CallOf DEF Goto, IInv, TypeOK, Call
    <2>3. CallFits(calls[c])'
        BY <1>1, <2>2, CallOf DEF CallFits, Known, Open
    <2> QED BY <1>1, <2>1, <2>3, GotoKeeps DEF Onward
<1>3. CASE ~Open(u)
    <2>1. Say(c, "upload_not_found") /\ Told(c, "upload_not_found", 0)
        BY <1>1, <1>3 DEF AppendFind, Told, Open
    <2> QED BY <1>1, <2>1, SaidKeeps DEF Answers
<1> QED BY <1>2, <1>3

\* The upload with other data.
LEMMA DataChanges ==
    ASSUME UploadsAssumption, IInv, NEW u \in Ids, Open(u),
           NEW n \in Nat, n <= uploads[u].size, NEW bytes, bytes = Prefix(n),
           WriteTo(u, bytes)
    PROVE  /\ Advance /\ uploads'[u].at = "open"
           /\ uploads'[u].size = uploads[u].size /\ uploads'[u].data = Prefix(n)
           /\ \A w \in Ids : w # u => uploads'[w] = uploads[w]
<1> DEFINE new == [uploads[u] EXCEPT !.data = bytes]
<1>1. uploads[u] \in Upload /\ uploads[u].size \in Bytes /\ uploads[u].at = "open"
    BY StoreOf, SizesBounded DEF Upload, Open
<1>2. bytes \subseteq Bytes
    <2>1. uploads[u].size \in Nat
        BY StoreOf
    <2>2. ASSUME NEW b \in Prefix(n) PROVE b \in Nat /\ b <= uploads[u].size
        <3>1. b \in Nat /\ b <= n
            BY DEF Prefix
        <3> QED BY <2>1, <3>1
    <2> QED BY <1>1, <2>2, SizesBounded
<1>3. /\ new \in Upload /\ new.at = "open" /\ new.size = uploads[u].size
      /\ new.data = Prefix(n)
    BY <1>1, <1>2 DEF Upload
<1>4. uploads' = [uploads EXCEPT ![u] = new]
    BY DEF WriteTo
<1> HIDE DEF new
<1>5. Prefixed(new) /\ Advances(uploads[u], new)
    BY <1>1, <1>3, SizesBounded DEF Prefixed, Advances
<1>6. /\ Advance /\ uploads'[u] = new
      /\ \A w \in Ids : w # u => uploads'[w] = uploads[w]
    BY <1>3, <1>4, <1>5, UploadChanges
<1> QED BY <1>3, <1>6

LEMMA KeptAppend ==
    ASSUME UploadsAssumption, IInv, NEW c \in Slots, Append(c)
    PROVE  IInv'
<1> DEFINE u == calls[c].upload
           from == calls[c].from
           to == calls[c].to
           bytes == uploads[u].data \cup IF from < to THEN {from} ELSE {}
<1>1. /\ calls[c].at = "lock" /\ ~UploadLocked(u)
      /\ UNCHANGED <<tab, cancels, row, holder, swept, listed>>
      /\ present' \in BOOLEAN /\ events' \in 0..MaxEvents
    BY DEF Append, AppendIf, Silent, beside, project, IInv, TypeOK
<1>2. /\ u \in Ids /\ Known(u) /\ from \in Nat /\ to \in Nat /\ calls[c] \in Call
      /\ Open(u) => to <= uploads[u].size
    BY <1>1, CallOf DEF CallFits, Known
<1>3. CASE ~Open(u)
    <2>1. UNCHANGED uploads /\ Say(c, "upload_not_found")
        BY <1>3 DEF Append, AppendIf
    <2>2. Serves(c) /\ Told(c, "upload_not_found", 0)
        BY <1>1, <1>3, <2>1, ServesWithout DEF Told, Open
    <2> QED BY <1>1, <2>1, <2>2, SaidKeeps DEF Answers
<1>4. CASE Open(u) /\ from # Stored(u)
    <2>1. UNCHANGED uploads /\ Reply(c, "offset_mismatch", Stored(u), 0)
        BY <1>4 DEF Append, AppendIf
    <2>2. Serves(c) /\ Told(c, "offset_mismatch", 0) /\ Stored(u) \in Bytes
        BY <1>1, <1>2, <2>1, ServesWithout, StoreOf DEF Told
    <2> QED BY <1>1, <2>1, <2>2, AnsweredKeeps DEF Answers
<1>5. CASE Open(u) /\ from = Stored(u)
    <2>1. Goto(c, "write") /\ WriteTo(u, bytes)
        BY <1>5 DEF Append, AppendIf
    <2> DEFINE n == IF from < to THEN from + 1 ELSE from
    <2>2. uploads[u].data = Prefix(from) /\ from <= uploads[u].size
        <3>1. u \in Ids /\ from = Stored(u)
            BY <1>2, <1>5
        <3>2. uploads[u].data = Prefix(Stored(u)) /\ Stored(u) <= uploads[u].size
            BY <3>1, StoreOf
        <3> HIDE DEF u, from
        <3> QED BY <3>1, <3>2
    <2>3. bytes = Prefix(n)
        BY <1>2, <2>2, PrefixGrows
    <2>4. n \in Nat /\ n <= uploads[u].size
        <3>1. uploads[u].size \in Nat
            BY <1>2, StoreOf
        <3> QED BY <1>2, <1>5, <2>2, <3>1
    <2> HIDE DEF bytes
    <2>5. /\ Advance /\ uploads'[u].at = "open"
          /\ uploads'[u].size = uploads[u].size /\ uploads'[u].data = Prefix(n)
          /\ \A w \in Ids : w # u => uploads'[w] = uploads[w]
        BY <1>2, <1>5, <2>1, <2>3, <2>4, DataChanges
    <2>6. Serves(c)
        <3>1. \A d \in Slots : calls[d].at = "write" => calls[d].upload # u
            BY <1>1 DEF UploadLocked
        <3> QED BY <1>1, <1>2, <2>5, <3>1, ServesUpload
    <2>7. /\ calls'[c].at = "write" /\ calls'[c].upload = u
          /\ calls'[c].to = to /\ calls'[c].from = from
        BY <1>2, <2>1 DEF Goto, IInv, TypeOK, Call
    <2>8. uploads'[u].data = Prefix(from) \cup (IF from < to THEN {from} ELSE {})
        BY <2>2, <2>3, <2>5 DEF bytes
    <2>9. CallFits(calls[c])'
        BY <1>2, <1>5, <2>2, <2>5, <2>6, <2>7, <2>8 DEF CallFits, Known, Open
    <2> QED BY <1>1, <2>1, <2>6, <2>9, GotoKeeps DEF Onward, UploadLocked
<1> QED BY <1>3, <1>4, <1>5

\* While a call writes, what is on disk.
LEMMA Written ==
    ASSUME UploadsAssumption, IInv, NEW c \in Slots, calls[c].at = "write",
           Open(calls[c].upload)
    PROVE  LET u == calls[c].upload
               from == calls[c].from
               to == calls[c].to
           IN  /\ u \in Ids /\ from \in Nat /\ to \in Nat
               /\ from <= uploads[u].size /\ to <= uploads[u].size
               /\ from \in Bytes
               /\ uploads[u].data = Prefix(from) \cup (IF from < to THEN {from} ELSE {})
               /\ \A d \in Slots : d # c /\ calls[d].at = "write" => calls[d].upload # u
BY CallOf DEF CallFits, Known, IInv, Stores, OneWriter, Call

LEMMA KeptAppended ==
    ASSUME UploadsAssumption, IInv, NEW c \in Slots, Appended(c)
    PROVE  IInv'
<1> DEFINE u == calls[c].upload
           from == calls[c].from
           to == calls[c].to
           data == uploads[u].data \cup from..(to - 1)
           end == Max({0} \cup {b + 1 : b \in data})
<1>1. /\ calls[c].at = "write" /\ UNCHANGED <<tab, cancels, row, holder, swept, listed>>
      /\ present' \in BOOLEAN /\ events' \in 0..MaxEvents
    BY DEF Appended, Silent, beside, project, IInv, TypeOK
<1>2. CASE ~Open(u)
    <2>1. UNCHANGED uploads /\ Say(c, "other")
        BY <1>2 DEF Appended
    <2>2. Serves(c) /\ Told(c, "other", 0)
        BY <1>1, <2>1, ServesWithout DEF Told
    <2> QED BY <1>1, <2>1, <2>2, SaidKeeps DEF Answers
<1>3. CASE Open(u)
    <2> DEFINE n == IF from < to THEN to ELSE from
    <2>1. /\ u \in Ids /\ from \in Nat /\ to \in Nat
          /\ from <= uploads[u].size /\ to <= uploads[u].size
          /\ uploads[u].data = Prefix(from) \cup (IF from < to THEN {from} ELSE {})
          /\ \A d \in Slots : d # c /\ calls[d].at = "write" => calls[d].upload # u
        BY <1>1, <1>3, Written
    <2>2. n \in Nat /\ n <= uploads[u].size
        BY <2>1
    <2>3. data = Prefix(n)
        BY <2>1, PrefixGrows
    <2>4. end = n
        <3>1. Max({0} \cup {b + 1 : b \in Prefix(n)}) = n
            BY <2>2, StoredOf
        <3> QED BY <2>3, <3>1
    <2>5. /\ WriteTo(u, data)
          /\ IF end = uploads[u].size THEN Goto(c, "finish") ELSE Reply(c, "stored", end, 0)
        BY <1>3 DEF Appended
    <2> HIDE DEF data, end
    <2>6. /\ Advance /\ uploads'[u].at = "open"
          /\ uploads'[u].size = uploads[u].size /\ uploads'[u].data = Prefix(n)
          /\ \A w \in Ids : w # u => uploads'[w] = uploads[w]
        BY <1>3, <2>1, <2>2, <2>3, <2>5, DataChanges
    <2>7. Serves(c)
        BY <1>1, <2>1, <2>6, ServesUpload
    <2>8. CASE end = uploads[u].size
        <3>1. Goto(c, "finish")
            BY <2>5, <2>8
        <3>2. calls'[c].at = "finish" /\ calls'[c].upload = u
            BY <3>1, CallOf DEF Goto, IInv, TypeOK, Call
        <3>3. CallFits(calls[c])'
            BY <2>1, <2>6, <3>2 DEF CallFits, Known
        <3> QED BY <1>1, <2>7, <3>1, <3>3, GotoKeeps DEF Onward
    <2>9. CASE end # uploads[u].size
        <3>1. Reply(c, "stored", end, 0) /\ Told(c, "stored", 0)
            BY <2>5, <2>9 DEF Told
        <3>2. uploads[u].size \in Bytes
            BY <2>1, StoreOf, SizesBounded DEF Upload
        <3>3. end \in Bytes
            BY <2>2, <2>4, <3>2, SizesBounded
        <3> QED BY <1>1, <2>7, <3>1, <3>3, AnsweredKeeps DEF Answers
    <2> QED BY <2>8, <2>9
<1> QED BY <1>2, <1>3

LEMMA KeptTorn ==
    ASSUME UploadsAssumption, IInv, NEW c \in Slots, Torn(c)
    PROVE  IInv'
<1> DEFINE u == calls[c].upload
           from == calls[c].from
           to == calls[c].to
           kept == {b \in uploads[u].data : b < from}
<1>1. /\ calls[c].at = "write" /\ Open(u) /\ UNCHANGED <<tab, cancels, row, holder, swept, listed>>
      /\ present' \in BOOLEAN /\ events' \in 0..MaxEvents
    BY EventCounts DEF Torn, beside, project, IInv, TypeOK
<1>2. /\ u \in Ids /\ from \in Nat /\ to \in Nat /\ from <= uploads[u].size
      /\ from \in Bytes
      /\ uploads[u].data = Prefix(from) \cup (IF from < to THEN {from} ELSE {})
      /\ \A d \in Slots : d # c /\ calls[d].at = "write" => calls[d].upload # u
    BY <1>1, Written
<1>3. \/ WriteTo(u, kept) /\ Reply(c, "disk_full", from, 0)
      \/ Reply(c, "disk_full", Stored(u), 0) /\ UNCHANGED uploads
      \/ WriteTo(u, kept) /\ Say(c, "other")
    BY DEF Torn
<1>4. ASSUME WriteTo(u, kept) PROVE Serves(c)
    <2>1. kept = Prefix(from)
        BY <1>2, PrefixGrows
    <2> HIDE DEF kept
    <2>2. /\ Advance /\ uploads'[u].at = "open"
          /\ \A w \in Ids : w # u => uploads'[w] = uploads[w]
        BY <1>1, <1>2, <1>4, <2>1, DataChanges
    <2> QED BY <1>1, <1>2, <2>2, ServesUpload
<1> HIDE DEF kept
<1>5. CASE WriteTo(u, kept) /\ Reply(c, "disk_full", from, 0)
    BY <1>1, <1>2, <1>4, <1>5, AnsweredKeeps DEF Told, Answers
<1>6. CASE Reply(c, "disk_full", Stored(u), 0) /\ UNCHANGED uploads
    <2>1. Serves(c) /\ Stored(u) \in Bytes
        BY <1>1, <1>2, <1>6, ServesWithout, StoreOf
    <2> QED BY <1>1, <1>6, <2>1, AnsweredKeeps DEF Told, Answers
<1>7. CASE WriteTo(u, kept) /\ Say(c, "other")
    BY <1>1, <1>4, <1>7, SaidKeeps DEF Told, Answers
<1> QED BY <1>3, <1>5, <1>6, <1>7

\* The folder of an upload is removed.
LEMMA GoneChanges ==
    ASSUME UploadsAssumption, IInv, NEW u \in Ids, Open(u), Gone(u)
    PROVE  /\ Advance /\ uploads'[u].at = "removed"
           /\ \A w \in Ids : w # u => uploads'[w] = uploads[w]
<1> DEFINE new == [NoUpload EXCEPT !.at = "removed"]
<1>1. /\ new \in Upload /\ new.at = "removed" /\ new.size = 0 /\ new.data = {}
    BY Constants DEF Upload
<1>2. uploads' = [uploads EXCEPT ![u] = new]
    BY DEF Gone
<1> HIDE DEF new
<1>3. Prefixed(new) /\ Advances(uploads[u], new)
    BY <1>1 DEF Prefixed, Prefix, Advances, Open
<1>4. /\ Advance /\ uploads'[u] = new
      /\ \A w \in Ids : w # u => uploads'[w] = uploads[w]
    BY <1>1, <1>2, <1>3, UploadChanges
<1> QED BY <1>1, <1>4

LEMMA KeptFinishTake ==
    ASSUME UploadsAssumption, IInv, NEW c \in Slots, FinishTake(c)
    PROVE  IInv'
<1> DEFINE u == calls[c].upload
<1>1. /\ calls[c].at = "finish" /\ UNCHANGED <<tab, cancels, row, holder, swept, listed>>
      /\ present' \in BOOLEAN /\ events' \in 0..MaxEvents
      /\ UNCHANGED uploads => Serves(c)
    BY ServesWithout DEF FinishTake, Silent, beside, project, IInv, TypeOK
<1>2. u \in Ids /\ Known(u)
    BY <1>1, CallOf DEF CallFits, Known
<1>3. CASE ~Open(u) /\ Say(c, "upload_not_found") /\ UNCHANGED uploads
    <2>1. Told(c, "upload_not_found", 0)
        BY <1>1, <1>3 DEF Told, Open
    <2> QED BY <1>1, <1>3, <2>1, SaidKeeps DEF Answers
<1>4. CASE Say(c, "project_busy") /\ UNCHANGED uploads
    BY <1>1, <1>4, SaidKeeps DEF Told, Answers
<1>5. CASE ~ProjectLocked /\ row /\ Goto(c, "land") /\ UNCHANGED uploads
    <2>1. calls'[c].at = "land" /\ calls'[c].upload = u
        BY <1>5, CallOf DEF Goto, IInv, TypeOK, Call
    <2>2. CallFits(calls[c])'
        BY <1>1, <1>2, <1>5, <2>1 DEF CallFits, Known, ProjectLocked
    <2> QED BY <1>1, <1>5, <2>2, GotoKeeps DEF Onward
<1>6. CASE Open(u) /\ ~UploadLocked(u) /\ Gone(u) /\ Say(c, "other")
    <2>1. /\ Advance /\ \A w \in Ids : w # u => uploads'[w] = uploads[w]
        BY <1>2, <1>6, GoneChanges
    <2>2. \A d \in Slots : calls[d].at = "write" => calls[d].upload # u
        BY <1>6 DEF UploadLocked
    <2>3. Serves(c)
        BY <1>1, <1>2, <2>1, <2>2, ServesUpload
    <2> QED BY <1>1, <1>6, <2>3, SaidKeeps DEF Told, Answers
<1> QED BY <1>3, <1>4, <1>5, <1>6 DEF FinishTake

LEMMA KeptFinish ==
    ASSUME UploadsAssumption, IInv, NEW c \in Slots, Finish(c)
    PROVE  IInv'
<1> DEFINE u == calls[c].upload
<1>1. /\ calls[c].at = "land" /\ UNCHANGED <<tab, cancels, row, holder, swept, listed>>
      /\ present' \in BOOLEAN /\ events' \in 0..MaxEvents /\ ~UploadLocked(u)
      /\ UNCHANGED uploads => Serves(c)
    BY ServesWithout DEF Finish, Silent, beside, project, IInv, TypeOK
<1>2. u \in Ids /\ uploads[u] \in Upload /\ Prefixed(uploads[u])
      /\ uploads[u].data = Prefix(Stored(u))
    BY <1>1, CallOf, StoreOf DEF CallFits, Known
<1>3. CASE ~Open(u) /\ Say(c, "upload_not_found") /\ UNCHANGED uploads
    <2>1. Told(c, "upload_not_found", 0)
        BY <1>1, <1>3 DEF Told, Open
    <2> QED BY <1>1, <1>3, <2>1, SaidKeeps DEF Answers
<1>4. CASE (\E answer \in {"other", "permission_denied"} : Say(c, answer)) /\ UNCHANGED uploads
    BY <1>1, <1>4, SaidKeeps DEF Told, Answers
<1>5. CASE /\ Open(u) /\ Stored(u) = uploads[u].size /\ Say(c, "done")
           /\ uploads' = [uploads EXCEPT ![u].at = "landed"]
    <2> DEFINE new == [uploads[u] EXCEPT !.at = "landed"]
    <2>1. /\ new \in Upload /\ new.at = "landed" /\ new.size = uploads[u].size
          /\ new.data = uploads[u].data
        BY <1>2 DEF Upload
    <2>2. uploads' = [uploads EXCEPT ![u] = new]
        BY <1>5
    <2> HIDE DEF new
    <2>3. Prefixed(new) /\ Advances(uploads[u], new)
        BY <1>2, <1>5, <2>1 DEF Prefixed, Advances, Open
    <2>4. /\ Advance /\ uploads'[u] = new
          /\ \A w \in Ids : w # u => uploads'[w] = uploads[w]
        BY <1>2, <2>1, <2>2, <2>3, UploadChanges
    <2>5. \A d \in Slots : calls[d].at = "write" => calls[d].upload # u
        BY <1>1 DEF UploadLocked
    <2>6. Serves(c)
        BY <1>1, <1>2, <2>4, <2>5, ServesUpload
    <2>7. Told(c, "done", 0)
        BY <1>1, <2>1, <2>4 DEF Told
    <2> QED BY <1>1, <1>5, <2>6, <2>7, SaidKeeps DEF Answers
<1> QED BY <1>3, <1>4, <1>5 DEF Finish

-----------------------------------------------------------------------------
\* What happens beside the calls.

LEMMA BesideKeeps ==
    ASSUME UploadsAssumption, IInv, UNCHANGED <<tab, calls>>, Advance,
           present' \in BOOLEAN, row' \in BOOLEAN,
           holder' \in {"none", "work", "delete", "purge"},
           cancels' \subseteq Ids, events' \in 0..MaxEvents,
           \A d \in Slots : Spares(d), ListFits'
    PROVE  IInv'
<1>1. TypeOK'
    BY DEF Advance, tab, IInv, TypeOK, Upload, ListFits
<1>2. \A d \in Slots : CallFits(calls[d])'
    BY CallStays
<1>3. CallsFit' /\ OneWriter' /\ StoreOK'
    BY <1>2 DEF CallsFit, IInv, Stores, OneWriter, Advance
<1>4. ItemsFit' /\ QueueMoves' /\ RunFits'
    BY ItemsStay, AwaitedStays
<1> QED BY <1>1, <1>3, <1>4 DEF IInv, Stores, Tab

LEMMA KeptCancel ==
    ASSUME UploadsAssumption, IInv, NEW u \in Ids, Cancel(u)
    PROVE  IInv'
<1>1. /\ UNCHANGED <<tab, calls, events, present, row, holder, swept, listed>>
      /\ cancels' \subseteq Ids /\ swept' \subseteq Ids
      /\ present' \in BOOLEAN /\ row' \in BOOLEAN
      /\ holder' \in {"none", "work", "delete", "purge"} /\ events' \in 0..MaxEvents
    BY DEF Cancel, beside, project, IInv, TypeOK
<1>2. CASE UNCHANGED uploads
    <2>1. Advance /\ \A d \in Slots : Spares(d)
        BY <1>1, <1>2, Stays, CallOf DEF Spares, CallFits
    <2> QED BY <1>1, <2>1, ListGoesOn, BesideKeeps
<1>3. CASE Open(u) /\ ~UploadLocked(u) /\ Gone(u)
    <2>1. Advance /\ uploads'[u].at = "removed"
          /\ \A w \in Ids : w # u => uploads'[w] = uploads[w]
        BY <1>3, GoneChanges
    <2>2. \A d \in Slots : Spares(d)
        BY <1>1, <2>1, CallOf DEF Spares, CallFits, Known
    <2> QED BY <1>1, <2>1, <2>2, ListGoesOn, BesideKeeps
<1> QED BY <1>2, <1>3 DEF Cancel

LEMMA KeptSweepFind ==
    ASSUME UploadsAssumption, IInv, NEW u \in Ids, SweepFind(u)
    PROVE  IInv'
<1>1. /\ UNCHANGED <<tab, calls, cancels, uploads, present, row, holder, listed>>
      /\ cancels' \subseteq Ids /\ swept' \subseteq Ids
      /\ present' \in BOOLEAN /\ row' \in BOOLEAN
      /\ holder' \in {"none", "work", "delete", "purge"} /\ events' \in 0..MaxEvents
    BY EventCounts DEF SweepFind, project, IInv, TypeOK
<1>2. Advance /\ \A d \in Slots : Spares(d)
    BY <1>1, Stays, CallOf DEF Spares, CallFits
<1> QED BY <1>1, <1>2, ListGoesOn, BesideKeeps

\* A call that writes to it finds the folder gone.
LEMMA KeptSweepRemove ==
    ASSUME UploadsAssumption, IInv, NEW u \in Ids, SweepRemove(u)
    PROVE  IInv'
<1>1. /\ UNCHANGED <<tab, calls, cancels, events, present, row, holder, listed>>
      /\ cancels' \subseteq Ids /\ swept' \subseteq Ids
      /\ present' \in BOOLEAN /\ row' \in BOOLEAN
      /\ holder' \in {"none", "work", "delete", "purge"} /\ events' \in 0..MaxEvents
    BY DEF SweepRemove, project, IInv, TypeOK
<1>2. CASE Open(u) /\ Gone(u)
    <2>1. Advance /\ uploads'[u].at = "removed"
          /\ \A w \in Ids : w # u => uploads'[w] = uploads[w]
        BY <1>2, GoneChanges
    <2>2. \A d \in Slots : Spares(d)
        BY <1>1, <2>1, CallOf DEF Spares, CallFits, Known
    <2> QED BY <1>1, <2>1, <2>2, ListGoesOn, BesideKeeps
<1>3. CASE UNCHANGED uploads
    <2>1. Advance /\ \A d \in Slots : Spares(d)
        BY <1>1, <1>3, Stays, CallOf DEF Spares, CallFits
    <2> QED BY <1>1, <2>1, ListGoesOn, BesideKeeps
<1> QED BY <1>2, <1>3 DEF SweepRemove

\* The list is of what is open.
LEMMA KeptList ==
    ASSUME UploadsAssumption, IInv, List
    PROVE  IInv'
<1>1. /\ UNCHANGED <<tab, calls, cancels, uploads, present, row, holder, swept>>
      /\ cancels' \subseteq Ids /\ swept' \subseteq Ids
      /\ present' \in BOOLEAN /\ row' \in BOOLEAN
      /\ holder' \in {"none", "work", "delete", "purge"} /\ events' \in 0..MaxEvents
    BY EventCounts DEF List, project, IInv, TypeOK
<1>2. Advance /\ \A d \in Slots : Spares(d)
    BY <1>1, Stays, CallOf DEF Spares, CallFits
<1>3. ASSUME NEW entry \in listed'
      PROVE  /\ entry \in Entry /\ Known(entry.upload)
             /\ Open(entry.upload) => uploads[entry.upload].size = entry.size
    <2>1. PICK u \in Ids : /\ Open(u)
                           /\ entry = [upload |-> u, size |-> uploads[u].size,
                                       replace |-> uploads[u].replace]
        BY DEF List
    <2>2. uploads[u].size \in Sizes \cup {0} /\ uploads[u].replace \in BOOLEAN
        BY StoreOf DEF Upload
    <2> QED BY <2>1, <2>2 DEF Entry, Known, Open
<1>4. ListFits'
    BY <1>1, <1>3 DEF ListFits, Known, Open
<1> QED BY <1>1, <1>2, <1>4, BesideKeeps

LEMMA KeptTakeProject ==
    ASSUME UploadsAssumption, IInv, TakeProject
    PROVE  IInv'
<1>1. /\ UNCHANGED <<tab, calls, cancels, uploads, present, row, swept, listed>>
      /\ cancels' \subseteq Ids /\ swept' \subseteq Ids
      /\ present' \in BOOLEAN /\ row' \in BOOLEAN
      /\ holder' \in {"none", "work", "delete", "purge"} /\ events' \in 0..MaxEvents
      /\ ~ProjectLocked
    BY EventCounts DEF TakeProject, IInv, TypeOK
<1>2. Advance /\ \A d \in Slots : Spares(d)
    BY <1>1, Stays DEF Spares, ProjectLocked
<1> QED BY <1>1, <1>2, ListGoesOn, BesideKeeps

\* With purge, every open upload goes.
LEMMA KeptReleaseProject ==
    ASSUME UploadsAssumption, IInv, ReleaseProject
    PROVE  IInv'
<1>1. /\ UNCHANGED <<tab, calls, cancels, events, swept, listed>>
      /\ cancels' \subseteq Ids /\ swept' \subseteq Ids
      /\ present' \in BOOLEAN /\ row' \in BOOLEAN
      /\ holder' \in {"none", "work", "delete", "purge"} /\ events' \in 0..MaxEvents
      /\ holder # "none"
    BY DEF ReleaseProject, IInv, TypeOK
<1> DEFINE new == [NoUpload EXCEPT !.at = "removed"]
<1>2. uploads' = [u \in Ids |-> IF holder = "purge" /\ Open(u) THEN new ELSE uploads[u]]
    BY DEF ReleaseProject
<1>3. /\ new \in Upload /\ new.at = "removed" /\ new.size = 0 /\ new.data = {}
    BY Constants DEF Upload
<1> HIDE DEF new
<1>4. \A u \in Ids : \/ uploads'[u] = uploads[u]
                     \/ Open(u) /\ uploads'[u] = new
    BY <1>2
<1>5. Prefixed(new)
    BY <1>3 DEF Prefixed, Prefix
<1>6. uploads' \in [Ids -> Upload]
    BY <1>2, <1>3, StoreOf
<1>7. \A u \in Ids : Prefixed(uploads'[u]) /\ Advances(uploads[u], uploads'[u])
    BY <1>3, <1>4, <1>5, StoreOf DEF Advances, Open
<1>8. StoreOK'
    BY <1>7 DEF StoreOK, Prefixed
<1>9. Advance
    BY <1>6, <1>7, <1>8 DEF Advance
<1>10. \A d \in Slots : Spares(d)
    BY <1>1, <1>3, <1>4, CallOf DEF Spares, CallFits, Known
<1> QED BY <1>1, <1>9, <1>10, ListGoesOn, BesideKeeps

LEMMA KeptRestart ==
    ASSUME UploadsAssumption, IInv, Restart
    PROVE  IInv'
<1> DEFINE call == IF calls["awaited"].at = "answered" THEN calls["awaited"] ELSE NoCall
<1>1. /\ UNCHANGED <<items, run, cancels, uploads, present, row, listed>>
      /\ UNCHANGED tab /\ swept' = {} /\ events' \in 0..MaxEvents /\ holder' = "none"
      /\ calls' = [calls EXCEPT !["awaited"] = call, !["stray"] = NoCall]
    BY EventCounts DEF Restart, tab
<1>2. NoCall \in Call /\ NoCall.at = "none" /\ calls \in [Slots -> Call]
    BY Constants DEF IInv, TypeOK
<1>3. call \in Call /\ call.at \in {"none", "answered"}
      /\ (call.at = "answered" => call = calls["awaited"])
    BY <1>2 DEF Slots
<1> HIDE DEF call
<1>4. calls' \in [Slots -> Call] /\ calls'["awaited"] = call /\ calls'["stray"] = NoCall
    BY <1>1, <1>2, <1>3 DEF Slots
<1>5. TypeOK'
    BY <1>1, <1>4 DEF IInv, TypeOK
<1>6. CallsFit' /\ OneWriter'
    BY <1>2, <1>3, <1>4 DEF CallsFit, CallFits, OneWriter, Slots
<1>7. Advance
    BY <1>1, Stays
<1>10. ListFits'
    BY <1>1, <1>7, ListGoesOn
<1>8. StoreOK' /\ ItemsFit' /\ QueueMoves'
    BY <1>1, <1>7, ItemsStay DEF Advance
<1>9. RunFits'
    <2>1. CASE call.at = "answered"
        <3>1. calls'["awaited"] = calls["awaited"]
            BY <1>3, <1>4, <2>1
        <3> QED BY <1>1, <1>7, <3>1, AwaitedStays
    <2>2. CASE call.at = "none"
        <3>1. run.at = "off" \/ (Key \in Keys /\ items[Key].state \in Worked
                                 /\ Awaits(items[Key], calls["awaited"]))
            BY Working DEF Key
        <3>2. calls'["awaited"].at = "none"
            BY <1>4, <2>2
        <3> QED BY <1>1, <3>1, <3>2 DEF RunFits, Awaits, Key
    <2> QED BY <1>3, <2>1, <2>2
<1> QED BY <1>5, <1>6, <1>8, <1>9, <1>10 DEF IInv, Stores, Tab

-----------------------------------------------------------------------------
\* Every state is one of these.

LEMMA Begins ==
    ASSUME UploadsAssumption, Init
    PROVE  IInv
<1>1. TypeOK
    <2>1. /\ NoItem \in Item /\ Off \in Runs /\ NoCall \in Call /\ NoUpload \in Upload
          /\ 0 \in 0..MaxEvents
        BY Constants DEF UploadsAssumption
    <2>2. /\ items \in [Keys -> Item] /\ run \in Runs /\ calls \in [Slots -> Call]
          /\ uploads \in [Ids -> Upload]
        BY <2>1 DEF Init
    <2> QED BY <2>1, <2>2 DEF Init, TypeOK, Runs, Upload
<1>2. Stores
    <2>1. StoreOK
        <3>1. Prefixed(NoUpload)
            <4>1. Prefix(0) = {} /\ 0 \in 0..0
                BY DEF Prefix
            <4>2. /\ NoUpload.at # "landed" /\ NoUpload.size = 0
                  /\ NoUpload.data = {}
                BY Constants
            <4> HIDE DEF NoUpload
            <4> QED BY <4>1, <4>2 DEF Prefixed
        <3>2. \A u \in Ids : uploads[u] = NoUpload
            BY DEF Init
        <3> QED BY <3>1, <3>2 DEF StoreOK
    <2>2. CallsFit /\ OneWriter
        BY Constants DEF Init, CallsFit, CallFits, OneWriter
    <2> QED BY <2>1, <2>2 DEF Stores
<1>3. Tab
    BY Constants DEF Init, Tab, ItemsFit, ItemFits, RunFits, QueueMoves
<1>4. ListFits
    BY DEF Init, ListFits
<1> QED BY <1>1, <1>2, <1>3, <1>4 DEF IInv

LEMMA Stutters ==
    ASSUME UploadsAssumption, IInv, UNCHANGED vars
    PROVE  IInv'
<1>1. /\ UNCHANGED <<tab, calls>> /\ UNCHANGED uploads
      /\ present' \in BOOLEAN /\ row' \in BOOLEAN
      /\ holder' \in {"none", "work", "delete", "purge"}
      /\ cancels' \subseteq Ids /\ events' \in 0..MaxEvents
      /\ UNCHANGED <<row, holder, swept, listed>> /\ swept' \subseteq Ids
    BY DEF vars, beside, project, IInv, TypeOK
<1>2. Advance /\ \A d \in Slots : Spares(d)
    BY <1>1, Stays, CallOf DEF Spares, CallFits
<1> QED BY <1>1, <1>2, ListGoesOn, BesideKeeps

LEMMA Keeps ==
    ASSUME UploadsAssumption, IInv, [Next]_vars
    PROVE  IInv'
<1>1. CASE UNCHANGED vars
    BY <1>1, Stutters
<1>2. CASE User
    BY <1>2, KeptAdd, KeptPause, KeptResume, KeptReplace, KeptRemove, KeptCarryOn,
       KeptReload, KeptList, KeptAdopt DEF User
<1>3. CASE Hears
    BY <1>3, KeptDone, KeptStarted, KeptProgress, KeptMismatch, KeptBusy, KeptNoRoom,
       KeptNotFound, KeptDenied, KeptSessionLost, KeptRefused DEF Hears
<1>4. CASE Returned \/ Unreachable \/ Wake
    BY <1>4, KeptReturned, KeptUnreachable, KeptWake
<1>5. CASE \E c \in Slots : Handle(c)
    BY <1>5, KeptStartCheck, KeptStart, KeptStatus, KeptAppendFind, KeptAppend,
       KeptAppended, KeptFinishTake, KeptFinish DEF Handle
<1>6. CASE ReleaseProject
    BY <1>6, KeptReleaseProject
<1>7. CASE Outside
    BY <1>7, KeptNoSession, KeptTorn, KeptCancel, KeptSweepFind, KeptSweepRemove,
       KeptTakeProject, KeptRestart DEF Outside
<1> QED BY <1>1, <1>2, <1>3, <1>4, <1>5, <1>6, <1>7 DEF Next

\* The inductive invariant: what is known of the store, of the calls and of the
\* queue, together, for each needs the others.
THEOREM AllFits == Spec => []IInv
<1>1. Init => IInv
    BY Begins, UploadsAssumption
<1>2. IInv /\ [Next]_vars => IInv'
    BY Keeps, UploadsAssumption
<1> QED BY <1>1, <1>2, PTL DEF Spec

\* Every variable has its type.
THEOREM TypeCorrect == Spec => []TypeOK
<1>1. IInv => TypeOK
    BY DEF IInv
<1> QED BY <1>1, AllFits, PTL

\* What is moved into the project is the whole file, whatever was torn, sent
\* twice, or late (append and finish in core/uploads.py, send in queue.ts).
THEOREM OnlyWholeFilesLand == Spec => []WholeFiles
<1>1. IInv => WholeFiles
    BY DEF IInv, Stores, StoreOK, Prefixed, Prefix, WholeFiles
<1> QED BY <1>1, AllFits, PTL

\* An item with an upload that says it is done has landed, or its upload was
\* removed by somebody else and the item was finishing: what send() makes of the
\* 404, which is the code's exception and not excluded by anything.
THEOREM DoneHasLandedOrWasRemoved == Spec => []DoneIsTrue
<1>1. IInv => DoneIsTrue
    BY DEF IInv, Tab, ItemsFit, ItemFits, DoneIsTrue
<1> QED BY <1>1, AllFits, PTL

\* No item is forgotten: the one that is going is the one send() works on, and
\* the ones that wait have run() coming or wait for room.
THEOREM NoItemIsForgotten == Spec => []QueueMoves
<1>1. IInv => QueueMoves
    BY DEF IInv, Tab
<1> QED BY <1>1, AllFits, PTL

-----------------------------------------------------------------------------
\* What a step never does.

LEMMA LandsInAProject ==
    ASSUME UploadsAssumption, IInv, [Next]_vars, NEW u \in Ids,
           uploads'[u].at = "landed", uploads[u].at # "landed"
    PROVE  row
<1>0. uploads \in [Ids -> Upload] /\ uploads'[u] # uploads[u]
    BY DEF IInv, TypeOK, Upload
<1>1. ~(UNCHANGED uploads)
    BY <1>0
<1>2. PICK c \in Slots : Start(c) \/ Append(c) \/ Appended(c) \/ FinishTake(c) \/ Finish(c)
                        \/ Torn(c) \/ ReleaseProject \/ \E w \in Ids : Cancel(w) \/ SweepRemove(w)
    <2>1. \E c \in Slots : TRUE
        BY DEF Slots
    <2>2. Next
        BY <1>1 DEF vars
    <2>3. ~(Returned \/ Unreachable \/ Wake \/ TakeProject \/ Restart)
        BY <1>1 DEF Returned, Unreachable, Wake, Quietly, TakeProject, Restart
    <2>4. ~Hears
        BY <1>1 DEF Hears, Done, Started, Progress, Mismatch, Busy, NoRoom, NotFound,
           Denied, SessionLost, Refused, Quietly
    <2>5. ~User
        BY <1>1 DEF User, Add, Pause, Resume, Replace, Remove, CarryOn, Reload, List, Adopt,
           Quietly, OnEvent
    <2>6. ~(\E c \in Slots : \/ NoSession(c) \/ StartCheck(c) \/ Status(c)
                           \/ AppendFind(c))
        BY <1>1 DEF NoSession, StartCheck, Status, AppendFind
    <2>7. ~(\E w \in Ids : SweepFind(w))
        BY <1>1 DEF SweepFind
    <2> QED BY <2>1, <2>2, <2>3, <2>4, <2>5, <2>6, <2>7 DEF Next, Handle, Outside
<1>3. CASE Finish(c)
    BY <1>3, CallOf DEF Finish, CallFits
<1>4. NoUpload.at = "none" /\ "removed" # "landed"
    BY Constants
<1>5. \A w \in Ids : ~Gone(w)
    BY <1>0, <1>4, Constants DEF Gone, Upload
<1>6. \A w \in Ids : \A bytes : ~WriteTo(w, bytes)
    BY <1>0 DEF WriteTo, Upload
<1>7. ~(\E w \in Ids : Cancel(w) \/ SweepRemove(w))
    BY <1>1, <1>5 DEF Cancel, SweepRemove
<1>8. ~Start(c)
    <2> DEFINE new == [NoUpload EXCEPT !.at = "open", !.size = calls[c].to,
                                       !.replace = calls[c].replace]
    <2>1. new.at = "open"
        BY Constants DEF Upload
    <2>2. ASSUME Start(c)
          PROVE  \E w : uploads' = [uploads EXCEPT ![w] = new]
        BY <1>1, <2>2 DEF Start
    <2> HIDE DEF new
    <2> QED BY <1>0, <2>1, <2>2
<1>9. ~(Append(c) \/ Appended(c) \/ Torn(c))
    <2>1. calls[c].at \in {"lock", "write"} => calls[c].upload \in Ids
        BY CallOf DEF CallFits, Known
    <2> QED BY <1>1, <1>6, <2>1 DEF Append, AppendIf, Appended, Torn
<1>10. ~FinishTake(c)
    <2>1. calls[c].at = "finish" => calls[c].upload \in Ids
        BY CallOf DEF CallFits, Known
    <2> QED BY <1>1, <1>5, <2>1 DEF FinishTake
<1>11. ~ReleaseProject
    <2>1. [NoUpload EXCEPT !.at = "removed"].at = "removed"
        BY Constants DEF Upload
    <2> QED BY <1>0, <1>4, <2>1 DEF ReleaseProject
<1> QED BY <1>2, <1>3, <1>7, <1>8, <1>9, <1>10, <1>11

\* Nothing is moved into a project that was deleted (finish_upload in
\* routes/app.py, which looks for it with the lock that a deletion needs).
THEOREM NothingIntoTheDeleted == Spec => NothingLandsWhenDeleted
<1> DEFINE A == ~row => \A u \in Ids : uploads'[u].at = "landed" => uploads[u].at = "landed"
<1>1. IInv /\ [Next]_vars => [A]_vars
    BY LandsInAProject, UploadsAssumption
<1>2. NothingLandsWhenDeleted <=> [][A]_vars
    BY PTL DEF NothingLandsWhenDeleted
<1> HIDE DEF A
<1> QED BY <1>1, <1>2, AllFits, PTL DEF Spec

\* run() sends what waits, and changes the state of no other item.
LEMMA PicksOnlyWaiting ==
    ASSUME UploadsAssumption, NEW its \in [Keys -> Item], NEW r,
           PickNext(its) \/ Continue(its, r), NEW j \in Keys
    PROVE  \/ items'[j].state = its[j].state
           \/ its[j].state = "waiting" /\ items'[j].state = "going"
<1> DEFINE Says(as, k) == \/ items' = as
                         \/ \E b : items' = [as EXCEPT ![k].finishing = b]
<1>1. ASSUME NEW as \in [Keys -> Item], NEW q, Request(as, q)
      PROVE  items'[j].state = as[j].state
    <2>1. Says(as, q.key)
        BY <1>1 DEF Request
    <2>2. CASE items' = as
        BY <2>2
    <2>3. ASSUME NEW b, items' = [as EXCEPT ![q.key].finishing = b]
          PROVE  items'[j].state = as[j].state
        BY <2>3 DEF Item
    <2> QED BY <2>1, <2>2, <2>3
<1>2. CASE PickNext(its)
    <2>1. CASE Held(its) \/ Waiting(its) = {}
        BY <1>2, <2>1 DEF PickNext
    <2>2. CASE ~(Held(its) \/ Waiting(its) = {})
        <3> DEFINE k == Min(Waiting(its))
                   new == [its[k] EXCEPT !.state = "going"]
                   going == [its EXCEPT ![k] = new]
                   q == [Off EXCEPT !.key = k, !.sync = its[k].upload # 0]
        <3>1. k \in Keys /\ its[k].state = "waiting"
            <4>1. Waiting(its) \subseteq Nat /\ Waiting(its) # {}
                BY <2>2 DEF Waiting, Keys
            <4>2. k \in Waiting(its)
                BY <4>1, LeastExists
            <4> QED BY <4>2 DEF Waiting
        <3>2. Request([its EXCEPT ![k].state = "going"], q)
            BY <1>2, <2>2 DEF PickNext
        <3>3. [its EXCEPT ![k].state = "going"] = going
            OBVIOUS
        <3> HIDE DEF k, q
        <3>4. new \in Item /\ new.state = "going"
            BY <3>1 DEF Item, States
        <3> HIDE DEF new
        <3>5. /\ going \in [Keys -> Item] /\ going[k].state = "going"
              /\ \A i \in Keys : i # k => going[i] = its[i]
            BY <3>1, <3>4
        <3>6. Request(going, q)
            BY <3>2, <3>3
        <3> HIDE DEF going
        <3>7. items'[j].state = going[j].state
            BY <1>1, <3>5, <3>6
        <3> QED BY <3>1, <3>5, <3>7
    <2> QED BY <2>1, <2>2
<1>3. CASE Continue(its, r)
    BY <1>1, <1>2, <1>3 DEF Continue
<1> QED BY <1>2, <1>3

\* What becomes of an item that was paused, before run() looks for work.
Still == {"paused", "done", "gone"}

Follows(its) == items' = its \/ PickNext(its) \/ \E r : Continue(its, r)

LEMMA ThenStill ==
    ASSUME UploadsAssumption, NEW its \in [Keys -> Item], Follows(its),
           NEW k \in Keys, its[k].state \in Still
    PROVE  items'[k].state \in {"paused", "done", "gone"}
<1>1. CASE items' = its
    BY <1>1 DEF Still
<1>2. CASE \E r : PickNext(its) \/ Continue(its, r)
    <2>1. \/ items'[k].state = its[k].state
          \/ its[k].state = "waiting"
        BY <1>2, PicksOnlyWaiting
    <2> QED BY <2>1 DEF Still
<1> QED BY <1>1, <1>2 DEF Follows

\* Item h becomes another one.
LEMMA ThenStillWith ==
    ASSUME UploadsAssumption, IInv, NEW h \in Keys, NEW new \in Item,
           Follows([items EXCEPT ![h] = new]),
           NEW k \in Keys, items[k].state = "paused", h = k => new.state \in Still
    PROVE  items'[k].state \in {"paused", "done", "gone"}
<1> DEFINE its == [items EXCEPT ![h] = new]
<1>1. its \in [Keys -> Item] /\ its[k].state \in Still
    BY Working DEF Still
<1> HIDE DEF its
<1>2. Follows(its)
    BY DEF its
<1> QED BY <1>1, <1>2, ThenStill

LEMMA ThenAsItWas ==
    ASSUME UploadsAssumption, IInv, Follows(items), NEW k \in Keys, items[k].state = "paused"
    PROVE  items'[k].state \in {"paused", "done", "gone"}
BY Working, ThenStill DEF Still

LEMMA ThenEnds ==
    ASSUME UploadsAssumption, IInv, NEW answers, Heard(answers), NEW state \in States,
           EndAs(state), NEW k \in Keys, items[k].state = "paused"
    PROVE  items'[k].state \in {"paused", "done", "gone"}
<1> DEFINE new == [items[Key] EXCEPT !.state = state]
<1>1. CASE Going
    <2>1. Key \in Keys /\ new \in Item /\ Key # k
        BY <1>1, HeardOf DEF Going, Item
    <2>2. Follows([items EXCEPT ![Key] = new])
        BY <1>1 DEF EndAs, Follows, Its
    <2> HIDE DEF new
    <2> QED BY <2>1, <2>2, ThenStillWith
<1>2. CASE ~Going
    BY <1>2, ThenAsItWas DEF EndAs, Follows
<1> QED BY <1>1, <1>2

LEMMA ThenLands ==
    ASSUME UploadsAssumption, IInv, NEW answers, Heard(answers),
           Land, NEW k \in Keys, items[k].state = "paused"
    PROVE  items'[k].state \in {"paused", "done", "gone"}
<1> DEFINE new == [items[Key] EXCEPT !.state = "done", !.offset = items[Key].size]
<1>1. CASE Key \in Queued(items)
    <2>1. Key \in Keys /\ new \in Item /\ new.state = "done"
        BY HeardOf, SizesBounded DEF Item, States
    <2>2. Follows([items EXCEPT ![Key] = new])
        BY <1>1 DEF Land, Follows, Its
    <2> HIDE DEF new
    <2> QED BY <2>1, <2>2, ThenStillWith DEF Still
<1>2. CASE Key \notin Queued(items)
    BY <1>2, ThenAsItWas DEF Land, Follows
<1> QED BY <1>1, <1>2

LEMMA ThenAtOffset ==
    ASSUME UploadsAssumption, IInv, NEW answers, Heard(answers), NEW finishing \in BOOLEAN,
           NEW r, Continue(AtOffset(finishing), r), NEW k \in Keys, items[k].state = "paused"
    PROVE  items'[k].state \in {"paused", "done", "gone"}
<1> DEFINE new == [items[Key] EXCEPT !.offset = calls["awaited"].from, !.finishing = finishing]
<1>1. CASE Key \in Queued(items)
    <2>1. Key \in Keys /\ new \in Item /\ new.state = items[Key].state
        BY HeardOf DEF Item, Call
    <2>2. Follows([items EXCEPT ![Key] = new])
        BY <1>1 DEF AtOffset, Follows, Its
    <2> HIDE DEF new
    <2> QED BY <2>1, <2>2, ThenStillWith DEF Still
<1>2. CASE Key \notin Queued(items)
    BY <1>2, ThenAsItWas DEF AtOffset, Follows
<1> QED BY <1>1, <1>2

\* The answers that send() hears.
LEMMA PausedHears ==
    ASSUME UploadsAssumption, IInv, Hears, NEW k \in Keys, items[k].state = "paused"
    PROVE  items'[k].state \in {"paused", "done", "gone"}
<1> DEFINE it == items[Key]
<1>1. CASE Done
    BY <1>1, ThenLands DEF Done
<1>2. CASE Started
    <2> DEFINE new == [it EXCEPT !.upload = calls["awaited"].upload, !.offset = 0,
                                 !.finishing = FALSE]
    <2>1. Heard({"started"})
        BY <1>2 DEF Started
    <2>2. CASE Key \in Queued(items)
        <3>1. Key \in Keys /\ new \in Item /\ new.state = it.state
            BY <2>1, HeardOf, SizesBounded DEF Item, Call
        <3>2. Follows([items EXCEPT ![Key] = new])
            BY <1>2, <2>2 DEF Started, Follows, Its
        <3> HIDE DEF new
        <3> QED BY <3>1, <3>2, ThenStillWith DEF Still
    <2>3. CASE Key \notin Queued(items)
        BY <1>2, <2>3, ThenAsItWas DEF Started, Follows
    <2> QED BY <2>2, <2>3
<1>3. CASE Progress
    BY <1>3, ThenAtOffset DEF Progress
<1>4. CASE Mismatch
    <2>1. it.finishing \in BOOLEAN
        BY <1>4, HeardOf DEF Mismatch, Item
    <2> QED BY <1>4, <2>1, ThenAtOffset DEF Mismatch
<1>5. CASE Busy
    <2> DEFINE new == [it EXCEPT !.offset = it.size]
    <2>1. CASE Going
        <3>1. Key \in Keys /\ new \in Item /\ new.state = it.state
            BY <1>5, HeardOf, SizesBounded DEF Busy, Item
        <3>2. Follows([items EXCEPT ![Key] = new])
            BY <1>5, <2>1 DEF Busy, Follows, Its
        <3> HIDE DEF new
        <3> QED BY <3>1, <3>2, ThenStillWith DEF Still
    <2>2. CASE ~Going
        BY <1>5, <2>2, ThenAsItWas DEF Busy, Follows
    <2> QED BY <2>1, <2>2
<1>6. CASE NoRoom
    <2> DEFINE off == IF Answer = "disk_full" THEN calls["awaited"].from ELSE it.offset
               new == [it EXCEPT !.state = "noRoom", !.offset = off]
    <2>1. CASE Going
        <3>1. Key \in Keys /\ it \in Item /\ off \in Bytes /\ Key # k
            BY <1>6, <2>1, HeardOf DEF NoRoom, Item, Call, Going
        <3>2. Follows([items EXCEPT ![Key] = new])
            BY <1>6, <2>1 DEF NoRoom, Follows, Its
        <3> HIDE DEF off
        <3>3. new \in Item
            BY <3>1 DEF Item, States
        <3> HIDE DEF new
        <3> QED BY <3>1, <3>2, <3>3, ThenStillWith
    <2>2. CASE ~Going
        BY <1>6, <2>2, ThenAsItWas DEF NoRoom, Follows
    <2> QED BY <2>1, <2>2
<1>7. CASE NotFound
    <2> DEFINE new == [it EXCEPT !.upload = 0, !.offset = 0, !.finishing = FALSE]
               r == [run EXCEPT !.restarted = TRUE]
    <2>1. Heard({"upload_not_found"})
        BY <1>7 DEF NotFound
    <2>2. CASE Land
        BY <2>1, <2>2, ThenLands
    <2>3. CASE EndAs("failed")
        BY <2>1, <2>3, ThenEnds DEF States
    <2>4. CASE Continue(items, r)
        BY <2>4, ThenAsItWas DEF Follows
    <2>5. CASE Continue([items EXCEPT ![Key] = new], r)
        <3>1. Key \in Keys /\ new \in Item /\ new.state = it.state
            BY <2>1, HeardOf, SizesBounded DEF Item
        <3>2. Follows([items EXCEPT ![Key] = new])
            BY <2>5 DEF Follows
        <3> HIDE DEF new
        <3> QED BY <3>1, <3>2, ThenStillWith DEF Still
    <2> QED BY <1>7, <2>2, <2>3, <2>4, <2>5 DEF NotFound, Its
<1>8. CASE Denied
    <2> DEFINE new == [it EXCEPT !.upload = 0, !.state = "failed"]
    <2>1. Heard({"permission_denied"})
        BY <1>8 DEF Denied
    <2>2. CASE Going /\ it.upload # 0
        <3>1. Key \in Keys /\ new \in Item /\ Key # k
            BY <2>1, <2>2, HeardOf DEF Item, States, Going
        <3>2. Follows([items EXCEPT ![Key] = new])
            BY <1>8, <2>2 DEF Denied, Follows, Its
        <3> HIDE DEF new
        <3> QED BY <3>1, <3>2, ThenStillWith
    <2>3. CASE EndAs("failed")
        BY <2>1, <2>3, ThenEnds DEF States
    <2> QED BY <1>8, <2>2, <2>3 DEF Denied
<1>9. CASE SessionLost
    BY <1>9, ThenEnds DEF SessionLost, States
<1>10. CASE Refused
    <2>1. PICK state \in {"exists", "failed"} : EndAs(state)
        BY <1>10 DEF Refused
    <2> QED BY <1>10, <2>1, ThenEnds DEF Refused, States
<1> QED BY <1>1, <1>2, <1>3, <1>4, <1>5, <1>6, <1>7, <1>8, <1>9, <1>10 DEF Hears

\* What the user does.
LEMMA PausedUser ==
    ASSUME UploadsAssumption, IInv, User, NEW k \in Keys, items[k].state = "paused"
    PROVE  items'[k].state \in {"paused", "done", "gone"} \/ Resume(k)
<1>0. \A its : Kick(its) => Follows(its)
    BY DEF Kick, Follows
<1> DEFINE free == {h \in Keys : items[h].state = "none"}
<1>11. free # {} => Min(free) \in Keys /\ Min(free) # k
    <2>1. free \subseteq Nat
        BY DEF Keys
    <2>2. free # {} => Min(free) \in free
        BY <2>1, LeastExists
    <2> QED BY <2>2
<1>1. ASSUME NEW size \in Sizes, Add(size)
      PROVE  items'[k].state \in {"paused", "done", "gone"}
    <2> DEFINE new == [NoItem EXCEPT !.state = "waiting", !.size = size]
    <2>1. new \in Item
        BY Constants DEF Item, States
    <2>2. free # {} /\ Follows([items EXCEPT ![Min(free)] = new])
        BY <1>0, <1>1 DEF Add
    <2> HIDE DEF new, free
    <2> QED BY <1>11, <2>1, <2>2, ThenStillWith
<1>2. ASSUME NEW h \in Keys, NEW state \in Still,
             Follows([items EXCEPT ![h].state = state])
      PROVE  items'[k].state \in {"paused", "done", "gone"}
    <2> DEFINE new == [items[h] EXCEPT !.state = state]
    <2>1. new \in Item /\ new.state = state
        BY <1>2, Working DEF Item, States, Still
    <2>2. Follows([items EXCEPT ![h] = new])
        <3>1. [items EXCEPT ![h].state = state] = [items EXCEPT ![h] = new]
            OBVIOUS
        <3> QED BY <1>2, <3>1
    <2> HIDE DEF new
    <2> QED BY <2>1, <2>2, ThenStillWith
<1>3. ASSUME NEW h \in Keys, Pause(h)
      PROVE  items'[k].state \in {"paused", "done", "gone"}
    <2>1. Follows([items EXCEPT ![h].state = "paused"])
        BY <1>3 DEF Pause, Follows
    <2> QED BY <1>2, <2>1 DEF Still
<1>4. ASSUME NEW h \in Keys, Resume(h), h # k
      PROVE  items'[k].state \in {"paused", "done", "gone"}
    <2> DEFINE new == [items[h] EXCEPT !.state = "waiting"]
    <2>1. new \in Item
        BY Working DEF Item, States
    <2>2. [items EXCEPT ![h].state = "waiting"] = [items EXCEPT ![h] = new]
        OBVIOUS
    <2>3. Follows([items EXCEPT ![h] = new])
        BY <1>0, <1>4, <2>2 DEF Resume
    <2> HIDE DEF new
    <2> QED BY <1>4, <2>1, <2>3, ThenStillWith
<1>5. ASSUME NEW h \in Keys, Replace(h)
      PROVE  items'[k].state \in {"paused", "done", "gone"}
    <2> DEFINE new == [items[h] EXCEPT !.state = "waiting", !.replace = TRUE]
    <2>1. new \in Item /\ h # k
        <3>1. items[h] \in Item
            BY Working
        <3> QED BY <1>5, <3>1 DEF Item, States, Replace
    <2>2. [items EXCEPT ![h].state = "waiting", ![h].replace = TRUE]
             = [items EXCEPT ![h] = new]
        BY Working
    <2>3. Follows([items EXCEPT ![h] = new])
        BY <1>0, <1>5, <2>2 DEF Replace
    <2> HIDE DEF new
    <2> QED BY <2>1, <2>3, ThenStillWith DEF Still
<1>6. ASSUME NEW h \in Keys, Remove(h)
      PROVE  items'[k].state \in {"paused", "done", "gone"}
    <2> DEFINE new == [NoItem EXCEPT !.state = "gone"]
    <2>1. new \in Item /\ new.state = "gone"
        BY Constants DEF Item, States
    <2>2. Follows([items EXCEPT ![h] = new])
        BY <1>6 DEF Remove, Removed, Follows
    <2> HIDE DEF new
    <2> QED BY <2>1, <2>2, ThenStillWith DEF Still
<1>7. CASE CarryOn
    <2>1. PICK K \in SUBSET {h \in Keys : items[h].state = "noRoom"} :
             Kick([h \in Keys |->
                     IF h \in K THEN [items[h] EXCEPT !.state = "waiting"] ELSE items[h]])
        BY <1>7 DEF CarryOn
    <2> DEFINE its == [h \in Keys |->
                  IF h \in K THEN [items[h] EXCEPT !.state = "waiting"] ELSE items[h]]
    <2>2. its \in [Keys -> Item]
        <3>1. \A h \in Keys : [items[h] EXCEPT !.state = "waiting"] \in Item
            BY Working DEF Item, States
        <3> QED BY <3>1, Working
    <2>3. its[k].state = "paused"
        OBVIOUS
    <2> HIDE DEF its
    <2>4. Follows(its)
        BY <1>0, <2>1 DEF its
    <2> QED BY <2>2, <2>3, <2>4, ThenStill DEF Still
<1>8. CASE Reload
    <2>1. items'[k] = [NoItem EXCEPT !.state = "gone"]
        BY <1>8 DEF Reload, Queued, States
    <2> QED BY <2>1, Constants DEF Item
<1>9. CASE Adopt
    BY <1>9, Adopts
<1>10. CASE List
    BY <1>10 DEF List, tab
<1> QED BY <1>1, <1>3, <1>4, <1>5, <1>6, <1>7, <1>8, <1>9, <1>10 DEF User

LEMMA PausedStays ==
    ASSUME UploadsAssumption, IInv, [Next]_vars, NEW k \in Keys, items[k].state = "paused"
    PROVE  items'[k].state \in {"paused", "done", "gone"} \/ Resume(k)
<1>1. CASE UNCHANGED items
    BY <1>1
<1>2. CASE Returned \/ Wake
    BY <1>2, ThenAsItWas DEF Returned, Wake, Follows
<1>3. CASE Unreachable
    <2>1. run.at # "off"
        BY <1>3 DEF Unreachable, Asking
    <2>2. Key \in Keys
        BY <2>1, Working DEF Key
    <2>3. ASSUME Going, items' = [items EXCEPT ![Key] = [items[Key] EXCEPT !.state = "stalled"]]
          PROVE  items'[k] = items[k]
        BY <2>2, <2>3, Working DEF Going
    <2> QED BY <1>3, <2>3 DEF Unreachable, Its
<1>4. ASSUME ~(UNCHANGED items) PROVE Hears \/ User \/ Returned \/ Unreachable \/ Wake
    <2>1. Next
        BY <1>4 DEF vars, tab
    <2>2. ~(\E c \in Slots : Handle(c))
        BY <1>4 DEF Handle, StartCheck, Start, Status, AppendFind, Append, AppendIf, Appended,
           FinishTake, Finish, Silent, tab
    <2>3. ~ReleaseProject /\ ~Outside
        BY <1>4 DEF ReleaseProject, Outside, NoSession, Torn, Cancel, SweepFind,
           SweepRemove, TakeProject, Restart, tab
    <2> QED BY <2>1, <2>2, <2>3 DEF Next
<1> QED BY <1>1, <1>2, <1>3, <1>4, PausedHears, PausedUser

\* A late answer does not undo a pause (send() in queue.ts, which looks at the
\* item's state after each await).
THEOREM PauseIsKept == Spec => PauseStays
<1> DEFINE A == \A k \in Keys : items[k].state = "paused" =>
                   items'[k].state \in {"paused", "done", "gone"} \/ Resume(k)
<1>1. IInv /\ [Next]_vars => [A]_vars
    BY PausedStays, UploadsAssumption
<1>2. PauseStays <=> [][A]_vars
    BY PTL DEF PauseStays
<1> HIDE DEF A
<1> QED BY <1>1, <1>2, AllFits, PTL DEF Spec

=============================================================================
