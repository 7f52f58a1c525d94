--------------------------- MODULE PackageStream ---------------------------
(***************************************************************************)
(* The browser source of a package (sm_pkg_stream.c): the package server's *)
(* workers read ranges of a file that lives in a browser.  A fixed cache   *)
(* of slots holds segments that were requested, are being uploaded or are  *)
(* ready.  The browser uploads over a WebSocket (sm_pkg_ws.c) or polls two *)
(* HTTP endpoints (sm_api_service.c), several segments at a time, and its  *)
(* answers arrive in any order, late, twice or not at all.                 *)
(*                                                                         *)
(* Offsets count whole segments and the content of a segment is its        *)
(* offset.  Every step between two lines that hold stream->mutex is one    *)
(* action; a condition wait is a guard on its predicate, since each change *)
(* that can make it true is followed by a broadcast under the same lock.   *)
(* The wake pipe of the WebSocket loop is not under that lock and is kept. *)
(***************************************************************************)
EXTENDS Naturals, FiniteSets

CONSTANTS
    Readers,            \* package-server workers reading the source
    Segments,           \* number of segments of the file
    STREAM_SLOTS,
    STREAM_READ_AHEAD,
    STREAM_PREFETCH_PENDING,
    SM_PKG_STREAM_CLIENTS,
    MaxReads,           \* bound: segment reads all workers make together
    MaxMishaps          \* bound: lost answers, timeouts, disconnects

VARIABLES
    stream,    \* slots in LRU order, next id, status
    reader,    \* per worker: what sm_pkg_stream_read is doing
    ws,        \* sm_pkg_ws_serve: position, pending ids, wake pipe
    browser,   \* the page: how it talks, requests it has, answers it sent
    tries      \* what remains of the bounds

streamVars == <<stream, reader, ws, browser, tries>>

OffsetsOf == 0..(Segments - 1)
SlotIds == 1..STREAM_SLOTS
Clients == 1..SM_PKG_STREAM_CLIENTS
EmptySlot == [id |-> 0, offset |-> 0, claimed |-> FALSE, ready |-> FALSE,
              consumed |-> FALSE, client |-> 0, waiters |-> 0, data |-> Segments]
NoRange == [id |-> 0, offset |-> 0]
AtRest == [at |-> "idle", offset |-> 0, bulk |-> FALSE, slot |-> 0, got |-> 0]

StreamInit ==
    /\ stream = [slot |-> [k \in SlotIds |-> EmptySlot],
                 lru |-> [k \in SlotIds |-> 0],        \* last_use
                 ids |-> 0, status |-> "ok"]
    /\ reader = [r \in Readers |-> AtRest]
    /\ ws = [at |-> "claim", pending |-> [c \in Clients |-> 0], wake |-> FALSE]
    /\ browser \in [kind : {"ws", "http"}, window : {1, SM_PKG_STREAM_CLIENTS},
                    todo : {{}}, sent : {{}},
                    held : {[c \in Clients |-> NoRange]}]
    /\ tries = [reads |-> MaxReads, mishaps |-> MaxMishaps]

Overhears == tries.mishaps > 0
Mishap == tries' = [tries EXCEPT !.mishaps = @ - 1]

(***************************************************************************)
(* The cache, under stream->mutex.                                         *)
(***************************************************************************)
\* last_use only orders the slots: a touched slot becomes the newest.
Touched(lru, k) ==
    [j \in SlotIds |-> IF j = k THEN STREAM_SLOTS
                       ELSE IF lru[j] > lru[k] THEN lru[j] - 1 ELSE lru[j]]

HoldingSlots(s, o) == {k \in SlotIds : s.slot[k].id # 0 /\ s.slot[k].offset = o}

EvictsWaited(s, demanded) ==
    {k \in SlotIds : /\ s.slot[k].id # 0 /\ s.slot[k].ready
                     /\ s.slot[k].offset # 0
                     /\ demanded \/ s.slot[k].consumed}

\* Never the header, an upload in flight or a segment someone waits for;
\* read-ahead also spares what no reader has consumed.
Evictable(s, demanded) ==
    {k \in SlotIds : /\ s.slot[k].id # 0 /\ s.slot[k].ready
                     /\ s.slot[k].waiters = 0
                     /\ s.slot[k].offset # 0
                     /\ demanded \/ s.slot[k].consumed}

\* The first free slot, else the least recently used evictable one, else 0.
ChosenSlot(s, demanded) ==
    LET free == {k \in SlotIds : s.slot[k].id = 0}
        old == Evictable(s, demanded) IN
    IF free # {} THEN CHOOSE k \in free : \A j \in free : k <= j
    ELSE IF old # {} THEN CHOOSE k \in old : \A j \in old : s.lru[k] <= s.lru[j]
    ELSE 0

\* The stream after the request; the slot is 0 when none can be had.
NewSegment(s, o, k) ==
    IF k = 0 THEN [s |-> s, k |-> 0, new |-> FALSE]
    ELSE [s |-> [s EXCEPT !.ids = @ + 1,
                          !.slot[k] = [EmptySlot EXCEPT !.id = s.ids + 1,
                                                        !.offset = o,
                                                        !.data = s.slot[k].data],
                          !.lru = Touched(s.lru, k)],
          k |-> k, new |-> TRUE]

\* Operators that build on each other's results return the set of the one
\* result, so that a use binds it.
request_segment_locked(s, o, demanded) ==
    IF HoldingSlots(s, o) # {}
    THEN {[s |-> s, k |-> k, new |-> FALSE] : k \in HoldingSlots(s, o)}
    ELSE {NewSegment(s, o, k) : k \in {ChosenSlot(s, demanded)}}

InFlight(s) == Cardinality({k \in SlotIds : s.slot[k].id # 0 /\ ~s.slot[k].ready})

\* One more segment of read-ahead, unless the end, the limit of pending
\* requests or a missing slot stops it.
AheadOne(b, o) ==
    IF b.stop \/ o >= Segments THEN {[b EXCEPT !.stop = TRUE]}
    ELSE IF HoldingSlots(b.s, o) # {} THEN {b}
    ELSE IF InFlight(b.s) >= STREAM_PREFETCH_PENDING THEN {[b EXCEPT !.stop = TRUE]}
    ELSE {[s |-> q.s, new |-> b.new \/ q.new, stop |-> q.k = 0] :
             q \in request_segment_locked(b.s, o, FALSE)}

prefetch_segments_locked(s, o) ==
    LET ahead[i \in 0..STREAM_READ_AHEAD] ==
          IF i = 0 THEN {[s |-> s, new |-> FALSE, stop |-> FALSE]}
          ELSE UNION {AheadOne(b, o + i) : b \in ahead[i - 1]}
    IN ahead[STREAM_READ_AHEAD]

\* Demanded segments first, the oldest request within each class.
next_request_locked(s) ==
    LET queued == {k \in SlotIds : s.slot[k].id # 0 /\ ~s.slot[k].claimed
                                   /\ ~s.slot[k].ready}
        wanted == {k \in queued : s.slot[k].waiters > 0}
        from == IF wanted # {} THEN wanted ELSE queued IN
    IF from = {} THEN 0
    ELSE CHOOSE k \in from : \A j \in from : s.slot[k].id <= s.slot[j].id

\* A client that asks again is told the range it still owes.
OwedOrNext(s, c) ==
    LET owed == {k \in SlotIds : /\ s.slot[k].id # 0 /\ ~s.slot[k].ready
                                 /\ s.slot[k].claimed /\ s.slot[k].client = c} IN
    IF s.status # "ok" THEN {0}
    ELSE IF owed # {} THEN owed ELSE {next_request_locked(s)}

sm_pkg_stream_try_request(s, c) ==
    {IF k = 0 THEN [s |-> s, range |-> NoRange]
     ELSE [s |-> [s EXCEPT !.slot[k].claimed = TRUE, !.slot[k].client = c],
           range |-> [id |-> s.slot[k].id, offset |-> s.slot[k].offset]] :
        k \in OwedOrNext(s, c)}

\* An answer for a range id: applied, repeated, or for a recycled slot.
Applied(s, k, a) ==
    IF s.slot[k].ready THEN [s |-> s, ok |-> s.slot[k].data = a.offset]
    ELSE IF ~s.slot[k].claimed THEN [s |-> s, ok |-> FALSE]
    ELSE [s |-> [s EXCEPT !.slot[k].data = a.offset, !.slot[k].ready = TRUE,
                          !.slot[k].client = 0, !.lru = Touched(s.lru, k)],
          ok |-> TRUE]

sm_pkg_stream_reply(s, a) ==
    LET at == {k \in SlotIds : s.slot[k].id = a.id} IN
    IF s.status # "ok" \/ at = {} THEN {[s |-> s, ok |-> FALSE]}
    ELSE {Applied(s, k, a) : k \in at}

sm_pkg_stream_fail(s, why) == IF s.status = "ok" THEN [s EXCEPT !.status = why] ELSE s

(***************************************************************************)
(* sm_pkg_stream_read, one segment of it at a time.                        *)
(***************************************************************************)
StartRead(r) ==
    /\ reader[r].at = "idle" /\ tries.reads > 0
    /\ \E o \in OffsetsOf, b \in BOOLEAN :
          reader' = [reader EXCEPT ![r] = [AtRest EXCEPT !.at = "ask",
                                              !.offset = o, !.bulk = b]]
    /\ tries' = [tries EXCEPT !.reads = @ - 1]
    /\ UNCHANGED <<stream, ws, browser>>

\* Claims a slot, waits on it and reads ahead; with no slot it keeps waiting.
AskSegment(r) ==
    /\ reader[r].at = "ask"
    /\ IF stream.status # "ok"
       THEN /\ reader' = [reader EXCEPT ![r] = AtRest]
            /\ UNCHANGED <<stream, ws>>
       ELSE \E q \in request_segment_locked(stream, reader[r].offset, TRUE) :
            /\ q.k # 0
            /\ \E held \in {[q.s EXCEPT !.slot[q.k].waiters = @ + 1]} :
               \E p \in IF reader[r].bulk
                        THEN prefetch_segments_locked(held, reader[r].offset)
                        ELSE {[s |-> held, new |-> FALSE, stop |-> TRUE]} :
                  /\ stream' = p.s
                  /\ ws' = [ws EXCEPT !.wake = @ \/ q.new \/ p.new]
            /\ reader' = [reader EXCEPT ![r].at = "wait", ![r].slot = q.k]
    /\ UNCHANGED <<browser, tries>>

\* The segment is ready or the stream has failed.
TakeSegment(r) ==
    /\ reader[r].at = "wait"
    /\ \E k \in {reader[r].slot} :
       /\ stream.slot[k].ready \/ stream.status # "ok"
       /\ IF stream.status = "ok"
          THEN /\ stream' = [stream EXCEPT !.slot[k].waiters = @ - 1,
                                           !.slot[k].consumed = TRUE,
                                           !.lru = Touched(stream.lru, k)]
               /\ reader' = [reader EXCEPT ![r].at = "done",
                                           ![r].got = stream.slot[k].data]
          ELSE /\ stream' = [stream EXCEPT !.slot[k].waiters = @ - 1]
               /\ reader' = [reader EXCEPT ![r] = AtRest]
    /\ UNCHANGED <<ws, browser, tries>>

ReturnRead(r) ==
    /\ reader[r].at = "done"
    /\ reader' = [reader EXCEPT ![r] = AtRest]
    /\ UNCHANGED <<stream, ws, browser, tries>>

\* The 60 s deadline passes; the failure is published after the unlock.
ReadTimesOut(r) ==
    /\ reader[r].at \in {"ask", "wait"} /\ Overhears /\ Mishap
    /\ stream' = IF reader[r].at = "wait"
                 THEN [stream EXCEPT !.slot[reader[r].slot].waiters = @ - 1]
                 ELSE stream
    /\ reader' = [reader EXCEPT ![r] = [AtRest EXCEPT !.at = "failing"]]
    /\ UNCHANGED <<ws, browser>>

PublishTimeout(r) ==
    /\ reader[r].at = "failing"
    /\ stream' = sm_pkg_stream_fail(stream, "timeout")
    /\ ws' = [ws EXCEPT !.wake = @ \/ stream.status = "ok"]
    /\ reader' = [reader EXCEPT ![r] = AtRest]
    /\ UNCHANGED <<browser, tries>>

\* Cancellation, shutdown or the end of the job.
sm_pkg_stream_stop ==
    /\ stream.status = "ok" /\ Overhears /\ Mishap
    /\ stream' = sm_pkg_stream_fail(stream, "cancelled")
    /\ ws' = [ws EXCEPT !.wake = TRUE]
    /\ UNCHANGED <<reader, browser>>

(***************************************************************************)
(* sm_pkg_ws_serve: claim for every free place in the window, handle the   *)
(* answers that arrived, then sleep in poll until the socket or the wake   *)
(* pipe has something.                                                     *)
(***************************************************************************)
WsLive == browser.kind = "ws" /\ ws.at # "gone"

\* A request for each free place; the loop over the window is one step.
ClaimOne(b, c) ==
    IF b.pending[c] # 0 THEN {b}
    ELSE {[s |-> q.s, pending |-> [b.pending EXCEPT ![c] = q.range.id],
           told |-> IF q.range.id = 0 THEN b.told ELSE b.told \union {q.range}] :
             q \in sm_pkg_stream_try_request(b.s, c)}

WsClaim ==
    /\ WsLive /\ ws.at = "claim"
    /\ LET claim[c \in 0..browser.window] ==
             IF c = 0 THEN {[s |-> stream, pending |-> ws.pending, told |-> {}]}
             ELSE UNION {ClaimOne(b, c) : b \in claim[c - 1]}
           stopped == /\ stream.status # "ok"
                      /\ \E c \in 1..browser.window : ws.pending[c] = 0
       IN \E q \in claim[browser.window] :
          /\ stream' = q.s
          /\ ws' = [ws EXCEPT !.at = IF stopped THEN "gone" ELSE "decode",
                              !.pending = q.pending]
          /\ browser' = [browser EXCEPT !.todo = @ \union q.told]
    /\ UNCHANGED <<reader, tries>>

\* One arrived frame: an answer to a pending range, then its acknowledgement;
\* the freed place is refilled on the next turn of the loop.
WsAnswer ==
    /\ WsLive /\ ws.at = "decode" /\ browser.sent # {}
    /\ \E a \in browser.sent :
       \E q \in sm_pkg_stream_reply(stream, a) :
          /\ browser' = [browser EXCEPT !.sent = @ \ {a}]
          /\ IF q.ok
             THEN /\ stream' = q.s
                  /\ ws' = [ws EXCEPT !.at = "claim", !.pending =
                       [c \in Clients |-> IF @[c] = a.id THEN 0 ELSE @[c]]]
             ELSE /\ stream' = sm_pkg_stream_fail(stream, "protocol")
                  /\ ws' = [ws EXCEPT !.at = "gone"]
    /\ UNCHANGED <<reader, tries>>

DrainsLate ==
    /\ WsLive /\ ws.at = "decode" /\ browser.sent = {}
    /\ ws' = [ws EXCEPT !.at = "poll", !.wake = FALSE]
    /\ UNCHANGED <<stream, reader, browser, tries>>

\* Nothing to decode: a queued wake-up is drained and claiming starts over,
\* otherwise the thread goes to sleep in poll.
WsNothingArrived ==
    /\ WsLive /\ ws.at = "decode" /\ browser.sent = {}
    /\ \/ /\ ws.wake /\ \E c \in 1..browser.window : ws.pending[c] = 0
          /\ ws' = [ws EXCEPT !.at = "claim", !.wake = FALSE]
       \/ /\ ~(ws.wake /\ \E c \in 1..browser.window : ws.pending[c] = 0)
          /\ ws' = [ws EXCEPT !.at = "poll"]
    /\ UNCHANGED <<stream, reader, browser, tries>>

\* poll returns: the pipe is drained before the next claim, never after it.
WsWakes ==
    /\ WsLive /\ ws.at = "poll" /\ (ws.wake \/ browser.sent # {})
    /\ ws' = [ws EXCEPT !.at = "claim", !.wake = FALSE]
    /\ UNCHANGED <<stream, reader, browser, tries>>

\* The connection ends: pending reads fail at once.
WsEnds ==
    /\ WsLive /\ Overhears /\ Mishap
    /\ stream' = sm_pkg_stream_fail(stream, "lost")
    /\ ws' = [ws EXCEPT !.at = "gone"]
    /\ UNCHANGED <<reader, browser>>

(***************************************************************************)
(* The page: it uploads the ranges it was told, in any order.              *)
(***************************************************************************)
Upload ==
    /\ WsLive
    /\ \E a \in browser.todo :
          browser' = [browser EXCEPT !.todo = @ \ {a}, !.sent = @ \union {a}]
    /\ UNCHANGED <<stream, reader, ws, tries>>

\* POST stream/request: the answer that names the range may get lost.
handle_package_range(c) ==
    /\ browser.kind = "http" /\ browser.held[c].id = 0
    /\ stream.status = "ok"
    /\ \E q \in sm_pkg_stream_try_request(stream, c) :
          /\ q.range.id # 0
          /\ stream' = q.s
          /\ \/ /\ browser' = [browser EXCEPT !.held[c] = q.range]
                /\ UNCHANGED tries
             \/ Overhears /\ Mishap /\ UNCHANGED browser
    /\ UNCHANGED <<reader, ws>>

\* POST stream/chunk: applied; the page repeats it if the answer gets lost,
\* and drops the range when told it was consumed (409).
handle_package_chunk(c) ==
    /\ browser.kind = "http" /\ browser.held[c].id # 0
    /\ \E q \in sm_pkg_stream_reply(stream, browser.held[c]) : stream' = q.s
    /\ \/ /\ browser' = [browser EXCEPT !.held[c] = NoRange]
          /\ UNCHANGED tries
       \/ Overhears /\ Mishap /\ UNCHANGED browser
    /\ UNCHANGED <<reader, ws>>

ReadStep(r) == AskSegment(r) \/ TakeSegment(r) \/ ReturnRead(r) \/ PublishTimeout(r)
WsStep == WsClaim \/ WsAnswer \/ WsNothingArrived \/ WsWakes
HttpStep(c) == handle_package_range(c) \/ handle_package_chunk(c)

StreamNext ==
    \/ \E r \in Readers : StartRead(r) \/ ReadStep(r) \/ ReadTimesOut(r)
    \/ WsStep \/ WsEnds \/ Upload
    \/ \E c \in Clients : HttpStep(c)
    \/ sm_pkg_stream_stop

StreamSpec == StreamInit /\ [][StreamNext]_streamVars

(***************************************************************************)
(* Properties.                                                             *)
(***************************************************************************)
\* A read returns the bytes of the segment it asked for, whatever was
\* recycled, read ahead, answered late or answered twice meanwhile
\* (request_segment_locked, sm_pkg_stream_reply).
ReadsAreTrue ==
    \A r \in Readers : reader[r].at = "done" => reader[r].got = reader[r].offset

\* No read is stuck: while one is under way some thread or the page can take
\* a step, without the help of a deadline or of a mishap.  No slot stays
\* pinned by requests nobody serves, no wake-up of the WebSocket loop is lost
\* (sm_pkg_ws_serve, stream_wake), no answer to a lost reply is waited for.
ReadsNeverStick ==
    (\E r \in Readers : reader[r].at # "idle") =>
        ENABLED (\/ \E r \in Readers : ReadStep(r)
                 \/ WsStep \/ Upload \/ \E c \in Clients : HttpStep(c))

=============================================================================
