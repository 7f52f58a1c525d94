--------------------------- MODULE PackageServer ---------------------------
(***************************************************************************)
(* The HTTP server the console's installer downloads a package from        *)
(* (sm_pkg_server.c): a listener thread, one detached worker per           *)
(* connection, a read-ahead thread per long response, the coverage table   *)
(* that tells the installer what was served, and the stop that frees it    *)
(* all.                                                                    *)
(*                                                                         *)
(* The file is Total blocks and the content of a block is its number.      *)
(* Requests that send no body (404, 416, HEAD, sidecars) and the browser's *)
(* WebSocket, which PackageStream models, leave the modelled state alone.  *)
(***************************************************************************)
EXTENDS Integers, Sequences, FiniteSets

CONSTANTS
    Threads,              \* worker threads that can exist at once
    Total,                \* blocks of the package
    SM_PKG_SERVER_MAX_CONNECTIONS,
    SM_PKG_SERVER_COVERAGE_MAX,
    MaxConnections,       \* bound: connections the installer makes
    MaxRequests,          \* bound: ranges it asks for
    MaxPipelines          \* bound: read-ahead threads that can be started

VARIABLES
    server,     \* running, worker_count, connections[], freed
    listening,  \* the listener thread
    worker,     \* per thread: position, connection slot, the range it sends
    ahead,      \* per thread: its read-ahead state
    stopping,   \* sm_pkg_server_stop
    cover,      \* intervals[]
    served,     \* the blocks really sent, with what was sent for them
    calls       \* what remains of the bounds

serverVars == <<server, listening, worker, ahead, stopping, cover, served, calls>>

Blocks == 0..(Total - 1)
Places == 1..SM_PKG_SERVER_MAX_CONNECTIONS
NoThread == [at |-> "none", place |-> 0, off |-> 0, last |-> 0, pipelined |-> FALSE]
NoAhead == [on |-> FALSE, head |-> 0, pending |-> 0, off |-> 0, last |-> 0,
            block |-> [b \in 0..1 |-> -1], reading |-> FALSE, stop |-> FALSE,
            done |-> FALSE]
Nobody == "nobody"

ServerInit ==
    /\ server = [running |-> TRUE, count |-> 0, freed |-> FALSE,
                 connections |-> [p \in Places |-> Nobody], shut |-> {}]
    /\ listening = "poll"
    /\ worker = [w \in Threads |-> NoThread]
    /\ ahead = [w \in Threads |-> NoAhead]
    /\ stopping = "no"
    /\ cover = <<>>
    /\ served = [sent |-> {}, dropped |-> FALSE]
    /\ calls = [connections |-> MaxConnections, requests |-> MaxRequests,
                pipelines |-> MaxPipelines]

(***************************************************************************)
(* Coverage: sorted intervals, neighbours merged.                          *)
(***************************************************************************)
\* The intervals that overlap or, with slack 1, adjoin start..end.
Merged(c, s, e, slack) ==
    LET joined == {c[k] : k \in {j \in 1..Len(c) : c[j][2] + slack >= s
                                                   /\ c[j][1] <= e + slack}}
        lows == {i[1] : i \in joined} \union {s}
        highs == {i[2] : i \in joined} \union {e} IN
    IF joined = {} /\ Len(c) >= SM_PKG_SERVER_COVERAGE_MAX THEN c
    ELSE SelectSeq(c, LAMBDA i : i[2] + slack < s)
         \o <<<<CHOOSE m \in lows : \A x \in lows : m <= x,
                CHOOSE m \in highs : \A x \in highs : m >= x>>>>
         \o SelectSeq(c, LAMBDA i : i[1] > e + slack)

OnlyOverlapping(c, s, e) == Merged(c, s, e, 0)

\* Every interval that touches or adjoins start..end becomes one with it; a
\* new one is dropped when the table is full.
add_coverage_locked(c, s, e) == Merged(c, s, e, 1)

complete_locked(c) == c = <<<<0, Total - 1>>>>
Covered(c) == UNION {c[k][1]..c[k][2] : k \in 1..Len(c)}

(***************************************************************************)
(* The listener and the workers it starts.                                 *)
(***************************************************************************)
\* accept: too many workers, no memory or no thread turns the caller away
\* and takes the count back.
listener_accept ==
    /\ listening = "poll" /\ server.running /\ calls.connections > 0
    /\ calls' = [calls EXCEPT !.connections = @ - 1]
    /\ \/ UNCHANGED <<server, worker>>
       \/ /\ server.count < SM_PKG_SERVER_MAX_CONNECTIONS
          /\ \E w \in {w \in Threads : worker[w].at = "none"} :
                worker' = [worker EXCEPT ![w].at = "new"]
          /\ server' = [server EXCEPT !.count = @ + 1]
    /\ UNCHANGED <<listening, ahead, stopping, cover, served>>

listener_exit ==
    /\ listening = "poll" /\ ~server.running
    /\ listening' = "gone"
    /\ UNCHANGED <<server, worker, ahead, stopping, cover, served, calls>>

RegisterConnection(w) ==
    /\ worker[w].at = "new"
    /\ \E p \in {p \in Places : server.connections[p] = Nobody} :
          /\ \A o \in Places : server.connections[o] = Nobody => p <= o
          /\ server' = [server EXCEPT !.connections[p] = w]
          /\ worker' = [worker EXCEPT ![w].at = "recv", ![w].place = p]
    /\ UNCHANGED <<listening, ahead, stopping, cover, served, calls>>

\* The next request names a range.  A long one starts the read-ahead thread,
\* unless that fails; the connection may also end here.
ReceiveRequest(w) ==
    /\ worker[w].at = "recv"
    /\ \/ /\ server.running /\ calls.requests > 0 /\ w \notin server.shut
          /\ \E s \in Blocks, e \in Blocks, pipe \in BOOLEAN :
                /\ s <= e /\ (pipe => e > s /\ calls.pipelines > 0)
                /\ calls' = [calls EXCEPT !.requests = @ - 1,
                                          !.pipelines = IF pipe THEN @ - 1 ELSE @]
                /\ worker' = [worker EXCEPT ![w] = [@ EXCEPT !.at = "serve",
                                 !.off = s, !.last = e, !.pipelined = pipe]]
                /\ ahead' = IF pipe
                            THEN [ahead EXCEPT ![w] = [NoAhead EXCEPT !.on = TRUE,
                                                         !.off = s, !.last = e]]
                            ELSE ahead
       \/ /\ worker' = [worker EXCEPT ![w].at = "leave"]
          /\ UNCHANGED <<ahead, calls>>
    /\ UNCHANGED <<server, listening, stopping, cover, served>>

\* The next block is at hand: the head of the read-ahead buffers, or read
\* here.  No block left, or a failed read, ends the response.
TakeBlock(w) ==
    /\ worker[w].at = "serve" /\ worker[w].off <= worker[w].last /\ server.running
    /\ worker[w].pipelined => ahead[w].pending > 0 \/ ahead[w].done
    /\ \E next \in {"send", "join"} :
          /\ next = "send" => (worker[w].pipelined =>
                 ahead[w].pending > 0 /\ ahead[w].block[ahead[w].head] # -1)
          /\ next = "join" => (worker[w].pipelined =>
                 ahead[w].pending = 0 \/ ahead[w].block[ahead[w].head] = -1)
          /\ worker' = [worker EXCEPT ![w].at = next]
    /\ UNCHANGED <<server, listening, ahead, stopping, cover, served, calls>>

\* A block that adjoins nothing served so far finds no free interval.
TableFull(b) ==
    /\ Len(cover) >= SM_PKG_SERVER_COVERAGE_MAX
    /\ {b - 1, b, b + 1} \intersect Covered(cover) = {}

Released(a) == [a EXCEPT !.head = (@ + 1) % 2, !.pending = @ - 1]

\* send_all runs without a lock, from the buffer itself.  What was sent is
\* counted, and only then is the buffer given back to the reader.
SendBlock(w) ==
    /\ worker[w].at = "send"
    /\ \/ /\ w \notin server.shut
          /\ \E data \in {IF worker[w].pipelined THEN ahead[w].block[ahead[w].head]
                          ELSE worker[w].off},
                c \in {add_coverage_locked(cover, worker[w].off, worker[w].off)} :
             /\ cover' = c
             /\ served' = [sent |-> served.sent \union {<<worker[w].off, data>>},
                           dropped |-> served.dropped \/ TableFull(worker[w].off)]
          /\ worker' = [worker EXCEPT ![w].at = "serve", ![w].off = @ + 1]
          /\ ahead' = IF worker[w].pipelined
                      THEN [ahead EXCEPT ![w] = Released(@)] ELSE ahead
       \/ /\ worker' = [worker EXCEPT ![w].at = "join"]
          /\ UNCHANGED <<cover, served, ahead>>
    /\ UNCHANGED <<server, listening, stopping, calls>>

\* The response is complete or the server stops.
EndResponse(w) ==
    /\ worker[w].at = "serve"
    /\ worker[w].off > worker[w].last \/ ~server.running
    /\ worker' = [worker EXCEPT ![w].at = "join"]
    /\ UNCHANGED <<server, listening, ahead, stopping, cover, served, calls>>

JoinsOnly(w) ==
    /\ worker[w].at = "join" /\ (ahead[w].on => ahead[w].done)
    /\ ahead' = [ahead EXCEPT ![w] = NoAhead]
    /\ \E next \in {"recv", "leave"} :
          worker' = [worker EXCEPT ![w] = [NoThread EXCEPT !.at = next,
                                             !.place = worker[w].place]]
    /\ UNCHANGED <<server, listening, stopping, cover, served, calls>>

\* stop_read_ahead: ask the thread to stop, then join it.
stop_read_ahead(w) ==
    /\ worker[w].at = "join"
    /\ IF ahead[w].on /\ ~ahead[w].done
       THEN /\ ~ahead[w].stop
            /\ ahead' = [ahead EXCEPT ![w].stop = TRUE]
            /\ UNCHANGED worker
       ELSE /\ ahead' = [ahead EXCEPT ![w] = NoAhead]
            /\ \E next \in {"recv", "leave"} :
                  worker' = [worker EXCEPT ![w] =
                               [NoThread EXCEPT !.at = next,
                                                !.place = worker[w].place]]
    /\ UNCHANGED <<server, listening, stopping, cover, served, calls>>

\* The buffers hold the block being sent and the one after it.
ReadsOneMore(a) == a.pending < 3
HasRoom(a) == a.pending < 2

\* read_ahead_worker: the block is chosen under the lock and filled outside;
\* while both are pending the thread sleeps, and a server that stops does not
\* wake it: the response does, when it gives a block back or joins.
AheadReads(w) ==
    /\ ahead[w].on /\ ~ahead[w].done /\ ~ahead[w].reading
    /\ IF ahead[w].stop \/ ahead[w].off > ahead[w].last
       THEN ahead' = [ahead EXCEPT ![w].done = TRUE]
       ELSE /\ HasRoom(ahead[w])
            /\ \E b \in {(ahead[w].head + ahead[w].pending) % 2} :
               \E got \in {-1, ahead[w].off} :        \* a failed pread
                  ahead' = IF server.running
                           THEN [ahead EXCEPT ![w].reading = TRUE,
                                              ![w].block[b] = got]
                           ELSE [ahead EXCEPT ![w].done = TRUE]
    /\ UNCHANGED <<server, listening, worker, stopping, cover, served, calls>>

\* It may see that the server stops before it goes to sleep.
AheadSeesStop(w) ==
    /\ ahead[w].on /\ ~ahead[w].done /\ ~ahead[w].reading
    /\ ~server.running /\ ~HasRoom(ahead[w])
    /\ ahead' = [ahead EXCEPT ![w].done = TRUE]
    /\ UNCHANGED <<server, listening, worker, stopping, cover, served, calls>>

AheadPublishes(w) ==
    /\ ahead[w].reading
    /\ \E b \in {(ahead[w].head + ahead[w].pending) % 2} :
          ahead' = [ahead EXCEPT ![w] = [@ EXCEPT
                      !.reading = FALSE, !.pending = @ + 1,
                      !.done = ahead[w].block[b] = -1,
                      !.off = IF ahead[w].block[b] = -1 THEN @ ELSE @ + 1]]
    /\ UNCHANGED <<server, listening, worker, stopping, cover, served, calls>>

RetiresFirst(w) ==
    \/ /\ worker[w].at = "leave"
       /\ server' = [server EXCEPT !.count = @ - 1]
       /\ worker' = [worker EXCEPT ![w].at = "retire"]
       /\ UNCHANGED <<listening, ahead, stopping, cover, served, calls>>
    \/ /\ worker[w].at = "retire"
       /\ server' = [server EXCEPT !.connections[worker[w].place] = Nobody,
                                   !.shut = @ \ {w}]
       /\ worker' = [worker EXCEPT ![w] = NoThread]
       /\ UNCHANGED <<listening, ahead, stopping, cover, served, calls>>

\* The slot is given back, the socket closed, and the count comes last.
retire_worker(w) ==
    \/ /\ worker[w].at = "leave"
       /\ server' = [server EXCEPT !.connections[worker[w].place] = Nobody,
                                   !.shut = @ \ {w}]
       /\ worker' = [worker EXCEPT ![w].at = "retire"]
       /\ UNCHANGED <<listening, ahead, stopping, cover, served, calls>>
    \/ /\ worker[w].at = "retire"
       /\ server' = [server EXCEPT !.count = @ - 1]
       /\ worker' = [worker EXCEPT ![w] = NoThread]
       /\ UNCHANGED <<listening, ahead, stopping, cover, served, calls>>

(***************************************************************************)
(* sm_pkg_server_stop.                                                     *)
(***************************************************************************)
BeginStop ==
    /\ stopping = "no"
    /\ stopping' = "join"
    /\ server' = [server EXCEPT !.running = FALSE]
    /\ UNCHANGED <<listening, worker, ahead, cover, served, calls>>

\* The listener is joined before the connections are swept.
SweepConnections ==
    /\ stopping = "join" /\ listening = "gone"
    /\ stopping' = "wait"
    /\ server' = [server EXCEPT !.shut =
                    {w \in Threads : \E p \in Places : server.connections[p] = w}]
    /\ UNCHANGED <<listening, worker, ahead, cover, served, calls>>

FreeServer ==
    /\ stopping = "wait" /\ server.count = 0
    /\ stopping' = "returned"
    /\ server' = [server EXCEPT !.freed = TRUE]
    /\ UNCHANGED <<listening, worker, ahead, cover, served, calls>>

WorkerStep(w) ==
    \/ RegisterConnection(w) \/ TakeBlock(w) \/ SendBlock(w) \/ EndResponse(w)
    \/ stop_read_ahead(w) \/ retire_worker(w)
AheadStep(w) == AheadReads(w) \/ AheadPublishes(w)
StopStep == SweepConnections \/ FreeServer

\* recv returns once the socket is shut down or the server stops: its
\* timeout is 60 s and the loop tests running again.
ReceiveEnds(w) == ~server.running /\ ReceiveRequest(w)

ServerNext ==
    \/ listener_accept \/ listener_exit \/ BeginStop \/ StopStep
    \/ \E w \in Threads : WorkerStep(w) \/ ReceiveRequest(w) \/ AheadStep(w)
                        \/ AheadSeesStop(w)

ServerSpec == ServerInit /\ [][ServerNext]_serverVars

(***************************************************************************)
(* Properties.                                                             *)
(***************************************************************************)
\* The coverage the installation's completion is judged by
\* (sm_pkg_server_complete) is what was sent: every covered block went out
\* with its own content, nothing sent is missing unless the table was full,
\* and the intervals stay sorted and apart.
CoverageIsServed ==
    /\ \A x \in served.sent : x[1] = x[2]
    /\ Covered(cover) \subseteq {x[1] : x \in served.sent}
    /\ ~served.dropped => Covered(cover) = {x[1] : x \in served.sent}
    /\ complete_locked(cover) => {x[1] : x \in served.sent} = Blocks
    /\ \A k \in 1..(Len(cover) - 1) : cover[k][2] + 1 < cover[k + 1][1]

\* When sm_pkg_server_stop frees the server, no thread that uses it is left:
\* listener, workers and their read-ahead threads are gone.
FreedIsQuiet ==
    server.freed =>
        /\ listening = "gone"
        /\ \A w \in Threads : worker[w].at = "none" /\ ~ahead[w].on

\* A stop is never stuck: until it returns some thread can go on, whether the
\* workers are starting, receiving, sending or waiting for their read-ahead
\* threads (sm_pkg_server_stop, stop_read_ahead).
StopNeverSticks ==
    stopping \in {"join", "wait"} =>
        ENABLED (\/ listener_exit \/ StopStep
                 \/ \E w \in Threads : WorkerStep(w) \/ AheadStep(w) \/ ReceiveEnds(w))

=============================================================================
