------------------------------ MODULE LogThread ------------------------------
(***************************************************************************)
(* The core of the library: the logging thread (log_thread), the retry     *)
(* thread of every failing stream (retry_thread), the level filter of      *)
(* output_stream::write, and the application threads that call             *)
(* log_thread::enqueue and log_thread::terminate and that add and remove   *)
(* output streams.                                                         *)
(*                                                                         *)
(* One action is one critical section or one step between two points where *)
(* another thread can interfere.  A write to a stream takes time: it is    *)
(* the control state "write", left by the action that stands for the       *)
(* return of output_stream::write.  m_retry_map and local are touched by   *)
(* the logging thread only.  The retry thread of stream s is described by  *)
(* rpc[s] (its program counter, "none" when no object exists) and          *)
(* m_event_queue[s].                                                       *)
(*                                                                         *)
(* An output stream is one object: it is added once and removed once.      *)
(* m_streams has no lock; that its tree may itself be torn by a change     *)
(* during an iteration is left out, the change is atomic.                  *)
(*                                                                         *)
(* sent, atTerm, fate, last and overlap are history variables: they record *)
(* what was accepted, how much of it before terminate(), what became of    *)
(* every message on every stream, which message reached its sink last, and *)
(* whether a stream was removed while somebody could use it.               *)
(***************************************************************************)
EXTENDS Naturals, SequencesExt

CONSTANTS Streams,     \* the output streams
          Initial,     \* those in m_streams when the first message is logged
          Removable,   \* those that remove_output_stream is called for
          NoStream,    \* no stream is being served
          AppThreads,  \* threads that log
          MaxEvents,   \* bound on the number of messages
          Severe,      \* the highest log level; the levels are 0..Severe
          UsedLevels,  \* the levels messages are logged with
          MinLevels    \* the levels set_min_log_level is called with

ASSUME ConstantsAssumption ==
    /\ NoStream \notin Streams
    /\ Initial \subseteq Streams
    /\ Removable \subseteq Streams
    /\ MaxEvents \in Nat
    /\ Severe \in Nat
    /\ UsedLevels \subseteq 0..Severe
    /\ MinLevels \subseteq 0..Severe

LogLevel  == 0..Severe
Id        == 1..MaxEvents
log_event == [id : Id, level : LogLevel]

VARIABLES
    m_events,        \* log_thread: messages not yet picked up
    m_do_terminate,  \* log_thread: stop requested
    m_streams,       \* log_thread: where the life of every stream stands
    lpc,             \* log_thread: program counter
    local,           \* do_run: the batch being processed
    todo,            \* log(): streams the current message still has to visit
    cur,             \* log(), do_run: the stream being served
    toscan,          \* do_run: retry map entries not yet looked at
    still_active,    \* do_run: some retry thread has messages left
    m_retry_map,     \* log_thread: "absent", "null" or "thread" for every stream
    rpc,             \* retry_thread: program counter
    m_event_queue,   \* retry_thread: messages waiting for a retry
    m_minLogLevel,   \* output_stream: the stream's minimum level
    apc,             \* application threads: "idle" or "notify"
    tpc,             \* the thread that calls terminate()
    sent, atTerm, fate, last, overlap

logVars   == <<lpc, local, todo, cur, toscan, still_active, m_retry_map>>
retryVars == <<rpc, m_event_queue>>
mapVars   == <<m_streams, overlap>>
appVars   == <<apc, tpc, m_do_terminate, sent, atTerm, mapVars>>
sinkVars  == <<fate, last>>
vars == <<m_events, logVars, retryVars, m_minLogLevel, appVars, sinkVars>>

Lpc == {"swap", "event", "stream", "join", "enqueue", "write", "spawn", "first",
        "wait", "scan", "scanjoin", "recheck", "done", "crashed"}
Rpc == {"none", "sleep", "try", "write", "pop", "expire", "expiring", "report", "check",
        "stop", "done"}
Tpc == {"running", "notify", "join", "deleted"}
Fate == {"none", "delivered", "filtered", "expired", "dropped", "missed"}

\* A stream that was deleted stays in the map until it is erased.
Life == {"outside", "present", "deleted", "erased"}
InMap == {s \in Streams : m_streams[s] \in {"present", "deleted"}}
Present == {s \in Streams : m_streams[s] = "present"}

TypeOK ==
    /\ m_events \in Seq(log_event)
    /\ m_do_terminate \in BOOLEAN
    /\ m_streams \in [Streams -> Life]
    /\ overlap \in BOOLEAN
    /\ lpc \in Lpc
    /\ local \in Seq(log_event)
    /\ todo \in SUBSET Streams
    /\ cur \in Streams \cup {NoStream}
    /\ toscan \in SUBSET Streams
    /\ still_active \in BOOLEAN
    /\ m_retry_map \in [Streams -> {"absent", "null", "thread"}]
    /\ rpc \in [Streams -> Rpc]
    /\ m_event_queue \in [Streams -> Seq(log_event)]
    /\ m_minLogLevel \in [Streams -> LogLevel]
    /\ apc \in [AppThreads -> {"idle", "notify"}]
    /\ tpc \in Tpc
    /\ sent \in 0..MaxEvents
    /\ atTerm \in 0..MaxEvents
    /\ fate \in [Streams -> [Id -> Fate]]
    /\ last \in [Streams -> 0..MaxEvents]

Init ==
    /\ m_events = <<>>
    /\ m_do_terminate = FALSE
    /\ m_streams = [s \in Streams |-> IF s \in Initial THEN "present" ELSE "outside"]
    /\ overlap = FALSE
    /\ lpc = "swap"
    /\ local = <<>>
    /\ todo = {}
    /\ cur = NoStream
    /\ toscan = {}
    /\ still_active = FALSE
    /\ m_retry_map = [s \in Streams |-> "absent"]
    /\ rpc = [s \in Streams |-> "none"]
    /\ m_event_queue = [s \in Streams |-> <<>>]
    /\ m_minLogLevel = [s \in Streams |-> 0]
    /\ apc = [t \in AppThreads |-> "idle"]
    /\ tpc = "running"
    /\ sent = 0
    /\ atTerm = 0
    /\ fate = [s \in Streams |-> [e \in Id |-> "none"]]
    /\ last = [s \in Streams |-> 0]
-----------------------------------------------------------------------------
(***************************************************************************)
(* Application threads.                                                    *)
(***************************************************************************)

\* enqueue: append under the mutex; the notification follows after the unlock.
\* Logging through a deleted log_thread is outside this module.
Enqueue(t, l) ==
    /\ apc[t] = "idle"
    /\ tpc # "deleted"
    /\ sent < MaxEvents
    /\ sent' = sent + 1
    /\ m_events' = Append(m_events, [id |-> sent + 1, level |-> l])
    /\ apc' = [apc EXCEPT ![t] = "notify"]
    /\ UNCHANGED <<logVars, retryVars, m_minLogLevel, tpc, m_do_terminate, atTerm, mapVars, sinkVars>>

\* notify_one: only the logging thread ever waits on m_cond.
Wake == lpc' = IF lpc = "wait" THEN "swap" ELSE lpc

\* Mutant: notify_one is forgotten.
EnqueueSilently(t) ==
    /\ apc[t] = "notify"
    /\ apc' = [apc EXCEPT ![t] = "idle"]
    /\ UNCHANGED <<m_events, logVars, retryVars, m_minLogLevel, tpc, m_do_terminate, sent,
                   atTerm, mapVars, sinkVars>>

EnqueueNotify(t) ==
    /\ apc[t] = "notify"
    /\ apc' = [apc EXCEPT ![t] = "idle"]
    /\ Wake
    /\ UNCHANGED <<m_events, local, todo, cur, toscan, still_active, m_retry_map, retryVars,
                   m_minLogLevel, tpc, m_do_terminate, sent, atTerm, mapVars, sinkVars>>

\* terminate: set the flag under the mutex, notify, join; the caller then
\* deletes the log_thread.
Terminate ==
    /\ tpc = "running"
    /\ tpc' = "notify"
    /\ m_do_terminate' = TRUE
    /\ atTerm' = sent
    /\ UNCHANGED <<m_events, logVars, retryVars, m_minLogLevel, apc, sent, mapVars, sinkVars>>

\* Mutant: terminate joins without notify_one.
TerminateSilently ==
    /\ tpc = "notify"
    /\ tpc' = "join"
    /\ UNCHANGED <<m_events, logVars, retryVars, m_minLogLevel, apc, m_do_terminate, sent,
                   atTerm, mapVars, sinkVars>>

TerminateNotify ==
    /\ tpc = "notify"
    /\ tpc' = "join"
    /\ Wake
    /\ UNCHANGED <<m_events, local, todo, cur, toscan, still_active, m_retry_map, retryVars,
                   m_minLogLevel, apc, m_do_terminate, sent, atTerm, mapVars, sinkVars>>

TerminateJoined ==
    /\ tpc = "join"
    /\ lpc = "done"
    /\ tpc' = "deleted"
    /\ UNCHANGED <<m_events, logVars, retryVars, m_minLogLevel, apc, m_do_terminate, sent,
                   atTerm, mapVars, sinkVars>>

\* Mutant: the level is stored as an exclusive bound.
set_min_log_level_exclusive(s, l) ==
    /\ tpc # "deleted"
    /\ m_minLogLevel[s] # l
    /\ m_minLogLevel' = [m_minLogLevel EXCEPT ![s] = l + 1]
    /\ UNCHANGED <<m_events, logVars, retryVars, appVars, sinkVars>>

set_min_log_level(s, l) ==
    /\ tpc # "deleted"
    /\ m_minLogLevel[s] # l
    /\ m_minLogLevel' = [m_minLogLevel EXCEPT ![s] = l]
    /\ UNCHANGED <<m_events, logVars, retryVars, appVars, sinkVars>>

\* The program is inside log(), going through m_streams.
InLog == {"stream", "join", "enqueue", "write", "spawn", "first"}

\* Message e is in q.
In(q, e) == \E i \in DOMAIN q : q[i].id = e

\* add_output_stream: the iteration that is under way may or may not come to
\* the new stream; messages already dispatched are none of its business.
add_output_stream(s) ==
    /\ tpc # "deleted"
    /\ m_streams[s] = "outside"
    /\ m_streams' = [m_streams EXCEPT ![s] = "present"]
    /\ \/ lpc \in InLog /\ todo' = todo \cup {s}
       \/ UNCHANGED todo
    /\ LET pending(e) == \/ In(m_events, e)
                         \/ local # <<>> /\ In(Tail(local), e)
                         \/ local # <<>> /\ Head(local).id = e /\ (lpc = "event" \/ s \in todo')
       IN  fate' = [fate EXCEPT ![s] = [e \in Id |-> IF e <= sent /\ ~pending(e) THEN "missed" ELSE @[e]]]
    /\ UNCHANGED <<m_events, lpc, local, cur, toscan, still_active, m_retry_map, retryVars,
                   m_minLogLevel, apc, tpc, m_do_terminate, sent, atTerm, overlap, last>>

\* Somebody is using stream s, or is about to; a retry thread does so until it
\* has announced its end.
InUse(s) == lpc \in InLog \/ rpc[s] \notin {"none", "done"}

\* remove_output_stream deletes the object and then erases its entry,
\* whatever the threads are doing with it.
DeleteStream(s) ==
    /\ tpc # "deleted"
    /\ s \in Removable
    /\ m_streams[s] = "present"
    /\ m_streams' = [m_streams EXCEPT ![s] = "deleted"]
    /\ overlap' = (overlap \/ InUse(s))
    /\ UNCHANGED <<m_events, logVars, retryVars, m_minLogLevel, apc, tpc, m_do_terminate, sent,
                   atTerm, sinkVars>>

EraseStream(s) ==
    /\ tpc # "deleted"
    /\ m_streams[s] = "deleted"
    /\ m_streams' = [m_streams EXCEPT ![s] = "erased"]
    /\ todo' = todo \ {s}
    /\ UNCHANGED <<m_events, lpc, local, cur, toscan, still_active, m_retry_map, retryVars,
                   m_minLogLevel, apc, tpc, m_do_terminate, sent, atTerm, overlap, sinkVars>>

App ==
    \/ \E t \in AppThreads : EnqueueNotify(t) \/ \E l \in UsedLevels : Enqueue(t, l)
    \/ Terminate \/ TerminateNotify \/ TerminateJoined
    \/ \E s \in Streams : add_output_stream(s) \/ DeleteStream(s) \/ EraseStream(s)
    \/ \E s \in Streams, l \in MinLevels : set_min_log_level(s, l)
-----------------------------------------------------------------------------
(***************************************************************************)
(* output_stream::write, shared by the logging thread and the retry        *)
(* threads: the return of a call for message e on stream s.                *)
(***************************************************************************)
Settle(s, e, f) == fate' = [fate EXCEPT ![s] = [@ EXCEPT ![e.id] = f]]
Reach(s, e)     == last' = [last EXCEPT ![s] = e.id]

WriteTrue(s, e) ==
    \/ /\ e.level < m_minLogLevel[s]
       /\ Settle(s, e, "filtered")
       /\ UNCHANGED last
    \/ /\ e.level >= m_minLogLevel[s]
       /\ Settle(s, e, "delivered")
       /\ Reach(s, e)

\* do_write reported a failure; the message may have reached the sink.
WriteFalse(s, e) ==
    /\ e.level >= m_minLogLevel[s]
    /\ UNCHANGED last \/ Reach(s, e)
    /\ UNCHANGED fate
-----------------------------------------------------------------------------
(***************************************************************************)
(* The logging thread.                                                     *)
(***************************************************************************)

\* The retry thread of s holds its mutex while it removes expired messages.
Locked(s) == rpc[s] \in {"expire", "expiring"}

\* do_run: take the accumulated events.
Swap ==
    /\ lpc = "swap"
    /\ local' = m_events
    /\ m_events' = <<>>
    /\ lpc' = "event"
    /\ UNCHANGED <<todo, cur, toscan, still_active, m_retry_map, retryVars, m_minLogLevel,
                   appVars, sinkVars>>

\* Mutant: log() goes through a copy of the map that is never purged.
NextEventCached ==
    /\ lpc = "event"
    /\ local # <<>>
    /\ todo' = {s \in Streams : m_streams[s] # "outside"}
    /\ overlap' = (overlap \/ InMap # Present)
    /\ lpc' = "stream"
    /\ UNCHANGED <<m_events, local, cur, toscan, still_active, m_retry_map, retryVars,
                   m_minLogLevel, apc, tpc, m_do_terminate, sent, atTerm, m_streams, sinkVars>>

\* log(): the iteration over m_streams begins.
NextEvent ==
    /\ lpc = "event"
    /\ local # <<>>
    /\ todo' = InMap
    /\ overlap' = (overlap \/ InMap # Present)
    /\ lpc' = "stream"
    /\ UNCHANGED <<m_events, local, cur, toscan, still_active, m_retry_map, retryVars,
                   m_minLogLevel, apc, tpc, m_do_terminate, sent, atTerm, m_streams, sinkVars>>

EventDone ==
    /\ lpc = "stream"
    /\ todo = {}
    /\ local' = Tail(local)
    /\ lpc' = "event"
    /\ UNCHANGED <<m_events, todo, cur, toscan, still_active, m_retry_map, retryVars,
                   m_minLogLevel, appVars, sinkVars>>

\* log(): look the next stream up in m_retry_map.
Lookup(s) ==
    /\ lpc = "stream"
    /\ s \in todo
    /\ todo' = todo \ {s}
    /\ cur' = s
    /\ \/ /\ m_retry_map[s] \in {"absent", "null"}
          /\ m_retry_map' = [m_retry_map EXCEPT ![s] = "absent"]
          /\ lpc' = "write"
       \/ /\ m_retry_map[s] = "thread"
          /\ ~Locked(s)
          /\ lpc' = IF m_event_queue[s] = <<>> THEN "join" ELSE "enqueue"
          /\ UNCHANGED m_retry_map
    /\ UNCHANGED <<m_events, local, toscan, still_active, retryVars, m_minLogLevel, appVars,
                   sinkVars>>

\* Mutant: the retry thread is detached instead of joined.
JoinDetached ==
    /\ lpc = "join"
    /\ m_retry_map' = [m_retry_map EXCEPT ![cur] = "absent"]
    /\ lpc' = "write"
    /\ UNCHANGED <<m_events, local, todo, cur, toscan, still_active, retryVars,
                   m_minLogLevel, appVars, sinkVars>>

\* The queue was empty: join the retry thread, delete it, back to direct writes.
Join ==
    /\ lpc = "join"
    /\ rpc[cur] = "done"
    /\ rpc' = [rpc EXCEPT ![cur] = "none"]
    /\ m_event_queue' = [m_event_queue EXCEPT ![cur] = <<>>]
    /\ m_retry_map' = [m_retry_map EXCEPT ![cur] = "absent"]
    /\ lpc' = "write"
    /\ UNCHANGED <<m_events, local, todo, cur, toscan, still_active, m_minLogLevel, appVars,
                   sinkVars>>

\* Mutant: push_front instead of push_back.
RetryEnqueueFront ==
    /\ lpc = "enqueue"
    /\ ~Locked(cur)
    /\ m_event_queue' = [m_event_queue EXCEPT ![cur] = <<Head(local)>> \o @]
    /\ lpc' = "stream"
    /\ cur' = NoStream
    /\ UNCHANGED <<m_events, local, todo, toscan, still_active, m_retry_map, rpc,
                   m_minLogLevel, appVars, sinkVars>>

\* The queue was not empty when active() was called: hand the message over.
RetryEnqueue ==
    /\ lpc = "enqueue"
    /\ ~Locked(cur)
    /\ m_event_queue' = [m_event_queue EXCEPT ![cur] = Append(@, Head(local))]
    /\ lpc' = "stream"
    /\ cur' = NoStream
    /\ UNCHANGED <<m_events, local, todo, toscan, still_active, m_retry_map, rpc,
                   m_minLogLevel, appVars, sinkVars>>

LogWriteTrue ==
    /\ lpc = "write"
    /\ WriteTrue(cur, Head(local))
    /\ lpc' = "stream"
    /\ cur' = NoStream
    /\ UNCHANGED <<m_events, local, todo, toscan, still_active, m_retry_map, retryVars,
                   m_minLogLevel, appVars>>

LogWriteFalse ==
    /\ lpc = "write"
    /\ WriteFalse(cur, Head(local))
    /\ lpc' = "spawn"
    /\ UNCHANGED <<m_events, local, todo, cur, toscan, still_active, m_retry_map, retryVars,
                   m_minLogLevel, appVars>>

\* new retry_thread: the thread runs before the message is in its queue.
Spawn ==
    /\ lpc = "spawn"
    /\ rpc' = [rpc EXCEPT ![cur] = "sleep"]
    /\ m_event_queue' = [m_event_queue EXCEPT ![cur] = <<>>]
    /\ lpc' = "first"
    /\ UNCHANGED <<m_events, local, todo, cur, toscan, still_active, m_retry_map,
                   m_minLogLevel, appVars, sinkVars>>

\* std::system_error: the message is dropped for this stream.
SpawnFails ==
    /\ lpc = "spawn"
    /\ Settle(cur, Head(local), "dropped")
    /\ lpc' = "stream"
    /\ cur' = NoStream
    /\ UNCHANGED <<m_events, local, todo, toscan, still_active, m_retry_map, retryVars,
                   m_minLogLevel, appVars, last>>

\* The constructor has announced the thread by the stream's name.
FirstEnqueue ==
    /\ lpc = "first"
    /\ ~Locked(cur)
    /\ m_event_queue' = [m_event_queue EXCEPT ![cur] = Append(@, Head(local))]
    /\ m_retry_map' = [m_retry_map EXCEPT ![cur] = "thread"]
    /\ lpc' = "stream"
    /\ cur' = NoStream
    /\ UNCHANGED <<m_events, local, todo, toscan, still_active, rpc, m_minLogLevel, appVars,
                   sinkVars>>

\* Mutant: m_events is not looked at again before the wait.
CheckMissesSignal ==
    /\ lpc = "event"
    /\ local = <<>>
    /\ \/ /\ m_events = <<>> /\ m_do_terminate
          /\ lpc' = "scan"
          /\ toscan' = {s \in Streams : m_retry_map[s] # "absent"}
          /\ still_active' = FALSE
       \/ /\ ~(m_events = <<>> /\ m_do_terminate)
          /\ lpc' = "wait"
          /\ UNCHANGED <<toscan, still_active>>
    /\ UNCHANGED <<m_events, local, todo, cur, m_retry_map, retryVars, m_minLogLevel,
                   appVars, sinkVars>>

\* do_run after the batch, with m_mutex held: stop, go on or wait.
Check ==
    /\ lpc = "event"
    /\ local = <<>>
    /\ \/ /\ m_events = <<>> /\ m_do_terminate
          /\ lpc' = "scan"
          /\ toscan' = {s \in Streams : m_retry_map[s] # "absent"}
          /\ still_active' = FALSE
       \/ /\ m_events = <<>> /\ ~m_do_terminate
          /\ lpc' = "wait"
          /\ UNCHANGED <<toscan, still_active>>
       \/ /\ m_events # <<>>
          /\ lpc' = "swap"
          /\ UNCHANGED <<toscan, still_active>>
    /\ UNCHANGED <<m_events, local, todo, cur, m_retry_map, retryVars, m_minLogLevel,
                   appVars, sinkVars>>

SpuriousWake ==
    /\ lpc = "wait"
    /\ lpc' = "swap"
    /\ UNCHANGED <<m_events, local, todo, cur, toscan, still_active, m_retry_map, retryVars,
                   m_minLogLevel, appVars, sinkVars>>

\* The loop over m_retry_map.  i.second is dereferenced without a test for null.
Scan(s) ==
    /\ lpc = "scan"
    /\ s \in toscan
    /\ toscan' = toscan \ {s}
    /\ \/ /\ m_retry_map[s] = "null"
          /\ lpc' = "crashed"
          /\ UNCHANGED <<cur, still_active>>
       \/ /\ m_retry_map[s] = "thread" /\ ~Locked(s)
          /\ m_event_queue[s] # <<>>
          /\ still_active' = TRUE
          /\ UNCHANGED <<lpc, cur>>
       \/ /\ m_retry_map[s] = "thread" /\ ~Locked(s)
          /\ m_event_queue[s] = <<>>
          /\ lpc' = "scanjoin"
          /\ cur' = s
          /\ UNCHANGED still_active
    /\ UNCHANGED <<m_events, local, todo, m_retry_map, retryVars, m_minLogLevel, appVars,
                   sinkVars>>

ScanJoin ==
    /\ lpc = "scanjoin"
    /\ rpc[cur] = "done"
    /\ rpc' = [rpc EXCEPT ![cur] = "none"]
    /\ m_event_queue' = [m_event_queue EXCEPT ![cur] = <<>>]
    /\ m_retry_map' = [m_retry_map EXCEPT ![cur] = "null"]
    /\ lpc' = "scan"
    /\ cur' = NoStream
    /\ UNCHANGED <<m_events, local, todo, toscan, still_active, m_minLogLevel, appVars,
                   sinkVars>>

\* Mutant: still_active is not looked at.
ScanDoneImpatient ==
    /\ lpc = "scan"
    /\ toscan = {}
    /\ lpc' = "recheck"
    /\ UNCHANGED <<m_events, local, todo, cur, toscan, still_active, m_retry_map, retryVars,
                   m_minLogLevel, appVars, sinkVars>>

\* Messages are left for a retry: sleep_for(1s), then round again.
ScanDone ==
    /\ lpc = "scan"
    /\ toscan = {}
    /\ lpc' = IF still_active THEN "swap" ELSE "recheck"
    /\ UNCHANGED <<m_events, local, todo, cur, toscan, still_active, m_retry_map, retryVars,
                   m_minLogLevel, appVars, sinkVars>>

\* With m_mutex held again: messages may have arrived during the scan.
Recheck ==
    /\ lpc = "recheck"
    /\ lpc' = IF m_events = <<>> THEN "done" ELSE "swap"
    /\ UNCHANGED <<m_events, local, todo, cur, toscan, still_active, m_retry_map, retryVars,
                   m_minLogLevel, appVars, sinkVars>>

\* A stream that is gone is used: its object is written to or asked for its
\* name, or the iterator stands on an erased entry.  What that does is
\* undefined: the process may end, or the step that was due happens as if
\* nothing were wrong.
LogFault ==
    /\ \/ lpc \in {"write", "first"} /\ m_streams[cur] # "present"
       \/ lpc \in InLog \ {"stream"} /\ m_streams[cur] = "erased"
    /\ lpc' = "crashed"
    /\ UNCHANGED <<m_events, local, todo, cur, toscan, still_active, m_retry_map, retryVars,
                   m_minLogLevel, appVars, sinkVars>>

LogStep ==
    \/ Swap \/ NextEvent \/ EventDone
    \/ \E s \in Streams : Lookup(s) \/ Scan(s)
    \/ Join \/ RetryEnqueue \/ LogWriteTrue \/ LogWriteFalse
    \/ Spawn \/ SpawnFails \/ FirstEnqueue
    \/ Check \/ ScanJoin \/ ScanDone \/ Recheck \/ LogFault
-----------------------------------------------------------------------------
(***************************************************************************)
(* The retry thread of stream s.                                           *)
(***************************************************************************)
Goto(s, label) == rpc' = [rpc EXCEPT ![s] = label]

\* The sleep, for which the stream is asked for its retry_time(), has ended,
\* or the previous message was written: look at the front of the queue; the
\* write itself runs without the mutex.
RetryTry(s) ==
    /\ rpc[s] \in {"sleep", "try"}
    /\ Goto(s, IF m_event_queue[s] = <<>> THEN "expire" ELSE "write")
    /\ UNCHANGED <<m_events, logVars, m_event_queue, m_minLogLevel, appVars, sinkVars>>

RetryWriteTrue(s) ==
    /\ rpc[s] = "write"
    /\ WriteTrue(s, Head(m_event_queue[s]))
    /\ Goto(s, "pop")
    /\ UNCHANGED <<m_events, logVars, m_event_queue, m_minLogLevel, appVars>>

\* Mutant: the result of write is ignored.
RetryWriteIgnored(s) ==
    /\ rpc[s] = "write"
    /\ WriteFalse(s, Head(m_event_queue[s]))
    /\ Goto(s, "pop")
    /\ UNCHANGED <<m_events, logVars, m_event_queue, m_minLogLevel, appVars>>

RetryWriteFalse(s) ==
    /\ rpc[s] = "write"
    /\ WriteFalse(s, Head(m_event_queue[s]))
    /\ Goto(s, "expire")
    /\ UNCHANGED <<m_events, logVars, m_event_queue, m_minLogLevel, appVars>>

\* Mutant: the message that was written stays in the queue.
RetryPopForgotten(s) ==
    /\ rpc[s] = "pop"
    /\ Goto(s, "try")
    /\ UNCHANGED <<m_events, logVars, m_event_queue, m_minLogLevel, appVars, sinkVars>>

RetryPop(s) ==
    /\ rpc[s] = "pop"
    /\ m_event_queue' = [m_event_queue EXCEPT ![s] = Tail(@)]
    /\ Goto(s, "try")
    /\ UNCHANGED <<m_events, logVars, m_minLogLevel, appVars, sinkVars>>

\* expiry_time: the clock is not modelled, every message below Severe may
\* have reached the limit of its level; that of Severe is out of reach.
MayExpire(e) == e.level # Severe

\* erase(i): message i is older than the expiry time of its level.
RetryExpire(s) ==
    /\ Locked(s)
    /\ Goto(s, "expiring")
    /\ \E i \in DOMAIN m_event_queue[s] :
          /\ MayExpire(m_event_queue[s][i])
          /\ m_event_queue' = [m_event_queue EXCEPT ![s] = RemoveAt(@, i)]
          /\ Settle(s, m_event_queue[s][i], "expired")
    /\ UNCHANGED <<m_events, logVars, m_minLogLevel, appVars, last>>

RetryExpireDone(s) ==
    /\ Locked(s)
    /\ Goto(s, IF rpc[s] = "expiring" THEN "report" ELSE "check")
    /\ UNCHANGED <<m_events, logVars, m_event_queue, m_minLogLevel, appVars, sinkVars>>

\* active(): terminate if the queue is empty; "report" is the same point after
\* a pass that expired something, which is reported by the stream's name.
RetryCheck(s) ==
    /\ rpc[s] \in {"report", "check"}
    /\ Goto(s, IF m_event_queue[s] = <<>> THEN "stop" ELSE "sleep")
    /\ UNCHANGED <<m_events, logVars, m_event_queue, m_minLogLevel, appVars, sinkVars>>

\* The end is announced by the stream's name, after the critical section in
\* which the queue was found empty.
RetryStop(s) ==
    /\ rpc[s] = "stop"
    /\ Goto(s, "done")
    /\ UNCHANGED <<m_events, logVars, m_event_queue, m_minLogLevel, appVars, sinkVars>>

\* The retry thread writes to a stream that is gone, or asks it something.
RetryFault(s) ==
    /\ rpc[s] \in {"sleep", "write", "report", "stop"}
    /\ m_streams[s] # "present"
    /\ lpc' = "crashed"
    /\ UNCHANGED <<m_events, local, todo, cur, toscan, still_active, m_retry_map, retryVars,
                   m_minLogLevel, appVars, sinkVars>>

RetryStep(s) ==
    \/ RetryTry(s) \/ RetryWriteTrue(s) \/ RetryWriteFalse(s)
    \/ RetryPop(s) \/ RetryExpire(s) \/ RetryExpireDone(s) \/ RetryCheck(s)
    \/ RetryStop(s) \/ RetryFault(s)
-----------------------------------------------------------------------------
\* The process has ended: after exit, or by a segmentation fault.
Ended ==
    /\ \/ lpc = "crashed"
       \/ tpc = "deleted" /\ \A t \in AppThreads : apc[t] = "idle"
    /\ UNCHANGED vars

Next ==
    \/ /\ lpc # "crashed"
       /\ \/ App \/ LogStep \/ SpuriousWake
          \/ \E s \in Streams : RetryStep(s)
    \/ Ended

Spec == Init /\ [][Next]_vars

(***************************************************************************)
(* Fairness.  Sleeps end, a write returns, and a thread that can go on     *)
(* eventually does.  The logging thread waits for the mutex of a retry     *)
(* thread that takes it a few times per retry period and sleeps in         *)
(* between: it gets the mutex, hence strong fairness.  Nothing is assumed  *)
(* of the application: it need not log and need not terminate.             *)
(***************************************************************************)
Fairness ==
    /\ SF_vars(LogStep /\ lpc # "crashed")
    /\ \A s \in Streams : WF_vars(RetryStep(s) /\ lpc # "crashed")
    /\ \A t \in AppThreads : WF_vars(EnqueueNotify(t) /\ lpc # "crashed")
    /\ WF_vars((TerminateNotify \/ TerminateJoined) /\ lpc # "crashed")

\* A sink that is written to again and again works again at some point.
SinksRecover == \A s \in Streams : SF_vars(RetryWriteTrue(s) /\ lpc # "crashed")

\* Time passes: a message below Severe does not survive infinitely many
\* expiry passes.
TimePasses == \A s \in Streams : SF_vars(RetryExpire(s) /\ lpc # "crashed")

FairSpec == Spec /\ Fairness

Recovery == SinksRecover /\ TimePasses
-----------------------------------------------------------------------------
(***************************************************************************)
(* Properties.                                                             *)
(***************************************************************************)

\* No wake-up is lost: the logging thread sleeps on m_cond with work waiting
\* (a message in m_events, or a stop request) only as long as some thread is
\* still on its way from unlock() to notify_one().
NoLostWakeup ==
    lpc = "wait" /\ (m_events # <<>> \/ m_do_terminate)
        => tpc = "notify" \/ \E t \in AppThreads : apc[t] = "notify"

\* Streams have no lock of their own: while the logging thread writes to a
\* stream, or is about to start a retry thread for it, no retry thread of
\* that stream exists.
ExclusiveWrite ==
    lpc \in {"write", "spawn"} => rpc[cur] = "none"

\* The batch holds message e for s: the one in hand has not been to s yet.
InHand(s, e) ==
    /\ local # <<>>
    /\ \/ In(Tail(local), e)
       \/ Head(local).id = e /\ (lpc = "event" \/ s \in todo \cup {cur})

Held(s, e) == In(m_events, e) \/ InHand(s, e) \/ In(m_event_queue[s], e)

\* No message disappears: one that was accepted and has met no fate on a
\* stream of m_streams is still held for that stream, whichever path it takes through
\* m_events, the batch, a hand-over to a retry thread and its expiry pass.
NoMessageLost ==
    lpc # "crashed"
        => \A s \in Present : \A e \in 1..sent : fate[s][e] = "none" => Held(s, e)

\* The logging thread returns from do_run only when every message accepted
\* before terminate() was called has met its fate on every stream.
TerminateDrains ==
    lpc = "done" => \A s \in Present : \A e \in 1..atTerm : fate[s][e] # "none"

\* A stream that is removed while no message is being dispatched and its
\* retry thread, if there was one, has made its last call on the stream is
\* not used again: the process crashes only if a removal overlapped with such
\* a use, or in the scan of m_retry_map.  That an empty queue is not enough
\* (the thread still names the stream when it stops) is why InUse goes as far
\* as it does.
CrashExplained ==
    lpc = "crashed" => overlap \/ \E s \in Streams : m_retry_map[s] = "null"

\* Every stream is served in order and no acknowledged message is written
\* again, whether the logging thread or a retry thread writes.
D == INSTANCE Delivery WITH sent <- sent, fate <- fate, last <- last
ImplementsDelivery == D!Spec

\* Every accepted message is dispatched to all streams: the logging thread
\* never stays in a join, at a mutex or in a wait for ever while it has work.
Dispatched ==
    \A e \in Id :
        sent >= e ~> \/ lpc \in {"done", "crashed"}
                     \/ ~In(m_events, e) /\ ~In(local, e)

Waiting(s, e) == In(m_event_queue[s], e)

\* The retry thread of s has ended with a message in its queue.
Stranded(s) == rpc[s] = "done" /\ m_event_queue[s] # <<>>

\* When sinks recover, a message that waits for a retry is delivered or
\* expires, unless it was handed to a retry thread that had already ended.
RetryServes ==
    Recovery => \A s \in Streams, e \in Id :
        Waiting(s, e) ~> fate[s][e] # "none" \/ Stranded(s) \/ lpc = "crashed"

\* When sinks recover, terminate() returns, unless a message is stranded.
TerminateReturns ==
    Recovery => (tpc = "notify" ~> \/ tpc = "deleted" \/ lpc = "crashed"
                                   \/ \E s \in Streams : Stranded(s))

(***************************************************************************)
(* What the documentation says, refuted by the runs that expect a          *)
(* violation.                                                              *)
(***************************************************************************)

\* log_thread.h: "When all messages queued in the retry thread have been
\* delivered, normal delivery resumes."  A message that waits for a retry is
\* settled once the sink works again.
DeliveryResumes ==
    Recovery => \A s \in Streams, e \in Id :
        Waiting(s, e) ~> fate[s][e] # "none" \/ lpc = "crashed"

\* logger::terminate: "wait until all log events have been processed".  The
\* logging thread does not end, in whatever way, before that.
ProcessedBeforeEnd ==
    lpc \in {"done", "crashed"}
        => \A s \in Present : \A e \in 1..atTerm : fate[s][e] # "none"
=============================================================================
