# A TLA+ model of the Logfile library

The library takes log messages from the threads of an application and passes
them to output streams ("sinks"): the terminal, a log file, a STOMP server, a Qt
list. Its first design criterion is reliability: a sink that is unavailable must
neither delay the application nor lose messages. The modules here describe the
code that has to keep this promise, at the grain at which its threads, the file
system, the network and a dying process can interfere with it.

## 1. Inventory

| Component | State | Operations | Interacts with |
|---|---|---|---|
| `log_thread` | `m_events`, `m_do_terminate`, `m_retry_map`, `m_streams` | `enqueue`, `terminate`, `log`, `do_run` | called by `logger`; writes to streams; owns one `retry_thread` per failing stream |
| `retry_thread` | `m_event_queue` | `active`, `enqueue`, `run` | fed and joined by `log_thread`; writes to its stream |
| `output_stream` | `m_minLogLevel` | `write`, `set_min_log_level` | called by both threads without a lock |
| `logger`, `subsystem_registrator` | `s_instance`, `m_thread`, `m_subsystems`, `m_next_free_subsystem_id` | `instance`, `register_subsystem`, `find_subsystem`, `set_subsystem_min_log_level`, `log`, stream management, `terminate`, signal and exit handlers | called by all threads of the application and by static constructors |
| `output_stream_file` | the `ofstream`, `m_isopen`, the log file and its archives | constructor, `do_write`, `open`, `close`, `archive`, `rotate`, destructor | file system |
| `output_stream_stomp` | connection flags, `m_receipt`, `m_partial_reply`, reply queue | `connect`, `connect_thread`, `do_write`, `reader_thread`, `handle_reply`, `disconnect` | its own threads, `tcp_client_socket`, STOMP server |
| `tcp_client_socket` | descriptor, SSL session, configuration | `connect`, `start_SOCKS`, `start_SSL`, `read`, `write`, `disconnect` | used by writer, connect thread and readers of the STOMP stream |
| `line_splitter` | `m_active_line` | `read_and_forward`, destructor | output of gdb, bodies of ERROR frames |
| `parse_url`, `output_stream_stdout`, `log_event`, Qt viewer, EPICS shell | little or none | formatting, parsing, presentation | |

What makes each part correct: the logging core loses no message, keeps the order
of every stream and ends drained; the registry gives every id one name for ever;
the end of the process drains the core and touches nothing that is gone; a sink
acknowledges only what it has written; a socket that was reported as connected is
its own, and protected as configured; a text conversion can be read back.

What is hard here:

* **Hand-over between threads.** A stream moves from direct writes by the logging
  thread to its retry queue and back, and each decision is taken in one critical
  section and acted upon in another.
* **Stopping.** `terminate()` has to wait for the retry threads while messages
  still come in.
* **Partial failure.** Each operation on the file, the socket and the
  connection fails on its own and leaves flags behind that the next call reads.
* **Late answers.** A receipt may arrive after its timeout, over a connection that
  was replaced meanwhile; readers of old connections are never joined.
* **The end of the process** between any two file operations, by `exit()` while other
  threads log, or by a signal that arrives anywhere.
* **Objects that go away.** A stream is removed, and the `log_thread`, the logger and
  the STOMP stream are deleted, while threads may be using them.

`PROJECT.json` lists these hazards one by one, with the line where each bites and
the property that would notice.

## 2. Modules

| Module | Models |
|---|---|
| `Delivery` | abstract specification: what the logging core promises, without threads and queues |
| `LogThread` | `log_thread.cpp`, `retry_thread.cpp`, `output_stream.cpp`, and the stream map that `logger.cpp` changes |
| `MCLogThread` | the symmetry set for TLC |
| `Logger` | the singleton and the registry of `logger.cpp` |
| `Lifecycle` | the end of the process in `logger.cpp`, composed with `Logger` |
| `OutputStreamFile` | `output_stream_file.cpp` |
| `OutputStreamStomp` | `output_stream_stomp.cpp` |
| `TcpClientSocket` | `tcp_client_socket.cpp` over the descriptor table of the process |
| `LineSplitter` | `line_splitter.cpp` |
| `Text` | the text conversions: `formatCData`, `sanitize_string`, `parse_url.cpp` |
| `MCText` | the texts that TLC tries |
| `LogThreadProofs`, `LoggerProofs`, `LifecycleProofs`, `OutputStreamFileProofs`, `OutputStreamStompProofs`, `TcpClientSocketProofs` | an inductive invariant and theorems for the module of that name |
| `TextProofs` | the same for `LineSplitter`, and for the conversions of `Text` |
| `LogThreadRefinement` | the proof that `LogThread` implements `Delivery` |

Variables and actions carry the names of the code where it has one. Definitions
whose comment starts with "Mutant" are wrong variants of the action that follows
them. They are not part of any specification: putting one in the place of
the correct action must break the property that `PROJECT.json` pairs it with.

### LogThread and Delivery

The program counters `lpc` (logging thread), `rpc[s]` (retry thread of stream
`s`), `apc` and `tpc` (application) stand between two points of interference: one
action is one critical section, or the code between two of them. A write is a
state, not a step, so that other threads act while it lasts. The mutex of a
retry thread is held during its expiry pass only; `Locked` is that condition.

| Code | Actions |
|---|---|
| `log_thread::enqueue` | `Enqueue`, `EnqueueNotify` (after the unlock) |
| `log_thread::terminate` | `Terminate`, `TerminateNotify`, `TerminateJoined` |
| `do_run` | `Swap`, `NextEvent`, `Check`, `SpuriousWake`, `Scan`, `ScanJoin`, `ScanDone`, `Recheck` |
| `log` | `Lookup`, `Join`, `RetryEnqueue`, `LogWriteTrue/False`, `Spawn`, `SpawnFails`, `FirstEnqueue`, `EventDone` |
| `retry_thread::run` | `RetryTry`, `RetryWriteTrue/False`, `RetryPop`, `RetryExpire`, `RetryExpireDone`, `RetryCheck`, `RetryStop` |
| `output_stream::write` | `WriteTrue`, `WriteFalse` (a sink that reports failure may have received the message) |
| `add_output_stream` | `add_output_stream`; the iteration under way may or may not come to the new stream |
| `remove_output_stream` | `DeleteStream`, `EraseStream`: the object is gone before its entry is |
| a use of what was removed | `LogFault`, `RetryFault` |

Abstractions: a message is its number and its level; the clock is replaced by the
choice whether a message below `severe` has expired; `log()` may visit the streams
in any order, which is more than the code does; a change of `m_streams` is one step,
so that a tree torn by a concurrent change is not part of the model; using a
removed object may end the process or go unnoticed; a library thread that logs
(the STOMP stream does) is one of the `AppThreads`. `overlap` remembers that a stream
was removed while somebody could use it (`InUse`). For a retry thread that is until its
very end: besides writing to the stream it asks for its `retry_time()` when it sleeps
(line 55) and for its `name()` when it has expired messages (93) and when it has decided
to end (99). These calls are the labels `sleep`, `report` and `stop`; `RetryFault` can
strike at each of them.

`Delivery` says: for every stream, a message is attempted only when all older ones
are settled there (delivered, filtered, expired, dropped or missed, because the
stream was not there), and a settled message is never attempted again.
`ImplementsDelivery` instantiates it on the history variables `sent`, `fate` and
`last` of `LogThread`.

### Logger

One action per access to shared state; the increment of
`m_next_free_subsystem_id` is a read and a write. `m_subsystems` is a `std::map` without
a lock, so an insertion takes time (`Emplace`, `Insert`). A look-up during one by
another thread may miss any entry: `Register` then allots an id for a name that is known,
and `AssertFails` is the failing `assert` of lines 88 and 130. When two insertions have
overlapped (`torn`), any entry may be lost and an id may have two, from then on. What is claimed
of the registry, `ReturnedKnown` and `AttributionStable`, is therefore claimed up to the first
such overlap: the race in the look-up and the one in the increment, which give two
threads one id or one name two ids, do not break it; two overlapping insertions do. A crash
inside the tree is left out.

### Lifecycle

`Lifecycle` extends `Logger`: a behaviour registers first and then, from the states
where each thread has registered once, logs and ends. Actors are the application
threads, the logging thread and one retry thread. `at` says what an actor does inside
the library, `context` on whose behalf, as `log()` and `terminate()` are called by
the application, the signal handler and the destructor alike.

| Code | Actions |
|---|---|
| `logger::log`, `log_thread::enqueue` | `CallLog`, `Fetch`, `LockEvents`, `Push`, `NotifyEvents` |
| `logger::terminate`, `log_thread::terminate`, `~logger` | `Test`, `StopRequest`, `Join`, `Delete`, `Reset` |
| `signal_handler` | `Signal`, then the actions of `log()` and `terminate()`, `Leave` |
| `exit`, `atexit_handler` | `CallExit`, `Exit`, `Free`, `Statics` |
| logging and retry thread | `Scan`, `Process`, `Retry`, which is `LogThread` in short: `stranded` is its `Stranded` |
| a use of what is gone | `LogFaults`, `TerminateFaults`, `WorkFaults` |

Pointer and object are told apart: `m_thread` may be valid, dangling or null, the
`log_thread` alive, joined or freed, the logger alive or freed while `s_instance`
still points to it. Abstractions: the lines of a backtrace count as the one message the
handler logs; `s_instance_mutex`, which is held for two lines, is not combined with a
signal; a second call of `exit()`, which is undefined, waits. `Hung` names the
states in which the handler waits for ever: the signal arrived in a retry thread, which
the logging thread joins, or in a thread that holds `m_mutex`.

A retry may fail for ever, as nothing in the specification makes `Retry` happen, and a
message may be handed to a retry thread that has decided to end (`stranded`, the finding of
the run `resume`), after which `terminate()` never returns. `ProcessEnds` names both: it
assumes `Recovery` (sinks recover, or the messages they refuse expire, which one of level
`severe` never does) and excepts `stranded`.

### OutputStreamFile

One action per file-system operation, each of which may fail, and `Crash` between
any two. A `std::ofstream` is `is_open` and `good`, with the standard's rules for
`open` and `close`. The uninitialised `m_isopen` is a nondeterministic Boolean.
Time counts milliseconds, the resolution of archive names. It is assumed that
`stat()` fails only if there is no file, and that starting a process takes at
least a millisecond.

### OutputStreamStomp

`sock` is the connection behind `m_socket`. `ConnectSocket` opens one, overwriting the
number of a socket that is still open; with `stomp+ssl`, `Handshake` follows. The server's
part of it is one reply that is no frame (`Hello`), which a reader of an earlier
connection may take away. When it fails, `connect_thread` catches the exception without
`disconnect()` (lines 114-117), so that the socket stays open with no reader: `left`
remembers it. `SSL_connect` has no timeout, so nothing makes `Handshake` happen.

Actors: the writer (logging or retry thread; `ExclusiveWrite` of `LogThread` shows that
they exclude each other), the connect thread, one reader per connection that was made
(several may live, and read from the same socket), and the server (external), which
answers late, refuses, or sends frames that cannot be parsed. `Read` may cut a reply into
a first and a last part anywhere; `AppendPart` collects the parts in `m_partial_reply`,
which all readers share, and `Frames` is what `handle_reply` may make of parts that do not
belong together. `do_write` looks at `m_connected`, which a reader or the connect thread
may change before `connect` looks at `m_connecting`: these are two steps. Waits have no
predicate, as in the code, and may end spuriously; taking the front of an empty reply
queue is undefined behaviour and stops the model (`fault = "front"`). Assigning
`m_connect_thread` while it is joinable ends the process (`fault = "overwritten"`). The
destructor joins no thread: `Destroy` ends in `fault = "terminate"` or `"freed"` if one is
left.

### TcpClientSocket

The threads of the STOMP stream use one socket: `connect()` is called by one at a time,
`read()`, `write()` and `disconnect()` by any of them at any time, also during a
`connect()`. None of them has a lock or a test of more than `connected()`.

`connect` is cut at the address loop, the two SOCKS exchanges and the SSL handshake, each
of which may throw; it may find the socket open and overwrites its number. `disconnect` is
`close()` and the reset of `m_socket`, and so is what `connect_to_ip` does after an
address that failed. `Elsewhere` (external) is the rest of the program, which uses the
same descriptor numbers. Reading and writing change no state of the object; `moved`
remembers over what kind of session frames went (`secure`), and whether the last
`connect()` had returned (`told`). History variables tell apart what a thread may rely on:
`undisturbed` and `crossed` whether a `disconnect()` ran during a `connect()`,
`overlapped` whether a thread closed a number while another had closed one and not yet
reset it. What a proxy answers is not modelled: after an answer `connect()` goes on or
ends.

### LineSplitter

Chunks are cut anywhere. `Lines` is the reference definition: the pieces between
line feeds, without an empty one at the end. It puts the line feeds in order with
`Sorted` instead of the library's `SortSeq`, of which the prover knows nothing.

### Text

Each conversion stands next to what a reader of its result does: `CData` reads CDATA
sections, `CharData` resolves entities, and `Compose` builds the URL that `parse_URL`
takes apart. A text is a sequence of characters; what the code never takes apart
(`<![CDATA[`, `amp;`) counts as one, while the marks that may arise from their parts
(`]]>`, `://`, `%2F`) are spelled out. `Orders` are all orders in which the map of
`sanitize_string`, which is ordered by the addresses of its keys, may be traversed. NUL
becomes the two characters `\0`, which cannot be told from a message that contains them;
`BodyReadsBack` says so. As the conversions have no state, `TextSpec` lets a behaviour
either split a text or convert one.

`Compose` encodes what it has to (`%`, `+`, a `:` in the login, an `@` in login and
password) and besides nothing, every `@`, or all of the characters of `Escape`
(`Encodings`): an `@` in the path may stand there as it is. `UrlAssumption`
says of which parts a URL may be made: protocol, host and port, which the code takes as
they are, have none of the characters that end them, and a `stray` `%`, which makes the URL
invalid, is not followed by two hexadecimal digits, which would make it valid. TLC evaluates
it for the URLs of the run. `UrlReadsBack` says when a URL is read as it was meant, and that it
never is when a bare `@` stands in the path and no login before it (`TakenForLogin`); it
excepts a URL without protocol that has a `://` in it.

## 3. Runs

Passing runs:

| Run | Instance | Shows |
|---|---|---|
| `streams` | 2 streams, both added at any time, 1 thread, 2 messages (2.9 million states up to symmetry) | writes to a stream exclude each other (`ExclusiveWrite`), per-stream order without loss (`ImplementsDelivery`) |
| `levels` | 1 stream, removed at any time, 2 threads, 3 messages, changing minimum level (3.8 million states) | every accepted message is settled or held somewhere (`NoMessageLost`), the logging thread stops drained (`TerminateDrains`) and never sleeps with work waiting unless a notification is under way (`NoLostWakeup`); `CrashExplained`: a stream that is removed while no message is dispatched, and after the last call of its retry thread, is not used again |
| `live` | 1 stream, 2 messages, changing level (110 000 states) | `Dispatched`; `RetryServes` and `TerminateReturns` if sinks recover |
| `file` | 2 messages, 2 failing operations, 1 early end | `AcknowledgedKept`, `SizeLimit`, `WrittenOrJammed` |
| `logger` | 2 threads, 2 names, 1 registration each; then 2 messages, one signal, `exit()` (0.4 million states) | `SingleInstance`; `ReturnedKnown`, `AttributionStable` up to the first overlap of insertions; `EndDrains`, `FaultExplained`; `ProcessEnds` if sinks recover and no message is stranded |
| `stomp` | 2 messages, 3 sends, 2 connections with SSL, replies of the first in two parts (0.6 million states) | `AckedReceived`; who may wait, read and be joined, and what a failed handshake leaves: `OneWaits`, `OpenIsRead`, `AttemptsJoined`, `DestroyedIdle`; `AttemptResolves` if handshakes return |
| `socket` | 2 threads, 3 descriptors, 3 connects (2.2 million states) | `OwnSocket`, `DataSecure`, `OneDescriptorPerCall`, `ForeignCloseExplained` |
| `text` | all texts of up to 5 characters in chunks of up to 3; messages of up to 6 marks for the log file, and of up to 3 for a frame in every order of replacement; URLs with every combination of parts in three ways to encode them (0.2 million states) | `TextPreserved`, `ChunkingInvisible`, `CDataReadsBack`, `BodyReadsBack`, `UrlReadsBack` |

Runs that refute a statement of the repository:

| Run | Statement | What the code does |
|---|---|---|
| `resume` | `log_thread.h`: "When all messages queued in the retry thread have been delivered, normal delivery resumes." | a retry thread that finds its queue empty just before `log()` hands it a message ends with the message in its queue; the stream is never served again. There are two such windows: after `active()` (lines 88-94), and between the start of the thread and its first message (lines 103-109), if that takes longer than one retry period |
| `crash` | `logger.cpp`: "wait until all log events have been processed." | the scan in `do_run` leaves null pointers in `m_retry_map`; a second scan dereferences them |
| `register` | `logger.h`: "Calling this function several times with the same _name will always return the same id." | two threads that register a name at the same time get two ids |
| `socket_threads` | `README.md`: "Fully threadsafe design." | two threads may both close a descriptor number, the second time after it was given away: both in `disconnect()`, or one in `connect_to_ip` after an address that failed |

### Bounds

* Two streams are needed for one to fail while another works (`crash`,
  `streams`); two messages for a queue that is fed while its front is written;
  three for an overtaking that spans direct writes and both ends of a queue. Two
  threads are the least that race in `enqueue`.
* Two levels are enough: the code compares a level with a minimum and treats
  `severe` apart in `expiry_time`. `streams` and `levels` log below `severe` only, as such
  a message may be filtered and may expire at any time or never; `live` uses both.
* `streams` starts with no stream and adds both, which makes them interchangeable; `levels`
  removes the only one there is; a removed stream is another object when it is added
  again, so once is enough.
* `logger`: two messages, so that one is in the queue while the other is processed;
  one signal, as the handler of a second one repeats the first. Registrations that
  race are those of two threads, one each; they end before the queue is used, as more of
  them do not touch it.
* `file`: line sizes 2 and 8 and a limit of 7 let a file hold two messages, one, or
  be outgrown by one. A second fault can hit the recovery from the first.
* `stomp`: one connection more than the one in use brings a stale reader; three
  sends allow a time-out, a repetition and a late receipt for the next message. Replies
  of the first connection may be cut (`CutConns`): the first half of one may then be
  followed by a reply of the second. With SSL a behaviour has all steps of one without, and the
  handshake.
* `socket`: one thread connects while the other reads, writes and disconnects; the third
  `connect` starts from what two failures left behind. Three descriptors leave one to be
  opened and one for the rest of the program while a forgotten one stays open.
* `text`: three marks in a row are an end of a section, four and more overlap or follow
  each other. The ports are those at and around both limits, with a sign and too long.
  The paths put `@`, `:`, `/` and a stray `%` first, last and next to each other.
* `levels` uses the symmetry of its two threads, `streams` that of its two streams; both check
  safety properties only, none of which names a thread or a stream.

### Fairness

* `LogThread`: the threads go on (`WF`), sleeps and writes return. The logging
  thread has `SF`, since it competes for the mutex of a retry thread that holds it
  for moments and sleeps in between. The application need not log or stop.
* `Recovery`, an assumption of `RetryServes`, `TerminateReturns` and
  `DeliveryResumes` and not of the specification: a sink that is tried again and
  again works again, and messages below `severe` do not outlive infinitely many
  expiry passes. Without it `terminate()` may wait for ever for a severe message.
* `Lifecycle`: a thread that is inside the library goes on. Nobody has to log, to call
  `exit()` or to crash, and no retry has to succeed. That retries do is `Recovery`, the
  assumption of `ProcessEnds`.
* `OutputStreamFile`: the thread that writes goes on; faults are bounded.
* `OutputStreamStomp`: the connect thread and the writer go on, as their waits for replies
  have timeouts and the system's `connect()` has one. Nothing is assumed of readers, server and
  handshakes. That a handshake returns is `HandshakesReturn`, the assumption of
  `AttemptResolves`: a server that says nothing keeps `connect_thread` in `SSL_connect` for
  ever, and no further attempt is made.

## 4. Proofs

What is proved holds for every value of the constants: any sets of streams, threads,
names and descriptors, finite or infinite, any bounds and any texts. The only
assumptions are those in the modules, that the constants have their types
(`ConstantsAssumption`, `LoggerAssumption`, `LifecycleAssumption`, `FileAssumption`,
`StompAssumption`, `SocketAssumption`; `SplitterAssumption`; `TextAssumption`: a message
is a finite sequence, of whatever characters; `UrlAssumption`: which parts a URL may
have, see `Text` above). No theorem has a hypothesis of its own.

| Module | Theorem | Always |
|---|---|---|
| `LogThreadProofs` | `TypeCorrect`, `WakeupsArrive`, `WritesExclude`, `NothingLost`, `StopsDrained`, `RemovalSafe` | `TypeOK`, `NoLostWakeup`, `ExclusiveWrite`, `NoMessageLost`, `TerminateDrains`, `CrashExplained` |
| `LogThreadRefinement` | `DeliversInOrder` | `ImplementsDelivery` |
| `LoggerProofs` | `LoggerTypeCorrect`, `OneLogger`, `RegisteredIdsKnown`, `AttributionKept` | `TypeOK`, `SingleInstance`, `ReturnedKnown`, `AttributionStable` |
| `LifecycleProofs` | `LifecycleTypeCorrect`, `DrainedAtEnd`, `FaultsAreExplained` | `LifecycleTypeOK`, `EndDrains`, `FaultExplained` |
| `OutputStreamFileProofs` | `FileTypeCorrect`, `AcknowledgedOnDisk`, `FilesLimited` | `TypeOK`, `AcknowledgedKept`, `SizeLimit` |
| `OutputStreamStompProofs` | `StompTypeCorrect`, `NothingAckedUnreceived`, `AttemptsAreJoined`, `NobodyElseWaits`, `ConnectionHasReader`, `HarmlessIfIdle` | `TypeOK`, `AckedReceived`, `AttemptsJoined`, `OneWaits`, `OpenIsRead`, `DestroyedIdle` |
| `TcpClientSocketProofs` | `SocketTypeCorrect`, `ConnectedToOwnSocket`, `DataProtected`, `DescriptorsBounded`, `ForeignCloseNeedsOverlap` | `TypeOK`, `OwnSocket`, `DataSecure`, `OneDescriptorPerCall`, `ForeignCloseExplained` |
| `TextProofs` | `NothingIsLost`, `LinesOfTheText`, `FileReadsBack`, `FrameReadsBack`, `UrlGivesItsParts` | `TextPreserved`, `ChunkingInvisible`, `CDataReadsBack`, `BodyReadsBack`, `UrlReadsBack` |

Every module follows one pattern: an inductive invariant, one lemma that `Init`
establishes it, lemmas that the actions keep it, and the theorems as consequences.
Why the properties alone are not inductive:

* `LogThread`: that `RetryPop` loses nothing depends on the front message having been
  settled by the write before it; that `Join` loses nothing, on the queue having been
  found empty and on nobody else filling it. `IInv` adds `ControlInv` (when `local` and
  `cur` are in use), `MapInv` (a retry thread exists exactly where `m_retry_map` says so,
  or is being started), `QueueInv` (what is known of a retry queue at each program
  point), `ScanInv` (queues that a scan has passed are empty and stay so) and
  `RemovalInv` (without an overlap, no thread is at a stream that is gone, and its retry
  thread, if there was one, has made its last call). There is one lemma per conjunct with a
  step per action.
* `LogThreadRefinement`: messages are numbered as they were accepted, so the batch and
  `m_events` are an interval of numbers (`BatchInv`), and the dispatch to a stream has
  come to a number, `done(s)`: messages up to it have met their fate or wait in the
  queue of the retry thread, later ones have met none (`TurnInv`). A retry queue is
  ordered, and nothing older than a message in it is left elsewhere (`OrderInv`).
  Hence a write, by either thread, is of the message whose turn it is in `Delivery`.
  `TodoInv` and `OutsideInv` carry this over streams that come and go: a new stream
  misses exactly the messages up to its `done(s)`. Steps that move and settle nothing
  are treated together (`Quiet`), and so are those of a retry thread (`Works`).
* `Logger`: an id that two threads were given stays with one name because `emplace` keeps an
  entry that exists; `RegistryInv` says that, as long as no two insertions have overlapped,
  no id has two entries and every id that was returned has one; `AttributionInv`, that the
  messages bear the names of the entries. `InstanceInv` ties the instance to the owner of the
  mutex.
* `Lifecycle`: `HeldInv` (every message is in the queue, in hand, with the retry thread or
  settled), `TakenInv` (when there is one in hand) and `StopInv` (what is left after
  the logging thread has ended, and that `Join` waits for it). This holds after
  the strangest ends: a second join is a fault, and faults delete nothing.
  `FaultExplained` needs more, `EndInv`: `ActorInv` says who may be where (only the handler
  and a call of `exit()` go beyond `log()`), and `AloneInv` what is left of logger,
  `m_thread` and `log_thread` at every point of the end (`Stage`), as long as only one
  thread takes them apart. TLC checked `EndInv` on the states of `logger` first.
  Each fault is then of an actor that needs what is gone (`Stranded`): it is not alone, or
  it is the one that logs in a static destructor.
* `OutputStreamFile`: `StreamInv` (a stream that accepts text writes to the log file, on no
  path on which the file is renamed), `FileInv` (there is at most one, none when one is
  created), `FitInv` (the line about to be written fits, or is the first) and `WorkInv`.
  `AcknowledgedKept` needs all of them: the file may vanish only by a rename that puts
  its messages into the archives.
* `OutputStreamStomp`: `FlightInv` says of every request, piece of a reply and queued
  reply in flight that a receipt with the current number is there only if the server has
  processed the current message; `GoodPiece` is kept by cutting and by mixing pieces.
  `JoinInv` ties `joinable` to `m_connecting`. The other theorems are about three kinds of
  threads that share flags without a lock (`ThreadsInv`): `AttemptInv` says at which steps
  of the connect thread `connect()` may find which flags, so that `m_connected` is seen only
  when the connect thread has had its reply; `ReaderInv`, that every connection but the
  last has had its reader unless its handshake failed, and that the last one has one as long
  as it is open, whoever closes it; `DestroyInv`, what the destructor has left.
* `TcpClientSocket`: `ConnectInv` lets one thread connect; `OwnInv` says that while nobody
  has a closed number to reset, `m_socket` is invalid or a socket; `CalmInv`, that an
  undisturbed call keeps its socket until it fails, and has it when it returns;
  `SessionInv`, that the session of a connection that was reported is verified and of this
  socket. `OpenInv` counts open descriptors by calls; `CrossInv` says that as long as no
  `disconnect()` ran during a `connect()`, the one under way is undisturbed.
* `LineSplitter`: that the forwarded lines are those of the text follows from `CutInv`:
  there are cuts (0 and the line feeds seen so far, in order), every forwarded line is
  what is between two of them, and `m_active_line` and the rest of the chunk are what
  follows the last. When the splitter is gone, the cuts and the end of the text are all
  the places at which `Lines` cuts, and an increasing enumeration of a finite set is
  unique. `TextPreserved` alone would allow lines with line feeds in them.
* `formatCData` and `CData`: both go forward through a text by a recursive function chosen
  in a LET. `ForwardExists` shows that there is such a function, and the lemma `AllRead`
  that whatever `formatCData` makes of the text from a position on is read back as that
  text. What could go wrong is a mark that ends a section early: `ReadSection` shows that a
  section has none before its own, also not across the place where the text was divided.
  The state adds nothing to this (`ConversionInv`).
* `sanitize_string` and `CharData`: each replacement, and so all six in a row, treat two
  texts one by one (`ReplaceJoins`, `SanitizeJoins`), which leaves single characters:
  one round of the loop makes an entity of a character, and no other touches it, in
  whatever order they come (`SanitizeOne`). `BodyRead` then reads character by character.
* `parse_URL`: `UrlPlaced` says where the five pieces of a URL are, and `FindFirst` what
  `find` returns: the first place with the pattern. That a separator is found where its
  piece begins, and not earlier, follows as the pieces before it are free of it
  (`PatternFree`), which for encoded parts is what `CodeOf` says; a missing separator is
  missed in all of the rest (`NoAt`). `DecodeBack` says that `decode_hex_byte` reads back
  what was encoded, or finds the stray `%` in it, and `PortValid` that the loop over the
  digits computes the number that they stand for by their places (`Number`).
* In all three, as induction theorems cannot be used (they take an operator as a parameter),
  the lemmas look at the least counterexample, which exists by the well-foundedness of
  the natural numbers (`Least`).

Only model-checked: everything with fairness (`Dispatched`, `RetryServes`,
`TerminateReturns`, `WrittenOrJammed`, `ProcessEnds`, `AttemptResolves`), which is out of
the reach of the prover.

## 5. Observations

Behaviour of the code that the models contain and that no run is devoted to:

* `README.md` says that queued messages "expire after a given time"; a message of
  level `severe` does not (`retry_thread.cpp:24-35`), so the queue of a sink that
  stays down is unbounded.
* `output_stream_file` jams: after a failed write its error bit stays set while
  `m_isopen` stays true, and after a failed `open()` of a stream that is still open
  the retry fails again, for ever (lines 33, 56, 71). `WrittenOrJammed` names
  this state as the only exception.
* Archives created within one millisecond have the same name, and `rename()`
  replaces the first (lines 85-92); `AcknowledgedKept` excepts the messages in
  `replaced`.
* A late notification or a spurious wake-up makes `connect_thread` or `do_write` of
  the STOMP stream call `front()` on an empty queue (lines 147-158, 274-286, 436).
* `m_ssl_active` survives `disconnect()`, so a reconnect through a SOCKS proxy sends
  its greeting into the old SSL session, contrary to `tcp_client_socket.h:44-45` ("the
  encryption is between this socket and the actual server, not the SOCKS server").
  Other threads that read or write before `connect()` returns use that session too, or one
  whose peer is not verified yet: `read()` and `write()` ask for a socket only (lines 303,
  388). `DataSecure` is about frames from the return of `connect()` on and excepts both.
* A socket whose handshake failed stays open until the next `connect()`, which overwrites its
  number (lines 450-469, 202): the descriptor is never closed. `OneDescriptorPerCall` bounds
  these by the number of calls and does not say that there are none.
* A SOCKS answer of which only the first byte was read counts as success, as the buffer was
  zeroed and zero means success (`tcp_client_socket.cpp:285-292`).
* With `stomp+ssl` a server that accepts the connection and says nothing keeps the connect
  thread in `SSL_connect` for ever (line 450): `m_connect_thread_done` stays false, no further
  attempt is made and every message waits for a retry until it expires.
* The destructor of `output_stream_stomp` joins neither the connect thread nor the
  readers (lines 105-109).
* `README.md:90` says of the sink that prints to the terminal that it "can be removed at
  any time by calling" `remove_output_stream`. It is not so: the models have the use after
  free of a removal while a message is dispatched or a retry thread of the stream runs, until
  that has called `name()` for the last time (`retry_thread.cpp:99`). `CrashExplained` says that
  only such a removal does harm.
* `register_subsystem` inserts into a `std::map` without a lock (`logger.cpp:111`): insertions
  that overlap may lose an entry, after which the assertions in lines 88 and 130 fail.
* After `terminate()` in the signal handler `m_thread` is null, and a message logged by any
  thread dereferences it (`logger.cpp:95`); after `atexit_handler` the instance is freed
  and `s_instance` still points to it. `FaultExplained` names these cases.
* `retry_thread` declares `m_thread` before the queue and the mutex; its thread sleeps at
  least a second before it uses them.
* `parse_URL` looks for the `@` in the whole rest of the URL, so that a bare one in the
  path of a URL without login is taken for the end of a login (`parse_url.cpp:59`): the
  URL is refused, or login, password and host are read from other parts, although
  `parse_url.h:27-29` says that parts which are not in the URL are not changed.
  `UrlReadsBack` says so too. A `://` in a URL without protocol likewise ends a protocol;
  such URLs are excepted.
* The text of a SOCKS error is looked up by the reserved byte, which is zero at that
  point, instead of the reply code (`tcp_client_socket.cpp:292`).
* `QLogList::expire` subtracts the time of the event and the current one in the wrong order
  (`QLogList.cpp:43`), so that no age is ever above the limit and every debug entry
  expires at once, against its comment "expire debug entries after one hour"; after
  `erase()` it goes on with an iterator that is not valid any more, and its row count
  is not reduced.

## 6. Not modelled

* `output_stream_stdout`: formatting and printing without state between calls.
* The Qt viewer, with `QLogList`: what matters there (which rows the views show, when a
  queued signal arrives) is decided by Qt, and `expire()` uses an erased iterator from
  its first removal on, after which nothing is defined.
* The EPICS shell: calls of the logger. `gdb_backtrace` starts another process; it counts
  as messages of the handler. `dump_configuration` and the names of levels only print.
* The tree of `std::map`: a change of `m_streams` has no lock and could tear it; the model
  takes one as one step. Of an insertion into `m_subsystems` it is modelled what other
  threads may find or lose, not a crash inside the tree.
* What a SOCKS proxy answers, and how much of the answer is read.
* The heart-beat interval of STOMP and the workaround for AMQ-4710: they only decide when
  a read times out, which may be at any time in the model.
* A signal while the registry is used, and a second signal.

## 7. What is left

The components with logic of their own are modelled, and every invariant that a passing
run checks is a theorem. What could be added: `LogThread` in full inside `Lifecycle` in place
of its short form.
