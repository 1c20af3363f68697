-------------------------- MODULE OutputStreamStomp --------------------------
(***************************************************************************)
(* output_stream_stomp: messages are sent to a STOMP server and            *)
(* acknowledged by its receipts.                                           *)
(*                                                                         *)
(* Four kinds of actors: the writer (the logging thread or the retry       *)
(* thread, never both), the connect thread, the reader threads (every      *)
(* successful connection starts one, and none is ever joined), and the     *)
(* server.  They share the socket, m_connected and the reply queue.        *)
(*                                                                         *)
(* sock is the connection behind m_socket, 0 when it is closed.  With SSL  *)
(* a connection begins with a handshake.  What the server says in it is    *)
(* one reply that is no frame; a handshake fails when a reader of an       *)
(* earlier connection takes it or closes the socket, and leaves the socket *)
(* open when it fails.  SSL_connect has no timeout.  Requests              *)
(* are "CONNECT" or a SEND with its receipt number and message, replies    *)
(* "CONNECTED", "RECEIPT" with the number, "ERROR" (every other            *)
(* well-formed frame, also one that is refused by check_server_version or  *)
(* parse_heartbeat) and "BAD" (handle_reply cannot parse it).  A read may  *)
(* cut a reply, wherever it likes, into a first and a last part.  A        *)
(* message that is not acknowledged is written again.                      *)
(*                                                                         *)
(* m_reply_mutex is held from a "lock" to the step that takes the reply,   *)
(* and by the connect thread until it returns.  Its owner is not a         *)
(* variable: the connect thread and the writer do not wait at the same     *)
(* time (OneWaits), so the only steps it would delay are a push, which     *)
(* commutes with the steps up to the reply, and those barred in "finish".  *)
(***************************************************************************)
EXTENDS Naturals, Sequences

CONSTANTS MaxMsgs,   \* bound on the number of messages
          MaxSends,  \* bound on the number of SEND frames
          MaxConn,   \* bound on the number of connections
          CutConns,  \* bound: the connections on which a reply may be cut
          SSL        \* does the URL ask for stomp+ssl

ASSUME StompAssumption ==
    MaxMsgs \in Nat /\ MaxSends \in Nat /\ MaxConn \in Nat /\ SSL \in BOOLEAN

Conn    == 1..MaxConn
Msg     == 1..MaxMsgs
Request == [cmd : {"CONNECT", "SEND"}, receipt : 0..MaxSends, msg : 0..MaxMsgs]
Reply   == [cmd : {"CONNECTED", "RECEIPT", "ERROR", "BAD"}, receipt : 0..MaxSends]
Piece   == [frame : Reply, part : {"whole", "first", "last"}]

VARIABLES
    m_connected, m_connecting, m_connect_thread_done,
    joinable,        \* m_connect_thread holds a thread that was not joined
    cpc,             \* the connect thread
    wpc,             \* the writer
    rpc,             \* the reader started for each connection
    buf,             \* the pieces each reader has read and not yet handled
    m_partial_reply,
    m_receipt,
    m_reply_queue,
    sock, nconn,
    left,            \* history: the connections whose handshake failed
    requests,        \* frames on their way to the server, per connection
    replies,         \* frames on their way from the server, per connection
    received,        \* history: the messages the server has processed
    acked,           \* history: do_write has returned true for 1..acked
    fault            \* "none", "front" (empty queue), "overwritten" (a joinable thread),
                     \* "terminate" (one is destroyed), "freed" (a reader outlives the object)

flagVars   == <<m_connected, m_connecting, m_connect_thread_done, joinable>>
readerVars == <<rpc, buf, m_partial_reply>>
netVars    == <<requests, replies, received>>
vars == <<flagVars, cpc, wpc, readerVars, m_receipt, m_reply_queue, sock, nconn, left, netVars,
          acked, fault>>

TypeOK ==
    /\ m_connected \in BOOLEAN /\ m_connecting \in BOOLEAN
    /\ m_connect_thread_done \in BOOLEAN /\ joinable \in BOOLEAN
    /\ cpc \in {"none", "connect", "handshake", "send", "reader", "lock", "wait", "front",
                "finish", "done"}
    /\ wpc \in {"idle", "connect", "join", "send", "lock", "wait", "front", "destroyed"}
    /\ rpc \in [Conn -> {"none", "read", "append", "handle", "notify", "drop", "end", "done"}]
    /\ buf \in [Conn -> Seq(Piece)]
    /\ m_partial_reply \in Seq(Piece)
    /\ m_receipt \in 0..MaxSends
    /\ m_reply_queue \in Seq(Reply)
    /\ sock \in 0..MaxConn /\ nconn \in 0..MaxConn
    /\ left \in SUBSET Conn
    /\ requests \in [Conn -> Seq(Request)]
    /\ replies \in [Conn -> Seq(Piece)]
    /\ received \in SUBSET Msg
    /\ acked \in 0..MaxMsgs
    /\ fault \in {"none", "front", "overwritten", "terminate", "freed"}

\* After the constructor, which ends with a call of connect().
Init ==
    /\ m_connected = FALSE /\ m_connecting = TRUE
    /\ m_connect_thread_done = FALSE /\ joinable = TRUE
    /\ cpc = "connect" /\ wpc = "idle"
    /\ rpc = [c \in Conn |-> "none"] /\ buf = [c \in Conn |-> <<>>]
    /\ m_partial_reply = <<>>
    /\ m_receipt = 0 /\ m_reply_queue = <<>>
    /\ sock = 0 /\ nconn = 0 /\ left = {}
    /\ requests = [c \in Conn |-> <<>>] /\ replies = [c \in Conn |-> <<>>]
    /\ received = {} /\ acked = 0
    /\ fault = "none"

disconnect == sock' = 0 /\ m_connected' = FALSE
-----------------------------------------------------------------------------
(***************************************************************************)
(* The connect thread.                                                     *)
(***************************************************************************)

\* The thread returns; the flag is the last thing it sets.
AttemptEnds == cpc' = "done" /\ m_connect_thread_done' = TRUE

\* What the server says in a handshake: nothing that handle_reply can parse.
Hello == <<[frame |-> [cmd |-> "BAD", receipt |-> 0], part |-> "whole"]>>

\* m_socket->connect(), up to the handshake: a socket that is still open is
\* left open and forgotten, unless the host is not found.
ConnectSocket ==
    /\ cpc = "connect"
    /\ \/ /\ nconn < MaxConn
          /\ nconn' = nconn + 1 /\ sock' = nconn'
          /\ cpc' = IF SSL THEN "handshake" ELSE "send"
          /\ replies' = [replies EXCEPT ![nconn'] = IF SSL THEN Hello ELSE <<>>]
          /\ UNCHANGED m_connect_thread_done
       \/ AttemptEnds /\ sock' \in {0, sock} /\ UNCHANGED <<nconn, replies>>
    /\ UNCHANGED <<m_connected, m_connecting, joinable, wpc, readerVars, m_receipt, m_reply_queue,
                   left, requests, received, acked, fault>>

\* start_SSL: the session is established, or an exception ends the attempt,
\* with the socket open if nobody closed it meanwhile.
Handshake ==
    /\ cpc = "handshake"
    /\ \/ /\ replies[nconn] = Hello
          /\ replies' = [replies EXCEPT ![nconn] = <<>>]
          /\ cpc' = "send"
          /\ UNCHANGED <<m_connect_thread_done, left>>
       \/ AttemptEnds /\ left' = left \cup {nconn} /\ UNCHANGED replies
    /\ UNCHANGED <<m_connected, m_connecting, joinable, wpc, readerVars, m_receipt, m_reply_queue,
                   sock, nconn, requests, received, acked, fault>>

\* Mutant: the sink counts as connected before the server has answered.
SendConnectEarly ==
    /\ cpc = "send"
    /\ \/ /\ sock # 0
          /\ requests' = [requests EXCEPT ![sock] =
                             Append(@, [cmd |-> "CONNECT", receipt |-> 0, msg |-> 0])]
          /\ cpc' = "reader"
          /\ m_connected' = TRUE
          /\ UNCHANGED <<sock, m_connect_thread_done>>
       \/ AttemptEnds /\ disconnect /\ UNCHANGED requests
    /\ UNCHANGED <<m_connecting, joinable, wpc, readerVars, m_receipt, m_reply_queue, nconn, left,
                   replies, received, acked, fault>>

SendConnect ==
    /\ cpc = "send"
    /\ \/ /\ sock # 0
          /\ requests' = [requests EXCEPT ![sock] =
                             Append(@, [cmd |-> "CONNECT", receipt |-> 0, msg |-> 0])]
          /\ cpc' = "reader"
          /\ UNCHANGED <<sock, m_connected, m_connect_thread_done>>
       \/ AttemptEnds /\ disconnect /\ UNCHANGED requests
    /\ UNCHANGED <<m_connecting, joinable, wpc, readerVars, m_receipt, m_reply_queue, nconn, left,
                   replies, received, acked, fault>>

\* Mutant: a reader is started for the first connection only.
StartReaderOnce ==
    /\ cpc = "reader"
    /\ rpc' = IF nconn = 1 THEN [rpc EXCEPT ![nconn] = "read"] ELSE rpc
    /\ cpc' = "lock"
    /\ UNCHANGED <<flagVars, wpc, buf, m_partial_reply, m_receipt, m_reply_queue, sock, nconn,
                   left, netVars, acked, fault>>

StartReader ==
    /\ cpc = "reader"
    /\ rpc' = [rpc EXCEPT ![nconn] = "read"]
    /\ cpc' = "lock"
    /\ UNCHANGED <<flagVars, wpc, buf, m_partial_reply, m_receipt, m_reply_queue, sock, nconn,
                   left, netVars, acked, fault>>

\* wait_for is called only if the reply is not there yet.
ConnectLock ==
    /\ cpc = "lock"
    /\ cpc' = IF m_reply_queue = <<>> THEN "wait" ELSE "front"
    /\ UNCHANGED <<flagVars, wpc, readerVars, m_receipt, m_reply_queue, sock, nconn, left,
                   netVars, acked, fault>>

\* Mutant: the flag is not set after a timeout.
ConnectTimeoutSilent ==
    /\ cpc = "wait"
    /\ cpc' = "done" /\ disconnect
    /\ UNCHANGED <<m_connecting, m_connect_thread_done, joinable, wpc, readerVars, m_receipt,
                   m_reply_queue, nconn, left, netVars, acked, fault>>

ConnectTimeout ==
    /\ cpc = "wait"
    /\ AttemptEnds /\ disconnect
    /\ UNCHANGED <<m_connecting, joinable, wpc, readerVars, m_receipt, m_reply_queue, nconn, left,
                   netVars, acked, fault>>

\* The command, the version and the heart-beat header are as expected.
Accepted(reply) == reply.cmd = "CONNECTED"

\* The mutex is held until the thread returns.
ConnectReply ==
    /\ cpc = "front"
    /\ \/ /\ m_reply_queue = <<>>
          /\ fault' = "front"
          /\ UNCHANGED <<cpc, flagVars, m_reply_queue, sock>>
       \/ /\ m_reply_queue # <<>>
          /\ m_reply_queue' = Tail(m_reply_queue)
          /\ \/ /\ Accepted(Head(m_reply_queue))
                /\ m_connected' = TRUE
                /\ cpc' = "finish"
                /\ UNCHANGED <<m_connect_thread_done, sock>>
             \/ /\ ~Accepted(Head(m_reply_queue))
                /\ AttemptEnds /\ disconnect
          /\ UNCHANGED <<m_connecting, joinable, fault>>
    /\ UNCHANGED <<wpc, readerVars, m_receipt, nconn, left, netVars, acked>>

ConnectFinish ==
    /\ cpc = "finish"
    /\ AttemptEnds
    /\ UNCHANGED <<m_connected, m_connecting, joinable, wpc, readerVars, m_receipt, m_reply_queue,
                   sock, nconn, left, netVars, acked, fault>>

ConnectStep ==
    \/ ConnectSocket \/ SendConnect \/ StartReader \/ ConnectLock
    \/ ConnectTimeout \/ ConnectReply \/ ConnectFinish
-----------------------------------------------------------------------------
(***************************************************************************)
(* The writer: connect() and do_write.                                     *)
(***************************************************************************)

\* The first look at m_connected; the connect thread goes on meanwhile.
do_write ==
    /\ wpc = "idle"
    /\ acked < MaxMsgs
    /\ m_receipt < MaxSends
    /\ wpc' = IF m_connected THEN "send" ELSE "connect"
    /\ UNCHANGED <<flagVars, cpc, readerVars, m_receipt, m_reply_queue, sock, nconn, left,
                   netVars, acked, fault>>

\* The rest of connect(), up to the join.
connect ==
    /\ wpc = "connect"
    /\ \/ \* the attempt is over: join the thread
          /\ m_connecting /\ m_connect_thread_done
          /\ m_connecting' = FALSE
          /\ wpc' = "join"
          /\ UNCHANGED <<m_connect_thread_done, joinable, cpc, fault>>
       \/ \* still trying to connect
          /\ m_connecting /\ ~m_connect_thread_done
          /\ wpc' = "idle"
          /\ UNCHANGED <<m_connecting, m_connect_thread_done, joinable, cpc, fault>>
       \/ \* start an attempt; assigning to a joinable std::thread is fatal
          /\ ~m_connecting
          /\ m_connecting' = TRUE /\ m_connect_thread_done' = FALSE
          /\ joinable' = TRUE /\ cpc' = "connect"
          /\ wpc' = "idle"
          /\ fault' = IF joinable THEN "overwritten" ELSE fault
    /\ UNCHANGED <<m_connected, readerVars, m_receipt, m_reply_queue, sock, nconn, left, netVars,
                   acked>>

\* Mutant: the thread is not joined.
SkipJoin ==
    /\ wpc = "join"
    /\ wpc' = IF m_connected THEN "send" ELSE "idle"
    /\ UNCHANGED <<flagVars, cpc, readerVars, m_receipt, m_reply_queue, sock, nconn, left,
                   netVars, acked, fault>>

JoinConnect ==
    /\ wpc = "join"
    /\ cpc = "done"
    /\ joinable' = FALSE /\ cpc' = "none"
    /\ wpc' = IF m_connected THEN "send" ELSE "idle"
    /\ UNCHANGED <<m_connected, m_connecting, m_connect_thread_done, readerVars, m_receipt,
                   m_reply_queue, sock, nconn, left, netVars, acked, fault>>

\* Mutant: a frame that cannot be sent is counted twice.
SendTwice ==
    /\ wpc = "send"
    /\ \/ /\ sock # 0
          /\ m_receipt' = m_receipt + 1
          /\ requests' = [requests EXCEPT ![sock] =
                Append(@, [cmd |-> "SEND", receipt |-> m_receipt', msg |-> acked + 1])]
          /\ wpc' = "lock"
          /\ UNCHANGED <<sock, m_connected>>
       \/ m_receipt' = m_receipt + 2 /\ disconnect /\ wpc' = "idle" /\ UNCHANGED requests
    /\ UNCHANGED <<m_connecting, m_connect_thread_done, joinable, cpc, readerVars, m_reply_queue,
                   nconn, left, replies, received, acked, fault>>

Send ==
    /\ wpc = "send"
    /\ m_receipt' = m_receipt + 1
    /\ \/ /\ sock # 0
          /\ requests' = [requests EXCEPT ![sock] =
                Append(@, [cmd |-> "SEND", receipt |-> m_receipt', msg |-> acked + 1])]
          /\ wpc' = "lock"
          /\ UNCHANGED <<sock, m_connected>>
       \/ disconnect /\ wpc' = "idle" /\ UNCHANGED requests
    /\ UNCHANGED <<m_connecting, m_connect_thread_done, joinable, cpc, readerVars, m_reply_queue,
                   nconn, left, replies, received, acked, fault>>

\* wait_for is called only if the reply is not there yet.  The connect thread
\* may still hold the mutex.
WriteLock ==
    /\ wpc = "lock"
    /\ cpc # "finish"
    /\ wpc' = IF m_reply_queue = <<>> THEN "wait" ELSE "front"
    /\ UNCHANGED <<flagVars, cpc, readerVars, m_receipt, m_reply_queue, sock, nconn, left,
                   netVars, acked, fault>>

WriteTimeout ==
    /\ wpc = "wait"
    /\ wpc' = "idle" /\ disconnect
    /\ UNCHANGED <<m_connecting, m_connect_thread_done, joinable, cpc, readerVars, m_receipt,
                   m_reply_queue, nconn, left, netVars, acked, fault>>

\* Mutant: every receipt is taken for the expected one.
WriteReplyAny ==
    /\ wpc = "front"
    /\ \/ /\ m_reply_queue = <<>>
          /\ fault' = "front"
          /\ UNCHANGED <<wpc, m_reply_queue, sock, m_connected, acked>>
       \/ /\ m_reply_queue # <<>>
          /\ m_reply_queue' = Tail(m_reply_queue)
          /\ wpc' = "idle"
          /\ \/ Head(m_reply_queue).cmd # "RECEIPT" /\ disconnect /\ UNCHANGED acked
             \/ /\ Head(m_reply_queue).cmd = "RECEIPT"
                /\ acked' = acked + 1
                /\ UNCHANGED <<sock, m_connected>>
          /\ UNCHANGED fault
    /\ UNCHANGED <<m_connecting, m_connect_thread_done, joinable, cpc, readerVars, m_receipt,
                   nconn, left, netVars>>

\* The receipt is compared with the number sent; no disconnect if it differs.
WriteReply ==
    /\ wpc = "front"
    /\ \/ /\ m_reply_queue = <<>>
          /\ fault' = "front"
          /\ UNCHANGED <<wpc, m_reply_queue, sock, m_connected, acked>>
       \/ /\ m_reply_queue # <<>>
          /\ m_reply_queue' = Tail(m_reply_queue)
          /\ wpc' = "idle"
          /\ \/ Head(m_reply_queue).cmd # "RECEIPT" /\ disconnect /\ UNCHANGED acked
             \/ /\ Head(m_reply_queue).cmd = "RECEIPT"
                /\ acked' = IF Head(m_reply_queue).receipt = m_receipt THEN acked + 1 ELSE acked
                /\ UNCHANGED <<sock, m_connected>>
          /\ UNCHANGED fault
    /\ UNCHANGED <<m_connecting, m_connect_thread_done, joinable, cpc, readerVars, m_receipt,
                   nconn, left, netVars>>

\* The destructor joins no thread: a connect thread that was not joined ends
\* the program, and a reader that has not ended goes on with a freed object.
Destroy ==
    /\ wpc = "idle"
    /\ wpc' = "destroyed"
    /\ fault' = IF joinable THEN "terminate"
                ELSE IF \E r \in Conn : rpc[r] \notin {"none", "done"} THEN "freed"
                ELSE fault
    /\ UNCHANGED <<flagVars, cpc, readerVars, m_receipt, m_reply_queue, sock, nconn, left,
                   netVars, acked>>

WriteStep == do_write \/ connect \/ JoinConnect \/ Send \/ WriteLock \/ WriteTimeout \/ WriteReply
-----------------------------------------------------------------------------
(***************************************************************************)
(* A reader thread.  It reads from whatever connection m_socket stands for *)
(* at the time, and its two steps of disconnect() interleave with the      *)
(* other threads.                                                          *)
(***************************************************************************)
GotoR(r, label) == rpc' = [rpc EXCEPT ![r] = label]

\* read_with_timeout returns some frames; the last one may be cut.
Read(r) ==
    /\ rpc[r] = "read"
    /\ sock # 0
    /\ \E n \in 0..Len(replies[sock]) :
          LET whole == SubSeq(replies[sock], 1, n)
              rest  == SubSeq(replies[sock], n + 1, Len(replies[sock]))
          IN  \/ /\ n > 0
                 /\ buf' = [buf EXCEPT ![r] = whole]
                 /\ replies' = [replies EXCEPT ![sock] = rest]
              \/ /\ sock \in CutConns /\ rest # <<>> /\ Head(rest).part = "whole"
                 /\ buf' = [buf EXCEPT ![r] = Append(whole, [Head(rest) EXCEPT !.part = "first"])]
                 /\ replies' = [replies EXCEPT ![sock] = [rest EXCEPT ![1].part = "last"]]
    /\ GotoR(r, "append")
    /\ UNCHANGED <<flagVars, cpc, wpc, m_partial_reply, m_receipt, m_reply_queue, sock, nconn,
                   left, requests, received, acked, fault>>

\* Mutant: the reader ends without closing the socket.
ReadFailsOpen(r) ==
    /\ rpc[r] = "read"
    /\ GotoR(r, "end")
    /\ UNCHANGED <<flagVars, cpc, wpc, buf, m_partial_reply, m_receipt, m_reply_queue, sock,
                   nconn, left, netVars, acked, fault>>

\* No heartbeat in time, end of file, an error or no socket.
ReadFails(r) ==
    /\ rpc[r] = "read"
    /\ GotoR(r, "end")
    /\ sock' = 0
    /\ UNCHANGED <<flagVars, cpc, wpc, buf, m_partial_reply, m_receipt, m_reply_queue, nconn,
                   left, netVars, acked, fault>>

\* What follows a first part on any connection is taken for its rest.
AppendPart(r) ==
    /\ rpc[r] = "append"
    /\ m_partial_reply' = Append(m_partial_reply, Head(buf[r]))
    /\ buf' = [buf EXCEPT ![r] = Tail(@)]
    /\ GotoR(r, IF Head(buf[r]).part # "first" THEN "handle"
                ELSE IF buf'[r] = <<>> THEN "read" ELSE "append")
    /\ UNCHANGED <<flagVars, cpc, wpc, m_receipt, m_reply_queue, sock, nconn, left, netVars,
                   acked, fault>>

\* The frames that handle_reply may see in pieces: the one they are the parts
\* of; of pieces of different frames, depending on where they were cut,
\* nothing that can be parsed, another command, or the command of the first
\* piece with a header of any of them.
Frames(pieces) ==
    LET frames == {pieces[i].frame : i \in DOMAIN pieces}
    IN  IF \/ Len(pieces) = 1 /\ pieces[1].part = "whole"
           \/ /\ Len(pieces) = 2 /\ pieces[1].frame = pieces[2].frame
              /\ pieces[1].part = "first" /\ pieces[2].part = "last"
        THEN frames
        ELSE {[cmd |-> c, receipt |-> 0] : c \in {"BAD", "ERROR"}}
             \cup {[pieces[1].frame EXCEPT !.receipt = f.receipt] :
                      f \in {g \in frames : pieces # <<>> /\ pieces[1].part # "last"}}

\* handle_reply: queue the frame under the mutex.
HandleReply(r) ==
    /\ rpc[r] = "handle"
    /\ cpc # "finish"
    /\ \E f \in Frames(m_partial_reply) :
          f.cmd # "BAD" /\ m_reply_queue' = Append(m_reply_queue, f)
    /\ GotoR(r, "notify")
    /\ UNCHANGED <<flagVars, cpc, wpc, buf, m_partial_reply, m_receipt, sock, nconn, left,
                   netVars, acked, fault>>

\* handle_reply fails: the rest of the buffer is dropped.
HandleReplyFails(r) ==
    /\ rpc[r] = "handle"
    /\ \E f \in Frames(m_partial_reply) : f.cmd = "BAD"
    /\ m_partial_reply' = <<>>
    /\ sock' = 0
    /\ buf' = [buf EXCEPT ![r] = <<>>]
    /\ GotoR(r, "drop")
    /\ UNCHANGED <<flagVars, cpc, wpc, m_receipt, m_reply_queue, nconn, left, netVars, acked,
                   fault>>

\* The second half of disconnect().  After a bad frame the break leaves the
\* inner loop only and the thread reads on.
Disconnected(r) ==
    /\ rpc[r] \in {"drop", "end"}
    /\ GotoR(r, IF rpc[r] = "drop" THEN "read" ELSE "done")
    /\ m_connected' = FALSE
    /\ UNCHANGED <<m_connecting, m_connect_thread_done, joinable, cpc, wpc, buf, m_partial_reply,
                   m_receipt, m_reply_queue, sock, nconn, left, netVars, acked, fault>>

\* A thread returns from wait_for before the timeout.
Wakeup ==
    \/ cpc = "wait" /\ cpc' = "front" /\ UNCHANGED wpc
    \/ wpc = "wait" /\ wpc' = "front" /\ UNCHANGED cpc

\* notify_one, after the mutex was released; the frame is cleared.
Notify(r) ==
    /\ rpc[r] = "notify"
    /\ m_partial_reply' = <<>>
    /\ GotoR(r, IF buf[r] = <<>> THEN "read" ELSE "append")
    /\ \/ Wakeup
       \/ cpc # "wait" /\ wpc # "wait" /\ UNCHANGED <<cpc, wpc>>
    /\ UNCHANGED <<flagVars, buf, m_receipt, m_reply_queue, sock, nconn, left, netVars, acked,
                   fault>>

\* wait_for has no predicate and may return without a notification.
SpuriousWakeup ==
    /\ Wakeup
    /\ UNCHANGED <<flagVars, readerVars, m_receipt, m_reply_queue, sock, nconn, left, netVars,
                   acked, fault>>

ReadStep(r) ==
    \/ Read(r) \/ ReadFails(r) \/ AppendPart(r)
    \/ HandleReply(r) \/ HandleReplyFails(r) \/ Disconnected(r) \/ Notify(r)
-----------------------------------------------------------------------------
(***************************************************************************)
(* The server (external): it answers every request, late perhaps, and also *)
(* after the client has closed the connection.                             *)
(***************************************************************************)
Answer(q) ==
    IF q.cmd = "CONNECT" THEN [cmd |-> "CONNECTED", receipt |-> 0]
                         ELSE [cmd |-> "RECEIPT", receipt |-> q.receipt]

Serve(c) ==
    /\ requests[c] # <<>>
    /\ requests' = [requests EXCEPT ![c] = Tail(@)]
    /\ \E reply \in {Answer(Head(requests[c]))} \cup [cmd : {"ERROR", "BAD"}, receipt : {0}] :
          /\ replies' = [replies EXCEPT ![c] = Append(@, [frame |-> reply, part |-> "whole"])]
          /\ received' = IF reply = Answer(Head(requests[c]))
                         THEN received \cup ({Head(requests[c]).msg} \ {0}) ELSE received
    /\ UNCHANGED <<flagVars, cpc, wpc, readerVars, m_receipt, m_reply_queue, sock, nconn, left,
                   acked, fault>>
-----------------------------------------------------------------------------
\* After a fault nothing is defined any more; there may be nothing to write.
Ended ==
    \/ fault # "none"
    \/ wpc = "destroyed"
    \/ wpc = "idle" /\ (acked = MaxMsgs \/ m_receipt = MaxSends)

Next ==
    \/ /\ fault = "none"
       /\ \/ ConnectStep \/ Handshake \/ WriteStep \/ Destroy \/ SpuriousWakeup
          \/ \E r \in Conn : ReadStep(r) \/ Serve(r)
    \/ Ended /\ UNCHANGED vars

Spec == Init /\ [][Next]_vars

\* The connect thread and the writer run and their waits end by their
\* timeouts, those of the operating system for ::connect included.  Nothing is
\* assumed of handshakes, of the readers, which may block in select() without a
\* timeout, and of the server.
FairSpec ==
    /\ Spec
    /\ WF_vars(fault = "none" /\ ConnectStep)
    /\ WF_vars(fault = "none" /\ WriteStep)
-----------------------------------------------------------------------------
\* A message that do_write reports as written has been processed by the
\* server: late, stale or misdirected replies never acknowledge it.
AckedReceived == \A m \in 1..acked : m \in received

\* m_connect_thread is never assigned while it still holds a thread, and
\* connect() joins only a thread that has done its work: the logging thread
\* does not sit out the 5 s of a connection attempt.
AttemptsJoined ==
    /\ fault # "overwritten"
    /\ wpc = "join" => cpc = "done"

\* The connect thread and the writer never wait for a reply at the same time:
\* a reply that arrives during a wait is there when the wait ends, and the one
\* who is notified is the one it is for.
OneWaits ==
    ~(cpc \in {"lock", "wait", "front"} /\ wpc \in {"send", "lock", "wait", "front"})

\* A socket is open only while its connection is being opened or as long as
\* some thread reads from it, although readers of earlier connections close
\* the socket too; or it was left open by a handshake that failed, and then it
\* is not taken for a connection and nothing is written to it.
OpenIsRead ==
    sock # 0 =>
        \/ cpc \in {"handshake", "send", "reader"} /\ sock \notin left
        \/ rpc[sock] \in {"read", "append", "handle", "notify", "drop"} /\ sock \notin left
        \/ sock \in left /\ ~m_connected /\ wpc # "send" /\ cpc \in {"none", "connect", "done"}

\* Only a sink without an attempt under way and without a connection outlives
\* its destructor, which ends neither of the two; the socket may be open if a
\* handshake has failed.
DestroyedIdle ==
    wpc = "destroyed" /\ fault = "none" => sock \in left \cup {0} /\ ~m_connecting

\* The assumption that a server does not leave a handshake unanswered.
HandshakesReturn == WF_vars(fault = "none" /\ Handshake)

\* The connect thread sets its flag in the end: a connection attempt leads to
\* a connection or makes room for the next attempt, if handshakes return.
AttemptResolves ==
    HandshakesReturn =>
        (m_connecting /\ ~m_connected
             ~> \/ ~m_connecting \/ m_connected \/ fault # "none" \/ wpc = "destroyed"
                \/ acked = MaxMsgs \/ m_receipt = MaxSends)
=============================================================================
