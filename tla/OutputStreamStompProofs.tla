------------------------ MODULE OutputStreamStompProofs ------------------------
(***************************************************************************)
(* Proofs about OutputStreamStomp, for any number of messages, SEND frames *)
(* and connections, with SSL or without: what is acknowledged was          *)
(* received, the connect thread is joined, without a wait, before the next *)
(* one is started, it and the writer never wait for a reply at the same    *)
(* time, and a connection that is open has a reader, unless its handshake  *)
(* has failed, when it is not used.                                        *)
(*                                                                         *)
(* The argument for the first follows a receipt number.  Every frame on    *)
(* its way, whole, cut or glued together from pieces of two frames,        *)
(* carries a number that was sent; while the writer waits, the number it   *)
(* waits for is found only in the request for the message it is writing    *)
(* and, once the server has processed that, in frames of replies.          *)
(***************************************************************************)
EXTENDS OutputStreamStomp, SequenceTheorems, TLAPS

\* A SEND frame was written and its reply is awaited.
Waiting == wpc \in {"lock", "wait", "front"}

\* Frames of the server that cannot acknowledge a message it does not have.
GoodReply ==
    {f \in Reply : /\ f.receipt <= m_receipt
                   /\ Waiting /\ f.receipt = m_receipt => acked + 1 \in received}

GoodPiece == [frame : GoodReply, part : {"whole", "first", "last"}]

\* Requests whose number, if it is awaited, belongs to the message written.
GoodRequest ==
    {q \in Request : /\ q.receipt <= m_receipt
                     /\ Waiting /\ q.receipt = m_receipt => q.msg = acked + 1}

ConnectLabels ==
    {"none", "connect", "handshake", "send", "reader", "lock", "wait", "front", "finish", "done"}

ControlInv ==
    /\ m_connected \in BOOLEAN /\ m_connecting \in BOOLEAN
    /\ m_connect_thread_done \in BOOLEAN /\ joinable \in BOOLEAN
    /\ cpc \in ConnectLabels
    /\ wpc \in {"idle", "connect", "join", "send", "lock", "wait", "front", "destroyed"}
    /\ rpc \in [Conn -> {"none", "read", "append", "handle", "notify", "drop", "end", "done"}]
    /\ sock \in 0..MaxConn /\ nconn \in 0..MaxConn
    /\ fault \in {"none", "front", "overwritten", "terminate", "freed"}

\* The counters, and what they mean to the writer.
WriterInv ==
    /\ m_receipt \in 0..MaxSends /\ acked \in 0..MaxMsgs
    /\ received \in SUBSET Msg
    /\ wpc \in {"connect", "join", "send"} => m_receipt < MaxSends
    /\ wpc \in {"connect", "join", "send"} \/ Waiting => acked < MaxMsgs
    /\ Waiting => m_receipt > 0

\* A thread that has something to append holds it.
BufferInv == \A r \in Conn : rpc[r] = "append" => buf[r] # <<>>

\* Everything on its way is good.
FlightInv ==
    /\ requests \in [Conn -> Seq(GoodRequest)]
    /\ replies \in [Conn -> Seq(GoodPiece)]
    /\ buf \in [Conn -> Seq(GoodPiece)]
    /\ m_partial_reply \in Seq(GoodPiece)
    /\ m_reply_queue \in Seq(GoodReply)

NeverOverwritten == fault # "overwritten"

\* A thread that was not joined is one of the attempt in progress, or is
\* about to be joined.
JoinInv ==
    /\ m_connecting \/ wpc = "join" \/ ~joinable
    /\ NeverOverwritten

JoinIsPrompt == wpc = "join" => cpc = "done"

\* Where the connect thread is, as connect() and the writer know it.
AttemptInv ==
    /\ m_connect_thread_done <=> cpc \in {"none", "done"}
    /\ joinable <=> cpc # "none"
    /\ joinable <=> m_connecting \/ wpc = "join"
    /\ m_connecting => wpc # "join"
    /\ JoinIsPrompt
    /\ m_connected => cpc \in {"none", "finish", "done"}
    /\ wpc = "connect" /\ m_connected => m_connecting
    /\ wpc \in {"send", "lock", "wait", "front"} => cpc \in {"none", "finish", "done"}

\* Every connection but the one that is being opened, and those whose
\* handshake failed, has had its reader; the connection that is open is the
\* last one.
ReaderInv ==
    /\ sock \in {0, nconn}
    /\ left \in SUBSET Conn /\ \A c \in left : c <= nconn
    /\ \A c \in Conn : c > nconn => rpc[c] = "none"
    /\ cpc \in {"handshake", "send", "reader"} => nconn > 0 /\ rpc[nconn] = "none"
    /\ nconn \in left => ~m_connected /\ wpc # "send" /\ cpc \in {"none", "connect", "done"}
    /\ OpenIsRead

\* What a destructor that did no harm has found.
DestroyInv ==
    wpc = "destroyed" /\ fault = "none" =>
        ~joinable /\ \A r \in Conn : rpc[r] \in {"none", "done"}

ThreadsInv == AttemptInv /\ ReaderInv /\ DestroyInv

IInv == ControlInv /\ WriterInv /\ BufferInv /\ FlightInv /\ JoinInv /\ AckedReceived
-----------------------------------------------------------------------------
\* After the constructor.
LEMMA InitEstablishes == Init => IInv
<1> SUFFICES ASSUME Init PROVE IInv
  OBVIOUS
<1>1. rpc \in [Conn -> {"none", "read", "append", "handle", "notify", "drop", "end", "done"}]
  BY DEF Init
<1>2. ControlInv
  <2>1. /\ m_connected = FALSE /\ m_connecting = TRUE /\ m_connect_thread_done = FALSE
        /\ joinable = TRUE /\ cpc = "connect" /\ wpc = "idle" /\ sock = 0 /\ nconn = 0
        /\ fault = "none"
    BY DEF Init
  <2> QED
    <3>1. sock \in 0..MaxConn /\ nconn \in 0..MaxConn
      BY <2>1, StompAssumption
    <3>2. /\ m_connected \in BOOLEAN /\ m_connecting \in BOOLEAN
          /\ m_connect_thread_done \in BOOLEAN /\ joinable \in BOOLEAN
      BY <2>1
    <3> QED
      BY <1>1, <2>1, <3>1, <3>2 DEF ControlInv, ConnectLabels
<1>3. WriterInv /\ BufferInv /\ JoinInv /\ AckedReceived
  <2>1. m_receipt = 0 /\ acked = 0 /\ received = {} /\ wpc = "idle" /\ m_connecting
        /\ fault = "none"
    BY DEF Init
  <2>2. \A r \in Conn : rpc[r] # "append"
    BY DEF Init
  <2> QED
    BY <2>1, <2>2, StompAssumption
       DEF WriterInv, Waiting, BufferInv, JoinInv, NeverOverwritten, AckedReceived
<1>4. FlightInv
  <2>1. <<>> \in Seq(GoodRequest) /\ <<>> \in Seq(GoodPiece) /\ <<>> \in Seq(GoodReply)
    BY EmptySeq
  <2> HIDE DEF GoodRequest, GoodPiece, GoodReply
  <2> QED
    BY <2>1 DEF Init, FlightInv
<1> QED
  BY <1>2, <1>3, <1>4 DEF IInv

\* What is on its way stays good: a number is awaited only from the moment it
\* is sent, nothing is acknowledged while it is, and the server forgets nothing.
LEMMA GoodKept ==
    ASSUME IInv,
           \/ m_receipt' = m_receipt + 1
           \/ m_receipt' = m_receipt /\ ~Waiting'
           \/ m_receipt' = m_receipt /\ acked' = acked /\ received \subseteq received' /\ Waiting
    PROVE  /\ Seq(GoodRequest) \subseteq Seq(GoodRequest')
           /\ Seq(GoodPiece) \subseteq Seq(GoodPiece')
           /\ Seq(GoodReply) \subseteq Seq(GoodReply')
<1> USE DEF IInv
<1>1. GoodReply \subseteq GoodReply'
  BY StompAssumption DEF GoodReply, Reply, WriterInv
<1>2. GoodRequest \subseteq GoodRequest'
  BY StompAssumption DEF GoodRequest, Request, WriterInv
<1>3. GoodPiece \subseteq GoodPiece'
  BY <1>1 DEF GoodPiece
<1> HIDE DEF GoodReply, GoodRequest, GoodPiece
<1>4. \A S, T : S \subseteq T => Seq(S) \subseteq Seq(T)
  BY SeqMonotonic
<1> QED
  BY <1>1, <1>2, <1>3, <1>4

\* The parts of the invariant make the whole after a step that acknowledges
\* nothing and sends no number, and puts only good frames on their way.
LEMMA Assemble ==
    ASSUME IInv, ControlInv', WriterInv', BufferInv', JoinInv',
           UNCHANGED <<m_receipt, acked, received>>, Waiting' => Waiting,
           requests' \in [Conn -> Seq(GoodRequest)],
           replies' \in [Conn -> Seq(GoodPiece)],
           buf' \in [Conn -> Seq(GoodPiece)],
           m_partial_reply' \in Seq(GoodPiece),
           m_reply_queue' \in Seq(GoodReply)
    PROVE  IInv'
<1>1. \/ m_receipt' = m_receipt /\ ~Waiting'
      \/ m_receipt' = m_receipt /\ acked' = acked /\ received \subseteq received' /\ Waiting
  OBVIOUS
<1>2. FlightInv'
  BY <1>1, GoodKept DEF FlightInv
<1>3. AckedReceived'
  BY DEF IInv, AckedReceived
<1> QED
  BY <1>2, <1>3 DEF IInv

\* The connect thread.
LEMMA ConnectKeeps ==
    ASSUME IInv, fault = "none", ConnectStep \/ Handshake
    PROVE  IInv'
<1> USE DEF IInv
<1>1. /\ UNCHANGED <<m_connecting, joinable, wpc, m_receipt, acked, received>>
      /\ UNCHANGED <<buf, m_partial_reply>>
  BY DEF ConnectStep, ConnectSocket, Handshake, SendConnect, StartReader, ConnectLock, ConnectTimeout,
         ConnectReply, ConnectFinish, flagVars, readerVars, netVars
<1>2. ControlInv'
  <2>1. rpc' \in [Conn -> {"none", "read", "append", "handle", "notify", "drop", "end", "done"}]
    BY DEF ConnectStep, ConnectSocket, Handshake, SendConnect, StartReader, ConnectLock, ConnectTimeout,
           ConnectReply, ConnectFinish, readerVars, ControlInv
  <2>2. /\ cpc' \in ConnectLabels
        /\ m_connected' \in BOOLEAN /\ m_connect_thread_done' \in BOOLEAN
        /\ fault' \in {"none", "front", "overwritten", "terminate", "freed"}
    BY DEF ConnectStep, ConnectSocket, Handshake, SendConnect, StartReader, ConnectLock, ConnectTimeout,
           ConnectReply, ConnectFinish, flagVars, AttemptEnds, disconnect, ControlInv, ConnectLabels
  <2>3. sock' \in 0..MaxConn /\ nconn' \in 0..MaxConn
    BY StompAssumption
       DEF ConnectStep, ConnectSocket, Handshake, SendConnect, StartReader, ConnectLock, ConnectTimeout,
           ConnectReply, ConnectFinish, AttemptEnds, disconnect, ControlInv
  <2> QED
    BY <1>1, <2>1, <2>2, <2>3 DEF ControlInv
<1>3. WriterInv' /\ (Waiting' => Waiting)
  BY <1>1 DEF WriterInv, Waiting
<1>4. BufferInv'
  BY <1>1 DEF ConnectStep, ConnectSocket, Handshake, SendConnect, StartReader, ConnectLock, ConnectTimeout,
              ConnectReply, ConnectFinish, readerVars, BufferInv, ControlInv
<1>5. JoinInv'
  BY <1>1 DEF ConnectStep, ConnectSocket, Handshake, SendConnect, StartReader, ConnectLock, ConnectTimeout,
              ConnectReply, ConnectFinish, JoinInv, NeverOverwritten
<1>6. requests' \in [Conn -> Seq(GoodRequest)]
  <2>1. CASE requests' = requests
    BY <2>1 DEF FlightInv
  <2>2. CASE SendConnect /\ requests' # requests
    <3> DEFINE q == [cmd |-> "CONNECT", receipt |-> 0, msg |-> 0]
    <3>1. q \in GoodRequest
      BY StompAssumption DEF GoodRequest, Request, WriterInv
    <3>2. sock \in Conn /\ requests' = [requests EXCEPT ![sock] = Append(@, q)]
      BY <2>2 DEF SendConnect, ControlInv, Conn
    <3> HIDE DEF q
    <3>3. Append(requests[sock], q) \in Seq(GoodRequest)
      BY <3>1, <3>2, AppendProperties DEF FlightInv
    <3> QED
      BY <3>2, <3>3 DEF FlightInv
  <2> QED
    BY <2>1, <2>2 DEF ConnectStep, ConnectSocket, Handshake, StartReader, ConnectLock, ConnectTimeout,
                      ConnectReply, ConnectFinish, netVars
<1>7. m_reply_queue' \in Seq(GoodReply)
  <2>1. CASE m_reply_queue' = m_reply_queue
    BY <2>1 DEF FlightInv
  <2>2. CASE m_reply_queue # <<>> /\ m_reply_queue' = Tail(m_reply_queue)
    BY <2>2, HeadTailProperties DEF FlightInv
  <2> QED
    BY <2>1, <2>2 DEF ConnectStep, ConnectSocket, Handshake, SendConnect, StartReader, ConnectLock,
                      ConnectTimeout, ConnectReply, ConnectFinish
<1>8. replies' \in [Conn -> Seq(GoodPiece)]
  <2>1. CASE replies' = replies
    BY <2>1 DEF FlightInv
  <2>2. <<>> \in Seq(GoodPiece) /\ Hello \in Seq(GoodPiece)
    <3>1. [cmd |-> "BAD", receipt |-> 0] \in GoodReply
      BY StompAssumption DEF GoodReply, Reply, WriterInv, Waiting
    <3>2. [frame |-> [cmd |-> "BAD", receipt |-> 0], part |-> "whole"] \in GoodPiece
      BY <3>1 DEF GoodPiece
    <3> HIDE DEF GoodPiece
    <3> QED
      BY <3>2, EmptySeq DEF Hello
  <2>3. CASE \E c \in Conn, s \in {<<>>, Hello} : replies' = [replies EXCEPT ![c] = s]
    BY <2>2, <2>3 DEF FlightInv
  <2>4. ConnectSocket => \/ replies' = replies
                         \/ \E c \in Conn, s \in {<<>>, Hello} : replies' = [replies EXCEPT ![c] = s]
    BY StompAssumption DEF ConnectSocket, ControlInv, Conn
  <2>5. Handshake => \/ replies' = replies
                     \/ \E c \in Conn, s \in {<<>>, Hello} : replies' = [replies EXCEPT ![c] = s]
    <3>1. CASE nconn \in Conn
      BY <3>1 DEF Handshake
    <3>2. CASE nconn \notin Conn
      BY <3>2 DEF Handshake, FlightInv
    <3> QED
      BY <3>1, <3>2
  <2>6. ~ConnectSocket /\ ~Handshake => replies' = replies
    BY DEF ConnectStep, SendConnect, StartReader, ConnectLock, ConnectTimeout, ConnectReply,
           ConnectFinish, netVars
  <2> QED
    BY <2>1, <2>3, <2>4, <2>5, <2>6
<1> QED
  BY <1>1, <1>2, <1>3, <1>4, <1>5, <1>6, <1>7, <1>8, Assemble DEF FlightInv

\* do_write up to the frame, and the join of the connect thread.
LEMMA WriteBeginKeeps ==
    ASSUME IInv, fault = "none", do_write \/ connect \/ JoinConnect
    PROVE  IInv'
<1> USE DEF IInv
<1>1. /\ UNCHANGED <<m_receipt, acked, received, rpc, sock, nconn>>
      /\ UNCHANGED <<buf, m_partial_reply, replies, requests, m_reply_queue>>
  BY DEF do_write, connect, JoinConnect, readerVars, netVars
<1>2. ControlInv'
  BY <1>1 DEF do_write, connect, JoinConnect, flagVars, ControlInv, ConnectLabels
<1>3. WriterInv' /\ (Waiting' => Waiting)
  BY <1>1 DEF do_write, connect, JoinConnect, WriterInv, Waiting
<1>4. BufferInv'
  BY <1>1 DEF BufferInv
<1>5. JoinInv'
  BY DEF do_write, connect, JoinConnect, flagVars, JoinInv, NeverOverwritten, ControlInv
<1> QED
  BY <1>1, <1>2, <1>3, <1>4, <1>5, Assemble DEF FlightInv

\* The number of a frame is new: nothing on its way carries it yet.
LEMMA SendKeeps ==
    ASSUME IInv, Send
    PROVE  IInv'
<1> USE DEF IInv
<1>1. /\ UNCHANGED <<m_connecting, m_connect_thread_done, joinable, cpc, rpc, buf, m_partial_reply,
                     m_reply_queue, nconn, replies, received, acked, fault>>
      /\ wpc = "send" /\ m_receipt' = m_receipt + 1
  BY DEF Send, readerVars
<1>2. m_receipt' \in 1..MaxSends /\ acked + 1 \in Msg /\ acked < MaxMsgs
  BY <1>1, StompAssumption DEF WriterInv, Msg
<1>3. ControlInv'
  <2>1. sock' \in 0..MaxConn /\ m_connected' \in BOOLEAN /\ wpc' \in {"lock", "idle"}
    <3>1. (sock' = sock /\ m_connected' = m_connected) \/ (sock' = 0 /\ m_connected' = FALSE)
      BY DEF Send, disconnect
    <3>2. wpc' \in {"lock", "idle"}
      BY DEF Send
    <3>3. sock' \in 0..MaxConn
      BY <3>1, StompAssumption DEF ControlInv
    <3>4. m_connected' \in BOOLEAN
      BY <3>1 DEF ControlInv
    <3> QED
      BY <3>2, <3>3, <3>4
  <2>2. /\ m_connecting' \in BOOLEAN /\ m_connect_thread_done' \in BOOLEAN
        /\ joinable' \in BOOLEAN
    BY <1>1 DEF ControlInv
  <2> QED
    BY <1>1, <2>1, <2>2 DEF ControlInv
<1>4. WriterInv' /\ AckedReceived'
  BY <1>1, <1>2 DEF Send, WriterInv, Waiting, AckedReceived
<1>5. BufferInv' /\ JoinInv'
  BY <1>1 DEF Send, BufferInv, JoinInv, NeverOverwritten
<1>6. /\ Seq(GoodRequest) \subseteq Seq(GoodRequest')
      /\ Seq(GoodPiece) \subseteq Seq(GoodPiece')
      /\ Seq(GoodReply) \subseteq Seq(GoodReply')
  BY <1>1, GoodKept
<1>7. requests' \in [Conn -> Seq(GoodRequest')]
  <2>1. CASE requests' = requests
    BY <1>6, <2>1 DEF FlightInv
  <2>2. CASE requests' # requests
    <3> DEFINE q == [cmd |-> "SEND", receipt |-> m_receipt', msg |-> acked + 1]
    <3>1. q \in GoodRequest'
      BY <1>1, <1>2, StompAssumption DEF GoodRequest, Request, Msg
    <3>2. sock \in Conn /\ requests' = [requests EXCEPT ![sock] = Append(@, q)]
      BY <2>2 DEF Send, ControlInv, Conn
    <3> HIDE DEF q
    <3>3. requests \in [Conn -> Seq(GoodRequest')]
      BY <1>6 DEF FlightInv
    <3>4. Append(requests[sock], q) \in Seq(GoodRequest')
      BY <3>1, <3>2, <3>3, AppendProperties
    <3> QED
      BY <3>2, <3>3, <3>4
  <2> QED
    BY <2>1, <2>2
<1>8. FlightInv'
  BY <1>1, <1>6, <1>7 DEF FlightInv
<1> QED
  BY <1>3, <1>4, <1>5, <1>8

\* The wait for the reply, up to its end, and the destructor.
LEMMA WriteWaitKeeps ==
    ASSUME IInv, fault = "none", WriteLock \/ WriteTimeout \/ Destroy
    PROVE  IInv'
<1> USE DEF IInv
<1>1. /\ UNCHANGED <<m_receipt, acked, received, rpc, cpc, nconn, m_connecting, joinable,
                     m_connect_thread_done>>
      /\ UNCHANGED <<buf, m_partial_reply, replies, requests, m_reply_queue>>
  BY DEF WriteLock, WriteTimeout, Destroy, readerVars, netVars, flagVars
<1>2. ControlInv'
  <2>1. /\ sock' \in 0..MaxConn /\ m_connected' \in BOOLEAN
        /\ wpc' \in {"wait", "front", "idle", "destroyed"}
        /\ fault' \in {"none", "front", "overwritten", "terminate", "freed"}
    <3>1. (sock' = sock /\ m_connected' = m_connected) \/ (sock' = 0 /\ m_connected' = FALSE)
      BY DEF WriteLock, WriteTimeout, Destroy, disconnect, flagVars
    <3>2. wpc' \in {"wait", "front", "idle", "destroyed"}
      BY DEF WriteLock, WriteTimeout, Destroy
    <3>3. fault' \in {"none", "front", "overwritten", "terminate", "freed"}
      BY DEF WriteLock, WriteTimeout, Destroy, ControlInv
    <3>4. sock' \in 0..MaxConn
      BY <3>1, StompAssumption DEF ControlInv
    <3>5. m_connected' \in BOOLEAN
      BY <3>1 DEF ControlInv
    <3> QED
      BY <3>2, <3>3, <3>4, <3>5
  <2>2. /\ m_connecting' \in BOOLEAN /\ m_connect_thread_done' \in BOOLEAN
        /\ joinable' \in BOOLEAN
    BY <1>1 DEF ControlInv
  <2> QED
    BY <1>1, <2>1, <2>2 DEF ControlInv
<1>3. WriterInv' /\ (Waiting' => Waiting)
  BY <1>1 DEF WriteLock, WriteTimeout, Destroy, WriterInv, Waiting
<1>4. BufferInv'
  BY <1>1 DEF BufferInv
<1>5. JoinInv'
  BY <1>1 DEF WriteLock, WriteTimeout, Destroy, JoinInv, NeverOverwritten
<1> QED
  BY <1>1, <1>2, <1>3, <1>4, <1>5, Assemble DEF FlightInv

\* A receipt with the awaited number means that the server has the message.
LEMMA WriteReplyKeeps ==
    ASSUME IInv, fault = "none", WriteReply
    PROVE  IInv'
<1> USE DEF IInv
<1>1. /\ UNCHANGED <<m_receipt, received, rpc, cpc, nconn, m_connecting, joinable,
                     m_connect_thread_done>>
      /\ UNCHANGED <<buf, m_partial_reply, replies, requests>>
      /\ wpc = "front"
  BY DEF WriteReply, readerVars, netVars
<1>2. CASE m_reply_queue = <<>>
  <2>1. /\ UNCHANGED <<wpc, m_reply_queue, sock, m_connected, acked>>
        /\ fault' = "front"
    BY <1>2 DEF WriteReply
  <2> QED
    BY <1>1, <2>1, Assemble
       DEF FlightInv, ControlInv, WriterInv, Waiting, BufferInv, JoinInv, NeverOverwritten
<1>3. CASE m_reply_queue # <<>>
  <2>1. Head(m_reply_queue) \in GoodReply /\ Tail(m_reply_queue) \in Seq(GoodReply)
    BY <1>3, HeadTailProperties DEF FlightInv
  <2>2. /\ m_reply_queue' = Tail(m_reply_queue) /\ wpc' = "idle" /\ fault' = fault
        /\ (sock' = sock /\ m_connected' = m_connected) \/ (sock' = 0 /\ m_connected' = FALSE)
        /\ acked' = acked \/ (acked' = acked + 1 /\ Head(m_reply_queue).receipt = m_receipt)
    BY <1>3 DEF WriteReply, disconnect
  <2>3. acked' = acked + 1 => acked + 1 \in received
    BY <1>1, <2>1, <2>2 DEF GoodReply, Waiting, WriterInv
  <2>4. ControlInv'
    <3>0. sock' \in 0..MaxConn
      BY <2>2, StompAssumption DEF ControlInv
    <3>1. m_connected' \in BOOLEAN
      BY <2>2 DEF ControlInv
    <3>2. /\ m_connecting' \in BOOLEAN /\ m_connect_thread_done' \in BOOLEAN
          /\ joinable' \in BOOLEAN
      BY <1>1 DEF ControlInv
    <3> QED
      BY <1>1, <2>2, <3>0, <3>1, <3>2 DEF ControlInv
  <2>5. WriterInv' /\ AckedReceived'
    BY <1>1, <2>2, <2>3, StompAssumption DEF WriterInv, Waiting, AckedReceived
  <2>6. BufferInv' /\ JoinInv'
    BY <1>1, <2>2 DEF BufferInv, JoinInv, NeverOverwritten
  <2>7. FlightInv'
    <3>1. /\ Seq(GoodRequest) \subseteq Seq(GoodRequest')
          /\ Seq(GoodPiece) \subseteq Seq(GoodPiece')
          /\ Seq(GoodReply) \subseteq Seq(GoodReply')
      BY <1>1, <2>2, GoodKept DEF Waiting
    <3> QED
      BY <1>1, <2>1, <2>2, <3>1 DEF FlightInv
  <2> QED
    BY <2>4, <2>5, <2>6, <2>7
<1> QED
  BY <1>2, <1>3

\* Whatever handle_reply makes of good pieces is a good frame: the parts of
\* two frames do not make up a number that none of them carries.
LEMMA FramesGood ==
    ASSUME IInv, NEW pieces \in Seq(GoodPiece)
    PROVE  Frames(pieces) \subseteq GoodReply
<1> DEFINE frames == {pieces[i].frame : i \in DOMAIN pieces}
<1>1. frames \subseteq GoodReply
  <2>1. \A i \in DOMAIN pieces : pieces[i] \in GoodPiece
    BY ElementOfSeq, LenProperties
  <2> QED
    BY <2>1 DEF GoodPiece
<1>2. \A c \in {"BAD", "ERROR"} : [cmd |-> c, receipt |-> 0] \in GoodReply
  BY StompAssumption DEF IInv, WriterInv, GoodReply, Reply
<1>3. ASSUME NEW f \in frames, pieces # <<>>
      PROVE  [pieces[1].frame EXCEPT !.receipt = f.receipt] \in GoodReply
  <2>1. 1 \in 1..Len(pieces)
    BY <1>3, EmptySeq
  <2>2. pieces[1] \in GoodPiece
    BY <2>1, ElementOfSeq
  <2>3. pieces[1].frame \in GoodReply /\ f \in GoodReply
    BY <1>1, <2>2 DEF GoodPiece
  <2> QED
    BY <2>3 DEF GoodReply, Reply
<1> HIDE DEF frames
<1>4. Frames(pieces) \subseteq
        frames \cup {[cmd |-> c, receipt |-> 0] : c \in {"BAD", "ERROR"}}
          \cup {[pieces[1].frame EXCEPT !.receipt = f.receipt] :
                   f \in {g \in frames : pieces # <<>> /\ pieces[1].part # "last"}}
  BY DEF Frames, frames
<1> QED
  BY <1>1, <1>2, <1>3, <1>4

\* A read takes pieces of the replies from the front and may cut one.
LEMMA ReadTakesGood ==
    ASSUME IInv, NEW r \in Conn, Read(r)
    PROVE  /\ replies' \in [Conn -> Seq(GoodPiece)]
           /\ buf' \in [Conn -> Seq(GoodPiece)]
           /\ rpc[r] = "read" /\ rpc' = [rpc EXCEPT ![r] = "append"] /\ buf'[r] # <<>>
<1>1. sock \in Conn
  BY DEF IInv, ControlInv, Read, Conn
<1> DEFINE s == replies[sock]
<1>2. s \in Seq(GoodPiece) /\ replies \in [Conn -> Seq(GoodPiece)] /\ buf \in [Conn -> Seq(GoodPiece)]
  BY <1>1 DEF IInv, FlightInv
<1>3. PICK n \in 0..Len(s) :
        LET whole == SubSeq(s, 1, n)
            rest  == SubSeq(s, n + 1, Len(s))
        IN  \/ /\ n > 0
               /\ buf' = [buf EXCEPT ![r] = whole]
               /\ replies' = [replies EXCEPT ![sock] = rest]
            \/ /\ rest # <<>> /\ Head(rest).part = "whole"
               /\ buf' = [buf EXCEPT ![r] = Append(whole, [Head(rest) EXCEPT !.part = "first"])]
               /\ replies' = [replies EXCEPT ![sock] = [rest EXCEPT ![1].part = "last"]]
  BY DEF Read
<1> DEFINE whole == SubSeq(s, 1, n)
           rest  == SubSeq(s, n + 1, Len(s))
<1>4. Len(s) \in Nat /\ n \in Int
  BY <1>2, LenProperties
<1>5. \A i \in 1..Len(s) : s[i] \in GoodPiece
  BY <1>2, ElementOfSeq
<1>6. whole \in Seq(GoodPiece) /\ Len(whole) = IF 1 <= n THEN n ELSE 0
  <2>1. \A i \in 1..n : s[i] \in GoodPiece
    BY <1>4, <1>5
  <2> QED
    BY <1>4, <2>1, SubSeqProperties
<1>7. rest \in Seq(GoodPiece)
  <2>1. \A i \in (n + 1)..Len(s) : s[i] \in GoodPiece
    BY <1>4, <1>5
  <2> HIDE DEF s
  <2> QED
    BY <1>4, <2>1, SubSeqProperties
<1> HIDE DEF s, whole, rest
<1>8. rpc[r] = "read" /\ rpc' = [rpc EXCEPT ![r] = "append"]
  BY DEF Read, GotoR
<1>9. CASE /\ n > 0
           /\ buf' = [buf EXCEPT ![r] = whole]
           /\ replies' = [replies EXCEPT ![sock] = rest]
  <2>1. whole # <<>>
    BY <1>4, <1>6, <1>9, EmptySeq
  <2> QED
    BY <1>2, <1>6, <1>7, <1>8, <1>9, <2>1
<1>10. CASE /\ rest # <<>>
            /\ buf' = [buf EXCEPT ![r] = Append(whole, [Head(rest) EXCEPT !.part = "first"])]
            /\ replies' = [replies EXCEPT ![sock] = [rest EXCEPT ![1].part = "last"]]
  <2>1. Head(rest) \in GoodPiece
    BY <1>7, <1>10, HeadTailProperties
  <2>2. [Head(rest) EXCEPT !.part = "first"] \in GoodPiece
    BY <2>1 DEF GoodPiece
  <2>3. /\ Append(whole, [Head(rest) EXCEPT !.part = "first"]) \in Seq(GoodPiece)
        /\ Append(whole, [Head(rest) EXCEPT !.part = "first"]) # <<>>
    BY <1>6, <2>2, AppendProperties
  <2>4. 1 \in 1..Len(rest)
    BY <1>7, <1>10, EmptySeq
  <2>5. rest[1] \in GoodPiece
    BY <1>7, <2>4, ElementOfSeq
  <2>6. [rest[1] EXCEPT !.part = "last"] \in GoodPiece
    BY <2>5 DEF GoodPiece
  <2>7. [rest EXCEPT ![1] = [rest[1] EXCEPT !.part = "last"]] \in Seq(GoodPiece)
    BY <1>7, <2>4, <2>6, ExceptSeq
  <2>8. [rest EXCEPT ![1].part = "last"] \in Seq(GoodPiece)
    BY <2>7
  <2> QED
    BY <1>2, <1>8, <1>10, <2>3, <2>8
<1> QED
  BY <1>3, <1>9, <1>10 DEF s, whole, rest

\* A reader thread.
LEMMA ReadKeeps ==
    ASSUME IInv, fault = "none", NEW r \in Conn, ReadStep(r)
    PROVE  IInv'
<1> USE DEF IInv
<1>1. UNCHANGED <<m_connecting, m_connect_thread_done, joinable, m_receipt, nconn,
                  requests, received, acked, fault>>
  BY DEF ReadStep, Read, ReadFails, AppendPart, HandleReply, HandleReplyFails, Disconnected,
         Notify, flagVars, netVars
<1>2. ControlInv'
  <2>1. rpc' \in [Conn -> {"none", "read", "append", "handle", "notify", "drop", "end", "done"}]
    <3>1. \E label \in {"read", "append", "handle", "notify", "drop", "end", "done"} :
            rpc' = [rpc EXCEPT ![r] = label]
      BY DEF ReadStep, Read, ReadFails, AppendPart, HandleReply, HandleReplyFails, Disconnected,
             Notify, GotoR
    <3> QED
      BY <3>1 DEF ControlInv
  <2>2. sock' = sock \/ sock' = 0
    BY DEF ReadStep, Read, ReadFails, AppendPart, HandleReply, HandleReplyFails, Disconnected,
           Notify
  <2>3. sock' \in 0..MaxConn /\ nconn' \in 0..MaxConn
    BY <1>1, <2>2, StompAssumption DEF ControlInv
  <2>4. m_connected' = m_connected \/ m_connected' = FALSE
    BY DEF ReadStep, Read, ReadFails, AppendPart, HandleReply, HandleReplyFails, Disconnected,
           Notify, flagVars
  <2>5. m_connected' \in BOOLEAN
    BY <2>4 DEF ControlInv
  <2>6. /\ m_connecting' \in BOOLEAN /\ m_connect_thread_done' \in BOOLEAN
        /\ joinable' \in BOOLEAN
    BY <1>1 DEF ControlInv
  <2>7. \/ cpc' = cpc /\ wpc' = wpc
        \/ wpc' = wpc /\ cpc' = "front"
        \/ cpc' = cpc /\ wpc = "wait" /\ wpc' = "front"
    BY DEF ReadStep, Read, ReadFails, AppendPart, HandleReply, HandleReplyFails, Disconnected,
           Notify, Wakeup
  <2>8. /\ cpc' \in ConnectLabels
        /\ wpc' \in {"idle", "connect", "join", "send", "lock", "wait", "front", "destroyed"}
    BY <2>7 DEF ControlInv, ConnectLabels
  <2>9. fault' \in {"none", "front", "overwritten", "terminate", "freed"}
    BY <1>1 DEF ControlInv
  <2> QED
    BY <2>1, <2>3, <2>5, <2>6, <2>8, <2>9 DEF ControlInv
<1>3. wpc' = wpc \/ (wpc = "wait" /\ wpc' = "front")
  BY DEF ReadStep, Read, ReadFails, AppendPart, HandleReply, HandleReplyFails, Disconnected,
         Notify, Wakeup
<1>4. WriterInv' /\ (Waiting' => Waiting)
  BY <1>1, <1>3 DEF WriterInv, Waiting
<1>5. JoinInv'
  BY <1>1, <1>3 DEF JoinInv, NeverOverwritten
<1>6. /\ replies' \in [Conn -> Seq(GoodPiece)]
      /\ buf' \in [Conn -> Seq(GoodPiece)]
      /\ m_partial_reply' \in Seq(GoodPiece)
      /\ m_reply_queue' \in Seq(GoodReply)
      /\ BufferInv'
  <2>1. CASE Read(r)
    BY <2>1, ReadTakesGood DEF Read, FlightInv, BufferInv, ControlInv
  <2>2. CASE ReadFails(r) \/ Disconnected(r)
    <3>1. UNCHANGED <<replies, buf, m_partial_reply, m_reply_queue>>
      BY <2>2 DEF ReadFails, Disconnected, netVars
    <3>2. \A q \in Conn : rpc'[q] = "append" => rpc[q] = "append"
      BY <2>2 DEF ReadFails, Disconnected, GotoR, ControlInv
    <3> QED
      BY <3>1, <3>2 DEF FlightInv, BufferInv
  <2>3. CASE AppendPart(r)
    <3>1. buf[r] \in Seq(GoodPiece) /\ buf[r] # <<>>
      BY <2>3 DEF AppendPart, FlightInv, BufferInv
    <3>2. Head(buf[r]) \in GoodPiece /\ Tail(buf[r]) \in Seq(GoodPiece)
      BY <3>1, HeadTailProperties
    <3>3. m_partial_reply' \in Seq(GoodPiece)
      BY <2>3, <3>2, AppendProperties DEF AppendPart, FlightInv
    <3>4. /\ buf' = [buf EXCEPT ![r] = Tail(buf[r])]
          /\ UNCHANGED <<replies, m_reply_queue>>
      BY <2>3 DEF AppendPart, netVars
    <3>5. buf' \in [Conn -> Seq(GoodPiece)] /\ buf'[r] = Tail(buf[r])
      BY <3>2, <3>4 DEF FlightInv
    <3>6. \A q \in Conn \ {r} : rpc'[q] = rpc[q] /\ buf'[q] = buf[q]
      BY <2>3, <3>4 DEF AppendPart, GotoR, ControlInv, FlightInv
    <3>7. rpc'[r] = "append" => buf'[r] # <<>>
      BY <2>3 DEF AppendPart, GotoR, ControlInv
    <3> QED
      BY <3>3, <3>4, <3>5, <3>6, <3>7 DEF FlightInv, BufferInv
  <2>4. CASE HandleReply(r)
    <3>1. PICK f \in Frames(m_partial_reply) : m_reply_queue' = Append(m_reply_queue, f)
      BY <2>4 DEF HandleReply
    <3>2. f \in GoodReply
      BY <3>1, FramesGood DEF FlightInv
    <3>3. m_reply_queue' \in Seq(GoodReply)
      BY <3>1, <3>2, AppendProperties DEF FlightInv
    <3>4. UNCHANGED <<replies, buf, m_partial_reply>>
      BY <2>4 DEF HandleReply, netVars
    <3>5. \A q \in Conn : rpc'[q] = "append" => rpc[q] = "append"
      BY <2>4 DEF HandleReply, GotoR, ControlInv
    <3> QED
      BY <3>3, <3>4, <3>5 DEF FlightInv, BufferInv
  <2>5. CASE HandleReplyFails(r)
    <3>1. /\ m_partial_reply' = <<>> /\ buf' = [buf EXCEPT ![r] = <<>>]
          /\ UNCHANGED <<replies, m_reply_queue>>
      BY <2>5 DEF HandleReplyFails, netVars
    <3>2. <<>> \in Seq(GoodPiece)
      BY EmptySeq
    <3>3. \A q \in Conn : rpc'[q] = "append" => rpc[q] = "append" /\ q # r
      BY <2>5 DEF HandleReplyFails, GotoR, ControlInv
    <3>4. \A q \in Conn \ {r} : buf'[q] = buf[q]
      BY <3>1 DEF FlightInv
    <3> QED
      BY <3>1, <3>2, <3>3, <3>4 DEF FlightInv, BufferInv
  <2>6. CASE Notify(r)
    <3>1. m_partial_reply' = <<>> /\ UNCHANGED <<replies, buf, m_reply_queue>>
      BY <2>6 DEF Notify, netVars
    <3>2. <<>> \in Seq(GoodPiece)
      BY EmptySeq
    <3>3. \A q \in Conn : rpc'[q] = "append" => buf[q] # <<>>
      BY <2>6 DEF Notify, GotoR, ControlInv, BufferInv
    <3> QED
      BY <3>1, <3>2, <3>3 DEF FlightInv, BufferInv
  <2> QED
    BY <2>1, <2>2, <2>3, <2>4, <2>5, <2>6 DEF ReadStep
<1> QED
  BY <1>1, <1>2, <1>4, <1>5, <1>6, Assemble DEF FlightInv

\* The server answers a request with its number, if it has the message.
LEMMA ServeKeeps ==
    ASSUME IInv, NEW c \in Conn, Serve(c)
    PROVE  IInv'
<1> USE DEF IInv
<1>1. /\ UNCHANGED <<m_connecting, m_connect_thread_done, joinable, m_connected, fault>>
      /\ UNCHANGED <<cpc, wpc, rpc, buf, m_partial_reply, m_receipt, m_reply_queue, sock, nconn, acked>>
  BY DEF Serve, flagVars, readerVars
<1> DEFINE q == Head(requests[c])
<1>2. q \in GoodRequest /\ Tail(requests[c]) \in Seq(GoodRequest)
  BY HeadTailProperties DEF Serve, FlightInv
<1>3. PICK reply \in {Answer(q)} \cup [cmd : {"ERROR", "BAD"}, receipt : {0}] :
        /\ replies' = [replies EXCEPT ![c] = Append(@, [frame |-> reply, part |-> "whole"])]
        /\ received' = IF reply = Answer(q) THEN received \cup ({q.msg} \ {0}) ELSE received
  BY DEF Serve
<1>4. requests' = [requests EXCEPT ![c] = Tail(requests[c])]
  BY DEF Serve
<1> HIDE DEF q
<1>5. received \subseteq received' /\ received' \in SUBSET Msg
  <2>1. q.msg \in 0..MaxMsgs
    BY <1>2 DEF GoodRequest, Request
  <2>2. {q.msg} \ {0} \subseteq Msg
    BY <2>1, StompAssumption DEF Msg
  <2>3. received' = received \/ received' = received \cup ({q.msg} \ {0})
    BY <1>3
  <2> QED
    BY <2>2, <2>3 DEF WriterInv
<1>6. WriterInv' /\ AckedReceived'
  BY <1>1, <1>5 DEF WriterInv, Waiting, AckedReceived
<1>7. ControlInv'
  <2>1. /\ m_connecting' \in BOOLEAN /\ m_connect_thread_done' \in BOOLEAN
        /\ joinable' \in BOOLEAN /\ m_connected' \in BOOLEAN
    BY <1>1 DEF ControlInv
  <2> QED
    BY <1>1, <2>1 DEF ControlInv
<1>8. BufferInv' /\ JoinInv'
  BY <1>1 DEF BufferInv, JoinInv, NeverOverwritten
<1>9. /\ Seq(GoodRequest) \subseteq Seq(GoodRequest')
      /\ Seq(GoodPiece) \subseteq Seq(GoodPiece')
      /\ Seq(GoodReply) \subseteq Seq(GoodReply')
  BY <1>1, <1>5, GoodKept DEF Waiting
<1>10. reply \in GoodReply'
  <2>1. reply \in Reply
    BY <1>2, <1>3, StompAssumption DEF GoodRequest, Request, Reply, Answer
  <2>2. reply.receipt = 0 \/ (reply = Answer(q) /\ reply.receipt = q.receipt /\ q.cmd = "SEND")
    BY <1>2, <1>3 DEF GoodRequest, Request, Answer
  <2>3. CASE reply.receipt = 0
    BY <1>1, <2>1, <2>3 DEF GoodReply, Reply, WriterInv, Waiting
  <2>4. CASE reply = Answer(q) /\ reply.receipt = q.receipt
    <3>1. q.receipt <= m_receipt /\ (Waiting /\ q.receipt = m_receipt => q.msg = acked + 1)
      BY <1>2 DEF GoodRequest
    <3>2. received' = received \cup ({q.msg} \ {0})
      BY <1>3, <2>4
    <3>3. Waiting /\ q.receipt = m_receipt => acked + 1 \in received'
      BY <3>1, <3>2, StompAssumption DEF WriterInv
    <3> QED
      BY <1>1, <2>1, <2>4, <3>1, <3>3 DEF GoodReply, Waiting
  <2> QED
    BY <2>2, <2>3, <2>4
<1>11. FlightInv'
  <2>1. requests' \in [Conn -> Seq(GoodRequest')]
    BY <1>2, <1>4, <1>9 DEF FlightInv
  <2>2. [frame |-> reply, part |-> "whole"] \in GoodPiece'
    BY <1>10 DEF GoodPiece
  <2>3. replies \in [Conn -> Seq(GoodPiece')]
    BY <1>9 DEF FlightInv
  <2>4. Append(replies[c], [frame |-> reply, part |-> "whole"]) \in Seq(GoodPiece')
    BY <2>2, <2>3, AppendProperties
  <2>5. replies' \in [Conn -> Seq(GoodPiece')]
    BY <1>3, <2>3, <2>4
  <2> QED
    BY <1>1, <1>9, <2>1, <2>5 DEF FlightInv
<1> QED
  BY <1>6, <1>7, <1>8, <1>11

\* A wake-up without a notification.
LEMMA SpuriousKeeps ==
    ASSUME IInv, SpuriousWakeup
    PROVE  IInv'
<1> USE DEF IInv
<1>1. /\ UNCHANGED <<m_connecting, m_connect_thread_done, joinable, m_connected>>
      /\ UNCHANGED <<rpc, m_receipt, sock, nconn, acked, received, fault>>
      /\ UNCHANGED <<buf, m_partial_reply, m_reply_queue, requests, replies>>
  BY DEF SpuriousWakeup, flagVars, readerVars, netVars
<1>2. \/ wpc' = wpc /\ cpc' = "front"
      \/ cpc' = cpc /\ wpc = "wait" /\ wpc' = "front"
  BY DEF SpuriousWakeup, Wakeup
<1>3. ControlInv'
  <2>1. /\ m_connecting' \in BOOLEAN /\ m_connect_thread_done' \in BOOLEAN
        /\ joinable' \in BOOLEAN /\ m_connected' \in BOOLEAN
    BY <1>1 DEF ControlInv
  <2>2. /\ cpc' \in ConnectLabels
        /\ wpc' \in {"idle", "connect", "join", "send", "lock", "wait", "front", "destroyed"}
    BY <1>2 DEF ControlInv, ConnectLabels
  <2> QED
    BY <1>1, <2>1, <2>2 DEF ControlInv
<1>4. WriterInv' /\ (Waiting' => Waiting)
  BY <1>1, <1>2 DEF WriterInv, Waiting
<1>5. BufferInv' /\ JoinInv'
  BY <1>1, <1>2 DEF BufferInv, JoinInv, NeverOverwritten
<1> QED
  BY <1>1, <1>3, <1>4, <1>5, Assemble DEF FlightInv
-----------------------------------------------------------------------------
\* Every step preserves the invariant.
LEMMA NextPreserves == IInv /\ [Next]_vars => IInv'
<1> SUFFICES ASSUME IInv, [Next]_vars PROVE IInv'
  OBVIOUS
<1>1. CASE UNCHANGED vars
  BY <1>1 DEF IInv, ControlInv, WriterInv, Waiting, BufferInv, FlightInv, JoinInv, AckedReceived,
              NeverOverwritten, GoodRequest, GoodPiece, GoodReply,
              vars, flagVars, readerVars, netVars
<1>2. CASE Next /\ ~UNCHANGED vars
  BY <1>2, ConnectKeeps, WriteBeginKeeps, SendKeeps, WriteWaitKeeps, WriteReplyKeeps, ReadKeeps,
     ServeKeeps, SpuriousKeeps DEF Next, WriteStep
<1> QED
  BY <1>1, <1>2

\* The invariant holds throughout.
LEMMA Invariance == Spec => []IInv
  BY InitEstablishes, NextPreserves, PTL DEF Spec

-----------------------------------------------------------------------------
(***************************************************************************)
(* Who runs, and when.  What is on its way plays no part here.             *)
(***************************************************************************)

\* The constructor has started the first attempt.
LEMMA ThreadsInit == Init => ThreadsInv
  BY DEF Init, ThreadsInv, AttemptInv, ReaderInv, DestroyInv, JoinIsPrompt, OpenIsRead

\* An attempt runs from its start to its flag, and the writer sends nothing
\* while it does.
LEMMA AttemptKept ==
    ASSUME ControlInv, AttemptInv, fault = "none", Next
    PROVE  AttemptInv'
<1> USE DEF AttemptInv, JoinIsPrompt
<1>1. CASE ConnectStep \/ Handshake
  BY <1>1 DEF ConnectStep, ConnectSocket, Handshake, SendConnect, StartReader, ConnectLock, ConnectTimeout,
              ConnectReply, ConnectFinish, AttemptEnds, disconnect, flagVars, ControlInv
<1>2. CASE do_write \/ connect \/ JoinConnect
  BY <1>2 DEF do_write, connect, JoinConnect, flagVars, ControlInv
<1>3. CASE Send \/ WriteLock \/ WriteTimeout \/ WriteReply \/ Destroy
  BY <1>3 DEF Send, WriteLock, WriteTimeout, WriteReply, Destroy, disconnect, flagVars, ControlInv
<1>4. CASE SpuriousWakeup
  BY <1>4 DEF SpuriousWakeup, Wakeup, flagVars, ControlInv
<1>5. CASE \E r \in Conn : ReadStep(r)
  BY <1>5 DEF ReadStep, Read, ReadFails, AppendPart, HandleReply, HandleReplyFails, Disconnected,
              Notify, Wakeup, flagVars, ControlInv
<1>6. CASE \E c \in Conn : Serve(c)
  BY <1>6 DEF Serve, flagVars
<1>7. CASE UNCHANGED vars
  BY <1>7 DEF vars, flagVars
<1> QED
  BY <1>1, <1>2, <1>3, <1>4, <1>5, <1>6, <1>7 DEF Next, WriteStep

\* A reader leaves its connection only by closing the socket, whichever
\* connection that is by then.
LEMMA ReaderKept ==
    ASSUME ControlInv, AttemptInv, ReaderInv, fault = "none", Next
    PROVE  ReaderInv'
<1> USE StompAssumption DEF ControlInv, AttemptInv, ReaderInv, OpenIsRead, Conn
<1>1. CASE ConnectStep \/ Handshake
  <2>1. CASE ConnectSocket
    <3>1. UNCHANGED <<m_connected, wpc, rpc, left>> /\ ~m_connected /\ wpc # "send"
      BY <2>1 DEF ConnectSocket, readerVars
    <3>2. CASE nconn' = nconn
      BY <2>1, <3>1, <3>2 DEF ConnectSocket, AttemptEnds
    <3>3. CASE nconn' # nconn
      <4>1. /\ nconn' = nconn + 1 /\ nconn' \in Conn /\ sock' = nconn'
            /\ cpc' \in {"handshake", "send"}
        BY <2>1, <3>3 DEF ConnectSocket
      <4>2. nconn' \notin left
        BY <4>1
      <4> QED
        BY <3>1, <4>1, <4>2
    <3> QED
      BY <3>2, <3>3
  <2>2. CASE Handshake
    <3>1. /\ UNCHANGED <<m_connected, wpc, rpc, sock, nconn>> /\ ~m_connected /\ wpc # "send"
          /\ nconn \in Conn
      BY <2>2 DEF Handshake, readerVars
    <3>2. \/ cpc' = "send" /\ left' = left
          \/ cpc' = "done" /\ left' = left \cup {nconn}
      BY <2>2 DEF Handshake, AttemptEnds
    <3>3. nconn \notin left
      BY <2>2 DEF Handshake
    <3>4. CASE left' = left /\ cpc' = "send"
      BY <2>2, <3>1, <3>3, <3>4 DEF Handshake
    <3>5. CASE left' = left \cup {nconn} /\ cpc' = "done"
      BY <3>1, <3>5
    <3> QED
      BY <3>2, <3>4, <3>5
  <2>3. CASE SendConnect
    BY <2>3 DEF SendConnect, AttemptEnds, disconnect, readerVars
  <2>4. CASE StartReader
    <3>1. nconn \in Conn
      BY <2>4 DEF StartReader
    <3>2. rpc'[nconn] = "read" /\ \A c \in Conn : c # nconn => rpc'[c] = rpc[c]
      BY <2>4, <3>1 DEF StartReader
    <3> QED
      BY <2>4, <3>1, <3>2 DEF StartReader, flagVars
  <2>5. CASE ConnectLock \/ ConnectTimeout \/ ConnectFinish
    BY <2>5 DEF ConnectLock, ConnectTimeout, ConnectFinish, AttemptEnds, disconnect, flagVars,
                readerVars
  <2>6. CASE ConnectReply
    BY <2>6 DEF ConnectReply, AttemptEnds, disconnect, flagVars, readerVars
  <2> QED
    BY <1>1, <2>1, <2>2, <2>3, <2>4, <2>5, <2>6 DEF ConnectStep
<1>2. CASE WriteStep \/ Destroy
  <2>1. UNCHANGED <<rpc, nconn, left>> /\ (sock' = sock \/ sock' = 0)
    <3>1. CASE do_write \/ connect \/ JoinConnect \/ Destroy
      BY <3>1 DEF do_write, connect, JoinConnect, Destroy, readerVars
    <3>2. CASE Send \/ WriteLock \/ WriteTimeout \/ WriteReply
      BY <3>2 DEF Send, WriteLock, WriteTimeout, WriteReply, disconnect, readerVars
    <3> QED
      BY <1>2, <3>1, <3>2 DEF WriteStep
  <2>2. cpc' = cpc \/ (cpc \in {"none", "done"} /\ cpc' \in {"none", "connect"})
    BY <1>2 DEF WriteStep, do_write, connect, JoinConnect, Send, WriteLock, WriteTimeout, WriteReply,
                Destroy, AttemptInv
  <2>3. /\ m_connected' = m_connected \/ m_connected' = FALSE
        /\ wpc' = "send" => wpc = "send" \/ m_connected
    BY <1>2 DEF WriteStep, do_write, connect, JoinConnect, Send, WriteLock, WriteTimeout, WriteReply,
                Destroy, flagVars, disconnect
  <2>4. /\ sock' \in {0, nconn'}
        /\ left' \in SUBSET Conn /\ \A c \in left' : c <= nconn'
        /\ \A c \in Conn : c > nconn' => rpc'[c] = "none"
        /\ cpc' \in {"handshake", "send", "reader"} => nconn' > 0 /\ rpc'[nconn'] = "none"
    BY <2>1, <2>2 DEF ReaderInv
  <2>5. nconn' \in left' => ~m_connected' /\ wpc' # "send" /\ cpc' \in {"none", "connect", "done"}
    BY <2>1, <2>2, <2>3 DEF ReaderInv
  <2>6. OpenIsRead'
    BY <2>1, <2>2, <2>4, <2>5 DEF ReaderInv, OpenIsRead
  <2> QED
    BY <2>4, <2>5, <2>6 DEF ReaderInv
<1>3. CASE SpuriousWakeup
  BY <1>3 DEF SpuriousWakeup, Wakeup, flagVars, readerVars, ReaderInv, OpenIsRead
<1>4. ASSUME NEW r \in Conn, ReadStep(r) PROVE ReaderInv'
  <2>1. /\ nconn' = nconn /\ left' = left
        /\ cpc' = cpc \/ (cpc = "wait" /\ cpc' = "front")
        /\ sock' \in {0, sock}
        /\ m_connected' = m_connected \/ m_connected' = FALSE
        /\ wpc' = wpc \/ wpc' = "front"
    BY <1>4 DEF ReadStep, Read, ReadFails, AppendPart, HandleReply, HandleReplyFails, Disconnected,
                Notify, Wakeup, flagVars
  <2>2. rpc[r] # "none" /\ \E label : rpc' = [rpc EXCEPT ![r] = label]
    BY <1>4 DEF ReadStep, Read, ReadFails, AppendPart, HandleReply, HandleReplyFails, Disconnected,
                Notify, GotoR
  <2>3. \A c \in Conn : rpc[c] = "none" => rpc'[c] = "none"
    BY <2>2 DEF ControlInv
  <2>4. ASSUME sock' # 0, rpc[sock] \in {"read", "append", "handle", "notify", "drop"}
        PROVE  rpc'[sock] \in {"read", "append", "handle", "notify", "drop"}
    <3>1. CASE r = sock
      BY <1>4, <2>4, <3>1
         DEF ReadStep, Read, ReadFails, AppendPart, HandleReply, HandleReplyFails, Disconnected,
             Notify, GotoR, ControlInv
    <3>2. CASE r # sock
      BY <2>2, <2>4, <3>2 DEF ControlInv
    <3> QED
      BY <3>1, <3>2
  <2>5. OpenIsRead'
    BY <2>1, <2>4 DEF ReaderInv, OpenIsRead
  <2> QED
    BY <2>1, <2>3, <2>5, StompAssumption DEF ReaderInv, ControlInv, Conn
<1>5. CASE \E c \in Conn : Serve(c)
  BY <1>5 DEF Serve, flagVars, readerVars, ReaderInv, OpenIsRead
<1>6. CASE UNCHANGED vars
  BY <1>6 DEF vars, flagVars, readerVars, ReaderInv, OpenIsRead
<1> QED
  BY <1>1, <1>2, <1>3, <1>4, <1>5, <1>6 DEF Next

\* Nothing starts once the object is gone.
LEMMA DestroyKept ==
    ASSUME ControlInv, AttemptInv, DestroyInv, fault = "none", Next
    PROVE  DestroyInv'
<1>1. CASE wpc = "destroyed"
  <2>1. ~joinable /\ cpc = "none" /\ \A r \in Conn : rpc[r] \in {"none", "done"}
    BY <1>1 DEF DestroyInv, AttemptInv
  <2>2. ~ConnectStep /\ ~Handshake /\ ~WriteStep /\ ~Destroy /\ ~SpuriousWakeup /\ \A r \in Conn : ~ReadStep(r)
    BY <1>1, <2>1
       DEF ConnectStep, ConnectSocket, Handshake, SendConnect, StartReader, ConnectLock, ConnectTimeout,
           ConnectReply, ConnectFinish, WriteStep, do_write, connect, JoinConnect, Send, WriteLock,
           WriteTimeout, WriteReply, Destroy, SpuriousWakeup, Wakeup, ReadStep, Read, ReadFails,
           AppendPart, HandleReply, HandleReplyFails, Disconnected, Notify
  <2>3. UNCHANGED <<joinable, rpc>>
    BY <2>2 DEF Next, Serve, vars, flagVars, readerVars
  <2> QED
    BY <2>1, <2>3 DEF DestroyInv
<1>2. CASE wpc # "destroyed" /\ ~Destroy
  <2>1. wpc' # "destroyed"
    BY <1>2
       DEF Next, ConnectStep, ConnectSocket, Handshake, SendConnect, StartReader, ConnectLock, ConnectTimeout,
           ConnectReply, ConnectFinish, WriteStep, do_write, connect, JoinConnect, Send, WriteLock,
           WriteTimeout, WriteReply, SpuriousWakeup, Wakeup, ReadStep, Read, ReadFails,
           AppendPart, HandleReply, HandleReplyFails, Disconnected, Notify, Serve, vars
  <2> QED
    BY <2>1 DEF DestroyInv
<1>3. CASE Destroy
  BY <1>3 DEF Destroy, DestroyInv, flagVars, readerVars
<1> QED
  BY <1>1, <1>2, <1>3

\* Every step, also one after a fault, keeps the threads where they belong.
LEMMA ThreadsKept == IInv /\ ThreadsInv /\ [Next]_vars => ThreadsInv'
<1> SUFFICES ASSUME IInv, ThreadsInv, [Next]_vars PROVE ThreadsInv'
  OBVIOUS
<1>1. CASE UNCHANGED vars
  BY <1>1 DEF ThreadsInv, AttemptInv, ReaderInv, DestroyInv, JoinIsPrompt, OpenIsRead,
              vars, flagVars, readerVars
<1>2. CASE Next /\ ~UNCHANGED vars
  BY <1>2, AttemptKept, ReaderKept, DestroyKept DEF Next, IInv, ThreadsInv
<1> QED
  BY <1>1, <1>2

\* Who runs, and when, throughout.
LEMMA ThreadsInvariance == Spec => [](IInv /\ ThreadsInv)
  BY ThreadsInit, ThreadsKept, Invariance, PTL DEF Spec
-----------------------------------------------------------------------------
\* All variables keep their types.
THEOREM StompTypeCorrect == Spec => []TypeOK
<1>1. IInv /\ ThreadsInv => TypeOK
  <2> SUFFICES ASSUME IInv, ThreadsInv PROVE TypeOK
    OBVIOUS
  <2>1. GoodReply \subseteq Reply /\ GoodRequest \subseteq Request /\ GoodPiece \subseteq Piece
    BY DEF GoodReply, GoodRequest, GoodPiece, Piece
  <2>2. \A S, T : S \subseteq T => Seq(S) \subseteq Seq(T)
    BY SeqMonotonic
  <2>3. /\ Seq(GoodReply) \subseteq Seq(Reply) /\ Seq(GoodRequest) \subseteq Seq(Request)
        /\ Seq(GoodPiece) \subseteq Seq(Piece)
    BY <2>1, <2>2
  <2>4. /\ buf \in [Conn -> Seq(Piece)] /\ m_partial_reply \in Seq(Piece)
        /\ m_reply_queue \in Seq(Reply)
        /\ requests \in [Conn -> Seq(Request)] /\ replies \in [Conn -> Seq(Piece)]
    BY <2>3 DEF IInv, FlightInv
  <2> QED
    BY <2>4 DEF IInv, ControlInv, ConnectLabels, WriterInv, ThreadsInv, ReaderInv, TypeOK
<1> QED
  BY <1>1, ThreadsInvariance, PTL

\* A message that do_write reports as written has been processed by the
\* server, whatever is late, stale, cut in two or glued together.
THEOREM NothingAckedUnreceived == Spec => []AckedReceived
<1>1. IInv => AckedReceived
  BY DEF IInv
<1> QED
  BY <1>1, Invariance, PTL

\* m_connect_thread is never assigned while it still holds a thread, and only
\* a thread that has done its work is joined.
THEOREM AttemptsAreJoined == Spec => []AttemptsJoined
<1>1. IInv /\ ThreadsInv => AttemptsJoined
  BY DEF IInv, JoinInv, NeverOverwritten, ThreadsInv, AttemptInv, JoinIsPrompt, AttemptsJoined
<1> QED
  BY <1>1, ThreadsInvariance, PTL

\* The connect thread and the writer never wait for a reply at the same time.
THEOREM NobodyElseWaits == Spec => []OneWaits
<1>1. ThreadsInv => OneWaits
  BY DEF ThreadsInv, AttemptInv, OneWaits
<1> QED
  BY <1>1, ThreadsInvariance, PTL

\* An open connection is read by some thread, whatever the readers of earlier
\* connections do, and a socket that a failed handshake left open is not used.
THEOREM ConnectionHasReader == Spec => []OpenIsRead
<1>1. ThreadsInv => OpenIsRead
  BY DEF ThreadsInv, ReaderInv
<1> QED
  BY <1>1, ThreadsInvariance, PTL

\* A destructor that does no harm has found no attempt and no connection, but
\* perhaps a socket that a failed handshake left open.
THEOREM HarmlessIfIdle == Spec => []DestroyedIdle
<1>1. IInv /\ ThreadsInv => DestroyedIdle
  BY StompAssumption
     DEF IInv, ControlInv, ThreadsInv, AttemptInv, ReaderInv, DestroyInv, OpenIsRead, DestroyedIdle,
         Conn
<1> QED
  BY <1>1, ThreadsInvariance, PTL
=============================================================================
