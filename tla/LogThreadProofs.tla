--------------------------- MODULE LogThreadProofs ---------------------------
(***************************************************************************)
(* Safety of LogThread for every set of streams and threads and any number *)
(* of messages.                                                            *)
(***************************************************************************)
EXTENDS LogThread, TLAPS

\* Program points at which a stream is being served.
Serves == {"join", "enqueue", "write", "spawn", "first", "scanjoin"}

\* A message is in hand exactly inside log(), a stream exactly while served.
ControlInv ==
    /\ lpc \in InLog => local # <<>>
    /\ lpc \notin InLog \cup {"event", "crashed"} => local = <<>>
    /\ lpc \in Serves => cur \in Streams
    /\ lpc \notin Serves \cup {"crashed"} => cur = NoStream

\* Retry threads exist exactly where m_retry_map says so, but for the one
\* that is being started; the one being joined or fed is in the map.
MapInv ==
    /\ lpc # "crashed" => \A s \in Streams :
          rpc[s] # "none" <=> m_retry_map[s] = "thread" \/ (lpc = "first" /\ cur = s)
    /\ lpc \in {"write", "spawn", "first"} => m_retry_map[cur] # "thread"
    /\ lpc \in {"join", "enqueue", "scanjoin"} => m_retry_map[cur] = "thread"

\* A retry thread that writes or pops has a message in its queue; the one
\* popped has been settled; a queue found empty stays so until the join.
QueueInv ==
    /\ \A s \in Streams : rpc[s] = "none" => m_event_queue[s] = <<>>
    /\ \A s \in Streams : rpc[s] \in {"write", "pop"} => m_event_queue[s] # <<>>
    /\ \A s \in Streams :
          rpc[s] = "pop" => fate[s][Head(m_event_queue[s]).id] # "none"
    /\ lpc \in {"join", "scanjoin"} => m_event_queue[cur] = <<>>

\* The scan after a stop request has seen the queues it has passed empty,
\* and nobody but the logging thread itself can refill them.
ScanInv ==
    /\ lpc \in {"scan", "scanjoin"} /\ ~still_active
          => \A s \in Streams \ toscan : m_event_queue[s] = <<>>
    /\ lpc \in {"recheck", "done"} => \A s \in Streams : m_event_queue[s] = <<>>
    /\ lpc \in {"scan", "scanjoin", "recheck", "done"} => m_do_terminate
    /\ lpc = "done" => \A e \in 1..atTerm : ~In(m_events, e)
    /\ m_do_terminate <=> tpc # "running"
    /\ atTerm <= sent

\* A stream that was removed in a quiet moment is out of everybody's reach.
RemovalInv ==
    /\ ~overlap
          => \A s \in Streams : m_streams[s] \in {"deleted", "erased"}
                => rpc[s] \in {"none", "done"} /\ (lpc \in InLog => s \notin todo \cup {cur})
    /\ \A s \in Streams : m_streams[s] = "outside" => rpc[s] = "none" /\ s \notin todo \cup {cur}
    /\ CrashExplained

IInv ==
    /\ TypeOK /\ ControlInv /\ MapInv /\ QueueInv /\ ScanInv /\ RemovalInv
    /\ NoMessageLost /\ TerminateDrains
-----------------------------------------------------------------------------
\* What erasing one element of the queue leaves: every other element.
LEMMA RemoveAtKeeps ==
    ASSUME NEW S, NEW q \in Seq(S), NEW i \in DOMAIN q
    PROVE  /\ RemoveAt(q, i) \in Seq(S)
           /\ \A j \in DOMAIN q : j # i => \E k \in DOMAIN RemoveAt(q, i) : RemoveAt(q, i)[k] = q[j]
<1>1. RemoveAt(q, i) = SubSeq(q, 1, i - 1) \o SubSeq(q, i + 1, Len(q))
  BY DEF RemoveAt
<1>2. SubSeq(q, 1, i - 1) \in Seq(S) /\ SubSeq(q, i + 1, Len(q)) \in Seq(S)
  OBVIOUS
<1>3. Len(SubSeq(q, 1, i - 1)) = i - 1 /\ Len(SubSeq(q, i + 1, Len(q))) = Len(q) - i
  OBVIOUS
<1>4. ASSUME NEW j \in DOMAIN q, j # i
      PROVE  \E k \in DOMAIN RemoveAt(q, i) : RemoveAt(q, i)[k] = q[j]
  <2>1. CASE j < i
    <3>1. j \in DOMAIN RemoveAt(q, i) /\ RemoveAt(q, i)[j] = q[j]
      BY <1>1, <1>2, <1>3, <2>1
    <3> QED  BY <3>1
  <2>2. CASE j > i
    <3> DEFINE a == SubSeq(q, 1, i - 1)
               b == SubSeq(q, i + 1, Len(q))
               k == j - i
    <3>2. k \in 1..(Len(q) - i)
      BY <2>2
    <3>3. b[k] = q[(i + 1) + k - 1]
      BY <3>2
    <3>4. (i + 1) + k - 1 = j
      BY <2>2
    <3>5. b[k] = q[j]
      BY <3>3, <3>4
    <3>6. a \in Seq(S) /\ b \in Seq(S) /\ Len(a) = i - 1 /\ Len(b) = Len(q) - i
      BY <1>2, <1>3
    <3>7. RemoveAt(q, i) = a \o b
      BY <1>1
    <3> HIDE DEF a, b
    <3>8. Len(a \o b) = Len(q) - 1 /\ (a \o b)[Len(a) + k] = b[k]
      BY <3>2, <3>6
    <3>9. Len(a) + k = j - 1
      BY <3>6, <2>2
    <3>1. j - 1 \in DOMAIN RemoveAt(q, i) /\ RemoveAt(q, i)[j - 1] = q[j]
      <4>1. j - 1 \in 1..(Len(q) - 1)
        BY <2>2
      <4>2. a \o b \in Seq(S)
        BY <3>6
      <4> HIDE DEF k
      <4> QED  BY <3>5, <3>7, <3>8, <3>9, <4>1, <4>2
    <3> QED  BY <3>1
  <2> QED  BY <1>4, <2>1, <2>2
<1>5. RemoveAt(q, i) \in Seq(S)
  BY <1>1, <1>2
<1> HIDE DEF RemoveAt
<1> QED  BY <1>4, <1>5
-----------------------------------------------------------------------------
\* The initial states satisfy the inductive invariant.
LEMMA InitIInv == Init => IInv
<1> SUFFICES ASSUME Init PROVE IInv
  OBVIOUS
<1> USE DEF Init
<1>1. TypeOK
  <2>1. <<>> \in Seq(log_event)
    OBVIOUS
  <2>2. fate \in [Streams -> [Id -> Fate]]
    BY DEF Fate
  <2>3. 0 \in LogLevel /\ 0 \in 0..MaxEvents
    BY ConstantsAssumption DEF LogLevel
  <2> QED  BY <2>1, <2>2, <2>3 DEF TypeOK, Lpc, Rpc, Tpc, Life
<1>2. ControlInv
  BY DEF ControlInv, InLog, Serves
<1>3. MapInv
  BY DEF MapInv
<1>4. QueueInv
  BY DEF QueueInv
<1>5. ScanInv
  BY DEF ScanInv
<1>8. RemovalInv
  BY ConstantsAssumption DEF RemovalInv, CrashExplained
<1>6. NoMessageLost
  BY DEF NoMessageLost, Present
<1>7. TerminateDrains
  BY DEF TerminateDrains, Present
<1> QED  BY <1>1, <1>2, <1>3, <1>4, <1>5, <1>6, <1>7, <1>8 DEF IInv

\* What Settle and Reach do to the types of the history variables.
LEMMA SinkTypes ==
    ASSUME TypeOK, NEW s \in Streams, NEW e \in log_event
    PROVE  /\ \A f \in Fate : Settle(s, e, f) => fate' \in [Streams -> [Id -> Fate]]
           /\ Reach(s, e) => last' \in [Streams -> 0..MaxEvents]
<1>1. e.id \in Id
  BY DEF log_event
<1>2. ASSUME NEW f \in Fate, Settle(s, e, f) PROVE fate' \in [Streams -> [Id -> Fate]]
  BY <1>1, <1>2 DEF TypeOK, Settle
<1>3. ASSUME Reach(s, e) PROVE last' \in [Streams -> 0..MaxEvents]
  BY <1>1, <1>3, ConstantsAssumption DEF TypeOK, Reach, Id
<1> QED  BY <1>2, <1>3

\* The message in hand and the message a retry thread works on.
LEMMA HeadTypes ==
    ASSUME IInv
    PROVE  /\ lpc \in InLog => local \in Seq(log_event) /\ Head(local) \in log_event
           /\ \A s \in Streams : m_event_queue[s] \in Seq(log_event)
           /\ \A s \in Streams : rpc[s] \in {"write", "pop"} => Head(m_event_queue[s]) \in log_event
<1>1. \A s \in Streams : m_event_queue[s] \in Seq(log_event)
  BY DEF IInv, TypeOK
<1>2. ASSUME NEW s \in Streams, rpc[s] \in {"write", "pop"} PROVE Head(m_event_queue[s]) \in log_event
  BY <1>1, <1>2 DEF IInv, QueueInv
<1> QED  BY <1>1, <1>2 DEF IInv, TypeOK, ControlInv

\* A write keeps the types of the history variables.
LEMMA WriteTypes ==
    ASSUME TypeOK, NEW s \in Streams, NEW e \in log_event, WriteTrue(s, e) \/ WriteFalse(s, e)
    PROVE  fate' \in [Streams -> [Id -> Fate]] /\ last' \in [Streams -> 0..MaxEvents]
<1>1. "delivered" \in Fate /\ "filtered" \in Fate
  BY DEF Fate
<1>2. fate \in [Streams -> [Id -> Fate]] /\ last \in [Streams -> 0..MaxEvents]
  BY DEF TypeOK
<1> QED  BY <1>1, <1>2, SinkTypes DEF WriteTrue, WriteFalse

\* Every step keeps the types.
LEMMA TypeStep == IInv /\ [Next]_vars => TypeOK'
<1> SUFFICES ASSUME IInv, [Next]_vars PROVE TypeOK'
  OBVIOUS
<1> USE DEF IInv, vars, logVars, retryVars, mapVars, appVars, sinkVars
<1>1. ASSUME NEW t \in AppThreads, NEW l \in UsedLevels, Enqueue(t, l) PROVE TypeOK'
  <2>1. [id |-> sent + 1, level |-> l] \in log_event
    BY <1>1, ConstantsAssumption DEF Enqueue, TypeOK, log_event, Id, LogLevel
  <2> QED  BY <1>1, <2>1, ConstantsAssumption DEF Enqueue, TypeOK
<1>2. ASSUME NEW t \in AppThreads, EnqueueNotify(t) PROVE TypeOK'
  BY <1>2, ConstantsAssumption DEF EnqueueNotify, Wake, TypeOK, ControlInv, QueueInv, Lpc, Rpc, Tpc, InLog, Serves
<1>3. CASE Terminate
  BY <1>3, ConstantsAssumption DEF Terminate, TypeOK, ControlInv, QueueInv, Lpc, Rpc, Tpc, InLog, Serves
<1>4. CASE TerminateNotify
  BY <1>4, ConstantsAssumption DEF TerminateNotify, Wake, TypeOK, ControlInv, QueueInv, Lpc, Rpc, Tpc, InLog, Serves
<1>5. CASE TerminateJoined
  BY <1>5, ConstantsAssumption DEF TerminateJoined, TypeOK, ControlInv, QueueInv, Lpc, Rpc, Tpc, InLog, Serves
<1>6. ASSUME NEW s \in Streams, NEW l \in MinLevels, set_min_log_level(s, l) PROVE TypeOK'
  <2>1. l \in LogLevel
    BY ConstantsAssumption DEF LogLevel
  <2> QED  BY <1>6, <2>1 DEF set_min_log_level, TypeOK
<1>7. CASE Swap
  BY <1>7, ConstantsAssumption DEF Swap, TypeOK, ControlInv, QueueInv, Lpc, Rpc, Tpc, InLog, Serves
<1>8. CASE NextEvent
  BY <1>8, ConstantsAssumption DEF NextEvent, InMap, Present, TypeOK, ControlInv, QueueInv, Lpc, Rpc, Tpc, InLog, Serves
<1>9. CASE EventDone
  BY <1>9, ConstantsAssumption DEF EventDone, TypeOK, ControlInv, QueueInv, Lpc, Rpc, Tpc, InLog, Serves
<1>10. ASSUME NEW s \in Streams, Lookup(s) PROVE TypeOK'
  BY <1>10, ConstantsAssumption DEF Lookup, TypeOK, ControlInv, QueueInv, Lpc, Rpc, Tpc, InLog, Serves
<1>11. CASE Join
  BY <1>11, ConstantsAssumption DEF Join, TypeOK, ControlInv, QueueInv, Lpc, Rpc, Tpc, InLog, Serves
<1>12. CASE RetryEnqueue
  BY <1>12, ConstantsAssumption DEF RetryEnqueue, TypeOK, ControlInv, QueueInv, Lpc, Rpc, Tpc, InLog, Serves
<1>13. CASE LogWriteTrue
  <2>1. cur \in Streams /\ Head(local) \in log_event
    BY <1>13, HeadTypes DEF LogWriteTrue, ControlInv, InLog, Serves
  <2>2. fate' \in [Streams -> [Id -> Fate]] /\ last' \in [Streams -> 0..MaxEvents]
    BY <1>13, <2>1, WriteTypes DEF LogWriteTrue
  <2> QED  BY <1>13, <2>2 DEF LogWriteTrue, TypeOK, Lpc
<1>14. CASE LogWriteFalse
  <2>1. cur \in Streams /\ Head(local) \in log_event
    BY <1>14, HeadTypes DEF LogWriteFalse, ControlInv, InLog, Serves
  <2>2. fate' \in [Streams -> [Id -> Fate]] /\ last' \in [Streams -> 0..MaxEvents]
    BY <1>14, <2>1, WriteTypes DEF LogWriteFalse
  <2> QED  BY <1>14, <2>2 DEF LogWriteFalse, TypeOK, Lpc
<1>15. CASE Spawn
  BY <1>15, ConstantsAssumption DEF Spawn, TypeOK, ControlInv, QueueInv, Lpc, Rpc, Tpc, InLog, Serves
<1>16. CASE SpawnFails
  <2>1. cur \in Streams /\ Head(local) \in log_event /\ "dropped" \in Fate
    BY <1>16, HeadTypes DEF SpawnFails, ControlInv, InLog, Serves, Fate
  <2>2. fate' \in [Streams -> [Id -> Fate]]
    BY <1>16, <2>1, SinkTypes DEF SpawnFails
  <2> QED  BY <1>16, <2>2 DEF SpawnFails, TypeOK, Lpc
<1>17. CASE FirstEnqueue
  BY <1>17, ConstantsAssumption DEF FirstEnqueue, TypeOK, ControlInv, QueueInv, Lpc, Rpc, Tpc, InLog, Serves
<1>18. CASE Check
  BY <1>18, ConstantsAssumption DEF Check, TypeOK, ControlInv, QueueInv, Lpc, Rpc, Tpc, InLog, Serves
<1>19. CASE SpuriousWake
  BY <1>19, ConstantsAssumption DEF SpuriousWake, TypeOK, ControlInv, QueueInv, Lpc, Rpc, Tpc, InLog, Serves
<1>20. ASSUME NEW s \in Streams, Scan(s) PROVE TypeOK'
  BY <1>20, ConstantsAssumption DEF Scan, TypeOK, ControlInv, QueueInv, Lpc, Rpc, Tpc, InLog, Serves
<1>21. CASE ScanJoin
  BY <1>21, ConstantsAssumption DEF ScanJoin, TypeOK, ControlInv, QueueInv, Lpc, Rpc, Tpc, InLog, Serves
<1>22. CASE ScanDone
  BY <1>22, ConstantsAssumption DEF ScanDone, TypeOK, ControlInv, QueueInv, Lpc, Rpc, Tpc, InLog, Serves
<1>23. CASE Recheck
  BY <1>23, ConstantsAssumption DEF Recheck, TypeOK, ControlInv, QueueInv, Lpc, Rpc, Tpc, InLog, Serves
<1>24. ASSUME NEW s \in Streams, RetryTry(s) PROVE TypeOK'
  BY <1>24, ConstantsAssumption DEF RetryTry, Goto, TypeOK, ControlInv, QueueInv, Lpc, Rpc, Tpc, InLog, Serves
<1>25. ASSUME NEW s \in Streams, RetryWriteTrue(s) PROVE TypeOK'
  <2>1. Head(m_event_queue[s]) \in log_event
    BY <1>25, HeadTypes DEF RetryWriteTrue
  <2>2. fate' \in [Streams -> [Id -> Fate]] /\ last' \in [Streams -> 0..MaxEvents]
    BY <1>25, <2>1, WriteTypes DEF RetryWriteTrue
  <2> QED  BY <1>25, <2>2 DEF RetryWriteTrue, Goto, TypeOK, Rpc
<1>26. ASSUME NEW s \in Streams, RetryWriteFalse(s) PROVE TypeOK'
  <2>1. Head(m_event_queue[s]) \in log_event
    BY <1>26, HeadTypes DEF RetryWriteFalse
  <2>2. fate' \in [Streams -> [Id -> Fate]] /\ last' \in [Streams -> 0..MaxEvents]
    BY <1>26, <2>1, WriteTypes DEF RetryWriteFalse
  <2> QED  BY <1>26, <2>2 DEF RetryWriteFalse, Goto, TypeOK, Rpc
<1>27. ASSUME NEW s \in Streams, RetryPop(s) PROVE TypeOK'
  BY <1>27, ConstantsAssumption DEF RetryPop, Goto, TypeOK, ControlInv, QueueInv, Lpc, Rpc, Tpc, InLog, Serves
<1>28. ASSUME NEW s \in Streams, RetryExpire(s) PROVE TypeOK'
  <2>1. m_event_queue[s] \in Seq(log_event) /\ "expired" \in Fate
    BY DEF TypeOK, Fate
  <2>2. PICK i \in DOMAIN m_event_queue[s] :
          /\ m_event_queue' = [m_event_queue EXCEPT ![s] = RemoveAt(@, i)]
          /\ Settle(s, m_event_queue[s][i], "expired")
    BY <1>28 DEF RetryExpire
  <2>3. RemoveAt(m_event_queue[s], i) \in Seq(log_event)
    BY <2>1, RemoveAtKeeps
  <2>4. m_event_queue[s][i] \in log_event
    BY <2>1
  <2>5. fate' \in [Streams -> [Id -> Fate]]
    BY <2>1, <2>2, <2>4, SinkTypes
  <2>6. m_event_queue' \in [Streams -> Seq(log_event)]
    BY <2>2, <2>3 DEF TypeOK
  <2> QED  BY <1>28, <2>5, <2>6 DEF RetryExpire, Locked, Goto, TypeOK, Rpc
<1>29. ASSUME NEW s \in Streams, RetryExpireDone(s) PROVE TypeOK'
  BY <1>29, ConstantsAssumption DEF RetryExpireDone, Locked, Goto, TypeOK, ControlInv, QueueInv, Lpc, Rpc, Tpc, InLog, Serves
<1>30. ASSUME NEW s \in Streams, RetryCheck(s) PROVE TypeOK'
  BY <1>30, ConstantsAssumption DEF RetryCheck, Goto, TypeOK, ControlInv, QueueInv, Lpc, Rpc, Tpc, InLog, Serves
<1>37. ASSUME NEW s \in Streams, RetryStop(s) PROVE TypeOK'
  BY <1>37, ConstantsAssumption DEF RetryStop, Goto, TypeOK, ControlInv, QueueInv, Lpc, Rpc, Tpc, InLog, Serves
<1>31. CASE UNCHANGED vars
  BY <1>31, ConstantsAssumption DEF TypeOK, ControlInv, QueueInv, Lpc, Rpc, Tpc, InLog, Serves
<1>32. ASSUME NEW s \in Streams, add_output_stream(s) PROVE TypeOK'
  BY <1>32, ConstantsAssumption DEF add_output_stream, TypeOK, Lpc, Life, InMap, Present, LogLevel, Fate
<1>33. ASSUME NEW s \in Streams, DeleteStream(s) PROVE TypeOK'
  BY <1>33, ConstantsAssumption DEF DeleteStream, InUse, TypeOK, Lpc, Life, InMap, Present, LogLevel, Fate
<1>34. ASSUME NEW s \in Streams, EraseStream(s) PROVE TypeOK'
  BY <1>34, ConstantsAssumption DEF EraseStream, TypeOK, Lpc, Life, InMap, Present, LogLevel, Fate
<1>35. CASE LogFault
  BY <1>35, ConstantsAssumption DEF LogFault, TypeOK, Lpc, Life, InMap, Present, LogLevel, Fate
<1>36. ASSUME NEW s \in Streams, RetryFault(s) PROVE TypeOK'
  BY <1>36, ConstantsAssumption DEF RetryFault, TypeOK, Lpc, Life, InMap, Present, LogLevel, Fate
<1> QED
  BY <1>1, <1>2, <1>3, <1>4, <1>5, <1>6, <1>7, <1>8, <1>9, <1>10, <1>11, <1>12, <1>13, <1>14,
     <1>15, <1>16, <1>17, <1>18, <1>19, <1>20, <1>21, <1>22, <1>23, <1>24, <1>25, <1>26, <1>27,
     <1>28, <1>29, <1>30, <1>31, <1>32, <1>33, <1>34, <1>35, <1>36, <1>37 DEF Next, App, LogStep, RetryStep, Ended

\* Every step keeps the message and the stream in hand where they belong.
LEMMA ControlStep == IInv /\ [Next]_vars => ControlInv'
<1> SUFFICES ASSUME IInv, [Next]_vars PROVE ControlInv'
  OBVIOUS
<1> USE DEF IInv, vars, logVars, retryVars, mapVars, appVars, sinkVars
<1>1. ASSUME NEW t \in AppThreads, NEW l \in UsedLevels, Enqueue(t, l) PROVE ControlInv'
  BY <1>1, ConstantsAssumption DEF Enqueue, TypeOK, ControlInv, InLog, Serves
<1>2. ASSUME NEW t \in AppThreads, EnqueueNotify(t) PROVE ControlInv'
  BY <1>2, ConstantsAssumption DEF EnqueueNotify, Wake, TypeOK, ControlInv, InLog, Serves
<1>3. CASE Terminate
  BY <1>3, ConstantsAssumption DEF Terminate, TypeOK, ControlInv, InLog, Serves
<1>4. CASE TerminateNotify
  BY <1>4, ConstantsAssumption DEF TerminateNotify, Wake, TypeOK, ControlInv, InLog, Serves
<1>5. CASE TerminateJoined
  BY <1>5, ConstantsAssumption DEF TerminateJoined, TypeOK, ControlInv, InLog, Serves
<1>6. ASSUME NEW s \in Streams, NEW l \in MinLevels, set_min_log_level(s, l) PROVE ControlInv'
  BY <1>6, ConstantsAssumption DEF set_min_log_level, TypeOK, ControlInv, InLog, Serves
<1>7. CASE Swap
  BY <1>7, ConstantsAssumption DEF Swap, TypeOK, ControlInv, InLog, Serves
<1>8. CASE NextEvent
  BY <1>8, ConstantsAssumption DEF NextEvent, InMap, Present, TypeOK, ControlInv, InLog, Serves
<1>9. CASE EventDone
  BY <1>9, ConstantsAssumption DEF EventDone, TypeOK, ControlInv, InLog, Serves
<1>10. ASSUME NEW s \in Streams, Lookup(s) PROVE ControlInv'
  BY <1>10, ConstantsAssumption DEF Lookup, TypeOK, ControlInv, InLog, Serves
<1>11. CASE Join
  BY <1>11, ConstantsAssumption DEF Join, TypeOK, ControlInv, InLog, Serves
<1>12. CASE RetryEnqueue
  BY <1>12, ConstantsAssumption DEF RetryEnqueue, TypeOK, ControlInv, InLog, Serves
<1>13. CASE LogWriteTrue
  BY <1>13, ConstantsAssumption DEF LogWriteTrue, WriteTrue, Settle, Reach, TypeOK, ControlInv, InLog, Serves
<1>14. CASE LogWriteFalse
  BY <1>14, ConstantsAssumption DEF LogWriteFalse, WriteFalse, Reach, TypeOK, ControlInv, InLog, Serves
<1>15. CASE Spawn
  BY <1>15, ConstantsAssumption DEF Spawn, TypeOK, ControlInv, InLog, Serves
<1>16. CASE SpawnFails
  BY <1>16, ConstantsAssumption DEF SpawnFails, Settle, TypeOK, ControlInv, InLog, Serves
<1>17. CASE FirstEnqueue
  BY <1>17, ConstantsAssumption DEF FirstEnqueue, TypeOK, ControlInv, InLog, Serves
<1>18. CASE Check
  BY <1>18, ConstantsAssumption DEF Check, TypeOK, ControlInv, InLog, Serves
<1>19. CASE SpuriousWake
  BY <1>19, ConstantsAssumption DEF SpuriousWake, TypeOK, ControlInv, InLog, Serves
<1>20. ASSUME NEW s \in Streams, Scan(s) PROVE ControlInv'
  BY <1>20, ConstantsAssumption DEF Scan, TypeOK, ControlInv, InLog, Serves
<1>21. CASE ScanJoin
  BY <1>21, ConstantsAssumption DEF ScanJoin, TypeOK, ControlInv, InLog, Serves
<1>22. CASE ScanDone
  BY <1>22, ConstantsAssumption DEF ScanDone, TypeOK, ControlInv, InLog, Serves
<1>23. CASE Recheck
  BY <1>23, ConstantsAssumption DEF Recheck, TypeOK, ControlInv, InLog, Serves
<1>24. ASSUME NEW s \in Streams, RetryTry(s) PROVE ControlInv'
  BY <1>24, ConstantsAssumption DEF RetryTry, Goto, TypeOK, ControlInv, InLog, Serves
<1>25. ASSUME NEW s \in Streams, RetryWriteTrue(s) PROVE ControlInv'
  BY <1>25, ConstantsAssumption DEF RetryWriteTrue, WriteTrue, Settle, Reach, Goto, TypeOK, ControlInv, InLog, Serves
<1>26. ASSUME NEW s \in Streams, RetryWriteFalse(s) PROVE ControlInv'
  BY <1>26, ConstantsAssumption DEF RetryWriteFalse, WriteFalse, Reach, Goto, TypeOK, ControlInv, InLog, Serves
<1>27. ASSUME NEW s \in Streams, RetryPop(s) PROVE ControlInv'
  BY <1>27, ConstantsAssumption DEF RetryPop, Goto, TypeOK, ControlInv, InLog, Serves
<1>28. ASSUME NEW s \in Streams, RetryExpire(s) PROVE ControlInv'
  BY <1>28, ConstantsAssumption DEF RetryExpire, Locked, Goto, Settle, TypeOK, ControlInv, InLog, Serves
<1>29. ASSUME NEW s \in Streams, RetryExpireDone(s) PROVE ControlInv'
  BY <1>29, ConstantsAssumption DEF RetryExpireDone, Locked, Goto, TypeOK, ControlInv, InLog, Serves
<1>30. ASSUME NEW s \in Streams, RetryCheck(s) PROVE ControlInv'
  BY <1>30, ConstantsAssumption DEF RetryCheck, Goto, TypeOK, ControlInv, InLog, Serves
<1>37. ASSUME NEW s \in Streams, RetryStop(s) PROVE ControlInv'
  BY <1>37, ConstantsAssumption DEF RetryStop, Goto, TypeOK, ControlInv, InLog, Serves
<1>31. CASE UNCHANGED vars
  BY <1>31, ConstantsAssumption DEF TypeOK, ControlInv, InLog, Serves
<1>32. ASSUME NEW s \in Streams, add_output_stream(s) PROVE ControlInv'
  BY <1>32, ConstantsAssumption DEF add_output_stream, TypeOK, ControlInv, InLog, Serves
<1>33. ASSUME NEW s \in Streams, DeleteStream(s) PROVE ControlInv'
  BY <1>33, ConstantsAssumption DEF DeleteStream, InUse, TypeOK, ControlInv, InLog, Serves
<1>34. ASSUME NEW s \in Streams, EraseStream(s) PROVE ControlInv'
  BY <1>34, ConstantsAssumption DEF EraseStream, TypeOK, ControlInv, InLog, Serves
<1>35. CASE LogFault
  BY <1>35, ConstantsAssumption DEF LogFault, TypeOK, ControlInv, InLog, Serves
<1>36. ASSUME NEW s \in Streams, RetryFault(s) PROVE ControlInv'
  BY <1>36, ConstantsAssumption DEF RetryFault, TypeOK, ControlInv, InLog, Serves
<1> QED
  BY <1>1, <1>2, <1>3, <1>4, <1>5, <1>6, <1>7, <1>8, <1>9, <1>10, <1>11, <1>12, <1>13, <1>14,
     <1>15, <1>16, <1>17, <1>18, <1>19, <1>20, <1>21, <1>22, <1>23, <1>24, <1>25, <1>26, <1>27,
     <1>28, <1>29, <1>30, <1>31, <1>32, <1>33, <1>34, <1>35, <1>36, <1>37 DEF Next, App, LogStep, RetryStep, Ended

\* Settling a message settles just that message, for good.
LEMMA SettleSettles ==
    ASSUME TypeOK, NEW s \in Streams, NEW e \in log_event, NEW f \in Fate, f # "none", Settle(s, e, f)
    PROVE  \A r \in Streams, d \in Id :
              fate'[r][d] = "none" <=> fate[r][d] = "none" /\ ~(r = s /\ d = e.id)
  BY DEF TypeOK, Settle, log_event

\* A write that returns true settles its message, and no other.
LEMMA WriteSettles ==
    ASSUME TypeOK, NEW s \in Streams, NEW e \in log_event, WriteTrue(s, e)
    PROVE  \A r \in Streams, d \in Id :
              fate'[r][d] = "none" <=> fate[r][d] = "none" /\ ~(r = s /\ d = e.id)
<1>1. "delivered" \in Fate /\ "filtered" \in Fate
  BY DEF Fate
<1> QED  BY <1>1, SettleSettles DEF WriteTrue

\* Where a message is found after the queue operations of the code.
LEMMA InFacts ==
    ASSUME NEW q \in Seq(log_event), NEW e
    PROVE  /\ ~In(<<>>, e)
           /\ \A x \in log_event : In(q, e) \/ x.id = e => In(Append(q, x), e)
           /\ \A x \in log_event : In(Append(q, x), e) => In(q, e) \/ x.id = e
           /\ In(q, e) => q # <<>> /\ (In(Tail(q), e) \/ Head(q).id = e)
           /\ \A i \in DOMAIN q : In(q, e) /\ q[i].id # e => In(RemoveAt(q, i), e)
<1>1. ~In(<<>>, e)
  BY DEF In
<1>2. ASSUME NEW x \in log_event, In(q, e) \/ x.id = e PROVE In(Append(q, x), e)
  <2>1. DOMAIN Append(q, x) = 1..(Len(q) + 1) /\ Append(q, x)[Len(q) + 1] = x
    OBVIOUS
  <2>2. \A i \in DOMAIN q : i \in DOMAIN Append(q, x) /\ Append(q, x)[i] = q[i]
    OBVIOUS
  <2> QED  BY <1>2, <2>1, <2>2 DEF In
<1>3. ASSUME In(q, e) PROVE q # <<>> /\ (In(Tail(q), e) \/ Head(q).id = e)
  <2>1. PICK i \in DOMAIN q : q[i].id = e
    BY <1>3 DEF In
  <2>2. CASE i = 1
    BY <2>1, <2>2
  <2>3. CASE i # 1
    <3>1. i - 1 \in DOMAIN Tail(q) /\ Tail(q)[i - 1] = q[i]
      BY <2>3
    <3> QED  BY <2>1, <3>1 DEF In
  <2> QED  BY <2>2, <2>3
<1>4. ASSUME NEW i \in DOMAIN q, In(q, e), q[i].id # e PROVE In(RemoveAt(q, i), e)
  <2>1. PICK j \in DOMAIN q : q[j].id = e
    BY <1>4 DEF In
  <2>2. PICK k \in DOMAIN RemoveAt(q, i) : RemoveAt(q, i)[k] = q[j]
    BY <1>4, <2>1, RemoveAtKeeps
  <2> QED  BY <2>1, <2>2 DEF In
<1>5. ASSUME NEW x \in log_event, In(Append(q, x), e) PROVE In(q, e) \/ x.id = e
  <2>1. PICK i \in DOMAIN Append(q, x) : Append(q, x)[i].id = e
    BY <1>5 DEF In
  <2>2. (i \in DOMAIN q /\ Append(q, x)[i] = q[i]) \/ Append(q, x)[i] = x
    BY <2>1
  <2> QED  BY <2>1, <2>2 DEF In
<1> QED  BY <1>1, <1>2, <1>3, <1>4, <1>5

\* A stream that is added leaves every settled message settled.
LEMMA AddSettles ==
    ASSUME TypeOK, NEW s \in Streams, add_output_stream(s)
    PROVE  \A r \in Streams, d \in Id : fate'[r][d] = "none" => fate[r][d] = "none"
  BY DEF TypeOK, add_output_stream

\* Every step keeps m_retry_map in accordance with the retry threads.
LEMMA MapStep == IInv /\ [Next]_vars => MapInv'
<1> SUFFICES ASSUME IInv, [Next]_vars PROVE MapInv'
  OBVIOUS
<1> USE DEF IInv, vars, logVars, retryVars, mapVars, appVars, sinkVars
<1>1. ASSUME NEW t \in AppThreads, NEW l \in UsedLevels, Enqueue(t, l) PROVE MapInv'
  BY <1>1, ConstantsAssumption DEF Enqueue, TypeOK, ControlInv, InLog, Serves, MapInv
<1>2. ASSUME NEW t \in AppThreads, EnqueueNotify(t) PROVE MapInv'
  BY <1>2, ConstantsAssumption DEF EnqueueNotify, Wake, TypeOK, ControlInv, InLog, Serves, MapInv
<1>3. CASE Terminate
  BY <1>3, ConstantsAssumption DEF Terminate, TypeOK, ControlInv, InLog, Serves, MapInv
<1>4. CASE TerminateNotify
  BY <1>4, ConstantsAssumption DEF TerminateNotify, Wake, TypeOK, ControlInv, InLog, Serves, MapInv
<1>5. CASE TerminateJoined
  BY <1>5, ConstantsAssumption DEF TerminateJoined, TypeOK, ControlInv, InLog, Serves, MapInv
<1>6. ASSUME NEW s \in Streams, NEW l \in MinLevels, set_min_log_level(s, l) PROVE MapInv'
  BY <1>6, ConstantsAssumption DEF set_min_log_level, TypeOK, ControlInv, InLog, Serves, MapInv
<1>7. CASE Swap
  BY <1>7, ConstantsAssumption DEF Swap, TypeOK, ControlInv, InLog, Serves, MapInv
<1>8. CASE NextEvent
  BY <1>8, ConstantsAssumption DEF NextEvent, InMap, Present, TypeOK, ControlInv, InLog, Serves, MapInv
<1>9. CASE EventDone
  BY <1>9, ConstantsAssumption DEF EventDone, TypeOK, ControlInv, InLog, Serves, MapInv
<1>10. ASSUME NEW s \in Streams, Lookup(s) PROVE MapInv'
  BY <1>10, ConstantsAssumption DEF Lookup, TypeOK, ControlInv, InLog, Serves, MapInv, Locked
<1>11. CASE Join
  BY <1>11, ConstantsAssumption DEF Join, TypeOK, ControlInv, InLog, Serves, MapInv
<1>12. CASE RetryEnqueue
  BY <1>12, ConstantsAssumption DEF RetryEnqueue, TypeOK, ControlInv, InLog, Serves, MapInv
<1>13. CASE LogWriteTrue
  BY <1>13, ConstantsAssumption DEF LogWriteTrue, WriteTrue, Settle, Reach, TypeOK, ControlInv, InLog, Serves, MapInv
<1>14. CASE LogWriteFalse
  BY <1>14, ConstantsAssumption DEF LogWriteFalse, WriteFalse, Reach, TypeOK, ControlInv, InLog, Serves, MapInv
<1>15. CASE Spawn
  BY <1>15, ConstantsAssumption DEF Spawn, TypeOK, ControlInv, InLog, Serves, MapInv
<1>16. CASE SpawnFails
  BY <1>16, ConstantsAssumption DEF SpawnFails, Settle, TypeOK, ControlInv, InLog, Serves, MapInv
<1>17. CASE FirstEnqueue
  BY <1>17, ConstantsAssumption DEF FirstEnqueue, TypeOK, ControlInv, InLog, Serves, MapInv
<1>18. CASE Check
  BY <1>18, ConstantsAssumption DEF Check, TypeOK, ControlInv, InLog, Serves, MapInv
<1>19. CASE SpuriousWake
  BY <1>19, ConstantsAssumption DEF SpuriousWake, TypeOK, ControlInv, InLog, Serves, MapInv
<1>20. ASSUME NEW s \in Streams, Scan(s) PROVE MapInv'
  BY <1>20, ConstantsAssumption DEF Scan, TypeOK, ControlInv, InLog, Serves, MapInv, Locked
<1>21. CASE ScanJoin
  BY <1>21, ConstantsAssumption DEF ScanJoin, TypeOK, ControlInv, InLog, Serves, MapInv
<1>22. CASE ScanDone
  BY <1>22, ConstantsAssumption DEF ScanDone, TypeOK, ControlInv, InLog, Serves, MapInv
<1>23. CASE Recheck
  BY <1>23, ConstantsAssumption DEF Recheck, TypeOK, ControlInv, InLog, Serves, MapInv
<1>24. ASSUME NEW s \in Streams, RetryTry(s) PROVE MapInv'
  BY <1>24, ConstantsAssumption DEF RetryTry, Goto, TypeOK, ControlInv, InLog, Serves, MapInv
<1>25. ASSUME NEW s \in Streams, RetryWriteTrue(s) PROVE MapInv'
  BY <1>25, ConstantsAssumption DEF RetryWriteTrue, WriteTrue, Settle, Reach, Goto, TypeOK, ControlInv, InLog, Serves, MapInv
<1>26. ASSUME NEW s \in Streams, RetryWriteFalse(s) PROVE MapInv'
  BY <1>26, ConstantsAssumption DEF RetryWriteFalse, WriteFalse, Reach, Goto, TypeOK, ControlInv, InLog, Serves, MapInv
<1>27. ASSUME NEW s \in Streams, RetryPop(s) PROVE MapInv'
  BY <1>27, ConstantsAssumption DEF RetryPop, Goto, TypeOK, ControlInv, InLog, Serves, MapInv
<1>28. ASSUME NEW s \in Streams, RetryExpire(s) PROVE MapInv'
  BY <1>28, ConstantsAssumption DEF RetryExpire, Locked, Goto, Settle, TypeOK, ControlInv, InLog, Serves, MapInv
<1>29. ASSUME NEW s \in Streams, RetryExpireDone(s) PROVE MapInv'
  BY <1>29, ConstantsAssumption DEF RetryExpireDone, Locked, Goto, TypeOK, ControlInv, InLog, Serves, MapInv
<1>30. ASSUME NEW s \in Streams, RetryCheck(s) PROVE MapInv'
  BY <1>30, ConstantsAssumption DEF RetryCheck, Goto, TypeOK, ControlInv, InLog, Serves, MapInv
<1>37. ASSUME NEW s \in Streams, RetryStop(s) PROVE MapInv'
  BY <1>37, ConstantsAssumption DEF RetryStop, Goto, TypeOK, ControlInv, InLog, Serves, MapInv
<1>31. CASE UNCHANGED vars
  BY <1>31, ConstantsAssumption DEF TypeOK, ControlInv, InLog, Serves, MapInv
<1>32. ASSUME NEW s \in Streams, add_output_stream(s) PROVE MapInv'
  BY <1>32, ConstantsAssumption DEF add_output_stream, TypeOK, ControlInv, InLog, Serves, MapInv
<1>33. ASSUME NEW s \in Streams, DeleteStream(s) PROVE MapInv'
  BY <1>33, ConstantsAssumption DEF DeleteStream, InUse, TypeOK, ControlInv, InLog, Serves, MapInv
<1>34. ASSUME NEW s \in Streams, EraseStream(s) PROVE MapInv'
  BY <1>34, ConstantsAssumption DEF EraseStream, TypeOK, ControlInv, InLog, Serves, MapInv
<1>35. CASE LogFault
  BY <1>35, ConstantsAssumption DEF LogFault, TypeOK, ControlInv, InLog, Serves, MapInv
<1>36. ASSUME NEW s \in Streams, RetryFault(s) PROVE MapInv'
  BY <1>36, ConstantsAssumption DEF RetryFault, TypeOK, ControlInv, InLog, Serves, MapInv
<1> QED
  BY <1>1, <1>2, <1>3, <1>4, <1>5, <1>6, <1>7, <1>8, <1>9, <1>10, <1>11, <1>12, <1>13, <1>14,
     <1>15, <1>16, <1>17, <1>18, <1>19, <1>20, <1>21, <1>22, <1>23, <1>24, <1>25, <1>26, <1>27,
     <1>28, <1>29, <1>30, <1>31, <1>32, <1>33, <1>34, <1>35, <1>36, <1>37 DEF Next, App, LogStep, RetryStep, Ended

\* Every step keeps the queues of the retry threads in order.
LEMMA QueueStep == IInv /\ [Next]_vars => QueueInv'
<1> SUFFICES ASSUME IInv, [Next]_vars PROVE QueueInv'
  OBVIOUS
<1> USE DEF IInv, vars, logVars, retryVars, mapVars, appVars, sinkVars
<1>1. ASSUME NEW t \in AppThreads, NEW l \in UsedLevels, Enqueue(t, l) PROVE QueueInv'
  BY <1>1, ConstantsAssumption, HeadTypes DEF Enqueue, TypeOK, ControlInv, InLog, Serves, MapInv, QueueInv
<1>2. ASSUME NEW t \in AppThreads, EnqueueNotify(t) PROVE QueueInv'
  BY <1>2, ConstantsAssumption, HeadTypes DEF EnqueueNotify, Wake, TypeOK, ControlInv, InLog, Serves, MapInv, QueueInv
<1>3. CASE Terminate
  BY <1>3, ConstantsAssumption, HeadTypes DEF Terminate, TypeOK, ControlInv, InLog, Serves, MapInv, QueueInv
<1>4. CASE TerminateNotify
  BY <1>4, ConstantsAssumption, HeadTypes DEF TerminateNotify, Wake, TypeOK, ControlInv, InLog, Serves, MapInv, QueueInv
<1>5. CASE TerminateJoined
  BY <1>5, ConstantsAssumption, HeadTypes DEF TerminateJoined, TypeOK, ControlInv, InLog, Serves, MapInv, QueueInv
<1>6. ASSUME NEW s \in Streams, NEW l \in MinLevels, set_min_log_level(s, l) PROVE QueueInv'
  BY <1>6, ConstantsAssumption, HeadTypes DEF set_min_log_level, TypeOK, ControlInv, InLog, Serves, MapInv, QueueInv
<1>7. CASE Swap
  BY <1>7, ConstantsAssumption, HeadTypes DEF Swap, TypeOK, ControlInv, InLog, Serves, MapInv, QueueInv
<1>8. CASE NextEvent
  BY <1>8, ConstantsAssumption, HeadTypes DEF NextEvent, InMap, Present, TypeOK, ControlInv, InLog, Serves, MapInv, QueueInv
<1>9. CASE EventDone
  BY <1>9, ConstantsAssumption, HeadTypes DEF EventDone, TypeOK, ControlInv, InLog, Serves, MapInv, QueueInv
<1>10. ASSUME NEW s \in Streams, Lookup(s) PROVE QueueInv'
  BY <1>10, ConstantsAssumption, HeadTypes DEF Lookup, TypeOK, ControlInv, InLog, Serves, MapInv, QueueInv
<1>11. CASE Join
  BY <1>11, ConstantsAssumption, HeadTypes DEF Join, TypeOK, ControlInv, InLog, Serves, MapInv, QueueInv
<1>12. CASE RetryEnqueue
  BY <1>12, ConstantsAssumption, HeadTypes DEF RetryEnqueue, TypeOK, ControlInv, InLog, Serves, MapInv, QueueInv
<1>13. CASE LogWriteTrue
  BY <1>13, ConstantsAssumption, HeadTypes DEF LogWriteTrue, WriteTrue, Settle, Reach, TypeOK, ControlInv, InLog, Serves, MapInv, QueueInv
<1>14. CASE LogWriteFalse
  BY <1>14, ConstantsAssumption, HeadTypes DEF LogWriteFalse, WriteFalse, Reach, TypeOK, ControlInv, InLog, Serves, MapInv, QueueInv
<1>15. CASE Spawn
  BY <1>15, ConstantsAssumption, HeadTypes DEF Spawn, TypeOK, ControlInv, InLog, Serves, MapInv, QueueInv
<1>16. CASE SpawnFails
  BY <1>16, ConstantsAssumption, HeadTypes DEF SpawnFails, Settle, TypeOK, ControlInv, InLog, Serves, MapInv, QueueInv
<1>17. CASE FirstEnqueue
  BY <1>17, ConstantsAssumption, HeadTypes DEF FirstEnqueue, TypeOK, ControlInv, InLog, Serves, MapInv, QueueInv
<1>18. CASE Check
  BY <1>18, ConstantsAssumption, HeadTypes DEF Check, TypeOK, ControlInv, InLog, Serves, MapInv, QueueInv
<1>19. CASE SpuriousWake
  BY <1>19, ConstantsAssumption, HeadTypes DEF SpuriousWake, TypeOK, ControlInv, InLog, Serves, MapInv, QueueInv
<1>20. ASSUME NEW s \in Streams, Scan(s) PROVE QueueInv'
  BY <1>20, ConstantsAssumption, HeadTypes DEF Scan, TypeOK, ControlInv, InLog, Serves, MapInv, QueueInv
<1>21. CASE ScanJoin
  BY <1>21, ConstantsAssumption, HeadTypes DEF ScanJoin, TypeOK, ControlInv, InLog, Serves, MapInv, QueueInv
<1>22. CASE ScanDone
  BY <1>22, ConstantsAssumption, HeadTypes DEF ScanDone, TypeOK, ControlInv, InLog, Serves, MapInv, QueueInv
<1>23. CASE Recheck
  BY <1>23, ConstantsAssumption, HeadTypes DEF Recheck, TypeOK, ControlInv, InLog, Serves, MapInv, QueueInv
<1>24. ASSUME NEW s \in Streams, RetryTry(s) PROVE QueueInv'
  BY <1>24, ConstantsAssumption, HeadTypes DEF RetryTry, Goto, TypeOK, ControlInv, InLog, Serves, MapInv, QueueInv
<1>25. ASSUME NEW s \in Streams, RetryWriteTrue(s) PROVE QueueInv'
  <2>1. Head(m_event_queue[s]) \in log_event /\ Head(m_event_queue[s]).id \in Id
    BY <1>25, HeadTypes DEF RetryWriteTrue, log_event
  <2>2. \A r \in Streams, d \in Id :
           fate'[r][d] = "none" <=> fate[r][d] = "none" /\ ~(r = s /\ d = Head(m_event_queue[s]).id)
    BY <1>25, <2>1, WriteSettles DEF RetryWriteTrue
  <2>3. \A r \in Streams : rpc[r] = "pop" => Head(m_event_queue[r]).id \in Id
    BY HeadTypes DEF log_event
  <2> QED  BY <1>25, <2>1, <2>2, <2>3 DEF RetryWriteTrue, Goto, TypeOK, ControlInv, InLog, Serves, MapInv, QueueInv
<1>26. ASSUME NEW s \in Streams, RetryWriteFalse(s) PROVE QueueInv'
  BY <1>26, ConstantsAssumption, HeadTypes DEF RetryWriteFalse, WriteFalse, Reach, Goto, TypeOK, ControlInv, InLog, Serves, MapInv, QueueInv
<1>27. ASSUME NEW s \in Streams, RetryPop(s) PROVE QueueInv'
  BY <1>27, ConstantsAssumption, HeadTypes DEF RetryPop, Goto, TypeOK, ControlInv, InLog, Serves, MapInv, QueueInv
<1>28. ASSUME NEW s \in Streams, RetryExpire(s) PROVE QueueInv'
  <2>1. PICK i \in DOMAIN m_event_queue[s] :
          /\ m_event_queue' = [m_event_queue EXCEPT ![s] = RemoveAt(@, i)]
          /\ Settle(s, m_event_queue[s][i], "expired")
    BY <1>28 DEF RetryExpire
  <2>2. \A r \in Streams, d \in Id : fate[r][d] # "none" => fate'[r][d] # "none"
    BY <2>1, SettleSettles DEF TypeOK, Fate
  <2>3. \A r \in Streams : rpc[r] = "pop" => Head(m_event_queue[r]).id \in Id
    BY HeadTypes DEF log_event
  <2>4. \A r \in Streams : r # s => m_event_queue'[r] = m_event_queue[r]
    BY <2>1 DEF TypeOK
  <2>5. m_event_queue[s] # <<>>
    BY DEF TypeOK
  <2> QED  BY <1>28, <2>2, <2>3, <2>4, <2>5 DEF RetryExpire, Locked, Goto, QueueInv, TypeOK
<1>29. ASSUME NEW s \in Streams, RetryExpireDone(s) PROVE QueueInv'
  BY <1>29, ConstantsAssumption, HeadTypes DEF RetryExpireDone, Locked, Goto, TypeOK, ControlInv, InLog, Serves, MapInv, QueueInv
<1>30. ASSUME NEW s \in Streams, RetryCheck(s) PROVE QueueInv'
  BY <1>30, ConstantsAssumption, HeadTypes DEF RetryCheck, Goto, TypeOK, ControlInv, InLog, Serves, MapInv, QueueInv
<1>37. ASSUME NEW s \in Streams, RetryStop(s) PROVE QueueInv'
  BY <1>37, ConstantsAssumption, HeadTypes DEF RetryStop, Goto, TypeOK, ControlInv, InLog, Serves, MapInv, QueueInv
<1>31. CASE UNCHANGED vars
  BY <1>31, ConstantsAssumption, HeadTypes DEF TypeOK, ControlInv, InLog, Serves, MapInv, QueueInv
<1>32. ASSUME NEW s \in Streams, add_output_stream(s) PROVE QueueInv'
  <2>1. \A r \in Streams, d \in Id : fate'[r][d] = "none" => fate[r][d] = "none"
    BY <1>32, AddSettles
  <2>2. \A r \in Streams : rpc[r] = "pop" => Head(m_event_queue[r]).id \in Id
    BY HeadTypes DEF log_event
  <2>3. UNCHANGED <<lpc, cur, rpc, m_event_queue>>
    BY <1>32 DEF add_output_stream
  <2> QED  BY <2>1, <2>2, <2>3 DEF QueueInv
<1>33. ASSUME NEW s \in Streams, DeleteStream(s) PROVE QueueInv'
  BY <1>33, ConstantsAssumption DEF DeleteStream, InUse, TypeOK, ControlInv, InLog, Serves, MapInv, QueueInv
<1>34. ASSUME NEW s \in Streams, EraseStream(s) PROVE QueueInv'
  BY <1>34, ConstantsAssumption DEF EraseStream, TypeOK, ControlInv, InLog, Serves, MapInv, QueueInv
<1>35. CASE LogFault
  BY <1>35, ConstantsAssumption DEF LogFault, TypeOK, ControlInv, InLog, Serves, MapInv, QueueInv
<1>36. ASSUME NEW s \in Streams, RetryFault(s) PROVE QueueInv'
  BY <1>36, ConstantsAssumption DEF RetryFault, TypeOK, ControlInv, InLog, Serves, MapInv, QueueInv
<1> QED
  BY <1>1, <1>2, <1>3, <1>4, <1>5, <1>6, <1>7, <1>8, <1>9, <1>10, <1>11, <1>12, <1>13, <1>14,
     <1>15, <1>16, <1>17, <1>18, <1>19, <1>20, <1>21, <1>22, <1>23, <1>24, <1>25, <1>26, <1>27,
     <1>28, <1>29, <1>30, <1>31, <1>32, <1>33, <1>34, <1>35, <1>36, <1>37 DEF Next, App, LogStep, RetryStep, Ended

\* Every step keeps what the scan has found out.
LEMMA ScanStep == IInv /\ [Next]_vars => ScanInv'
<1> SUFFICES ASSUME IInv, [Next]_vars PROVE ScanInv'
  OBVIOUS
<1> USE DEF IInv, vars, logVars, retryVars, mapVars, appVars, sinkVars
<1>1. ASSUME NEW t \in AppThreads, NEW l \in UsedLevels, Enqueue(t, l) PROVE ScanInv'
  <2> DEFINE x == [id |-> sent + 1, level |-> l]
  <2>1. x \in log_event /\ x.id = sent + 1 /\ m_events \in Seq(log_event) /\ m_events' = Append(m_events, x)
    BY <1>1, ConstantsAssumption DEF Enqueue, TypeOK, log_event, Id, LogLevel
  <2>2. \A e \in 1..atTerm : In(m_events', e) => In(m_events, e) \/ e = sent + 1
    <3> HIDE DEF x
    <3> QED  BY <2>1, InFacts
  <2>3. \A e \in 1..atTerm : e # sent + 1
    BY ConstantsAssumption DEF TypeOK, ScanInv
  <2> QED  BY <1>1, <2>2, <2>3, ConstantsAssumption DEF Enqueue, TypeOK, ScanInv
<1>2. ASSUME NEW t \in AppThreads, EnqueueNotify(t) PROVE ScanInv'
  BY <1>2, ConstantsAssumption DEF EnqueueNotify, Wake, TypeOK, ControlInv, InLog, Serves, MapInv, QueueInv, ScanInv
<1>3. CASE Terminate
  BY <1>3, ConstantsAssumption DEF Terminate, TypeOK, ControlInv, InLog, Serves, MapInv, QueueInv, ScanInv
<1>4. CASE TerminateNotify
  BY <1>4, ConstantsAssumption DEF TerminateNotify, Wake, TypeOK, ControlInv, InLog, Serves, MapInv, QueueInv, ScanInv
<1>5. CASE TerminateJoined
  BY <1>5, ConstantsAssumption DEF TerminateJoined, TypeOK, ControlInv, InLog, Serves, MapInv, QueueInv, ScanInv
<1>6. ASSUME NEW s \in Streams, NEW l \in MinLevels, set_min_log_level(s, l) PROVE ScanInv'
  BY <1>6, ConstantsAssumption DEF set_min_log_level, TypeOK, ControlInv, InLog, Serves, MapInv, QueueInv, ScanInv
<1>7. CASE Swap
  BY <1>7, ConstantsAssumption DEF Swap, TypeOK, ControlInv, InLog, Serves, MapInv, QueueInv, ScanInv
<1>8. CASE NextEvent
  BY <1>8, ConstantsAssumption DEF NextEvent, InMap, Present, TypeOK, ControlInv, InLog, Serves, MapInv, QueueInv, ScanInv
<1>9. CASE EventDone
  BY <1>9, ConstantsAssumption DEF EventDone, TypeOK, ControlInv, InLog, Serves, MapInv, QueueInv, ScanInv
<1>10. ASSUME NEW s \in Streams, Lookup(s) PROVE ScanInv'
  BY <1>10, ConstantsAssumption DEF Lookup, TypeOK, ControlInv, InLog, Serves, MapInv, QueueInv, ScanInv
<1>11. CASE Join
  BY <1>11, ConstantsAssumption DEF Join, TypeOK, ControlInv, InLog, Serves, MapInv, QueueInv, ScanInv
<1>12. CASE RetryEnqueue
  BY <1>12, ConstantsAssumption DEF RetryEnqueue, TypeOK, ControlInv, InLog, Serves, MapInv, QueueInv, ScanInv
<1>13. CASE LogWriteTrue
  BY <1>13, ConstantsAssumption DEF LogWriteTrue, WriteTrue, Settle, Reach, TypeOK, ControlInv, InLog, Serves, MapInv, QueueInv, ScanInv
<1>14. CASE LogWriteFalse
  BY <1>14, ConstantsAssumption DEF LogWriteFalse, WriteFalse, Reach, TypeOK, ControlInv, InLog, Serves, MapInv, QueueInv, ScanInv
<1>15. CASE Spawn
  BY <1>15, ConstantsAssumption DEF Spawn, TypeOK, ControlInv, InLog, Serves, MapInv, QueueInv, ScanInv
<1>16. CASE SpawnFails
  BY <1>16, ConstantsAssumption DEF SpawnFails, Settle, TypeOK, ControlInv, InLog, Serves, MapInv, QueueInv, ScanInv
<1>17. CASE FirstEnqueue
  BY <1>17, ConstantsAssumption DEF FirstEnqueue, TypeOK, ControlInv, InLog, Serves, MapInv, QueueInv, ScanInv
<1>18. CASE Check
  BY <1>18, ConstantsAssumption DEF Check, TypeOK, ControlInv, InLog, Serves, MapInv, QueueInv, ScanInv
<1>19. CASE SpuriousWake
  BY <1>19, ConstantsAssumption DEF SpuriousWake, TypeOK, ControlInv, InLog, Serves, MapInv, QueueInv, ScanInv
<1>20. ASSUME NEW s \in Streams, Scan(s) PROVE ScanInv'
  BY <1>20, ConstantsAssumption DEF Scan, TypeOK, ControlInv, InLog, Serves, MapInv, QueueInv, ScanInv
<1>21. CASE ScanJoin
  BY <1>21, ConstantsAssumption DEF ScanJoin, TypeOK, ControlInv, InLog, Serves, MapInv, QueueInv, ScanInv
<1>22. CASE ScanDone
  BY <1>22, ConstantsAssumption DEF ScanDone, TypeOK, ControlInv, InLog, Serves, MapInv, QueueInv, ScanInv
<1>23. CASE Recheck
  BY <1>23, ConstantsAssumption, InFacts DEF Recheck, In, TypeOK, ControlInv, InLog, Serves, MapInv, QueueInv, ScanInv
<1>24. ASSUME NEW s \in Streams, RetryTry(s) PROVE ScanInv'
  BY <1>24, ConstantsAssumption DEF RetryTry, Goto, TypeOK, ControlInv, InLog, Serves, MapInv, QueueInv, ScanInv
<1>25. ASSUME NEW s \in Streams, RetryWriteTrue(s) PROVE ScanInv'
  BY <1>25, ConstantsAssumption DEF RetryWriteTrue, WriteTrue, Settle, Reach, Goto, TypeOK, ControlInv, InLog, Serves, MapInv, QueueInv, ScanInv
<1>26. ASSUME NEW s \in Streams, RetryWriteFalse(s) PROVE ScanInv'
  BY <1>26, ConstantsAssumption DEF RetryWriteFalse, WriteFalse, Reach, Goto, TypeOK, ControlInv, InLog, Serves, MapInv, QueueInv, ScanInv
<1>27. ASSUME NEW s \in Streams, RetryPop(s) PROVE ScanInv'
  BY <1>27, ConstantsAssumption DEF RetryPop, Goto, TypeOK, ControlInv, InLog, Serves, MapInv, QueueInv, ScanInv
<1>28. ASSUME NEW s \in Streams, RetryExpire(s) PROVE ScanInv'
  BY <1>28, ConstantsAssumption DEF RetryExpire, Locked, Goto, Settle, TypeOK, ControlInv, InLog, Serves, MapInv, QueueInv, ScanInv
<1>29. ASSUME NEW s \in Streams, RetryExpireDone(s) PROVE ScanInv'
  BY <1>29, ConstantsAssumption DEF RetryExpireDone, Locked, Goto, TypeOK, ControlInv, InLog, Serves, MapInv, QueueInv, ScanInv
<1>30. ASSUME NEW s \in Streams, RetryCheck(s) PROVE ScanInv'
  BY <1>30, ConstantsAssumption DEF RetryCheck, Goto, TypeOK, ControlInv, InLog, Serves, MapInv, QueueInv, ScanInv
<1>37. ASSUME NEW s \in Streams, RetryStop(s) PROVE ScanInv'
  BY <1>37, ConstantsAssumption DEF RetryStop, Goto, TypeOK, ControlInv, InLog, Serves, MapInv, QueueInv, ScanInv
<1>31. CASE UNCHANGED vars
  BY <1>31, ConstantsAssumption DEF TypeOK, ControlInv, InLog, Serves, MapInv, QueueInv, ScanInv
<1>32. ASSUME NEW s \in Streams, add_output_stream(s) PROVE ScanInv'
  BY <1>32, ConstantsAssumption DEF add_output_stream, TypeOK, ControlInv, InLog, Serves, MapInv, QueueInv, ScanInv
<1>33. ASSUME NEW s \in Streams, DeleteStream(s) PROVE ScanInv'
  BY <1>33, ConstantsAssumption DEF DeleteStream, InUse, TypeOK, ControlInv, InLog, Serves, MapInv, QueueInv, ScanInv
<1>34. ASSUME NEW s \in Streams, EraseStream(s) PROVE ScanInv'
  BY <1>34, ConstantsAssumption DEF EraseStream, TypeOK, ControlInv, InLog, Serves, MapInv, QueueInv, ScanInv
<1>35. CASE LogFault
  BY <1>35, ConstantsAssumption DEF LogFault, TypeOK, ControlInv, InLog, Serves, MapInv, QueueInv, ScanInv
<1>36. ASSUME NEW s \in Streams, RetryFault(s) PROVE ScanInv'
  BY <1>36, ConstantsAssumption DEF RetryFault, TypeOK, ControlInv, InLog, Serves, MapInv, QueueInv, ScanInv
<1> QED
  BY <1>1, <1>2, <1>3, <1>4, <1>5, <1>6, <1>7, <1>8, <1>9, <1>10, <1>11, <1>12, <1>13, <1>14,
     <1>15, <1>16, <1>17, <1>18, <1>19, <1>20, <1>21, <1>22, <1>23, <1>24, <1>25, <1>26, <1>27,
     <1>28, <1>29, <1>30, <1>31, <1>32, <1>33, <1>34, <1>35, <1>36, <1>37 DEF Next, App, LogStep, RetryStep, Ended

\* No step brings a stream that was removed in a quiet moment back into reach.
LEMMA RemovalStep == IInv /\ [Next]_vars => RemovalInv'
<1> SUFFICES ASSUME IInv, [Next]_vars PROVE RemovalInv'
  OBVIOUS
<1> USE DEF IInv, vars, logVars, retryVars, mapVars, appVars, sinkVars
<1>1. ASSUME NEW t \in AppThreads, NEW l \in UsedLevels, Enqueue(t, l) PROVE RemovalInv'
  BY <1>1, ConstantsAssumption DEF Enqueue, TypeOK, ControlInv, InLog, Serves, MapInv, RemovalInv, CrashExplained
<1>2. ASSUME NEW t \in AppThreads, EnqueueNotify(t) PROVE RemovalInv'
  BY <1>2, ConstantsAssumption DEF EnqueueNotify, Wake, TypeOK, ControlInv, InLog, Serves, MapInv, RemovalInv, CrashExplained
<1>3. CASE Terminate
  BY <1>3, ConstantsAssumption DEF Terminate, TypeOK, ControlInv, InLog, Serves, MapInv, RemovalInv, CrashExplained
<1>4. CASE TerminateNotify
  BY <1>4, ConstantsAssumption DEF TerminateNotify, Wake, TypeOK, ControlInv, InLog, Serves, MapInv, RemovalInv, CrashExplained
<1>5. CASE TerminateJoined
  BY <1>5, ConstantsAssumption DEF TerminateJoined, TypeOK, ControlInv, InLog, Serves, MapInv, RemovalInv, CrashExplained
<1>6. ASSUME NEW s \in Streams, NEW l \in MinLevels, set_min_log_level(s, l) PROVE RemovalInv'
  BY <1>6, ConstantsAssumption DEF set_min_log_level, TypeOK, ControlInv, InLog, Serves, MapInv, RemovalInv, CrashExplained
<1>7. CASE Swap
  BY <1>7, ConstantsAssumption DEF Swap, TypeOK, ControlInv, InLog, Serves, MapInv, RemovalInv, CrashExplained
<1>8. CASE NextEvent
  BY <1>8, ConstantsAssumption DEF NextEvent, InMap, Present, TypeOK, ControlInv, InLog, Serves, MapInv, RemovalInv, CrashExplained
<1>9. CASE EventDone
  BY <1>9, ConstantsAssumption DEF EventDone, TypeOK, ControlInv, InLog, Serves, MapInv, RemovalInv, CrashExplained
<1>10. ASSUME NEW s \in Streams, Lookup(s) PROVE RemovalInv'
  BY <1>10, ConstantsAssumption DEF Lookup, TypeOK, ControlInv, InLog, Serves, MapInv, RemovalInv, CrashExplained
<1>11. CASE Join
  BY <1>11, ConstantsAssumption DEF Join, TypeOK, ControlInv, InLog, Serves, MapInv, RemovalInv, CrashExplained
<1>12. CASE RetryEnqueue
  BY <1>12, ConstantsAssumption DEF RetryEnqueue, TypeOK, ControlInv, InLog, Serves, MapInv, RemovalInv, CrashExplained
<1>13. CASE LogWriteTrue
  BY <1>13, ConstantsAssumption DEF LogWriteTrue, WriteTrue, Settle, Reach, TypeOK, ControlInv, InLog, Serves, MapInv, RemovalInv, CrashExplained
<1>14. CASE LogWriteFalse
  BY <1>14, ConstantsAssumption DEF LogWriteFalse, WriteFalse, Reach, TypeOK, ControlInv, InLog, Serves, MapInv, RemovalInv, CrashExplained
<1>15. CASE Spawn
  BY <1>15, ConstantsAssumption DEF Spawn, TypeOK, ControlInv, InLog, Serves, MapInv, RemovalInv, CrashExplained
<1>16. CASE SpawnFails
  BY <1>16, ConstantsAssumption DEF SpawnFails, Settle, TypeOK, ControlInv, InLog, Serves, MapInv, RemovalInv, CrashExplained
<1>17. CASE FirstEnqueue
  BY <1>17, ConstantsAssumption DEF FirstEnqueue, TypeOK, ControlInv, InLog, Serves, MapInv, RemovalInv, CrashExplained
<1>18. CASE Check
  BY <1>18, ConstantsAssumption DEF Check, TypeOK, ControlInv, InLog, Serves, MapInv, RemovalInv, CrashExplained
<1>19. CASE SpuriousWake
  BY <1>19, ConstantsAssumption DEF SpuriousWake, TypeOK, ControlInv, InLog, Serves, MapInv, RemovalInv, CrashExplained
<1>20. ASSUME NEW s \in Streams, Scan(s) PROVE RemovalInv'
  BY <1>20, ConstantsAssumption DEF Scan, TypeOK, ControlInv, InLog, Serves, MapInv, RemovalInv, CrashExplained
<1>21. CASE ScanJoin
  BY <1>21, ConstantsAssumption DEF ScanJoin, TypeOK, ControlInv, InLog, Serves, MapInv, RemovalInv, CrashExplained
<1>22. CASE ScanDone
  BY <1>22, ConstantsAssumption DEF ScanDone, TypeOK, ControlInv, InLog, Serves, MapInv, RemovalInv, CrashExplained
<1>23. CASE Recheck
  BY <1>23, ConstantsAssumption DEF Recheck, TypeOK, ControlInv, InLog, Serves, MapInv, RemovalInv, CrashExplained
<1>24. ASSUME NEW s \in Streams, RetryTry(s) PROVE RemovalInv'
  BY <1>24, ConstantsAssumption DEF RetryTry, Goto, TypeOK, ControlInv, InLog, Serves, MapInv, RemovalInv, CrashExplained
<1>25. ASSUME NEW s \in Streams, RetryWriteTrue(s) PROVE RemovalInv'
  BY <1>25, ConstantsAssumption DEF RetryWriteTrue, WriteTrue, Settle, Reach, Goto, TypeOK, ControlInv, InLog, Serves, MapInv, RemovalInv, CrashExplained
<1>26. ASSUME NEW s \in Streams, RetryWriteFalse(s) PROVE RemovalInv'
  BY <1>26, ConstantsAssumption DEF RetryWriteFalse, WriteFalse, Reach, Goto, TypeOK, ControlInv, InLog, Serves, MapInv, RemovalInv, CrashExplained
<1>27. ASSUME NEW s \in Streams, RetryPop(s) PROVE RemovalInv'
  BY <1>27, ConstantsAssumption DEF RetryPop, Goto, TypeOK, ControlInv, InLog, Serves, MapInv, RemovalInv, CrashExplained
<1>28. ASSUME NEW s \in Streams, RetryExpire(s) PROVE RemovalInv'
  BY <1>28, ConstantsAssumption DEF RetryExpire, Locked, Goto, Settle, TypeOK, ControlInv, InLog, Serves, MapInv, RemovalInv, CrashExplained
<1>29. ASSUME NEW s \in Streams, RetryExpireDone(s) PROVE RemovalInv'
  BY <1>29, ConstantsAssumption DEF RetryExpireDone, Locked, Goto, TypeOK, ControlInv, InLog, Serves, MapInv, RemovalInv, CrashExplained
<1>30. ASSUME NEW s \in Streams, RetryCheck(s) PROVE RemovalInv'
  BY <1>30, ConstantsAssumption DEF RetryCheck, Goto, TypeOK, ControlInv, InLog, Serves, MapInv, RemovalInv, CrashExplained
<1>37. ASSUME NEW s \in Streams, RetryStop(s) PROVE RemovalInv'
  BY <1>37, ConstantsAssumption DEF RetryStop, Goto, TypeOK, ControlInv, InLog, Serves, MapInv, RemovalInv, CrashExplained
<1>31. CASE UNCHANGED vars
  BY <1>31, ConstantsAssumption DEF TypeOK, ControlInv, InLog, Serves, MapInv, RemovalInv, CrashExplained
<1>32. ASSUME NEW s \in Streams, add_output_stream(s) PROVE RemovalInv'
  BY <1>32, ConstantsAssumption DEF add_output_stream, TypeOK, ControlInv, InLog, Serves, MapInv, RemovalInv, CrashExplained
<1>33. ASSUME NEW s \in Streams, DeleteStream(s) PROVE RemovalInv'
  BY <1>33, ConstantsAssumption DEF DeleteStream, InUse, TypeOK, ControlInv, InLog, Serves, MapInv, RemovalInv, CrashExplained
<1>34. ASSUME NEW s \in Streams, EraseStream(s) PROVE RemovalInv'
  BY <1>34, ConstantsAssumption DEF EraseStream, TypeOK, ControlInv, InLog, Serves, MapInv, RemovalInv, CrashExplained
<1>35. CASE LogFault
  BY <1>35, ConstantsAssumption DEF LogFault, TypeOK, Life, ControlInv, InLog, Serves, RemovalInv, CrashExplained
<1>36. ASSUME NEW s \in Streams, RetryFault(s) PROVE RemovalInv'
  BY <1>36, ConstantsAssumption DEF RetryFault, TypeOK, Life, ControlInv, InLog, Serves, RemovalInv, CrashExplained
<1> QED
  BY <1>1, <1>2, <1>3, <1>4, <1>5, <1>6, <1>7, <1>8, <1>9, <1>10, <1>11, <1>12, <1>13, <1>14,
     <1>15, <1>16, <1>17, <1>18, <1>19, <1>20, <1>21, <1>22, <1>23, <1>24, <1>25, <1>26, <1>27,
     <1>28, <1>29, <1>30, <1>31, <1>32, <1>33, <1>34, <1>35, <1>36, <1>37 DEF Next, App, LogStep, RetryStep, Ended

\* No step loses a wake-up.
LEMMA WakeupStep == IInv /\ NoLostWakeup /\ [Next]_vars => NoLostWakeup'
<1> SUFFICES ASSUME IInv, NoLostWakeup, [Next]_vars PROVE NoLostWakeup'
  OBVIOUS
<1> USE DEF IInv, vars, logVars, retryVars, mapVars, appVars, sinkVars
<1>1. ASSUME NEW t \in AppThreads, NEW l \in UsedLevels, Enqueue(t, l) PROVE NoLostWakeup'
  BY <1>1 DEF Enqueue, TypeOK, NoLostWakeup
<1>2. ASSUME NEW t \in AppThreads, EnqueueNotify(t) PROVE NoLostWakeup'
  BY <1>2 DEF EnqueueNotify, Wake, TypeOK, NoLostWakeup
<1>3. CASE Terminate
  BY <1>3 DEF Terminate, TypeOK, NoLostWakeup
<1>4. CASE TerminateNotify
  BY <1>4 DEF TerminateNotify, Wake, TypeOK, NoLostWakeup
<1>5. CASE TerminateJoined
  BY <1>5 DEF TerminateJoined, TypeOK, NoLostWakeup
<1>6. ASSUME NEW s \in Streams, NEW l \in MinLevels, set_min_log_level(s, l) PROVE NoLostWakeup'
  BY <1>6 DEF set_min_log_level, TypeOK, NoLostWakeup
<1>7. CASE Swap
  BY <1>7 DEF Swap, TypeOK, NoLostWakeup
<1>8. CASE NextEvent
  BY <1>8 DEF NextEvent, InMap, Present, TypeOK, NoLostWakeup
<1>9. CASE EventDone
  BY <1>9 DEF EventDone, TypeOK, NoLostWakeup
<1>10. ASSUME NEW s \in Streams, Lookup(s) PROVE NoLostWakeup'
  BY <1>10 DEF Lookup, TypeOK, NoLostWakeup
<1>11. CASE Join
  BY <1>11 DEF Join, TypeOK, NoLostWakeup
<1>12. CASE RetryEnqueue
  BY <1>12 DEF RetryEnqueue, TypeOK, NoLostWakeup
<1>13. CASE LogWriteTrue
  BY <1>13 DEF LogWriteTrue, WriteTrue, Settle, Reach, TypeOK, NoLostWakeup
<1>14. CASE LogWriteFalse
  BY <1>14 DEF LogWriteFalse, WriteFalse, Reach, TypeOK, NoLostWakeup
<1>15. CASE Spawn
  BY <1>15 DEF Spawn, TypeOK, NoLostWakeup
<1>16. CASE SpawnFails
  BY <1>16 DEF SpawnFails, Settle, TypeOK, NoLostWakeup
<1>17. CASE FirstEnqueue
  BY <1>17 DEF FirstEnqueue, TypeOK, NoLostWakeup
<1>18. CASE Check
  BY <1>18 DEF Check, TypeOK, NoLostWakeup
<1>19. CASE SpuriousWake
  BY <1>19 DEF SpuriousWake, TypeOK, NoLostWakeup
<1>20. ASSUME NEW s \in Streams, Scan(s) PROVE NoLostWakeup'
  BY <1>20 DEF Scan, TypeOK, NoLostWakeup
<1>21. CASE ScanJoin
  BY <1>21 DEF ScanJoin, TypeOK, NoLostWakeup
<1>22. CASE ScanDone
  BY <1>22 DEF ScanDone, TypeOK, NoLostWakeup
<1>23. CASE Recheck
  BY <1>23 DEF Recheck, TypeOK, NoLostWakeup
<1>24. ASSUME NEW s \in Streams, RetryTry(s) PROVE NoLostWakeup'
  BY <1>24 DEF RetryTry, Goto, TypeOK, NoLostWakeup
<1>25. ASSUME NEW s \in Streams, RetryWriteTrue(s) PROVE NoLostWakeup'
  BY <1>25 DEF RetryWriteTrue, WriteTrue, Settle, Reach, Goto, TypeOK, NoLostWakeup
<1>26. ASSUME NEW s \in Streams, RetryWriteFalse(s) PROVE NoLostWakeup'
  BY <1>26 DEF RetryWriteFalse, WriteFalse, Reach, Goto, TypeOK, NoLostWakeup
<1>27. ASSUME NEW s \in Streams, RetryPop(s) PROVE NoLostWakeup'
  BY <1>27 DEF RetryPop, Goto, TypeOK, NoLostWakeup
<1>28. ASSUME NEW s \in Streams, RetryExpire(s) PROVE NoLostWakeup'
  BY <1>28 DEF RetryExpire, Locked, Goto, Settle, TypeOK, NoLostWakeup
<1>29. ASSUME NEW s \in Streams, RetryExpireDone(s) PROVE NoLostWakeup'
  BY <1>29 DEF RetryExpireDone, Locked, Goto, TypeOK, NoLostWakeup
<1>30. ASSUME NEW s \in Streams, RetryCheck(s) PROVE NoLostWakeup'
  BY <1>30 DEF RetryCheck, Goto, TypeOK, NoLostWakeup
<1>37. ASSUME NEW s \in Streams, RetryStop(s) PROVE NoLostWakeup'
  BY <1>37 DEF RetryStop, Goto, TypeOK, NoLostWakeup
<1>31. CASE UNCHANGED vars
  BY <1>31 DEF TypeOK, NoLostWakeup
<1>32. ASSUME NEW s \in Streams, add_output_stream(s) PROVE NoLostWakeup'
  BY <1>32, ConstantsAssumption DEF add_output_stream, TypeOK, NoLostWakeup
<1>33. ASSUME NEW s \in Streams, DeleteStream(s) PROVE NoLostWakeup'
  BY <1>33, ConstantsAssumption DEF DeleteStream, InUse, TypeOK, NoLostWakeup
<1>34. ASSUME NEW s \in Streams, EraseStream(s) PROVE NoLostWakeup'
  BY <1>34, ConstantsAssumption DEF EraseStream, TypeOK, NoLostWakeup
<1>35. CASE LogFault
  BY <1>35, ConstantsAssumption DEF LogFault, TypeOK, NoLostWakeup
<1>36. ASSUME NEW s \in Streams, RetryFault(s) PROVE NoLostWakeup'
  BY <1>36, ConstantsAssumption DEF RetryFault, TypeOK, NoLostWakeup
<1> QED
  BY <1>1, <1>2, <1>3, <1>4, <1>5, <1>6, <1>7, <1>8, <1>9, <1>10, <1>11, <1>12, <1>13, <1>14,
     <1>15, <1>16, <1>17, <1>18, <1>19, <1>20, <1>21, <1>22, <1>23, <1>24, <1>25, <1>26, <1>27,
     <1>28, <1>29, <1>30, <1>31, <1>32, <1>33, <1>34, <1>35, <1>36, <1>37 DEF Next, App, LogStep, RetryStep, Ended

\* Every step keeps the promise of terminate().
LEMMA DrainStep == IInv /\ [Next]_vars => TerminateDrains'
<1> SUFFICES ASSUME IInv, [Next]_vars PROVE TerminateDrains'
  OBVIOUS
<1> USE DEF IInv, vars, logVars, retryVars, mapVars, appVars, sinkVars
<1>1. ASSUME NEW t \in AppThreads, NEW l \in UsedLevels, Enqueue(t, l) PROVE TerminateDrains'
  BY <1>1, ConstantsAssumption DEF Enqueue, TypeOK, ControlInv, InLog, Serves, ScanInv, TerminateDrains, Present
<1>2. ASSUME NEW t \in AppThreads, EnqueueNotify(t) PROVE TerminateDrains'
  BY <1>2, ConstantsAssumption DEF EnqueueNotify, Wake, TypeOK, ControlInv, InLog, Serves, ScanInv, TerminateDrains, Present
<1>3. CASE Terminate
  BY <1>3, ConstantsAssumption DEF Terminate, TypeOK, ControlInv, InLog, Serves, ScanInv, TerminateDrains, Present
<1>4. CASE TerminateNotify
  BY <1>4, ConstantsAssumption DEF TerminateNotify, Wake, TypeOK, ControlInv, InLog, Serves, ScanInv, TerminateDrains, Present
<1>5. CASE TerminateJoined
  BY <1>5, ConstantsAssumption DEF TerminateJoined, TypeOK, ControlInv, InLog, Serves, ScanInv, TerminateDrains, Present
<1>6. ASSUME NEW s \in Streams, NEW l \in MinLevels, set_min_log_level(s, l) PROVE TerminateDrains'
  BY <1>6, ConstantsAssumption DEF set_min_log_level, TypeOK, ControlInv, InLog, Serves, ScanInv, TerminateDrains, Present
<1>7. CASE Swap
  BY <1>7, ConstantsAssumption DEF Swap, TypeOK, ControlInv, InLog, Serves, ScanInv, TerminateDrains, Present
<1>8. CASE NextEvent
  BY <1>8, ConstantsAssumption DEF NextEvent, InMap, Present, TypeOK, ControlInv, InLog, Serves, ScanInv, TerminateDrains, Present
<1>9. CASE EventDone
  BY <1>9, ConstantsAssumption DEF EventDone, TypeOK, ControlInv, InLog, Serves, ScanInv, TerminateDrains, Present
<1>10. ASSUME NEW s \in Streams, Lookup(s) PROVE TerminateDrains'
  BY <1>10, ConstantsAssumption DEF Lookup, TypeOK, ControlInv, InLog, Serves, ScanInv, TerminateDrains, Present
<1>11. CASE Join
  BY <1>11, ConstantsAssumption DEF Join, TypeOK, ControlInv, InLog, Serves, ScanInv, TerminateDrains, Present
<1>12. CASE RetryEnqueue
  BY <1>12, ConstantsAssumption DEF RetryEnqueue, TypeOK, ControlInv, InLog, Serves, ScanInv, TerminateDrains, Present
<1>13. CASE LogWriteTrue
  BY <1>13, ConstantsAssumption DEF LogWriteTrue, WriteTrue, Settle, Reach, TypeOK, ControlInv, InLog, Serves, ScanInv, TerminateDrains, Present
<1>14. CASE LogWriteFalse
  BY <1>14, ConstantsAssumption DEF LogWriteFalse, WriteFalse, Reach, TypeOK, ControlInv, InLog, Serves, ScanInv, TerminateDrains, Present
<1>15. CASE Spawn
  BY <1>15, ConstantsAssumption DEF Spawn, TypeOK, ControlInv, InLog, Serves, ScanInv, TerminateDrains, Present
<1>16. CASE SpawnFails
  BY <1>16, ConstantsAssumption DEF SpawnFails, Settle, TypeOK, ControlInv, InLog, Serves, ScanInv, TerminateDrains, Present
<1>17. CASE FirstEnqueue
  BY <1>17, ConstantsAssumption DEF FirstEnqueue, TypeOK, ControlInv, InLog, Serves, ScanInv, TerminateDrains, Present
<1>18. CASE Check
  BY <1>18, ConstantsAssumption DEF Check, TypeOK, ControlInv, InLog, Serves, ScanInv, TerminateDrains, Present
<1>19. CASE SpuriousWake
  BY <1>19, ConstantsAssumption DEF SpuriousWake, TypeOK, ControlInv, InLog, Serves, ScanInv, TerminateDrains, Present
<1>20. ASSUME NEW s \in Streams, Scan(s) PROVE TerminateDrains'
  BY <1>20, ConstantsAssumption DEF Scan, TypeOK, ControlInv, InLog, Serves, ScanInv, TerminateDrains, Present
<1>21. CASE ScanJoin
  BY <1>21, ConstantsAssumption DEF ScanJoin, TypeOK, ControlInv, InLog, Serves, ScanInv, TerminateDrains, Present
<1>22. CASE ScanDone
  BY <1>22, ConstantsAssumption DEF ScanDone, TypeOK, ControlInv, InLog, Serves, ScanInv, TerminateDrains, Present
<1>23. CASE Recheck
  <2>1. SUFFICES ASSUME lpc' = "done", NEW s \in Streams, s \in Present, NEW e \in 1..atTerm, fate[s][e] = "none"
                 PROVE FALSE
    BY <1>23 DEF Recheck, TerminateDrains, Present
  <2>2. local = <<>> /\ m_events = <<>> /\ m_event_queue[s] = <<>>
    BY <1>23, <2>1 DEF Recheck, ControlInv, InLog, ScanInv
  <2>3. e \in 1..sent
    BY ConstantsAssumption DEF TypeOK, ScanInv
  <2>4. Held(s, e)
    BY <1>23, <2>1, <2>3 DEF Recheck, NoMessageLost, Present
  <2> QED  BY <2>2, <2>4 DEF Held, InHand, In
<1>24. ASSUME NEW s \in Streams, RetryTry(s) PROVE TerminateDrains'
  BY <1>24, ConstantsAssumption DEF RetryTry, Goto, TypeOK, ControlInv, InLog, Serves, ScanInv, TerminateDrains, Present
<1>25. ASSUME NEW s \in Streams, RetryWriteTrue(s) PROVE TerminateDrains'
  <2>1. Head(m_event_queue[s]) \in log_event /\ atTerm \in 0..MaxEvents
    BY <1>25, HeadTypes DEF RetryWriteTrue, TypeOK
  <2>2. \A r \in Streams, d \in 1..atTerm : fate'[r][d] = "none" => fate[r][d] = "none"
    BY <1>25, <2>1, WriteSettles, ConstantsAssumption DEF RetryWriteTrue, Id
  <2> QED  BY <1>25, <2>2 DEF RetryWriteTrue, TerminateDrains, Present
<1>26. ASSUME NEW s \in Streams, RetryWriteFalse(s) PROVE TerminateDrains'
  BY <1>26, ConstantsAssumption DEF RetryWriteFalse, WriteFalse, Reach, Goto, TypeOK, ControlInv, InLog, Serves, ScanInv, TerminateDrains, Present
<1>27. ASSUME NEW s \in Streams, RetryPop(s) PROVE TerminateDrains'
  BY <1>27, ConstantsAssumption DEF RetryPop, Goto, TypeOK, ControlInv, InLog, Serves, ScanInv, TerminateDrains, Present
<1>28. ASSUME NEW s \in Streams, RetryExpire(s) PROVE TerminateDrains'
  BY <1>28, ConstantsAssumption DEF RetryExpire, Locked, Goto, Settle, TypeOK, ControlInv, InLog, Serves, ScanInv, TerminateDrains, Present
<1>29. ASSUME NEW s \in Streams, RetryExpireDone(s) PROVE TerminateDrains'
  BY <1>29, ConstantsAssumption DEF RetryExpireDone, Locked, Goto, TypeOK, ControlInv, InLog, Serves, ScanInv, TerminateDrains, Present
<1>30. ASSUME NEW s \in Streams, RetryCheck(s) PROVE TerminateDrains'
  BY <1>30, ConstantsAssumption DEF RetryCheck, Goto, TypeOK, ControlInv, InLog, Serves, ScanInv, TerminateDrains, Present
<1>37. ASSUME NEW s \in Streams, RetryStop(s) PROVE TerminateDrains'
  BY <1>37, ConstantsAssumption DEF RetryStop, Goto, TypeOK, ControlInv, InLog, Serves, ScanInv, TerminateDrains, Present
<1>31. CASE UNCHANGED vars
  BY <1>31, ConstantsAssumption DEF TypeOK, ControlInv, InLog, Serves, ScanInv, TerminateDrains, Present
<1>32. ASSUME NEW s \in Streams, add_output_stream(s) PROVE TerminateDrains'
  <2> SUFFICES ASSUME lpc = "done", NEW r \in Streams, m_streams'[r] = "present", NEW e \in 1..atTerm
               PROVE  fate'[r][e] # "none"
    BY <1>32 DEF add_output_stream, TerminateDrains, Present
  <2>1. local = <<>> /\ ~In(m_events, e) /\ e \in Id /\ e <= sent
    BY ConstantsAssumption DEF ControlInv, InLog, ScanInv, TypeOK, Id
  <2>2. CASE r = s
    BY <1>32, <2>1, <2>2 DEF add_output_stream, TypeOK
  <2>3. CASE r # s
    BY <1>32, <2>1, <2>3 DEF add_output_stream, TypeOK, TerminateDrains, Present
  <2> QED  BY <2>2, <2>3
<1>33. ASSUME NEW s \in Streams, DeleteStream(s) PROVE TerminateDrains'
  BY <1>33, ConstantsAssumption DEF DeleteStream, InUse, TypeOK, ControlInv, InLog, Serves, ScanInv, TerminateDrains, Present
<1>34. ASSUME NEW s \in Streams, EraseStream(s) PROVE TerminateDrains'
  BY <1>34, ConstantsAssumption DEF EraseStream, TypeOK, ControlInv, InLog, Serves, ScanInv, TerminateDrains, Present
<1>35. CASE LogFault
  BY <1>35, ConstantsAssumption DEF LogFault, TypeOK, ControlInv, InLog, Serves, ScanInv, TerminateDrains, Present
<1>36. ASSUME NEW s \in Streams, RetryFault(s) PROVE TerminateDrains'
  BY <1>36, ConstantsAssumption DEF RetryFault, TypeOK, ControlInv, InLog, Serves, ScanInv, TerminateDrains, Present
<1> QED
  BY <1>1, <1>2, <1>3, <1>4, <1>5, <1>6, <1>7, <1>8, <1>9, <1>10, <1>11, <1>12, <1>13, <1>14,
     <1>15, <1>16, <1>17, <1>18, <1>19, <1>20, <1>21, <1>22, <1>23, <1>24, <1>25, <1>26, <1>27,
     <1>28, <1>29, <1>30, <1>31, <1>32, <1>33, <1>34, <1>35, <1>36, <1>37 DEF Next, App, LogStep, RetryStep, Ended

\* No step loses a message.
LEMMA LossStep == IInv /\ [Next]_vars => NoMessageLost'
<1> SUFFICES ASSUME IInv, [Next]_vars PROVE NoMessageLost'
  OBVIOUS
<1> USE DEF IInv, vars, logVars, retryVars, mapVars, appVars, sinkVars
<1>1. ASSUME NEW t \in AppThreads, NEW l \in UsedLevels, Enqueue(t, l) PROVE NoMessageLost'
  <2> SUFFICES ASSUME NEW r \in Streams, r \in Present', NEW e \in 1..sent', fate'[r][e] = "none", lpc' # "crashed"
             PROVE  Held(r, e)'
    BY DEF NoMessageLost, Present
  <2> DEFINE x == [id |-> sent + 1, level |-> l]
  <2>1. x \in log_event /\ (e = sent + 1 \/ Held(r, e))
    BY <1>1, ConstantsAssumption DEF Enqueue, TypeOK, log_event, Id, LogLevel, NoMessageLost, Present
  <2>3. m_events \in Seq(log_event) /\ x.id = sent + 1
    BY DEF TypeOK
  <2>4. e = sent + 1 \/ In(m_events, e) => In(m_events', e)
    <3>1. m_events' = Append(m_events, x)
      BY <1>1 DEF Enqueue
    <3> HIDE DEF x
    <3> QED  BY <2>1, <2>3, <3>1, InFacts
  <2> QED  BY <1>1, <2>1, <2>4 DEF Enqueue, Held, InHand
<1>2. ASSUME NEW t \in AppThreads, EnqueueNotify(t) PROVE NoMessageLost'
  <2> SUFFICES ASSUME NEW r \in Streams, r \in Present', NEW e \in 1..sent', fate'[r][e] = "none", lpc' # "crashed"
             PROVE  Held(r, e)'
    BY DEF NoMessageLost, Present
  <2>1. Held(r, e)
    BY <1>2 DEF EnqueueNotify, Wake, NoMessageLost, Present
  <2> QED  BY <1>2, <2>1 DEF EnqueueNotify, Wake, Held, InHand, ControlInv, InLog, Serves
<1>3. CASE Terminate
  <2> SUFFICES ASSUME NEW r \in Streams, r \in Present', NEW e \in 1..sent', fate'[r][e] = "none", lpc' # "crashed"
             PROVE  Held(r, e)'
    BY DEF NoMessageLost, Present
  <2>1. Held(r, e)
    BY <1>3 DEF Terminate, NoMessageLost, Present
  <2> QED  BY <1>3, <2>1 DEF Terminate, Held, InHand, ControlInv, InLog, Serves
<1>4. CASE TerminateNotify
  <2> SUFFICES ASSUME NEW r \in Streams, r \in Present', NEW e \in 1..sent', fate'[r][e] = "none", lpc' # "crashed"
             PROVE  Held(r, e)'
    BY DEF NoMessageLost, Present
  <2>1. Held(r, e)
    BY <1>4 DEF TerminateNotify, Wake, NoMessageLost, Present
  <2> QED  BY <1>4, <2>1 DEF TerminateNotify, Wake, Held, InHand, ControlInv, InLog, Serves
<1>5. CASE TerminateJoined
  <2> SUFFICES ASSUME NEW r \in Streams, r \in Present', NEW e \in 1..sent', fate'[r][e] = "none", lpc' # "crashed"
             PROVE  Held(r, e)'
    BY DEF NoMessageLost, Present
  <2>1. Held(r, e)
    BY <1>5 DEF TerminateJoined, NoMessageLost, Present
  <2> QED  BY <1>5, <2>1 DEF TerminateJoined, Held, InHand, ControlInv, InLog, Serves
<1>6. ASSUME NEW s \in Streams, NEW l \in MinLevels, set_min_log_level(s, l) PROVE NoMessageLost'
  <2> SUFFICES ASSUME NEW r \in Streams, r \in Present', NEW e \in 1..sent', fate'[r][e] = "none", lpc' # "crashed"
             PROVE  Held(r, e)'
    BY DEF NoMessageLost, Present
  <2>1. Held(r, e)
    BY <1>6 DEF set_min_log_level, NoMessageLost, Present
  <2> QED  BY <1>6, <2>1 DEF set_min_log_level, Held, InHand, ControlInv, InLog, Serves
<1>7. CASE Swap
  <2> SUFFICES ASSUME NEW r \in Streams, r \in Present', NEW e \in 1..sent', fate'[r][e] = "none", lpc' # "crashed"
             PROVE  Held(r, e)'
    BY DEF NoMessageLost, Present
  <2>1. Held(r, e) /\ ~InHand(r, e)
    BY <1>7 DEF Swap, NoMessageLost, Present, InHand, ControlInv, InLog
  <2>2. m_events \in Seq(log_event) /\ local \in Seq(log_event) /\ m_event_queue[r] \in Seq(log_event)
    BY DEF TypeOK
  <2> QED  BY <1>7, <2>1, <2>2, InFacts DEF Swap, Held, InHand
<1>8. CASE NextEvent
  <2> SUFFICES ASSUME NEW r \in Streams, r \in Present', NEW e \in 1..sent', fate'[r][e] = "none", lpc' # "crashed"
             PROVE  Held(r, e)'
    BY DEF NoMessageLost, Present
  <2>1. Held(r, e)
    BY <1>8 DEF NextEvent, InMap, Present, NoMessageLost, Present
  <2> QED  BY <1>8, <2>1 DEF NextEvent, InMap, Present, Held, InHand, ControlInv, InLog, Serves
<1>9. CASE EventDone
  <2> SUFFICES ASSUME NEW r \in Streams, r \in Present', NEW e \in 1..sent', fate'[r][e] = "none", lpc' # "crashed"
             PROVE  Held(r, e)'
    BY DEF NoMessageLost, Present
  <2>1. Held(r, e)
    BY <1>9 DEF EventDone, NoMessageLost, Present
  <2>2. m_events \in Seq(log_event) /\ local \in Seq(log_event) /\ m_event_queue[r] \in Seq(log_event)
    BY DEF TypeOK
  <2>3. Tail(local) \in Seq(log_event) /\ r \notin todo \cup {cur}
    BY <1>9, <2>2, ConstantsAssumption DEF EventDone, ControlInv, InLog, Serves
  <2>4. InHand(r, e) => InHand(r, e)'
    BY <1>9, <2>3, InFacts DEF EventDone, InHand
  <2> QED  BY <1>9, <2>1, <2>4 DEF EventDone, Held
<1>10. ASSUME NEW s \in Streams, Lookup(s) PROVE NoMessageLost'
  <2> SUFFICES ASSUME NEW r \in Streams, r \in Present', NEW e \in 1..sent', fate'[r][e] = "none", lpc' # "crashed"
             PROVE  Held(r, e)'
    BY DEF NoMessageLost, Present
  <2>1. Held(r, e)
    BY <1>10 DEF Lookup, NoMessageLost, Present
  <2>2. r \in todo \cup {cur} => r \in (todo \cup {cur})'
    BY <1>10, ConstantsAssumption DEF Lookup, ControlInv, Serves
  <2> QED  BY <1>10, <2>1, <2>2 DEF Lookup, Held, InHand
<1>11. CASE Join
  <2> SUFFICES ASSUME NEW r \in Streams, r \in Present', NEW e \in 1..sent', fate'[r][e] = "none", lpc' # "crashed"
             PROVE  Held(r, e)'
    BY DEF NoMessageLost, Present
  <2>1. Held(r, e)
    BY <1>11 DEF Join, NoMessageLost, Present
  <2>3. m_event_queue[cur] = <<>> /\ m_event_queue'[r] = m_event_queue[r]
    BY <1>11 DEF Join, TypeOK, QueueInv, MapInv, ControlInv, Serves
  <2> QED  BY <1>11, <2>1, <2>3 DEF Join, Held, InHand, ControlInv, InLog
<1>12. CASE RetryEnqueue
  <2> SUFFICES ASSUME NEW r \in Streams, r \in Present', NEW e \in 1..sent', fate'[r][e] = "none", lpc' # "crashed"
             PROVE  Held(r, e)'
    BY DEF NoMessageLost, Present
  <2>1. Held(r, e)
    BY <1>12 DEF RetryEnqueue, NoMessageLost, Present
  <2>2. m_events \in Seq(log_event) /\ local \in Seq(log_event) /\ m_event_queue[r] \in Seq(log_event)
    BY DEF TypeOK
  <2>3. Head(local) \in log_event
    BY <1>12, HeadTypes DEF RetryEnqueue, InLog
  <2>4. m_event_queue'[r] = IF r = cur THEN Append(m_event_queue[r], Head(local)) ELSE m_event_queue[r]
    BY <1>12 DEF RetryEnqueue, TypeOK
  <2>5. In(m_event_queue[r], e) => In(m_event_queue'[r], e)
    BY <2>2, <2>3, <2>4, InFacts
  <2>6. InHand(r, e) => InHand(r, e)' \/ In(m_event_queue'[r], e)
    BY <1>12, <2>2, <2>3, <2>4, InFacts DEF RetryEnqueue, InHand
  <2> QED  BY <1>12, <2>1, <2>5, <2>6 DEF RetryEnqueue, Held
<1>13. CASE LogWriteTrue
  <2> SUFFICES ASSUME NEW r \in Streams, r \in Present', NEW e \in 1..sent', fate'[r][e] = "none", lpc' # "crashed"
             PROVE  Held(r, e)'
    BY DEF NoMessageLost, Present
  <2>4. e \in Id
    BY <1>13, ConstantsAssumption DEF LogWriteTrue, TypeOK, Id, appVars
  <2>1. cur \in Streams /\ Head(local) \in log_event
    BY <1>13, HeadTypes DEF LogWriteTrue, ControlInv, InLog, Serves
  <2>2. fate[r][e] = "none" /\ ~(r = cur /\ e = Head(local).id)
    BY <1>13, <2>1, <2>4, WriteSettles DEF LogWriteTrue
  <2>3. Held(r, e)
    BY <1>13, <2>2 DEF LogWriteTrue, NoMessageLost, Present
  <2> QED  BY <1>13, <2>2, <2>3 DEF LogWriteTrue, Held, InHand
<1>14. CASE LogWriteFalse
  <2> SUFFICES ASSUME NEW r \in Streams, r \in Present', NEW e \in 1..sent', fate'[r][e] = "none", lpc' # "crashed"
             PROVE  Held(r, e)'
    BY DEF NoMessageLost, Present
  <2>1. Held(r, e)
    BY <1>14 DEF LogWriteFalse, WriteFalse, NoMessageLost, Present
  <2> QED  BY <1>14, <2>1 DEF LogWriteFalse, WriteFalse, Held, InHand, ControlInv, InLog, Serves
<1>15. CASE Spawn
  <2> SUFFICES ASSUME NEW r \in Streams, r \in Present', NEW e \in 1..sent', fate'[r][e] = "none", lpc' # "crashed"
             PROVE  Held(r, e)'
    BY DEF NoMessageLost, Present
  <2>1. Held(r, e)
    BY <1>15 DEF Spawn, NoMessageLost, Present
  <2>3. m_event_queue[cur] = <<>> /\ m_event_queue'[r] = m_event_queue[r]
    BY <1>15 DEF Spawn, TypeOK, QueueInv, MapInv, ControlInv, Serves
  <2> QED  BY <1>15, <2>1, <2>3 DEF Spawn, Held, InHand, ControlInv, InLog
<1>16. CASE SpawnFails
  <2> SUFFICES ASSUME NEW r \in Streams, r \in Present', NEW e \in 1..sent', fate'[r][e] = "none", lpc' # "crashed"
             PROVE  Held(r, e)'
    BY DEF NoMessageLost, Present
  <2>4. e \in Id
    BY <1>16, ConstantsAssumption DEF SpawnFails, TypeOK, Id, appVars
  <2>1. cur \in Streams /\ Head(local) \in log_event
    BY <1>16, HeadTypes DEF SpawnFails, ControlInv, InLog, Serves
  <2>2. fate[r][e] = "none" /\ ~(r = cur /\ e = Head(local).id)
    BY <1>16, <2>1, <2>4, SettleSettles DEF SpawnFails, Fate
  <2>3. Held(r, e)
    BY <1>16, <2>2 DEF SpawnFails, NoMessageLost, Present
  <2> QED  BY <1>16, <2>2, <2>3 DEF SpawnFails, Held, InHand
<1>17. CASE FirstEnqueue
  <2> SUFFICES ASSUME NEW r \in Streams, r \in Present', NEW e \in 1..sent', fate'[r][e] = "none", lpc' # "crashed"
             PROVE  Held(r, e)'
    BY DEF NoMessageLost, Present
  <2>1. Held(r, e)
    BY <1>17 DEF FirstEnqueue, NoMessageLost, Present
  <2>2. m_events \in Seq(log_event) /\ local \in Seq(log_event) /\ m_event_queue[r] \in Seq(log_event)
    BY DEF TypeOK
  <2>3. Head(local) \in log_event
    BY <1>17, HeadTypes DEF FirstEnqueue, InLog
  <2>4. m_event_queue'[r] = IF r = cur THEN Append(m_event_queue[r], Head(local)) ELSE m_event_queue[r]
    BY <1>17 DEF FirstEnqueue, TypeOK
  <2>5. In(m_event_queue[r], e) => In(m_event_queue'[r], e)
    BY <2>2, <2>3, <2>4, InFacts
  <2>6. InHand(r, e) => InHand(r, e)' \/ In(m_event_queue'[r], e)
    BY <1>17, <2>2, <2>3, <2>4, InFacts DEF FirstEnqueue, InHand
  <2> QED  BY <1>17, <2>1, <2>5, <2>6 DEF FirstEnqueue, Held
<1>18. CASE Check
  <2> SUFFICES ASSUME NEW r \in Streams, r \in Present', NEW e \in 1..sent', fate'[r][e] = "none", lpc' # "crashed"
             PROVE  Held(r, e)'
    BY DEF NoMessageLost, Present
  <2>1. Held(r, e)
    BY <1>18 DEF Check, NoMessageLost, Present
  <2> QED  BY <1>18, <2>1 DEF Check, Held, InHand, ControlInv, InLog, Serves
<1>19. CASE SpuriousWake
  <2> SUFFICES ASSUME NEW r \in Streams, r \in Present', NEW e \in 1..sent', fate'[r][e] = "none", lpc' # "crashed"
             PROVE  Held(r, e)'
    BY DEF NoMessageLost, Present
  <2>1. Held(r, e)
    BY <1>19 DEF SpuriousWake, NoMessageLost, Present
  <2> QED  BY <1>19, <2>1 DEF SpuriousWake, Held, InHand, ControlInv, InLog, Serves
<1>20. ASSUME NEW s \in Streams, Scan(s) PROVE NoMessageLost'
  <2> SUFFICES ASSUME NEW r \in Streams, r \in Present', NEW e \in 1..sent', fate'[r][e] = "none", lpc' # "crashed"
             PROVE  Held(r, e)'
    BY DEF NoMessageLost, Present
  <2>1. Held(r, e)
    BY <1>20 DEF Scan, NoMessageLost, Present
  <2> QED  BY <1>20, <2>1 DEF Scan, Held, InHand, ControlInv, InLog, Serves
<1>21. CASE ScanJoin
  <2> SUFFICES ASSUME NEW r \in Streams, r \in Present', NEW e \in 1..sent', fate'[r][e] = "none", lpc' # "crashed"
             PROVE  Held(r, e)'
    BY DEF NoMessageLost, Present
  <2>1. Held(r, e)
    BY <1>21 DEF ScanJoin, NoMessageLost, Present
  <2>3. m_event_queue[cur] = <<>> /\ m_event_queue'[r] = m_event_queue[r]
    BY <1>21 DEF ScanJoin, TypeOK, QueueInv, MapInv, ControlInv, Serves
  <2> QED  BY <1>21, <2>1, <2>3 DEF ScanJoin, Held, InHand, ControlInv, InLog
<1>22. CASE ScanDone
  <2> SUFFICES ASSUME NEW r \in Streams, r \in Present', NEW e \in 1..sent', fate'[r][e] = "none", lpc' # "crashed"
             PROVE  Held(r, e)'
    BY DEF NoMessageLost, Present
  <2>1. Held(r, e)
    BY <1>22 DEF ScanDone, NoMessageLost, Present
  <2> QED  BY <1>22, <2>1 DEF ScanDone, Held, InHand, ControlInv, InLog, Serves
<1>23. CASE Recheck
  <2> SUFFICES ASSUME NEW r \in Streams, r \in Present', NEW e \in 1..sent', fate'[r][e] = "none", lpc' # "crashed"
             PROVE  Held(r, e)'
    BY DEF NoMessageLost, Present
  <2>1. Held(r, e)
    BY <1>23 DEF Recheck, NoMessageLost, Present
  <2> QED  BY <1>23, <2>1 DEF Recheck, Held, InHand, ControlInv, InLog, Serves
<1>24. ASSUME NEW s \in Streams, RetryTry(s) PROVE NoMessageLost'
  <2> SUFFICES ASSUME NEW r \in Streams, r \in Present', NEW e \in 1..sent', fate'[r][e] = "none", lpc' # "crashed"
             PROVE  Held(r, e)'
    BY DEF NoMessageLost, Present
  <2>1. Held(r, e)
    BY <1>24 DEF RetryTry, Goto, NoMessageLost, Present
  <2> QED  BY <1>24, <2>1 DEF RetryTry, Goto, Held, InHand, ControlInv, InLog, Serves
<1>25. ASSUME NEW s \in Streams, RetryWriteTrue(s) PROVE NoMessageLost'
  <2> SUFFICES ASSUME NEW r \in Streams, r \in Present', NEW e \in 1..sent', fate'[r][e] = "none", lpc' # "crashed"
             PROVE  Held(r, e)'
    BY DEF NoMessageLost, Present
  <2>4. e \in Id
    BY <1>25, ConstantsAssumption DEF RetryWriteTrue, TypeOK, Id, appVars
  <2>1. s \in Streams /\ Head(m_event_queue[s]) \in log_event
    BY <1>25, HeadTypes DEF RetryWriteTrue, ControlInv, InLog, Serves
  <2>2. fate[r][e] = "none" /\ ~(r = s /\ e = Head(m_event_queue[s]).id)
    BY <1>25, <2>1, <2>4, WriteSettles DEF RetryWriteTrue
  <2>3. Held(r, e)
    BY <1>25, <2>2 DEF RetryWriteTrue, NoMessageLost, Present
  <2> QED  BY <1>25, <2>2, <2>3 DEF RetryWriteTrue, Held, InHand
<1>26. ASSUME NEW s \in Streams, RetryWriteFalse(s) PROVE NoMessageLost'
  <2> SUFFICES ASSUME NEW r \in Streams, r \in Present', NEW e \in 1..sent', fate'[r][e] = "none", lpc' # "crashed"
             PROVE  Held(r, e)'
    BY DEF NoMessageLost, Present
  <2>1. Held(r, e)
    BY <1>26 DEF RetryWriteFalse, WriteFalse, Goto, NoMessageLost, Present
  <2> QED  BY <1>26, <2>1 DEF RetryWriteFalse, WriteFalse, Goto, Held, InHand, ControlInv, InLog, Serves
<1>27. ASSUME NEW s \in Streams, RetryPop(s) PROVE NoMessageLost'
  <2> SUFFICES ASSUME NEW r \in Streams, r \in Present', NEW e \in 1..sent', fate'[r][e] = "none", lpc' # "crashed"
             PROVE  Held(r, e)'
    BY DEF NoMessageLost, Present
  <2>1. Held(r, e)
    BY <1>27 DEF RetryPop, NoMessageLost, Present
  <2>2. m_events \in Seq(log_event) /\ local \in Seq(log_event) /\ m_event_queue[r] \in Seq(log_event)
    BY DEF TypeOK
  <2>3. r = s => e # Head(m_event_queue[s]).id
    BY <1>27 DEF RetryPop, QueueInv
  <2>4. In(m_event_queue[r], e) => In(m_event_queue'[r], e)
    BY <1>27, <2>2, <2>3, InFacts DEF RetryPop, TypeOK
  <2> QED  BY <1>27, <2>1, <2>4 DEF RetryPop, Held, InHand
<1>28. ASSUME NEW s \in Streams, RetryExpire(s) PROVE NoMessageLost'
  <2> SUFFICES ASSUME NEW r \in Streams, r \in Present', NEW e \in 1..sent', fate'[r][e] = "none", lpc' # "crashed"
             PROVE  Held(r, e)'
    BY DEF NoMessageLost, Present
  <2>2. m_events \in Seq(log_event) /\ local \in Seq(log_event) /\ m_event_queue[r] \in Seq(log_event)
    BY DEF TypeOK
  <2>3. PICK i \in DOMAIN m_event_queue[s] :
          /\ m_event_queue' = [m_event_queue EXCEPT ![s] = RemoveAt(@, i)]
          /\ Settle(s, m_event_queue[s][i], "expired")
    BY <1>28 DEF RetryExpire
  <2>4. m_event_queue[s][i] \in log_event /\ "expired" \in Fate /\ e \in Id
    BY <1>28, ConstantsAssumption DEF RetryExpire, Locked, Goto, TypeOK, Fate, Id
  <2>5. fate[r][e] = "none" /\ ~(r = s /\ e = m_event_queue[s][i].id)
    BY <2>3, <2>4, SettleSettles
  <2>1. Held(r, e)
    BY <1>28, <2>5 DEF RetryExpire, Locked, Goto, NoMessageLost, Present
  <2>6. In(m_event_queue[r], e) => In(m_event_queue'[r], e)
    BY <2>2, <2>3, <2>5, InFacts DEF TypeOK
  <2> QED  BY <1>28, <2>1, <2>6 DEF RetryExpire, Locked, Goto, Held, InHand
<1>29. ASSUME NEW s \in Streams, RetryExpireDone(s) PROVE NoMessageLost'
  <2> SUFFICES ASSUME NEW r \in Streams, r \in Present', NEW e \in 1..sent', fate'[r][e] = "none", lpc' # "crashed"
             PROVE  Held(r, e)'
    BY DEF NoMessageLost, Present
  <2>1. Held(r, e)
    BY <1>29 DEF RetryExpireDone, Locked, Goto, NoMessageLost, Present
  <2> QED  BY <1>29, <2>1 DEF RetryExpireDone, Locked, Goto, Held, InHand, ControlInv, InLog, Serves
<1>30. ASSUME NEW s \in Streams, RetryCheck(s) PROVE NoMessageLost'
  <2> SUFFICES ASSUME NEW r \in Streams, r \in Present', NEW e \in 1..sent', fate'[r][e] = "none", lpc' # "crashed"
             PROVE  Held(r, e)'
    BY DEF NoMessageLost, Present
  <2>1. Held(r, e)
    BY <1>30 DEF RetryCheck, Goto, NoMessageLost, Present
  <2> QED  BY <1>30, <2>1 DEF RetryCheck, Goto, Held, InHand, ControlInv, InLog, Serves
<1>37. ASSUME NEW s \in Streams, RetryStop(s) PROVE NoMessageLost'
  <2> SUFFICES ASSUME NEW r \in Streams, r \in Present', NEW e \in 1..sent', fate'[r][e] = "none", lpc' # "crashed"
             PROVE  Held(r, e)'
    BY DEF NoMessageLost, Present
  <2>1. Held(r, e)
    BY <1>37 DEF RetryStop, Goto, NoMessageLost, Present
  <2> QED  BY <1>37, <2>1 DEF RetryStop, Goto, Held, InHand, ControlInv, InLog, Serves
<1>31. CASE UNCHANGED vars
  BY <1>31 DEF NoMessageLost, Present, Held, InHand
<1>32. ASSUME NEW s \in Streams, add_output_stream(s) PROVE NoMessageLost'
  <2> SUFFICES ASSUME NEW r \in Streams, r \in Present', NEW e \in 1..sent', fate'[r][e] = "none", lpc' # "crashed"
             PROVE  Held(r, e)'
    BY DEF NoMessageLost, Present
  <2>1. e \in 1..sent /\ e \in Id
    BY <1>32, ConstantsAssumption DEF add_output_stream, TypeOK, Id
  <2>2. CASE r = s
    <3>1. \/ In(m_events, e)
          \/ local # <<>> /\ In(Tail(local), e)
          \/ local # <<>> /\ Head(local).id = e /\ (lpc = "event" \/ s \in todo')
      BY <1>32, <2>1, <2>2 DEF add_output_stream, TypeOK
    <3> QED  BY <1>32, <2>2, <3>1 DEF add_output_stream, Held, InHand
  <2>3. CASE r # s
    <3>1. Held(r, e)
      BY <1>32, <2>1, <2>3 DEF add_output_stream, TypeOK, NoMessageLost, Present
    <3> QED  BY <1>32, <2>3, <3>1 DEF add_output_stream, Held, InHand
  <2> QED  BY <2>2, <2>3
<1>33. ASSUME NEW s \in Streams, DeleteStream(s) PROVE NoMessageLost'
  <2> SUFFICES ASSUME NEW r \in Streams, r \in Present', NEW e \in 1..sent', fate'[r][e] = "none", lpc' # "crashed"
             PROVE  Held(r, e)'
    BY DEF NoMessageLost, Present
  <2>1. Held(r, e)
    BY <1>33 DEF DeleteStream, InUse, TypeOK, NoMessageLost, Present
  <2> QED  BY <1>33, <2>1 DEF DeleteStream, InUse, Held, InHand, ControlInv, InLog, Serves
<1>34. ASSUME NEW s \in Streams, EraseStream(s) PROVE NoMessageLost'
  <2> SUFFICES ASSUME NEW r \in Streams, r \in Present', NEW e \in 1..sent', fate'[r][e] = "none", lpc' # "crashed"
             PROVE  Held(r, e)'
    BY DEF NoMessageLost, Present
  <2>1. Held(r, e)
    BY <1>34 DEF EraseStream, TypeOK, NoMessageLost, Present
  <2>2. r # s
    BY <1>34 DEF EraseStream, TypeOK, Present
  <2> QED  BY <1>34, <2>1, <2>2 DEF EraseStream, Held, InHand, ControlInv, InLog, Serves
<1>35. CASE LogFault
  <2> SUFFICES ASSUME NEW r \in Streams, r \in Present', NEW e \in 1..sent', fate'[r][e] = "none", lpc' # "crashed"
             PROVE  Held(r, e)'
    BY DEF NoMessageLost, Present
  <2>1. Held(r, e)
    BY <1>35 DEF LogFault, NoMessageLost, Present
  <2> QED  BY <1>35, <2>1 DEF LogFault, Held, InHand, ControlInv, InLog, Serves
<1>36. ASSUME NEW s \in Streams, RetryFault(s) PROVE NoMessageLost'
  <2> SUFFICES ASSUME NEW r \in Streams, r \in Present', NEW e \in 1..sent', fate'[r][e] = "none", lpc' # "crashed"
             PROVE  Held(r, e)'
    BY DEF NoMessageLost, Present
  <2>1. Held(r, e)
    BY <1>36 DEF RetryFault, NoMessageLost, Present
  <2> QED  BY <1>36, <2>1 DEF RetryFault, Held, InHand, ControlInv, InLog, Serves
<1> QED
  BY <1>1, <1>2, <1>3, <1>4, <1>5, <1>6, <1>7, <1>8, <1>9, <1>10, <1>11, <1>12, <1>13, <1>14,
     <1>15, <1>16, <1>17, <1>18, <1>19, <1>20, <1>21, <1>22, <1>23, <1>24, <1>25, <1>26, <1>27,
     <1>28, <1>29, <1>30, <1>31, <1>32, <1>33, <1>34, <1>35, <1>36, <1>37 DEF Next, App, LogStep, RetryStep, Ended
-----------------------------------------------------------------------------
\* The inductive invariant.
LEMMA IInvInvariant == Spec => []IInv
<1>1. IInv /\ [Next]_vars => IInv'
  BY TypeStep, ControlStep, MapStep, QueueStep, ScanStep, RemovalStep, LossStep, DrainStep DEF IInv
<1> QED  BY <1>1, InitIInv, PTL DEF Spec

\* log_thread, retry_thread: the state of every thread and queue stays within its type.
THEOREM TypeCorrect == Spec => []TypeOK
<1>1. IInv => TypeOK
  BY DEF IInv
<1> QED  BY <1>1, IInvInvariant, PTL

\* log_thread::do_run: the logging thread never sleeps on m_cond while a message or a stop
\* request waits for it and nobody is about to notify it.
THEOREM WakeupsArrive == Spec => []NoLostWakeup
<1>1. Init => NoLostWakeup
  BY DEF Init, NoLostWakeup
<1> QED  BY <1>1, WakeupStep, IInvInvariant, PTL DEF Spec

\* log_thread::log: the logging thread writes to a stream only when no retry thread of that
\* stream exists, so that a stream needs no lock of its own.
THEOREM WritesExclude == Spec => []ExclusiveWrite
<1>1. IInv => ExclusiveWrite
  BY DEF IInv, ExclusiveWrite, ControlInv, MapInv, Serves
<1> QED  BY <1>1, IInvInvariant, PTL

\* Every message accepted by enqueue is, for every stream, either settled or still held by
\* m_events, by the batch or by the queue of the retry thread.
THEOREM NothingLost == Spec => []NoMessageLost
<1>1. IInv => NoMessageLost
  BY DEF IInv
<1> QED  BY <1>1, IInvInvariant, PTL

\* log_thread::terminate: when do_run returns, every message accepted before the stop request
\* has been settled on every stream.
THEOREM StopsDrained == Spec => []TerminateDrains
<1>1. IInv => TerminateDrains
  BY DEF IInv
<1> QED  BY <1>1, IInvInvariant, PTL

\* logger::remove_output_stream: the process crashes only if a stream was removed while a message
\* was being dispatched or before the last call that its retry thread makes on it
\* (retry_thread.cpp:99), or in the scan of m_retry_map.
THEOREM RemovalSafe == Spec => []CrashExplained
<1>1. IInv => CrashExplained
  BY DEF IInv, RemovalInv
<1> QED  BY <1>1, IInvInvariant, PTL
=============================================================================
