------------------------- MODULE LogThreadRefinement -------------------------
(***************************************************************************)
(* LogThread implements Delivery, for every set of streams and threads and *)
(* any number of messages.                                                 *)
(*                                                                         *)
(* The argument counts: messages are numbered as they were accepted, so    *)
(* the batch and m_events are an interval of numbers, and for a stream     *)
(* that is served all messages up to a number have been dispatched: they   *)
(* have met their fate or wait, in order, in the queue of its retry        *)
(* thread; the others have met none.                                       *)
(***************************************************************************)
EXTENDS LogThreadProofs

\* The number of messages that have left the batch.
taken == sent - (Len(local) + Len(m_events))

\* Messages 1..done(s) have been dispatched to s.
done(s) == IF lpc \in InLog /\ s \notin todo \cup {cur} THEN taken + 1 ELSE taken

\* The logging thread comes to s: it is in the map, or in hand.
Served(s) == s \in InMap \/ (lpc \in InLog /\ s = cur)

\* The batch and m_events hold the latest messages, in order.
BatchInv ==
    /\ Len(local) + Len(m_events) <= sent
    /\ \A i \in DOMAIN local : local[i].id = taken + i
    /\ \A i \in DOMAIN m_events : m_events[i].id = taken + (Len(local) + i)

\* What is left of the iteration over m_streams.
TodoInv ==
    /\ todo \subseteq InMap
    /\ lpc # "crashed" => cur \notin todo
    /\ lpc \notin InLog \cup {"crashed"} => todo = {}

\* No message has met a fate on a stream that has not been added yet.
OutsideInv == \A s \in Streams : m_streams[s] = "outside" => \A d \in Id : fate[s][d] = "none"

\* A retry queue is ordered and unsettled, but for the message just written,
\* and nothing older than a message in it is left elsewhere.
OrderInv ==
    \A s \in Streams :
        /\ \A i, j \in DOMAIN m_event_queue[s] :
              i < j => m_event_queue[s][i].id < m_event_queue[s][j].id
        /\ \A i \in DOMAIN m_event_queue[s] :
              /\ m_event_queue[s][i].id <= sent
              /\ \A d \in Id : d < m_event_queue[s][i].id =>
                    fate[s][d] # "none" \/ In(m_event_queue[s], d)
              /\ fate[s][m_event_queue[s][i].id] = "none" \/ (rpc[s] = "pop" /\ i = 1)

\* Where the dispatch to a stream stands.
TurnInv ==
    lpc # "crashed" => \A s \in Streams : Served(s) =>
        /\ \A d \in Id : d <= done(s) => fate[s][d] # "none" \/ In(m_event_queue[s], d)
        /\ \A d \in Id : d > done(s) => fate[s][d] = "none"
        /\ \A i \in DOMAIN m_event_queue[s] : m_event_queue[s][i].id <= done(s)

RInv == BatchInv /\ TodoInv /\ OutsideInv /\ OrderInv /\ TurnInv
-----------------------------------------------------------------------------
\* Nothing has been accepted at first.
LEMMA InitRInv == Init => RInv
<1> SUFFICES ASSUME Init PROVE RInv
  OBVIOUS
<1>1. local = <<>> /\ m_events = <<>> /\ sent = 0 /\ todo = {} /\ cur = NoStream /\ lpc = "swap"
  BY DEF Init
<1>2. /\ \A s \in Streams : m_event_queue[s] = <<>>
      /\ \A s \in Streams, d \in Id : fate[s][d] = "none"
  BY DEF Init
<1>3. taken = 0 /\ \A s \in Streams : done(s) = 0
  <2>1. Len(local) = 0 /\ Len(m_events) = 0 /\ lpc \notin InLog
    BY <1>1 DEF InLog
  <2>2. taken = 0
    <3>1. sent = 0
      BY <1>1
    <3> HIDE DEF Init
    <3> QED  BY <2>1, <3>1 DEF taken
  <2> QED  BY <2>1, <2>2 DEF done
<1>4. BatchInv /\ TodoInv
  BY <1>1, <1>3 DEF BatchInv, TodoInv, InLog
<1>5. OutsideInv /\ OrderInv
  BY <1>2 DEF OutsideInv, OrderInv
<1>6. TurnInv
  BY <1>2, <1>3 DEF TurnInv, Id
<1> QED
  BY <1>4, <1>5, <1>6 DEF RInv

\* The types of what the argument is about.
LEMMA Types ==
    ASSUME IInv
    PROVE  /\ local \in Seq(log_event) /\ m_events \in Seq(log_event)
           /\ sent \in Nat /\ Id \subseteq Nat \ {0}
           /\ \A s \in Streams : m_event_queue[s] \in Seq(log_event)
           /\ \A s \in Streams : \A i \in DOMAIN m_event_queue[s] : m_event_queue[s][i].id \in Id
           /\ lpc \in InLog => local # <<>> /\ Head(local) \in log_event /\ Head(local).id \in Id
           /\ fate \in [Streams -> [Id -> Fate]] /\ last \in [Streams -> 0..MaxEvents]
<1>1. TypeOK
  BY DEF IInv
<1>2. \A s \in Streams : m_event_queue[s] \in Seq(log_event)
  BY <1>1 DEF TypeOK
<1>3. \A x \in log_event : x.id \in Id
  BY DEF log_event
<1> QED
  BY <1>1, <1>2, <1>3, HeadTypes, ConstantsAssumption DEF TypeOK, Id, IInv, ControlInv

\* How far the dispatch has come is a number.
LEMMA DoneTypes ==
    ASSUME IInv, RInv
    PROVE  /\ taken \in Nat /\ taken <= sent /\ sent = taken + (Len(local) + Len(m_events))
           /\ \A s \in Streams : done(s) \in Nat /\ done(s) <= sent
<1>1. /\ Len(local) \in Nat /\ Len(m_events) \in Nat /\ sent \in Nat
      /\ lpc \in InLog => Len(local) > 0
  BY Types
<1>2. taken \in Nat /\ sent = taken + (Len(local) + Len(m_events))
  BY <1>1 DEF taken, RInv, BatchInv
<1> QED
  BY <1>1, <1>2 DEF done
-----------------------------------------------------------------------------
(***************************************************************************)
(* Steps that accept, hand over and settle nothing.                        *)
(***************************************************************************)

\* Streams that are served were served, and the dispatch to them stands where it stood.
SameTurn == lpc' # "crashed" => \A s \in Streams : Served(s)' => Served(s) /\ done(s)' = done(s)

\* The rest of the iteration stays within the map and ends with it.
TodoStep == TodoInv' /\ \A s \in Streams : m_streams'[s] = "outside" => m_streams[s] = "outside"

Quiet ==
    /\ UNCHANGED <<fate, sent, local, m_events, m_event_queue>>
    /\ \A s \in Streams : rpc[s] = "pop" => rpc'[s] = "pop"
    /\ lpc # "crashed"
    /\ TodoStep /\ SameTurn

LEMMA QuietStep == IInv /\ RInv /\ Quiet => RInv'
<1> SUFFICES ASSUME IInv, RInv, Quiet PROVE RInv'
  OBVIOUS
<1>1. UNCHANGED <<fate, sent, local, m_events, m_event_queue>> /\ taken' = taken
  BY DEF Quiet, taken
<1>2. BatchInv'
  BY <1>1 DEF RInv, BatchInv
<1>3. TodoInv' /\ OutsideInv'
  BY <1>1 DEF RInv, OutsideInv, Quiet, TodoStep
<1>4. OrderInv'
  BY <1>1 DEF RInv, OrderInv, Quiet
<1>5. TurnInv'
  BY <1>1 DEF RInv, TurnInv, Quiet, SameTurn
<1> QED
  BY <1>2, <1>3, <1>4, <1>5 DEF RInv

\* A queue found empty, or that of a thread that does not exist yet, is emptied.
LEMMA EmptyKept ==
    ASSUME IInv, lpc # "crashed",
           lpc \in {"join", "scanjoin", "spawn"},
           m_event_queue' = [m_event_queue EXCEPT ![cur] = <<>>]
    PROVE  m_event_queue' = m_event_queue
  BY DEF IInv, TypeOK, QueueInv, MapInv, ControlInv, Serves

\* The steps of that kind.
QuietNext ==
    \/ \E t \in AppThreads : EnqueueNotify(t)
    \/ Terminate \/ TerminateNotify \/ TerminateJoined \/ SpuriousWake
    \/ \E s \in Streams, l \in MinLevels : set_min_log_level(s, l)
    \/ \E s \in Streams : DeleteStream(s) \/ EraseStream(s) \/ Lookup(s) \/ Scan(s)
    \/ NextEvent \/ Join \/ LogWriteFalse \/ Spawn \/ Check \/ ScanJoin \/ ScanDone \/ Recheck
    \/ LogFault
    \/ \E s \in Streams : \/ RetryTry(s) \/ RetryWriteFalse(s) \/ RetryExpireDone(s)
                          \/ RetryCheck(s) \/ RetryStop(s) \/ RetryFault(s)

LEMMA QuietActions == IInv /\ RInv /\ lpc # "crashed" /\ QuietNext => Quiet
<1> SUFFICES ASSUME IInv, RInv, lpc # "crashed", QuietNext PROVE Quiet
  OBVIOUS
<1> USE ConstantsAssumption
    DEF vars, logVars, retryVars, mapVars, appVars, sinkVars, Quiet, TodoStep, SameTurn, TodoInv,
        Served, done, taken, InMap, RInv, IInv, TypeOK, ControlInv, InLog, Serves
<1>1. ASSUME NEW t \in AppThreads, EnqueueNotify(t) PROVE Quiet
  BY <1>1 DEF EnqueueNotify, Wake
<1>2. CASE Terminate
  BY <1>2 DEF Terminate
<1>3. CASE TerminateNotify
  BY <1>3 DEF TerminateNotify, Wake
<1>4. CASE TerminateJoined
  BY <1>4 DEF TerminateJoined
<1>5. ASSUME NEW s \in Streams, NEW l \in MinLevels, set_min_log_level(s, l) PROVE Quiet
  BY <1>5 DEF set_min_log_level
<1>6. ASSUME NEW s \in Streams, DeleteStream(s) PROVE Quiet
  BY <1>6 DEF DeleteStream
<1>7. ASSUME NEW s \in Streams, EraseStream(s) PROVE Quiet
  BY <1>7 DEF EraseStream
<1>8. CASE NextEvent
  BY <1>8 DEF NextEvent
<1>9. ASSUME NEW s \in Streams, Lookup(s) PROVE Quiet
  BY <1>9 DEF Lookup
<1>10. CASE Join
  <2>1. m_event_queue' = m_event_queue
    BY <1>10, EmptyKept DEF Join
  <2> QED  BY <1>10, <2>1 DEF Join
<1>11. CASE LogWriteFalse
  BY <1>11 DEF LogWriteFalse, WriteFalse
<1>12. CASE Spawn
  <2>1. m_event_queue' = m_event_queue
    BY <1>12, EmptyKept DEF Spawn
  <2>2. cur \in Streams /\ rpc[cur] = "none"
    BY <1>12 DEF Spawn, MapInv
  <2> QED  BY <1>12, <2>1, <2>2 DEF Spawn
<1>13. CASE Check
  BY <1>13 DEF Check
<1>14. CASE SpuriousWake
  BY <1>14 DEF SpuriousWake
<1>15. ASSUME NEW s \in Streams, Scan(s) PROVE Quiet
  BY <1>15 DEF Scan
<1>16. CASE ScanJoin
  <2>1. m_event_queue' = m_event_queue
    BY <1>16, EmptyKept DEF ScanJoin
  <2> QED  BY <1>16, <2>1 DEF ScanJoin
<1>17. CASE ScanDone
  BY <1>17 DEF ScanDone
<1>18. CASE Recheck
  BY <1>18 DEF Recheck
<1>19. CASE LogFault
  BY <1>19 DEF LogFault
<1>20. ASSUME NEW s \in Streams, RetryTry(s) PROVE Quiet
  BY <1>20 DEF RetryTry, Goto
<1>21. ASSUME NEW s \in Streams, RetryWriteFalse(s) PROVE Quiet
  BY <1>21 DEF RetryWriteFalse, WriteFalse, Goto
<1>22. ASSUME NEW s \in Streams, RetryExpireDone(s) PROVE Quiet
  BY <1>22 DEF RetryExpireDone, Locked, Goto
<1>23. ASSUME NEW s \in Streams, RetryCheck(s) PROVE Quiet
  BY <1>23 DEF RetryCheck, Goto
<1>24. ASSUME NEW s \in Streams, RetryFault(s) PROVE Quiet
  BY <1>24 DEF RetryFault
<1>25. ASSUME NEW s \in Streams, RetryStop(s) PROVE Quiet
  BY <1>25 DEF RetryStop, Goto
<1> QED
  BY <1>1, <1>2, <1>3, <1>4, <1>5, <1>6, <1>7, <1>8, <1>9, <1>10, <1>11, <1>12, <1>13,
     <1>14, <1>15, <1>16, <1>17, <1>18, <1>19, <1>20, <1>21, <1>22, <1>23, <1>24, <1>25 DEF QuietNext
-----------------------------------------------------------------------------
(***************************************************************************)
(* Steps that move messages.                                               *)
(***************************************************************************)

\* What the queue operations make of a sequence.
LEMMA SeqFacts ==
    ASSUME NEW S, NEW q \in Seq(S), NEW x \in S
    PROVE  /\ Len(q) \in Nat /\ DOMAIN q = 1..Len(q)
           /\ Append(q, x) \in Seq(S) /\ Len(Append(q, x)) = Len(q) + 1
           /\ \A i \in DOMAIN Append(q, x) :
                 (i \in DOMAIN q /\ Append(q, x)[i] = q[i]) \/ (i = Len(q) + 1 /\ Append(q, x)[i] = x)
           /\ q # <<>> => /\ Len(q) > 0 /\ Head(q) = q[1] /\ 1 \in DOMAIN q
                          /\ Tail(q) \in Seq(S) /\ Len(Tail(q)) = Len(q) - 1
                          /\ \A i \in DOMAIN Tail(q) : i + 1 \in DOMAIN q /\ i \in Nat \ {0} /\ Tail(q)[i] = q[i + 1]
  OBVIOUS

\* log_thread::enqueue: the new message gets the next number.
LEMMA EnqueueKeeps ==
    ASSUME IInv, RInv, lpc # "crashed", NEW t \in AppThreads, NEW l \in UsedLevels, Enqueue(t, l)
    PROVE  RInv'
<1> USE DEF vars, logVars, retryVars, mapVars, appVars, sinkVars
<1> DEFINE e == [id |-> sent + 1, level |-> l]
<1>1. e \in log_event /\ e.id = sent + 1
  BY ConstantsAssumption, Types DEF Enqueue, IInv, TypeOK, log_event, Id, LogLevel
<1>2. /\ m_events' = Append(m_events, e) /\ sent' = sent + 1
      /\ UNCHANGED <<lpc, local, todo, cur, m_streams, fate, m_event_queue, rpc>>
  BY DEF Enqueue
<1> HIDE DEF e
<1>3. /\ Len(m_events') = Len(m_events) + 1
      /\ \A i \in DOMAIN m_events' : \/ i \in DOMAIN m_events /\ m_events'[i] = m_events[i]
                                     \/ i = Len(m_events) + 1 /\ m_events'[i] = e
  BY <1>1, <1>2, Types, SeqFacts
<1>4. Len(m_events) \in Nat /\ Len(local) \in Nat /\ sent \in Nat
  BY Types, DoneTypes
<1>5. taken' = taken /\ \A s \in Streams : done(s)' = done(s) /\ (Served(s)' <=> Served(s))
  <2>1. taken' = taken
    BY <1>2, <1>3, <1>4 DEF taken
  <2> QED  BY <1>2, <2>1 DEF done, Served, InMap
<1>6. BatchInv'
  BY <1>1, <1>2, <1>3, <1>4, <1>5, DoneTypes DEF RInv, BatchInv
<1>7. TodoInv' /\ OutsideInv'
  BY <1>2 DEF RInv, TodoInv, OutsideInv, InMap
<1>8. OrderInv'
  <2>1. \A s \in Streams : \A i \in DOMAIN m_event_queue[s] :
           m_event_queue[s][i].id \in Nat /\ (m_event_queue[s][i].id <= sent => m_event_queue[s][i].id <= sent + 1)
    BY <1>4, Types
  <2> QED  BY <1>2, <2>1 DEF RInv, OrderInv
<1>9. TurnInv'
  BY <1>2, <1>5 DEF RInv, TurnInv
<1> QED  BY <1>6, <1>7, <1>8, <1>9 DEF RInv

\* log_thread::do_run: m_events becomes the batch.
LEMMA SwapKeeps ==
    ASSUME IInv, RInv, lpc # "crashed", Swap
    PROVE  RInv'
<1> USE DEF vars, logVars, retryVars, mapVars, appVars, sinkVars
<1>1. /\ lpc = "swap" /\ lpc' = "event" /\ local' = m_events /\ m_events' = <<>>
      /\ UNCHANGED <<sent, todo, cur, m_streams, fate, m_event_queue, rpc>>
  BY DEF Swap
<1>2. local = <<>>
  BY <1>1 DEF IInv, ControlInv, InLog
<1>3. Len(local) = 0 /\ Len(m_events') = 0 /\ Len(m_events) \in Nat
  BY <1>1, <1>2, Types
<1>4. taken' = taken /\ \A s \in Streams : done(s)' = done(s) /\ (Served(s)' <=> Served(s))
  <2>1. taken' = taken
    BY <1>1, <1>3, Types DEF taken
  <2> QED  BY <1>1, <2>1 DEF done, Served, InMap, InLog
<1>5. BatchInv'
  BY <1>1, <1>2, <1>3, <1>4, Types, DoneTypes DEF RInv, BatchInv
<1>6. TodoInv' /\ OutsideInv' /\ OrderInv'
  BY <1>1 DEF RInv, TodoInv, OutsideInv, OrderInv, InMap, InLog
<1>7. TurnInv'
  BY <1>1, <1>4 DEF RInv, TurnInv
<1> QED  BY <1>5, <1>6, <1>7 DEF RInv

\* log_thread::do_run: the message has been dispatched to all streams.
LEMMA EventDoneKeeps ==
    ASSUME IInv, RInv, lpc # "crashed", EventDone
    PROVE  RInv'
<1> USE DEF vars, logVars, retryVars, mapVars, appVars, sinkVars
<1>1. /\ lpc = "stream" /\ lpc' = "event" /\ todo = {} /\ local' = Tail(local)
      /\ UNCHANGED <<m_events, sent, todo, cur, m_streams, fate, m_event_queue, rpc>>
  BY DEF EventDone
<1>2. local # <<>> /\ cur \notin Streams /\ lpc \in InLog /\ lpc' \notin InLog
  BY <1>1, ConstantsAssumption DEF IInv, ControlInv, InLog, Serves
<1>3. /\ Len(local') = Len(local) - 1
      /\ \A i \in DOMAIN local' : i + 1 \in DOMAIN local /\ i \in Nat \ {0} /\ local'[i] = local[i + 1]
  BY <1>1, <1>2, Types, SeqFacts
<1>4. Len(m_events) \in Nat /\ Len(local) \in Nat /\ sent \in Nat /\ taken \in Nat
      /\ sent = taken + (Len(local) + Len(m_events)) /\ DOMAIN m_events = 1..Len(m_events)
  BY Types, DoneTypes
<1>5. taken' = taken + 1
  <2>1. sent' = sent /\ Len(m_events') = Len(m_events) /\ Len(local') = Len(local) - 1
    BY <1>1, <1>3
  <2>2. taken' = sent - ((Len(local) - 1) + Len(m_events))
    BY <2>1 DEF taken
  <2> QED  BY <1>4, <2>2
<1>6. \A s \in Streams : done(s)' = done(s) /\ (Served(s)' => Served(s))
  BY <1>1, <1>2, <1>5 DEF done, Served, InMap
<1>7. BatchInv'
  BY <1>1, <1>3, <1>4, <1>5 DEF RInv, BatchInv
<1>8. TodoInv' /\ OutsideInv' /\ OrderInv'
  BY <1>1, <1>2 DEF RInv, TodoInv, OutsideInv, OrderInv, InMap, InLog
<1>9. TurnInv'
  BY <1>1, <1>6 DEF RInv, TurnInv
<1> QED  BY <1>7, <1>8, <1>9 DEF RInv

\* The message in hand has the next number.
LEMMA InHandNumber ==
    ASSUME IInv, RInv, lpc \in InLog
    PROVE  /\ Head(local) \in log_event /\ Head(local).id = taken + 1
           /\ taken + 1 \in Id /\ taken + 1 <= sent
<1>1. local # <<>> /\ Head(local) \in log_event /\ local \in Seq(log_event) /\ Head(local).id \in Id
  BY Types
<1>2. 1 \in DOMAIN local /\ Head(local) = local[1] /\ Len(local) > 0 /\ Len(local) \in Nat
  BY <1>1, SeqFacts
<1>3. Len(m_events) \in Nat /\ taken \in Nat /\ sent = taken + (Len(local) + Len(m_events))
  BY Types, DoneTypes
<1>4. Head(local).id = taken + 1
  BY <1>2 DEF RInv, BatchInv
<1> QED  BY <1>1, <1>2, <1>3, <1>4

\* The dispatch of the message in hand to the stream in hand ends.
Dispatches ==
    /\ lpc' = "stream" /\ cur' = NoStream
    /\ UNCHANGED <<local, m_events, sent, todo, m_streams, rpc>>

LEMMA DispatchTurns ==
    ASSUME IInv, RInv, lpc \in {"enqueue", "write", "spawn", "first"}, Dispatches
    PROVE  /\ taken' = taken /\ cur \in Streams /\ Served(cur) /\ done(cur) = taken
           /\ \A s \in Streams : Served(s)' => Served(s)
           /\ \A s \in Streams : done(s)' = IF s = cur THEN taken + 1 ELSE done(s)
           /\ BatchInv' /\ TodoInv'
<1>1. cur \in Streams /\ cur \notin todo /\ lpc \in InLog /\ lpc' \in InLog /\ cur' \notin Streams
  BY ConstantsAssumption DEF IInv, ControlInv, Serves, RInv, TodoInv, InLog, Dispatches
<1>2. taken' = taken
  BY DEF Dispatches, taken
<1>3. BatchInv'
  BY <1>2 DEF Dispatches, RInv, BatchInv
<1>4. TodoInv'
  BY <1>1, ConstantsAssumption DEF Dispatches, RInv, TodoInv, InMap, IInv, TypeOK, InLog
<1>5. todo' = todo /\ m_streams' = m_streams /\ (lpc \in InLog <=> lpc' \in InLog)
  BY <1>1 DEF Dispatches
<1>6. done(cur) = taken
  BY <1>1 DEF done
<1>7. \A s \in Streams : done(s)' = IF s = cur THEN taken + 1 ELSE done(s)
  BY <1>1, <1>2, <1>5 DEF done
<1>8. Served(cur) /\ \A s \in Streams : Served(s)' => Served(s)
  BY <1>1, <1>5 DEF Served, InMap
<1> QED  BY <1>1, <1>2, <1>3, <1>4, <1>6, <1>7, <1>8

\* retry_thread::enqueue: the message in hand goes to the end of the retry queue.
LEMMA HandOverKeeps ==
    ASSUME IInv, RInv, lpc # "crashed", RetryEnqueue \/ FirstEnqueue
    PROVE  RInv'
<1> USE DEF vars, logVars, retryVars, mapVars, appVars, sinkVars
<1> DEFINE e == Head(local)
<1>1. /\ lpc \in {"enqueue", "first"} /\ Dispatches /\ fate' = fate /\ rpc' = rpc
      /\ m_event_queue' = [m_event_queue EXCEPT ![cur] = Append(@, e)]
      /\ UNCHANGED <<sent, m_streams>>
  BY DEF RetryEnqueue, FirstEnqueue, Dispatches
<1>2. /\ taken' = taken /\ cur \in Streams /\ Served(cur) /\ done(cur) = taken
      /\ \A s \in Streams : Served(s)' => Served(s)
      /\ \A s \in Streams : done(s)' = IF s = cur THEN taken + 1 ELSE done(s)
      /\ BatchInv' /\ TodoInv'
  BY <1>1, DispatchTurns
<1>3. e \in log_event /\ e.id = taken + 1 /\ taken + 1 \in Id /\ taken + 1 <= sent
  BY <1>1, InHandNumber DEF InLog
<1> HIDE DEF e
<1> DEFINE q == m_event_queue[cur]
<1>4. q \in Seq(log_event) /\ \A i \in DOMAIN q : q[i].id \in Id
  BY <1>2, Types
<1>5. m_event_queue \in [Streams -> Seq(log_event)] /\ taken \in Nat /\ Id \subseteq Nat \ {0}
  BY Types, DoneTypes DEF IInv, TypeOK
<1>6. \A s \in Streams : m_event_queue'[s] = IF s = cur THEN Append(q, e) ELSE m_event_queue[s]
  BY <1>1, <1>2, <1>5
<1>7. /\ \A d \in Id : d <= taken => fate[cur][d] # "none" \/ In(q, d)
      /\ \A d \in Id : d > taken => fate[cur][d] = "none"
      /\ \A i \in DOMAIN q : q[i].id <= taken
  BY <1>1, <1>2 DEF RInv, TurnInv
<1>8. /\ Len(q) \in Nat /\ DOMAIN q = 1..Len(q)
      /\ \A i \in DOMAIN Append(q, e) :
            (i \in DOMAIN q /\ Append(q, e)[i] = q[i]) \/ (i = Len(q) + 1 /\ Append(q, e)[i] = e)
  BY <1>3, <1>4, SeqFacts
<1>9. \A d \in Id : In(q, d) \/ d = taken + 1 => In(Append(q, e), d)
  BY <1>3, <1>4, InFacts
<1>10. OutsideInv'
  BY <1>1 DEF RInv, OutsideInv
<1>11. OrderInv'
  <2> SUFFICES ASSUME NEW s \in Streams
               PROVE
        /\ \A i, j \in DOMAIN m_event_queue'[s] :
              i < j => m_event_queue'[s][i].id < m_event_queue'[s][j].id
        /\ \A i \in DOMAIN m_event_queue'[s] :
              /\ m_event_queue'[s][i].id <= sent'
              /\ \A d \in Id : d < m_event_queue'[s][i].id =>
                    fate'[s][d] # "none" \/ In(m_event_queue'[s], d)
              /\ fate'[s][m_event_queue'[s][i].id] = "none" \/ (rpc'[s] = "pop" /\ i = 1)
    BY DEF OrderInv
  <2>1. CASE s # cur
    BY <1>1, <1>6, <2>1 DEF RInv, OrderInv
  <2>2. CASE s = cur
    <3> HIDE DEF q
    <3>0. m_event_queue'[s] = Append(q, e) /\ fate' = fate /\ rpc' = rpc /\ sent' = sent
      BY <1>1, <1>6, <2>2
    <3>1. ASSUME NEW i \in DOMAIN Append(q, e), NEW j \in DOMAIN Append(q, e), i < j
          PROVE  Append(q, e)[i].id < Append(q, e)[j].id
      <4>1. \A a, b \in DOMAIN q : a < b => q[a].id < q[b].id
        BY <1>2, <2>2 DEF RInv, OrderInv, q
      <4>2. i \in DOMAIN q /\ Append(q, e)[i] = q[i]
        BY <1>8, <3>1
      <4>3. \/ j \in DOMAIN q /\ Append(q, e)[j] = q[j]
            \/ Append(q, e)[j].id = taken + 1
        BY <1>3, <1>8
      <4>4. q[i].id \in Nat /\ q[i].id <= taken
        BY <1>4, <1>5, <1>7, <4>2
      <4> QED  BY <1>5, <3>1, <4>1, <4>2, <4>3, <4>4
    <3>2. ASSUME NEW i \in DOMAIN Append(q, e)
          PROVE  /\ Append(q, e)[i].id <= sent
                 /\ \A d \in Id : d < Append(q, e)[i].id => fate[cur][d] # "none" \/ In(Append(q, e), d)
                 /\ fate[cur][Append(q, e)[i].id] = "none" \/ (rpc[cur] = "pop" /\ i = 1)
      <4>1. CASE i \in DOMAIN q /\ Append(q, e)[i] = q[i]
        <5>1. /\ q[i].id <= sent
              /\ \A d \in Id : d < q[i].id => fate[cur][d] # "none" \/ In(q, d)
              /\ fate[cur][q[i].id] = "none" \/ (rpc[cur] = "pop" /\ i = 1)
          BY <1>2, <4>1 DEF RInv, OrderInv, q
        <5> QED  BY <1>9, <4>1, <5>1
      <4>2. CASE Append(q, e)[i] = e
        <5>1. \A d \in Id : d < taken + 1 => d <= taken
          BY <1>5
        <5>2. fate[cur][taken + 1] = "none"
          BY <1>3, <1>5, <1>7
        <5> QED  BY <1>3, <1>7, <1>9, <4>2, <5>1, <5>2
      <4> QED  BY <1>8, <4>1, <4>2
    <3> QED  BY <2>2, <3>0, <3>1, <3>2
  <2> QED  BY <2>1, <2>2
<1>12. TurnInv'
  <2> SUFFICES ASSUME NEW s \in Streams, Served(s)'
               PROVE  /\ \A d \in Id : d <= done(s)' => fate'[s][d] # "none" \/ In(m_event_queue'[s], d)
                      /\ \A d \in Id : d > done(s)' => fate'[s][d] = "none"
                      /\ \A i \in DOMAIN m_event_queue'[s] : m_event_queue'[s][i].id <= done(s)'
    BY DEF TurnInv
  <2>1. CASE s # cur
    BY <1>1, <1>2, <1>6, <2>1 DEF RInv, TurnInv
  <2>2. CASE s = cur
    <3> HIDE DEF q
    <3>0. m_event_queue'[s] = Append(q, e) /\ fate' = fate /\ done(s)' = taken + 1
      BY <1>1, <1>2, <1>6, <2>2
    <3>1. \A d \in Id : /\ d <= taken + 1 => d <= taken \/ d = taken + 1
                        /\ d > taken + 1 => d > taken
      BY <1>5
    <3>2. ASSUME NEW i \in DOMAIN q PROVE q[i].id <= taken + 1
      <4>1. q[i].id \in Nat /\ q[i].id <= taken
        BY <1>4, <1>5, <1>7
      <4> QED  BY <1>5, <4>1
    <3>3. \A i \in DOMAIN Append(q, e) : Append(q, e)[i].id <= taken + 1
      BY <1>3, <1>5, <1>8, <3>2
    <3> QED  BY <1>7, <1>9, <2>2, <3>0, <3>1, <3>3
  <2> QED  BY <2>1, <2>2
<1> QED  BY <1>2, <1>10, <1>11, <1>12 DEF RInv

\* output_stream::write by the logging thread, and a retry thread that cannot be started: the
\* message in hand meets its fate on the stream in hand.
LEMMA SettleInHandKeeps ==
    ASSUME IInv, RInv, lpc # "crashed", LogWriteTrue \/ SpawnFails
    PROVE  RInv'
<1> USE DEF vars, logVars, retryVars, mapVars, appVars, sinkVars
<1>1. /\ lpc \in {"write", "spawn"} /\ Dispatches
      /\ UNCHANGED <<sent, m_streams, rpc, m_event_queue>>
  BY DEF LogWriteTrue, SpawnFails, Dispatches
<1>2. /\ taken' = taken /\ cur \in Streams /\ Served(cur) /\ done(cur) = taken
      /\ \A s \in Streams : Served(s)' => Served(s)
      /\ \A s \in Streams : done(s)' = IF s = cur THEN taken + 1 ELSE done(s)
      /\ BatchInv' /\ TodoInv'
  BY <1>1, DispatchTurns
<1>3. Head(local) \in log_event /\ Head(local).id = taken + 1 /\ taken + 1 \in Id
  BY <1>1, InHandNumber DEF InLog
<1>4. \A r \in Streams, d \in Id :
         fate'[r][d] = "none" <=> fate[r][d] = "none" /\ ~(r = cur /\ d = taken + 1)
  <2>1. CASE LogWriteTrue
    BY <1>2, <1>3, <2>1, WriteSettles DEF LogWriteTrue, IInv
  <2>2. CASE SpawnFails
    BY <1>2, <1>3, <2>2, SettleSettles DEF SpawnFails, IInv, Fate
  <2> QED  BY <2>1, <2>2
<1>5. m_event_queue[cur] = <<>> /\ m_streams[cur] # "outside"
  BY <1>1, <1>2 DEF IInv, MapInv, QueueInv, RemovalInv
<1>6. taken \in Nat /\ Id \subseteq Nat \ {0}
      /\ \A s \in Streams : \A i \in DOMAIN m_event_queue[s] : m_event_queue[s][i].id \in Id
  BY Types, DoneTypes
<1>7. OutsideInv'
  BY <1>1, <1>4, <1>5 DEF RInv, OutsideInv
<1>8. OrderInv'
  <2> SUFFICES ASSUME NEW s \in Streams
               PROVE
        /\ \A i, j \in DOMAIN m_event_queue[s] :
              i < j => m_event_queue[s][i].id < m_event_queue[s][j].id
        /\ \A i \in DOMAIN m_event_queue[s] :
              /\ m_event_queue[s][i].id <= sent
              /\ \A d \in Id : d < m_event_queue[s][i].id =>
                    fate'[s][d] # "none" \/ In(m_event_queue[s], d)
              /\ fate'[s][m_event_queue[s][i].id] = "none" \/ (rpc[s] = "pop" /\ i = 1)
    BY <1>1 DEF OrderInv
  <2>1. CASE s # cur
    <3>1. \A d \in Id : fate'[s][d] = "none" <=> fate[s][d] = "none"
      BY <1>4, <2>1
    <3> QED  BY <1>6, <3>1 DEF RInv, OrderInv
  <2>2. CASE s = cur
    <3>1. DOMAIN m_event_queue[s] = {}
      BY <1>5, <2>2
    <3> QED  BY <3>1
  <2> QED  BY <2>1, <2>2
<1>9. TurnInv'
  <2> SUFFICES ASSUME NEW s \in Streams, Served(s)'
               PROVE  /\ \A d \in Id : d <= done(s)' => fate'[s][d] # "none" \/ In(m_event_queue[s], d)
                      /\ \A d \in Id : d > done(s)' => fate'[s][d] = "none"
                      /\ \A i \in DOMAIN m_event_queue[s] : m_event_queue[s][i].id <= done(s)'
    BY <1>1 DEF TurnInv
  <2>1. CASE s # cur
    BY <1>1, <1>2, <1>4, <2>1 DEF RInv, TurnInv
  <2>2. CASE s = cur
    <3>1. DOMAIN m_event_queue[s] = {}
      BY <1>5, <2>2
    <3>2. /\ \A d \in Id : d <= taken => fate[s][d] # "none" \/ In(m_event_queue[s], d)
          /\ \A d \in Id : d > taken => fate[s][d] = "none"
      BY <1>1, <1>2, <2>2 DEF RInv, TurnInv
    <3>3. \A d \in Id : /\ d <= taken + 1 => d <= taken \/ d = taken + 1
                        /\ d > taken + 1 => d > taken /\ d # taken + 1
      BY <1>6
    <3> QED  BY <1>2, <1>4, <2>2, <3>1, <3>2, <3>3
  <2> QED  BY <2>1, <2>2
<1> QED  BY <1>2, <1>7, <1>8, <1>9 DEF RInv
-----------------------------------------------------------------------------
(***************************************************************************)
(* The retry thread.                                                       *)
(***************************************************************************)

\* The retry thread of s works; it settles or removes messages of its queue only.
Works(s) ==
    /\ UNCHANGED <<lpc, local, m_events, sent, todo, cur, m_streams>>
    /\ \A r \in Streams \ {s} :
          m_event_queue'[r] = m_event_queue[r] /\ fate'[r] = fate[r] /\ rpc'[r] = rpc[r]
    /\ \A d \in Id : fate[s][d] # "none" \/ In(m_event_queue[s], d)
                        => fate'[s][d] # "none" \/ In(m_event_queue'[s], d)
    /\ \A d \in Id : fate'[s][d] # "none" => fate[s][d] # "none" \/ In(m_event_queue[s], d)
    /\ \A i \in DOMAIN m_event_queue'[s] : In(m_event_queue[s], m_event_queue'[s][i].id)
    /\ \A i, j \in DOMAIN m_event_queue'[s] :
          i < j => m_event_queue'[s][i].id < m_event_queue'[s][j].id
    /\ \A i \in DOMAIN m_event_queue'[s] :
          fate'[s][m_event_queue'[s][i].id] = "none" \/ (rpc'[s] = "pop" /\ i = 1)

LEMMA WorkKeeps ==
    ASSUME IInv, RInv, lpc # "crashed", NEW s \in Streams, rpc[s] # "none", Works(s)
    PROVE  RInv'
<1>1. taken' = taken /\ \A r \in Streams : done(r)' = done(r) /\ (Served(r)' <=> Served(r))
  <2>1. taken' = taken
    BY DEF Works, taken
  <2> QED  BY <2>1 DEF Works, done, Served, InMap
<1>2. BatchInv' /\ TodoInv'
  BY <1>1 DEF Works, RInv, BatchInv, TodoInv, InMap
<1>3. m_streams[s] # "outside"
  BY DEF IInv, RemovalInv
<1>4. OutsideInv'
  BY <1>3 DEF Works, RInv, OutsideInv
<1>5. OrderInv'
  <2> SUFFICES ASSUME NEW r \in Streams
               PROVE
        /\ \A i, j \in DOMAIN m_event_queue'[r] :
              i < j => m_event_queue'[r][i].id < m_event_queue'[r][j].id
        /\ \A i \in DOMAIN m_event_queue'[r] :
              /\ m_event_queue'[r][i].id <= sent'
              /\ \A d \in Id : d < m_event_queue'[r][i].id =>
                    fate'[r][d] # "none" \/ In(m_event_queue'[r], d)
              /\ fate'[r][m_event_queue'[r][i].id] = "none" \/ (rpc'[r] = "pop" /\ i = 1)
    BY DEF OrderInv
  <2>1. CASE r # s
    BY <2>1 DEF Works, RInv, OrderInv
  <2>2. CASE r = s
    <3>1. ASSUME NEW i \in DOMAIN m_event_queue'[s]
          PROVE  /\ m_event_queue'[s][i].id <= sent'
                 /\ \A d \in Id : d < m_event_queue'[s][i].id =>
                       fate'[s][d] # "none" \/ In(m_event_queue'[s], d)
      <4>1. PICK j \in DOMAIN m_event_queue[s] : m_event_queue[s][j].id = m_event_queue'[s][i].id
        BY <3>1 DEF Works, In
      <4>2. /\ m_event_queue[s][j].id <= sent
            /\ \A d \in Id : d < m_event_queue[s][j].id => fate[s][d] # "none" \/ In(m_event_queue[s], d)
        BY <4>1 DEF RInv, OrderInv
      <4> QED  BY <4>1, <4>2 DEF Works
    <3> QED  BY <2>2, <3>1 DEF Works
  <2> QED  BY <2>1, <2>2
<1>6. TurnInv'
  <2> SUFFICES ASSUME NEW r \in Streams, Served(r)
               PROVE  /\ \A d \in Id : d <= done(r) => fate'[r][d] # "none" \/ In(m_event_queue'[r], d)
                      /\ \A d \in Id : d > done(r) => fate'[r][d] = "none"
                      /\ \A i \in DOMAIN m_event_queue'[r] : m_event_queue'[r][i].id <= done(r)
    BY <1>1 DEF TurnInv
  <2>1. /\ \A d \in Id : d <= done(r) => fate[r][d] # "none" \/ In(m_event_queue[r], d)
        /\ \A d \in Id : d > done(r) => fate[r][d] = "none"
        /\ \A i \in DOMAIN m_event_queue[r] : m_event_queue[r][i].id <= done(r)
    BY DEF RInv, TurnInv
  <2>2. CASE r # s
    BY <2>1, <2>2 DEF Works
  <2>3. CASE r = s
    <3>1. \A d \in Id : In(m_event_queue[s], d) => d <= done(s)
      BY <2>1, <2>3 DEF In
    <3>2. \A d \in Id : d > done(s) => ~(d <= done(s))
      BY Types, DoneTypes
    <3>3. ASSUME NEW d \in Id, d > done(s) PROVE fate'[s][d] = "none"
      BY <2>1, <2>3, <3>1, <3>2, <3>3 DEF Works
    <3>4. ASSUME NEW i \in DOMAIN m_event_queue'[s] PROVE m_event_queue'[s][i].id <= done(s)
      BY <2>1, <2>3, <3>4 DEF Works, In
    <3> QED  BY <2>1, <2>3, <3>3, <3>4 DEF Works
  <2> QED  BY <2>2, <2>3
<1> QED  BY <1>2, <1>4, <1>5, <1>6 DEF RInv

\* output_stream::write by the retry thread: the first message of the queue meets its fate.
LEMMA RetryWriteKeeps ==
    ASSUME IInv, RInv, lpc # "crashed", NEW s \in Streams, RetryWriteTrue(s)
    PROVE  RInv'
<1> USE DEF vars, logVars, retryVars, mapVars, appVars, sinkVars
<1> DEFINE q == m_event_queue[s]
<1>1. /\ rpc[s] = "write" /\ rpc' = [rpc EXCEPT ![s] = "pop"] /\ WriteTrue(s, Head(q))
      /\ UNCHANGED <<m_event_queue, lpc, local, m_events, sent, todo, cur, m_streams>>
  BY DEF RetryWriteTrue, Goto
<1>2. q \in Seq(log_event) /\ q # <<>> /\ Head(q) \in log_event /\ Head(q).id \in Id
      /\ \A i \in DOMAIN q : q[i].id \in Id
  BY <1>1, Types, HeadTypes DEF IInv, QueueInv, log_event
<1>3. 1 \in DOMAIN q /\ Head(q) = q[1] /\ DOMAIN q = 1..Len(q) /\ Len(q) \in Nat
  BY <1>2, SeqFacts
<1>4. \A r \in Streams, d \in Id :
         fate'[r][d] = "none" <=> fate[r][d] = "none" /\ ~(r = s /\ d = Head(q).id)
  BY <1>1, <1>2, WriteSettles DEF IInv
<1>5. rpc \in [Streams -> Rpc] /\ fate \in [Streams -> [Id -> Fate]] /\ rpc'[s] = "pop"
  BY <1>1 DEF IInv, TypeOK
<1>6. \A r \in Streams \ {s} : fate'[r] = fate[r] /\ rpc'[r] = rpc[r]
  BY <1>1, <1>5 DEF WriteTrue, Settle
<1>7. \A i, j \in DOMAIN q : i < j => q[i].id < q[j].id
  BY DEF RInv, OrderInv
<1>8. \A i \in DOMAIN q : fate[s][q[i].id] = "none"
  BY <1>1 DEF RInv, OrderInv
<1>9. ASSUME NEW i \in DOMAIN q, i # 1 PROVE fate'[s][q[i].id] = "none"
  <2>1. 1 < i
    BY <1>3, <1>9
  <2>2. q[1].id < q[i].id
    BY <1>3, <1>7, <2>1
  <2>3. q[1].id # q[i].id
    BY <1>2, <1>3, <2>2, Types
  <2> QED  BY <1>2, <1>3, <1>4, <1>8, <2>3
<1>10. Works(s)
  <2>1. In(q, Head(q).id)
    BY <1>3 DEF In
  <2>2. \A i \in DOMAIN q : In(q, q[i].id)
    BY DEF In
  <2> QED  BY <1>1, <1>4, <1>5, <1>6, <1>7, <1>9, <2>1, <2>2 DEF Works
<1> QED  BY <1>1, <1>10, WorkKeeps

\* retry_thread: the message that was written leaves the queue.
LEMMA RetryPopKeeps ==
    ASSUME IInv, RInv, lpc # "crashed", NEW s \in Streams, RetryPop(s)
    PROVE  RInv'
<1> USE DEF vars, logVars, retryVars, mapVars, appVars, sinkVars
<1> DEFINE q == m_event_queue[s]
<1>1. /\ rpc[s] = "pop" /\ rpc' = [rpc EXCEPT ![s] = "try"]
      /\ m_event_queue' = [m_event_queue EXCEPT ![s] = Tail(q)]
      /\ UNCHANGED <<fate, lpc, local, m_events, sent, todo, cur, m_streams>>
  BY DEF RetryPop, Goto
<1>2. q \in Seq(log_event) /\ q # <<>> /\ fate[s][Head(q).id] # "none"
  BY <1>1, Types DEF IInv, QueueInv
<1>3. /\ DOMAIN q = 1..Len(q)
      /\ \A i \in DOMAIN Tail(q) : i + 1 \in DOMAIN q /\ i \in Nat \ {0} /\ Tail(q)[i] = q[i + 1]
  BY <1>2, SeqFacts
<1>4. \A d : In(q, d) => In(Tail(q), d) \/ Head(q).id = d
  BY <1>2, InFacts
<1>5. rpc \in [Streams -> Rpc] /\ m_event_queue \in [Streams -> Seq(log_event)]
  BY DEF IInv, TypeOK
<1>6. /\ m_event_queue'[s] = Tail(q)
      /\ \A r \in Streams \ {s} : m_event_queue'[r] = m_event_queue[r] /\ rpc'[r] = rpc[r]
  BY <1>1, <1>5
<1>7. \A i \in DOMAIN Tail(q) : In(q, Tail(q)[i].id)
  BY <1>3 DEF In
<1>8. ASSUME NEW i \in DOMAIN Tail(q), NEW j \in DOMAIN Tail(q), i < j
      PROVE  Tail(q)[i].id < Tail(q)[j].id
  <2>1. i + 1 < j + 1
    BY <1>3, <1>8
  <2> QED  BY <1>3, <2>1 DEF RInv, OrderInv
<1>9. ASSUME NEW i \in DOMAIN Tail(q) PROVE fate[s][Tail(q)[i].id] = "none"
  <2>1. i + 1 # 1
    BY <1>3
  <2> QED  BY <1>3, <2>1 DEF RInv, OrderInv
<1> HIDE DEF q
<1>10. Works(s)
  BY <1>1, <1>2, <1>4, <1>6, <1>7, <1>8, <1>9 DEF Works, q
<1> QED  BY <1>1, <1>10, WorkKeeps

\* Erasing element i closes the gap.
LEMMA RemoveAtElements ==
    ASSUME NEW S, NEW q \in Seq(S), NEW i \in DOMAIN q
    PROVE  \A k \in DOMAIN RemoveAt(q, i) :
              /\ k \in Nat \ {0}
              /\ k < i => k \in DOMAIN q /\ RemoveAt(q, i)[k] = q[k]
              /\ k >= i => k + 1 \in DOMAIN q /\ RemoveAt(q, i)[k] = q[k + 1]
<1> DEFINE a == SubSeq(q, 1, i - 1)
           b == SubSeq(q, i + 1, Len(q))
<1>1. a \in Seq(S) /\ b \in Seq(S) /\ Len(a) = i - 1 /\ Len(b) = Len(q) - i
  OBVIOUS
<1>2. RemoveAt(q, i) = a \o b
  BY DEF RemoveAt
<1>3. i \in Nat \ {0} /\ Len(q) \in Nat /\ i <= Len(q)
  OBVIOUS
<1>4. \A k \in 1..(i - 1) : a[k] = q[k] /\ k \in DOMAIN q
  OBVIOUS
<1>5. \A k \in 1..(Len(q) - i) : b[k] = q[i + k] /\ i + k \in DOMAIN q
  <2> TAKE k \in 1..(Len(q) - i)
  <2>1. b[k] = q[(i + 1) + k - 1]
    OBVIOUS
  <2>2. (i + 1) + k - 1 = i + k
    BY <1>3
  <2> QED  BY <1>3, <2>1, <2>2
<1> HIDE DEF a, b
<1>6. /\ DOMAIN (a \o b) = 1..(Len(q) - 1)
      /\ \A k \in DOMAIN (a \o b) : (a \o b)[k] = IF k <= i - 1 THEN a[k] ELSE b[k - (i - 1)]
  BY <1>1, <1>3
<1>7. ASSUME NEW k \in DOMAIN (a \o b)
      PROVE  /\ k \in Nat \ {0}
             /\ k < i => k \in DOMAIN q /\ (a \o b)[k] = q[k]
             /\ k >= i => k + 1 \in DOMAIN q /\ (a \o b)[k] = q[k + 1]
  <2>1. k \in 1..(Len(q) - 1)
    BY <1>6, <1>7
  <2>2. CASE k < i
    <3>1. k \in 1..(i - 1) /\ k <= i - 1
      BY <1>3, <2>1, <2>2
    <3> QED  BY <1>3, <1>4, <1>6, <1>7, <2>1, <2>2, <3>1
  <2>3. CASE k >= i
    <3>1. /\ k - (i - 1) \in 1..(Len(q) - i) /\ i + (k - (i - 1)) = k + 1
          /\ ~(k <= i - 1) /\ ~(k < i)
      BY <1>3, <2>1, <2>3
    <3>2. (a \o b)[k] = b[k - (i - 1)]
      BY <1>6, <1>7, <3>1
    <3> QED  BY <1>5, <2>1, <3>1, <3>2
  <2> QED  BY <1>3, <2>1, <2>2, <2>3
<1> QED  BY <1>2, <1>7

\* retry_thread: a message that is too old leaves the queue.
LEMMA RetryExpireKeeps ==
    ASSUME IInv, RInv, lpc # "crashed", NEW s \in Streams, RetryExpire(s)
    PROVE  RInv'
<1> USE DEF vars, logVars, retryVars, mapVars, appVars, sinkVars
<1> DEFINE q == m_event_queue[s]
<1>1. PICK i \in DOMAIN q :
         /\ m_event_queue' = [m_event_queue EXCEPT ![s] = RemoveAt(q, i)]
         /\ Settle(s, q[i], "expired")
  BY DEF RetryExpire
<1>2. /\ rpc[s] \in {"expire", "expiring"} /\ rpc' = [rpc EXCEPT ![s] = "expiring"]
      /\ UNCHANGED <<lpc, local, m_events, sent, todo, cur, m_streams>>
  BY DEF RetryExpire, Locked, Goto
<1>3. q \in Seq(log_event) /\ DOMAIN q = 1..Len(q) /\ Len(q) \in Nat
      /\ \A k \in DOMAIN q : q[k].id \in Id /\ q[k] \in log_event
  BY Types
<1> DEFINE p == RemoveAt(q, i)
<1>4. /\ m_event_queue'[s] = p
      /\ \A r \in Streams \ {s} :
            m_event_queue'[r] = m_event_queue[r] /\ fate'[r] = fate[r] /\ rpc'[r] = rpc[r]
  BY <1>1, <1>2 DEF IInv, TypeOK, Settle
<1>5. \A r \in Streams, d \in Id :
         fate'[r][d] = "none" <=> fate[r][d] = "none" /\ ~(r = s /\ d = q[i].id)
  BY <1>1, <1>3, SettleSettles DEF IInv, Fate
<1>6. \A k, l \in DOMAIN q : k < l => q[k].id < q[l].id
  BY DEF RInv, OrderInv
<1>7. \A k \in DOMAIN q : fate[s][q[k].id] = "none"
  BY <1>2 DEF RInv, OrderInv
<1>8. \A k \in DOMAIN p :
          /\ k \in Nat \ {0}
          /\ k < i => k \in DOMAIN q /\ p[k] = q[k]
          /\ k >= i => k + 1 \in DOMAIN q /\ p[k] = q[k + 1]
  BY <1>3, RemoveAtElements
<1>9. \A d \in Id : In(q, d) => In(p, d) \/ d = q[i].id
  BY <1>3, InFacts
<1> HIDE DEF p, q
<1>10. i \in Nat \ {0}
  BY <1>3
<1>11. ASSUME NEW k \in DOMAIN p
       PROVE  In(q, p[k].id) /\ p[k].id \in Id /\ p[k].id # q[i].id
  <2>1. PICK l \in DOMAIN q : p[k] = q[l] /\ (l < i \/ i < l)
    <3>1. CASE k < i
      BY <1>8, <3>1
    <3>2. CASE k >= i
      <4>1. i < k + 1 /\ k + 1 \in DOMAIN q /\ p[k] = q[k + 1]
        BY <1>8, <1>10, <3>2
      <4> QED  BY <4>1
    <3> QED  BY <1>8, <1>10, <3>1, <3>2
  <2>2. q[l].id < q[i].id \/ q[i].id < q[l].id
    BY <1>6, <2>1
  <2>3. q[l].id # q[i].id
    BY <1>3, <2>2, Types
  <2> QED  BY <1>3, <2>1, <2>3 DEF In
<1>12. ASSUME NEW k \in DOMAIN p, NEW l \in DOMAIN p, k < l PROVE p[k].id < p[l].id
  <2>1. k \in Nat /\ l \in Nat
    BY <1>8
  <2>2. CASE l < i
    <3>1. k < i
      BY <1>10, <1>12, <2>1, <2>2
    <3> QED  BY <1>6, <1>8, <1>12, <2>2, <3>1
  <2>3. CASE k >= i
    <3>1. l >= i /\ k + 1 < l + 1
      BY <1>10, <1>12, <2>1, <2>3
    <3> QED  BY <1>6, <1>8, <2>3, <3>1
  <2>4. CASE k < i /\ l >= i
    <3>1. k < l + 1
      BY <1>10, <2>1, <2>4
    <3> QED  BY <1>6, <1>8, <2>4, <3>1
  <2> QED  BY <1>10, <2>1, <2>2, <2>3, <2>4
<1>13. \A k \in DOMAIN p : fate'[s][p[k].id] = "none"
  <2>1. \A d \in Id : In(q, d) => fate[s][d] = "none"
    BY <1>7 DEF In
  <2> QED  BY <1>5, <1>11, <2>1
<1>14. In(q, q[i].id)
  BY DEF In, q
<1>15. Works(s)
  <2>1. \A d \in Id : fate'[s][d] # "none" => fate[s][d] # "none" \/ In(q, d)
    BY <1>5, <1>14
  <2>2. \A d \in Id : fate[s][d] # "none" \/ In(q, d) => fate'[s][d] # "none" \/ In(p, d)
    BY <1>5, <1>9
  <2>3. m_event_queue[s] = q
    BY DEF q
  <2> QED  BY <1>2, <1>4, <1>11, <1>12, <1>13, <2>1, <2>2, <2>3 DEF Works
<1> QED  BY <1>2, <1>15, WorkKeeps
-----------------------------------------------------------------------------
(***************************************************************************)
(* A stream is added.                                                      *)
(***************************************************************************)

\* The messages the new stream misses are those dispatched before.
LEMMA AddMisses ==
    ASSUME IInv, RInv, lpc # "crashed", NEW s \in Streams, add_output_stream(s)
    PROVE  /\ taken' = taken /\ done(s)' \in 0..sent
           /\ \A r \in Streams \ {s} : done(r)' = done(r) /\ (Served(r)' <=> Served(r))
           /\ \A d \in Id : fate[s][d] = "none" /\ fate'[s][d] = IF d <= done(s)' THEN "missed" ELSE "none"
           /\ \A r \in Streams \ {s} : fate'[r] = fate[r]
<1> USE DEF vars, logVars, retryVars, mapVars, appVars, sinkVars
<1>1. /\ m_streams[s] = "outside" /\ UNCHANGED <<lpc, local, m_events, sent, cur, rpc, m_event_queue>>
      /\ m_streams' = [m_streams EXCEPT ![s] = "present"]
      /\ (lpc \in InLog /\ todo' = todo \cup {s}) \/ todo' = todo
  BY DEF add_output_stream
<1>2. s \notin todo \cup {cur} /\ \A d \in Id : fate[s][d] = "none"
  BY <1>1 DEF IInv, RemovalInv, RInv, OutsideInv
<1>3. taken' = taken
  BY <1>1 DEF taken
<1>4. /\ local \in Seq(log_event) /\ m_events \in Seq(log_event)
      /\ Len(local) \in Nat /\ Len(m_events) \in Nat /\ taken \in Nat /\ sent \in Nat
      /\ DOMAIN local = 1..Len(local) /\ DOMAIN m_events = 1..Len(m_events)
      /\ sent = taken + (Len(local) + Len(m_events)) /\ Id \subseteq Nat \ {0}
  BY Types, DoneTypes
<1>5. /\ lpc \in InLog => local # <<>>
      /\ lpc \notin InLog \cup {"event"} => local = <<>>
  BY DEF IInv, ControlInv
<1>6. done(s)' = IF lpc \in InLog /\ s \notin todo' THEN taken + 1 ELSE taken
  BY <1>1, <1>2, <1>3 DEF done
<1>7. done(s)' \in 0..sent
  <2>1. local # <<>> => Len(local) > 0
    BY <1>4
  <2> QED  BY <1>4, <1>5, <1>6, <2>1
<1>8. \A r \in Streams \ {s} : done(r)' = done(r) /\ (Served(r)' <=> Served(r))
  BY <1>1, <1>3 DEF done, Served, InMap, IInv, TypeOK
<1> DEFINE pending(e) == \/ In(m_events, e)
                         \/ local # <<>> /\ In(Tail(local), e)
                         \/ local # <<>> /\ Head(local).id = e /\ (lpc = "event" \/ s \in todo')
<1>9. /\ \A d \in Id : fate'[s][d] = IF d <= sent /\ ~pending(d) THEN "missed" ELSE fate[s][d]
      /\ \A r \in Streams \ {s} : fate'[r] = fate[r]
  BY DEF add_output_stream, IInv, TypeOK
<1>10. ASSUME NEW d \in Id PROVE In(m_events, d) <=> taken + Len(local) < d /\ d <= sent
  <2>1. ASSUME In(m_events, d) PROVE taken + Len(local) < d /\ d <= sent
    <3>1. PICK i \in DOMAIN m_events : m_events[i].id = d
      BY <2>1 DEF In
    <3> QED  BY <1>4, <3>1 DEF RInv, BatchInv
  <2>2. ASSUME taken + Len(local) < d, d <= sent PROVE In(m_events, d)
    <3> DEFINE i == d - (taken + Len(local))
    <3>1. i \in DOMAIN m_events /\ taken + (Len(local) + i) = d
      BY <1>4, <2>2
    <3>2. m_events[i].id = d
      BY <3>1 DEF RInv, BatchInv
    <3> HIDE DEF i
    <3> QED  BY <3>1, <3>2 DEF In
  <2> QED  BY <2>1, <2>2
<1>11. ASSUME NEW d \in Id, local # <<>>
       PROVE  /\ In(Tail(local), d) <=> taken + 1 < d /\ d <= taken + Len(local)
              /\ Head(local).id = taken + 1 /\ Len(local) > 0
  <2>1. /\ 1 \in DOMAIN local /\ Head(local) = local[1] /\ Len(local) > 0
        /\ Tail(local) \in Seq(log_event) /\ DOMAIN Tail(local) = 1..(Len(local) - 1)
        /\ \A i \in DOMAIN Tail(local) :
              i + 1 \in DOMAIN local /\ i \in Nat \ {0} /\ Tail(local)[i] = local[i + 1]
    BY <1>4, <1>11
  <2>2. Head(local).id = taken + 1
    BY <2>1 DEF RInv, BatchInv
  <2>3. ASSUME In(Tail(local), d) PROVE taken + 1 < d /\ d <= taken + Len(local)
    <3>1. PICK i \in DOMAIN Tail(local) : Tail(local)[i].id = d
      BY <2>3 DEF In
    <3>2. d = taken + (i + 1)
      BY <2>1, <3>1 DEF RInv, BatchInv
    <3> QED  BY <1>4, <2>1, <3>2
  <2>4. ASSUME taken + 1 < d, d <= taken + Len(local) PROVE In(Tail(local), d)
    <3> DEFINE i == d - (taken + 1)
    <3>1. i \in DOMAIN Tail(local) /\ taken + (i + 1) = d
      BY <1>4, <2>1, <2>4
    <3>2. Tail(local)[i].id = d
      BY <2>1, <3>1 DEF RInv, BatchInv
    <3> HIDE DEF i
    <3> QED  BY <3>1, <3>2 DEF In
  <2> QED  BY <2>1, <2>2, <2>3, <2>4
<1>12. ASSUME NEW d \in Id PROVE d <= sent /\ ~pending(d) <=> d <= done(s)'
  <2>1. CASE local = <<>>
    <3>1. Len(local) = 0 /\ lpc \notin InLog
      BY <1>5, <2>1
    <3> QED  BY <1>4, <1>6, <1>10, <2>1, <3>1
  <2>2. CASE local # <<>>
    <3>1. lpc \in InLog \/ lpc = "event"
      BY <1>5, <2>2
    <3>2. "event" \notin InLog /\ (lpc = "event" => s \notin todo')
      BY <1>1, <1>2 DEF InLog
    <3>3. pending(d) <=> \/ taken + Len(local) < d /\ d <= sent
                         \/ taken + 1 < d /\ d <= taken + Len(local)
                         \/ d = taken + 1 /\ (lpc = "event" \/ s \in todo')
      BY <1>10, <1>11, <2>2
    <3> HIDE DEF pending
    <3>4. Len(local) > 0
      BY <1>11, <2>2
    <3>5. CASE lpc = "event" \/ s \in todo'
      <4>1. done(s)' = taken
        BY <1>6, <3>2, <3>5
      <4> QED  BY <1>4, <3>3, <3>4, <3>5, <4>1
    <3>6. CASE ~(lpc = "event" \/ s \in todo')
      <4>1. done(s)' = taken + 1
        BY <1>6, <3>1, <3>6
      <4> QED  BY <1>4, <3>3, <3>4, <3>6, <4>1
    <3> QED  BY <3>5, <3>6
  <2> QED  BY <2>1, <2>2
<1> HIDE DEF pending
<1> QED  BY <1>2, <1>3, <1>7, <1>8, <1>9, <1>12

\* logger::add_output_stream: the dispatch to the new stream starts where the iteration stands.
LEMMA AddKeeps ==
    ASSUME IInv, RInv, lpc # "crashed", NEW s \in Streams, add_output_stream(s)
    PROVE  RInv'
<1> USE DEF vars, logVars, retryVars, mapVars, appVars, sinkVars
<1>1. /\ m_streams[s] = "outside" /\ UNCHANGED <<lpc, local, m_events, sent, cur, rpc, m_event_queue>>
      /\ m_streams' = [m_streams EXCEPT ![s] = "present"]
      /\ (lpc \in InLog /\ todo' = todo \cup {s}) \/ todo' = todo
  BY DEF add_output_stream
<1>2. /\ taken' = taken /\ done(s)' \in 0..sent
      /\ \A r \in Streams \ {s} : done(r)' = done(r) /\ (Served(r)' <=> Served(r))
      /\ \A d \in Id : fate[s][d] = "none" /\ fate'[s][d] = IF d <= done(s)' THEN "missed" ELSE "none"
      /\ \A r \in Streams \ {s} : fate'[r] = fate[r]
  BY AddMisses
<1>3. s \notin todo \cup {cur} /\ m_event_queue[s] = <<>>
  BY <1>1 DEF IInv, RemovalInv, QueueInv
<1>4. BatchInv'
  BY <1>1, <1>2 DEF RInv, BatchInv
<1>5. TodoInv'
  BY <1>1, <1>3 DEF RInv, TodoInv, InMap, IInv, TypeOK
<1>6. OutsideInv'
  BY <1>1, <1>2 DEF RInv, OutsideInv, IInv, TypeOK
<1>7. DOMAIN m_event_queue[s] = {}
  BY <1>3
<1>8. OrderInv'
  BY <1>1, <1>2, <1>7 DEF RInv, OrderInv
<1>9. TurnInv'
  <2> SUFFICES ASSUME NEW r \in Streams, Served(r)'
               PROVE  /\ \A d \in Id : d <= done(r)' => fate'[r][d] # "none" \/ In(m_event_queue[r], d)
                      /\ \A d \in Id : d > done(r)' => fate'[r][d] = "none"
                      /\ \A i \in DOMAIN m_event_queue[r] : m_event_queue[r][i].id <= done(r)'
    BY <1>1 DEF TurnInv
  <2>1. CASE r # s
    BY <1>2, <2>1 DEF RInv, TurnInv
  <2>2. CASE r = s
    <3>1. \A d \in Id : d > done(s)' => ~(d <= done(s)')
      BY <1>2, Types
    <3> QED  BY <1>2, <1>7, <2>2, <3>1
  <2> QED  BY <2>1, <2>2
<1> QED  BY <1>4, <1>5, <1>6, <1>8, <1>9 DEF RInv

\* Every step keeps the order of the dispatch.
LEMMA RInvStep == IInv /\ RInv /\ [Next]_vars => RInv'
<1> SUFFICES ASSUME IInv, RInv, [Next]_vars PROVE RInv'
  OBVIOUS
<1>1. CASE UNCHANGED vars
  BY <1>1 DEF vars, logVars, retryVars, mapVars, appVars, sinkVars, RInv, BatchInv, TodoInv, OutsideInv,
              OrderInv, TurnInv, taken, done, Served, InMap
<1>2. CASE lpc # "crashed" /\ QuietNext
  BY <1>2, QuietActions, QuietStep
<1>3. CASE lpc # "crashed" /\ (App \/ LogStep \/ SpuriousWake \/ \E s \in Streams : RetryStep(s))
  BY <1>2, <1>3, EnqueueKeeps, SwapKeeps, EventDoneKeeps, HandOverKeeps, SettleInHandKeeps, RetryWriteKeeps,
     RetryPopKeeps, RetryExpireKeeps, AddKeeps DEF QuietNext, App, LogStep, RetryStep
<1> QED  BY <1>1, <1>3 DEF Next, Ended
-----------------------------------------------------------------------------
(***************************************************************************)
(* The refinement.                                                         *)
(***************************************************************************)

\* A write, or a failure to start a retry thread, settles the message whose turn it is.
LEMMA InHandTurn ==
    ASSUME IInv, RInv, lpc \in {"write", "spawn"}
    PROVE  cur \in Streams /\ Head(local) \in log_event /\ Head(local).id \in Id /\ D!Turn(cur, Head(local).id)
<1>1. lpc \in InLog /\ lpc # "crashed" /\ cur \in Streams /\ cur \notin todo /\ m_event_queue[cur] = <<>>
  BY DEF InLog, IInv, ControlInv, Serves, RInv, TodoInv, MapInv, QueueInv
<1>2. /\ Head(local) \in log_event /\ Head(local).id = taken + 1
      /\ taken + 1 \in Id /\ taken + 1 <= sent
  BY <1>1, InHandNumber
<1>3. Served(cur) /\ done(cur) = taken
  BY <1>1 DEF Served, done
<1>4. taken \in Nat /\ sent \in Nat /\ Id \subseteq Nat \ {0}
  BY Types, DoneTypes
<1>5. DOMAIN m_event_queue[cur] = {}
  BY <1>1
<1>6. /\ \A d \in Id : d <= taken => fate[cur][d] # "none"
      /\ \A d \in Id : d > taken => fate[cur][d] = "none"
  BY <1>1, <1>3, <1>5 DEF RInv, TurnInv, In
<1>7. taken + 1 \in 1..sent /\ taken + 1 > taken /\ \A d \in Id : d < taken + 1 => d <= taken
  BY <1>2, <1>4
<1> QED  BY <1>1, <1>2, <1>6, <1>7 DEF D!Turn, D!Id, Id

\* The first message of a retry queue is the next to be settled.
LEMMA HeadTurn ==
    ASSUME IInv, RInv, NEW s \in Streams, rpc[s] = "write"
    PROVE  /\ Head(m_event_queue[s]) \in log_event /\ Head(m_event_queue[s]).id \in Id
           /\ D!Turn(s, Head(m_event_queue[s]).id)
<1> DEFINE q == m_event_queue[s]
<1>1. q \in Seq(log_event) /\ q # <<>> /\ Head(q) \in log_event /\ \A i \in DOMAIN q : q[i].id \in Id
  BY Types, HeadTypes DEF IInv, QueueInv
<1>2. 1 \in DOMAIN q /\ Head(q) = q[1] /\ DOMAIN q = 1..Len(q)
  BY <1>1, SeqFacts
<1>3. Id \subseteq Nat \ {0} /\ sent \in Nat
  BY Types
<1>4. /\ q[1].id <= sent /\ fate[s][q[1].id] = "none"
      /\ \A d \in Id : d < q[1].id => fate[s][d] # "none" \/ In(q, d)
      /\ \A i \in DOMAIN q : 1 < i => q[1].id < q[i].id
  BY <1>2 DEF RInv, OrderInv
<1>5. ASSUME NEW d \in Id, d < q[1].id PROVE ~In(q, d)
  <2>1. ASSUME NEW i \in DOMAIN q PROVE q[i].id # d
    <3>1. i = 1 \/ 1 < i
      BY <1>2
    <3>2. q[i].id = q[1].id \/ q[1].id < q[i].id
      BY <1>4, <3>1
    <3> QED  BY <1>1, <1>2, <1>3, <1>5, <3>2
  <2> QED  BY <2>1 DEF In
<1>6. q[1].id \in 1..sent /\ q[1].id \in Id
  <2>1. q[1].id \in Id
    BY <1>1, <1>2
  <2> HIDE DEF q
  <2>2. q[1].id \in Nat \ {0}
    BY <1>3, <2>1
  <2> QED  BY <1>3, <1>4, <2>1, <2>2
<1> QED  BY <1>1, <1>2, <1>4, <1>5, <1>6 DEF D!Turn, D!Id, Id

\* The initial states correspond.
LEMMA RefinesInit == Init => D!Init
  BY DEF Init, D!Init, D!Id, Id

\* A write by either thread is an attempt on the message whose turn it is, or passes it over.
LEMMA WriteRefines ==
    ASSUME IInv, NEW s \in Streams, NEW e \in log_event, D!Turn(s, e.id), UNCHANGED sent,
           WriteTrue(s, e) \/ WriteFalse(s, e)
    PROVE  [D!Next]_D!dvars
<1>1. e.id \in D!Id
  BY DEF log_event, D!Id, Id
<1>2. ASSUME WriteTrue(s, e), e.level < m_minLogLevel[s], Settle(s, e, "filtered"), UNCHANGED last
      PROVE  D!PassOver(s, e.id)
  BY <1>2 DEF Settle, D!PassOver, D!Settle
<1>3. ASSUME Settle(s, e, "delivered"), Reach(s, e)
      PROVE  D!Attempt(s, e.id)
  BY <1>3 DEF Settle, Reach, D!Attempt, D!Settle
<1>4. ASSUME UNCHANGED fate, Reach(s, e)
      PROVE  D!Attempt(s, e.id)
  BY <1>4 DEF Reach, D!Attempt
<1>5. ASSUME UNCHANGED fate, UNCHANGED last
      PROVE  UNCHANGED D!dvars
  BY <1>5 DEF D!dvars
<1>6. D!PassOver(s, e.id) \/ D!Attempt(s, e.id) \/ UNCHANGED D!dvars
  BY <1>2, <1>3, <1>4, <1>5 DEF WriteTrue, WriteFalse
<1> QED  BY <1>1, <1>6 DEF D!Next

\* Every step of the threads is a step of Delivery or leaves it where it is.
LEMMA RefinesNext == IInv /\ RInv /\ [Next]_vars => [D!Next]_D!dvars
<1> SUFFICES ASSUME IInv, RInv, [Next]_vars PROVE [D!Next]_D!dvars
  OBVIOUS
<1> USE DEF vars, logVars, retryVars, mapVars, appVars, sinkVars
<1>1. ASSUME NEW t \in AppThreads, NEW l \in UsedLevels, Enqueue(t, l) PROVE [D!Next]_D!dvars
  <2>1. D!Submit
    BY <1>1 DEF Enqueue, D!Submit
  <2> QED  BY <2>1 DEF D!Next
<1>2. ASSUME lpc # "crashed", NEW s \in Streams, add_output_stream(s) PROVE [D!Next]_D!dvars
  <2> DEFINE n == done(s)'
  <2>1. /\ n \in 0..sent
        /\ \A d \in Id : fate[s][d] = "none" /\ fate'[s][d] = IF d <= n THEN "missed" ELSE "none"
        /\ \A r \in Streams \ {s} : fate'[r] = fate[r]
    BY <1>2, AddMisses
  <2>2. fate \in [Streams -> [Id -> Fate]] /\ fate' \in [Streams -> [Id -> Fate]] /\ sent \in 0..MaxEvents
    BY TypeStep DEF IInv, TypeOK
  <2>3. sent' = sent /\ last' = last
    BY <1>2 DEF add_output_stream
  <2> HIDE DEF n
  <2>4. fate'[s] = [e \in Id |-> IF e <= n THEN "missed" ELSE "none"]
    BY <2>1, <2>2
  <2>5. fate' = [fate EXCEPT ![s] = [e \in Id |-> IF e <= n THEN "missed" ELSE "none"]]
    BY <2>1, <2>2, <2>4
  <2>6. D!Attach(s, n)
    BY <2>1, <2>3, <2>5 DEF D!Attach, D!Id, Id
  <2>7. n \in 0..MaxEvents
    BY <2>1, <2>2, ConstantsAssumption
  <2> QED  BY <2>6, <2>7 DEF D!Next
<1>3. CASE LogWriteTrue \/ LogWriteFalse
  <2>1. lpc = "write" /\ UNCHANGED sent /\ (WriteTrue(cur, Head(local)) \/ WriteFalse(cur, Head(local)))
    BY <1>3 DEF LogWriteTrue, LogWriteFalse
  <2> QED  BY <2>1, InHandTurn, WriteRefines
<1>4. CASE SpawnFails
  <2>1. lpc = "spawn" /\ UNCHANGED <<sent, last>> /\ Settle(cur, Head(local), "dropped")
    BY <1>4 DEF SpawnFails
  <2>2. cur \in Streams /\ Head(local).id \in Id /\ D!Turn(cur, Head(local).id)
    BY <2>1, InHandTurn
  <2>3. D!PassOver(cur, Head(local).id)
    BY <2>1, <2>2 DEF Settle, D!PassOver, D!Settle
  <2> QED  BY <2>2, <2>3 DEF D!Next, D!Id, Id
<1>5. ASSUME NEW s \in Streams, RetryWriteTrue(s) \/ RetryWriteFalse(s) PROVE [D!Next]_D!dvars
  <2> DEFINE e == Head(m_event_queue[s])
  <2>1. rpc[s] = "write" /\ UNCHANGED sent /\ (WriteTrue(s, e) \/ WriteFalse(s, e))
    BY <1>5 DEF RetryWriteTrue, RetryWriteFalse
  <2>2. e \in log_event /\ D!Turn(s, e.id)
    BY <2>1, HeadTurn
  <2> HIDE DEF e
  <2> QED  BY <2>1, <2>2, WriteRefines
<1>6. ASSUME NEW s \in Streams, RetryExpire(s) PROVE [D!Next]_D!dvars
  <2>1. PICK i \in DOMAIN m_event_queue[s] : Settle(s, m_event_queue[s][i], "expired")
    BY <1>6 DEF RetryExpire
  <2> DEFINE d == m_event_queue[s][i].id
  <2>2. d \in Id /\ Id \subseteq Nat \ {0} /\ sent \in Nat
    BY Types
  <2>6. rpc[s] # "pop"
    BY <1>6 DEF RetryExpire, Locked
  <2>3. d <= sent /\ fate[s][d] = "none"
    BY <2>6 DEF RInv, OrderInv
  <2>4. fate' = [fate EXCEPT ![s] = [@ EXCEPT ![d] = "expired"]] /\ UNCHANGED <<sent, last>>
    BY <1>6, <2>1 DEF RetryExpire, Settle
  <2> HIDE DEF d
  <2>5. D!Expire(s, d)
    BY <2>2, <2>3, <2>4 DEF D!Expire, D!Settle
  <2> QED  BY <2>2, <2>5 DEF D!Next, D!Id, Id
<1>7. ASSUME UNCHANGED <<sent, fate, last>> PROVE [D!Next]_D!dvars
  BY <1>7 DEF D!dvars
<1>8. CASE App /\ lpc # "crashed"
  <2>1. ASSUME NEW t \in AppThreads, EnqueueNotify(t) PROVE UNCHANGED <<sent, fate, last>>
    BY <2>1 DEF EnqueueNotify
  <2>2. ASSUME Terminate \/ TerminateNotify \/ TerminateJoined PROVE UNCHANGED <<sent, fate, last>>
    BY <2>2 DEF Terminate, TerminateNotify, TerminateJoined
  <2>3. ASSUME NEW s \in Streams, DeleteStream(s) \/ EraseStream(s) PROVE UNCHANGED <<sent, fate, last>>
    BY <2>3 DEF DeleteStream, EraseStream
  <2>4. ASSUME NEW s \in Streams, NEW l \in MinLevels, set_min_log_level(s, l)
        PROVE  UNCHANGED <<sent, fate, last>>
    BY <2>4 DEF set_min_log_level
  <2> QED  BY <1>1, <1>2, <1>7, <1>8, <2>1, <2>2, <2>3, <2>4 DEF App
<1>9. CASE LogStep
  <2>1. ASSUME NEW s \in Streams, Lookup(s) \/ Scan(s) PROVE UNCHANGED <<sent, fate, last>>
    BY <2>1 DEF Lookup, Scan
  <2>2. ASSUME Swap \/ NextEvent \/ EventDone \/ Join \/ RetryEnqueue \/ Spawn \/ FirstEnqueue
        PROVE  UNCHANGED <<sent, fate, last>>
    BY <2>2 DEF Swap, NextEvent, EventDone, Join, RetryEnqueue, Spawn, FirstEnqueue
  <2>3. ASSUME Check \/ ScanJoin \/ ScanDone \/ Recheck \/ LogFault
        PROVE  UNCHANGED <<sent, fate, last>>
    BY <2>3 DEF Check, ScanJoin, ScanDone, Recheck, LogFault
  <2> QED  BY <1>3, <1>4, <1>7, <1>9, <2>1, <2>2, <2>3 DEF LogStep
<1>10. ASSUME NEW s \in Streams, RetryStep(s) PROVE [D!Next]_D!dvars
  <2>1. ASSUME RetryTry(s) \/ RetryPop(s) \/ RetryExpireDone(s) \/ RetryCheck(s)
                  \/ RetryStop(s) \/ RetryFault(s)
        PROVE  UNCHANGED <<sent, fate, last>>
    BY <2>1 DEF RetryTry, RetryPop, RetryExpireDone, RetryCheck, RetryStop, RetryFault
  <2> QED  BY <1>5, <1>6, <1>7, <1>10, <2>1 DEF RetryStep
<1>11. CASE SpuriousWake \/ UNCHANGED vars
  BY <1>7, <1>11 DEF SpuriousWake
<1> QED  BY <1>8, <1>9, <1>10, <1>11 DEF Next, Ended

\* log_thread, retry_thread: whatever the threads do, every stream sees what Delivery promises:
\* it is served in order, and a message that was acknowledged or passed over is not written again.
THEOREM DeliversInOrder == Spec => ImplementsDelivery
<1>1. Spec => [](IInv /\ RInv)
  <2>1. Init => RInv
    BY InitRInv
  <2>2. IInv /\ RInv /\ [Next]_vars => RInv'
    BY RInvStep
  <2> QED  BY <2>1, <2>2, IInvInvariant, PTL DEF Spec
<1> QED  BY <1>1, RefinesInit, RefinesNext, PTL DEF Spec, ImplementsDelivery, D!Spec
=============================================================================
