---------------------------- MODULE LifecycleProofs -------------------------
(***************************************************************************)
(* Proofs about Lifecycle, for any set of threads and any number of        *)
(* messages: the types, EndDrains and FaultExplained.                      *)
(*                                                                         *)
(* Every message that was accepted is settled, with the retry thread, with *)
(* the logging thread or in the queue.  The logging thread ends only when  *)
(* the last three are empty, the log_thread is joined only after that, and *)
(* deleted only after it was joined.                                       *)
(***************************************************************************)
EXTENDS Lifecycle, SequenceTheorems, TLAPS

Labels == {"idle", "fetch", "lock", "push", "notify", "test", "flag", "join", "delete", "reset",
           "leave", "free", "statics", "busy", "scan", "wait", "done"}

\* No message that was accepted is lost.
HeldInv ==
    \A i \in 1..count :
        \/ i \in processed \/ i \in retrying \/ i = taken
        \/ \E k \in 1..Len(m_events) : m_events[k] = i

\* The logging thread looks for work only when it has none.
TakenInv ==
    /\ at["log"] \in {"scan", "wait", "done"} => taken = 0
    /\ at["log"] = "busy" => taken # 0

\* What follows from a stop request.
StopInv ==
    /\ ~m_do_terminate => due = {}
    /\ at["log"] = "done" => m_do_terminate /\ due \subseteq processed
    /\ object # "alive" => m_do_terminate /\ due \subseteq processed
    /\ \A a \in Actors : at[a] = "delete" => object # "alive"

LifeInv == LifecycleTypeOK /\ HeldInv /\ TakenInv /\ StopInv

\* The queue and what became of the messages.
workQueue == <<m_events, m_do_terminate, count, due, taken, retrying, stranded, processed>>
-----------------------------------------------------------------------------
\* The process starts with an empty queue.
LEMMA LifecycleInitEstablishes == LifecycleInit => LifeInv
<1> SUFFICES ASSUME LifecycleInit PROVE LifeInv
  OBVIOUS
<1>1. /\ at \in [Actors -> Labels]
      /\ context \in [Actors -> {"log", "handler", "exit"}]
      /\ at["log"] = "wait" /\ \A a \in Actors : at[a] # "delete"
  BY DEF LifecycleInit, Labels, Actors
<1>2. /\ m_events = <<>> /\ count = 0 /\ taken = 0 /\ due = {} /\ retrying = {} /\ processed = {}
      /\ m_do_terminate = FALSE /\ stranded = FALSE /\ object = "alive"
  BY DEF LifecycleInit
<1>3. m_events \in Seq(1..count)
  BY <1>2, EmptySeq
<1>4. LifecycleTypeOK
  <2>1. /\ phase = "registry" /\ instance = "alive" /\ m_thread = "valid" /\ m_mutex = Nobody
        /\ exiting = Nobody /\ hit = "none" /\ fault = "none" /\ ended = "no"
    BY DEF LifecycleInit
  <2>2. m_do_terminate \in BOOLEAN /\ stranded \in BOOLEAN
    BY <1>2
  <2>3. count \in Nat /\ taken \in 0..count
    BY <1>2
  <2>4. /\ retrying \in SUBSET (1..count) /\ processed \in SUBSET (1..count)
        /\ due \in SUBSET (1..count)
    BY <1>2
  <2> QED
    BY <1>1, <1>2, <1>3, <2>1, <2>2, <2>3, <2>4 DEF LifecycleTypeOK, Labels
<1> QED
  BY <1>1, <1>2, <1>4 DEF LifeInv, HeldInv, TakenInv, StopInv

\* A step that leaves the queue and the messages alone keeps what is said of
\* them, if the logging thread does not come to look for work by it and the
\* log_thread is not joined by it.
LEMMA DrainKept ==
    ASSUME LifeInv, UNCHANGED workQueue,
           at'["log"] \in {"scan", "wait", "done"} => at["log"] \in {"scan", "wait", "done"},
           \A label \in {"busy", "done"} : at'["log"] = label => at["log"] = label,
           object = "alive" => object' = "alive",
           \A a \in Actors : at'[a] = "delete" => at[a] = "delete",
           object # "alive" => object' # "alive"
    PROVE  HeldInv' /\ TakenInv' /\ StopInv'
  BY DEF LifeInv, HeldInv, TakenInv, StopInv, workQueue

\* A step of one actor to another label.
LEMMA StepKeeps ==
    ASSUME LifeInv, NEW a \in Actors, NEW to \in Labels \ {"busy", "scan", "wait", "done", "delete"},
           at' = [at EXCEPT ![a] = to],
           UNCHANGED workQueue, object' = object
    PROVE  HeldInv' /\ TakenInv' /\ StopInv' /\ at' \in [Actors -> Labels]
<1>1. at \in [Actors -> Labels]
  BY DEF LifeInv, LifecycleTypeOK, Labels
<1>2. at' \in [Actors -> Labels] /\ \A b \in Actors : at'[b] = IF b = a THEN to ELSE at[b]
  BY <1>1
<1>3. "log" \in Actors
  BY DEF Actors
<1> QED
  BY <1>2, <1>3, DrainKept

\* A crash leaves everything but the fault alone.
LEMMA CrashKeeps ==
    ASSUME LifeInv, NEW a, NEW labels, NEW kind \in {"freed", "null", "join"},
           Crash(a, labels, kind)
    PROVE  LifeInv'
<1>1. UNCHANGED workQueue /\ at' = at /\ object' = object
  BY DEF Crash, workQueue, objectVars, queueVars, workVars
<1>2. LifecycleTypeOK'
  BY DEF Crash, LifeInv, LifecycleTypeOK, objectVars, queueVars, workVars
<1> QED
  BY <1>1, <1>2, DrainKept DEF LifeInv
-----------------------------------------------------------------------------
\* log() up to the hand-over, and after it.
LEMMA CallKeeps ==
    ASSUME LifeInv, NEW a \in Actors, CallLog(a) \/ Fetch(a) \/ LockEvents(a)
    PROVE  LifeInv'
<1>1. /\ UNCHANGED <<phase, context, objectVars, workQueue, endVars>>
      /\ m_mutex' \in {m_mutex, a}
      /\ \E to \in {"fetch", "lock", "push"} : at' = [at EXCEPT ![a] = to]
  BY DEF CallLog, Fetch, LockEvents, Step, queueVars, workVars, workQueue
<1>2. HeldInv' /\ TakenInv' /\ StopInv' /\ at' \in [Actors -> Labels]
  BY <1>1, StepKeeps DEF Labels, objectVars
<1>3. LifecycleTypeOK'
  BY <1>1, <1>2 DEF LifeInv, LifecycleTypeOK, Labels, objectVars, workQueue, endVars
<1> QED
  BY <1>2, <1>3 DEF LifeInv

\* The message is appended under the next number.
LEMMA PushKeeps ==
    ASSUME LifeInv, NEW a \in Actors, Push(a)
    PROVE  LifeInv'
<1> USE DEF LifeInv
<1>1. /\ UNCHANGED <<phase, context, objectVars, m_do_terminate, due, workVars, endVars>>
      /\ count' = count + 1 /\ m_events' = Append(m_events, count')
      /\ m_mutex' = Nobody /\ at' = [at EXCEPT ![a] = "notify"]
  BY DEF Push, Step
<1>2. count \in Nat /\ 1..count \subseteq 1..count' /\ count' \in 1..count'
  BY <1>1 DEF LifecycleTypeOK
<1>3. m_events \in Seq(1..count')
  BY <1>2, SeqMonotonic DEF LifecycleTypeOK
<1>4. /\ m_events' \in Seq(1..count') /\ Len(m_events') = Len(m_events) + 1
      /\ \A k \in 1..Len(m_events) : m_events'[k] = m_events[k]
      /\ m_events'[Len(m_events) + 1] = count'
  BY <1>1, <1>2, <1>3, AppendProperties
<1>5. Len(m_events) \in Nat
  BY <1>3, LenProperties
<1>6. at' \in [Actors -> Labels] /\ \A b \in Actors : at'[b] = IF b = a THEN "notify" ELSE at[b]
  BY <1>1 DEF LifecycleTypeOK, Labels
<1>7. taken' \in 0..count' /\ stranded' \in BOOLEAN
  BY <1>1, <1>2 DEF LifecycleTypeOK, workVars
<1>8. /\ retrying' \in SUBSET (1..count') /\ processed' \in SUBSET (1..count')
      /\ due' \in SUBSET (1..count')
  BY <1>1, <1>2 DEF LifecycleTypeOK, workVars
<1>9. LifecycleTypeOK'
  BY <1>1, <1>2, <1>4, <1>6, <1>7, <1>8 DEF LifecycleTypeOK, Labels, objectVars, endVars
<1>10. HeldInv'
  <2> SUFFICES ASSUME NEW i \in 1..count'
               PROVE  \/ i \in processed' \/ i \in retrying' \/ i = taken'
                      \/ \E k \in 1..Len(m_events') : m_events'[k] = i
    BY DEF HeldInv
  <2>1. CASE i = count'
    BY <1>4, <1>5, <2>1
  <2>2. CASE i \in 1..count
    BY <1>1, <1>4, <1>5, <2>2 DEF HeldInv, workVars
  <2> QED
    BY <1>1, <1>2, <2>1, <2>2
<1>11. "log" \in Actors
  BY DEF Actors
<1>12. TakenInv' /\ StopInv'
  BY <1>1, <1>6, <1>11 DEF TakenInv, StopInv, workVars, objectVars
<1> QED
  BY <1>9, <1>10, <1>12

\* A notification wakes the logging thread up, which then looks for work.
LEMMA NotifyKeeps ==
    ASSUME LifeInv, NEW a \in Actors, NotifyEvents(a)
    PROVE  LifeInv'
<1>1. /\ UNCHANGED <<phase, context, objectVars, queueVars, workVars, endVars>>
      /\ at[a] = "notify"
      /\ at' = [at EXCEPT ![a] = IF context[a] = "log" THEN "idle" ELSE "test",
                          !["log"] = IF @ = "wait" THEN "scan" ELSE @]
  BY DEF NotifyEvents
<1>2. at \in [Actors -> Labels] /\ "log" \in Actors
  BY DEF LifeInv, LifecycleTypeOK, Labels, Actors
<1>3. /\ at' \in [Actors -> Labels]
      /\ at'["log"] \in {"scan", "wait", "done"} => at["log"] \in {"scan", "wait", "done"}
      /\ \A label \in {"busy", "done"} : at'["log"] = label => at["log"] = label
      /\ \A b \in Actors : at'[b] = "delete" => at[b] = "delete"
  BY <1>1, <1>2 DEF Labels
<1>4. UNCHANGED workQueue /\ object' = object
  BY <1>1 DEF workQueue, objectVars, queueVars, workVars
<1>5. HeldInv' /\ TakenInv' /\ StopInv'
  BY <1>3, <1>4, DrainKept
<1>6. LifecycleTypeOK'
  BY <1>1, <1>3 DEF LifeInv, LifecycleTypeOK, Labels, objectVars, queueVars, workVars, endVars
<1> QED
  BY <1>5, <1>6 DEF LifeInv

\* The logging thread and the retry thread pass the messages on and lose none.
LEMMA ScanKeeps ==
    ASSUME LifeInv, Scan
    PROVE  LifeInv'
<1> USE DEF LifeInv
<1>1. /\ UNCHANGED <<phase, context, objectVars, m_mutex, m_do_terminate, count, due, retrying,
                     stranded, processed, endVars>>
      /\ at["log"] = "scan" /\ taken = 0
  BY DEF Scan, TakenInv
<1>2. at \in [Actors -> Labels] /\ "log" \in Actors
  BY DEF LifecycleTypeOK, Labels, Actors
<1>3. m_events \in Seq(1..count) /\ Len(m_events) \in Nat
  BY LenProperties DEF LifecycleTypeOK
<1>4. CASE /\ m_events # <<>>
           /\ taken' = Head(m_events) /\ m_events' = Tail(m_events)
           /\ at' = [at EXCEPT !["log"] = "busy"]
  <2>1. /\ Head(m_events) \in 1..count /\ Tail(m_events) \in Seq(1..count)
        /\ Len(Tail(m_events)) = Len(m_events) - 1
        /\ \A k \in 1..Len(Tail(m_events)) : Tail(m_events)[k] = m_events[k + 1]
    BY <1>3, <1>4, HeadTailProperties
  <2>2. Head(m_events) = m_events[1]
    BY <1>4
  <2>3. at' \in [Actors -> Labels] /\ \A b \in Actors : at'[b] = IF b = "log" THEN "busy" ELSE at[b]
    BY <1>2, <1>4 DEF Labels
  <2>4. taken' \in 0..count' /\ m_events' \in Seq(1..count')
    BY <1>1, <1>4, <2>1 DEF LifecycleTypeOK
  <2>5. LifecycleTypeOK'
    BY <1>1, <2>3, <2>4 DEF LifecycleTypeOK, Labels, objectVars, endVars
  <2>6. HeldInv'
    <3> SUFFICES ASSUME NEW i \in 1..count, i \notin processed, i \notin retrying, i # taken'
                 PROVE  \E k \in 1..Len(m_events') : m_events'[k] = i
      BY <1>1 DEF HeldInv
    <3>1. i # 0
      OBVIOUS
    <3>2. PICK k \in 1..Len(m_events) : m_events[k] = i
      BY <1>1, <3>1 DEF HeldInv
    <3>3. k # 1
      BY <1>4, <2>2, <3>2
    <3>4. k - 1 \in 1..Len(m_events') /\ m_events'[k - 1] = m_events[(k - 1) + 1]
      BY <1>3, <1>4, <2>1, <3>2, <3>3
    <3>5. (k - 1) + 1 = k
      BY <1>3
    <3> QED
      BY <3>2, <3>4, <3>5
  <2>7. TakenInv' /\ StopInv'
    BY <1>1, <1>2, <1>4, <2>1, <2>3 DEF TakenInv, StopInv, objectVars
  <2> QED
    BY <2>5, <2>6, <2>7
<1>5. CASE /\ m_events = <<>>
           /\ m_do_terminate => retrying = {}
           /\ at' = [at EXCEPT !["log"] = IF m_do_terminate THEN "done" ELSE "wait"]
           /\ UNCHANGED <<taken, m_events>>
  <2>1. /\ at' \in [Actors -> Labels]
        /\ at'["log"] = IF m_do_terminate THEN "done" ELSE "wait"
        /\ \A b \in Actors : b # "log" => at'[b] = at[b]
    BY <1>2, <1>5 DEF Labels
  <2>2. LifecycleTypeOK'
    BY <1>1, <1>5, <2>1 DEF LifecycleTypeOK, Labels, objectVars, endVars
  <2>3. HeldInv' /\ TakenInv'
    BY <1>1, <1>5, <2>1 DEF HeldInv, TakenInv
  <2>4. m_do_terminate => due \subseteq processed
    <3> SUFFICES ASSUME m_do_terminate, NEW i \in due PROVE i \in processed
      OBVIOUS
    <3>1. i \in 1..count /\ i # 0
      BY DEF LifecycleTypeOK
    <3>2. ~ \E k \in 1..Len(m_events) : m_events[k] = i
      <4>1. Len(m_events) = 0
        BY <1>5, EmptySeq
      <4> QED
        BY <4>1
    <3> QED
      BY <1>1, <1>5, <3>1, <3>2 DEF HeldInv
  <2>5. StopInv'
    BY <1>1, <1>2, <2>1, <2>4 DEF StopInv, objectVars
  <2> QED
    BY <2>2, <2>3, <2>5
<1> QED
  BY <1>4, <1>5 DEF Scan

\* A message is settled or held for a retry, and settled then.
LEMMA SettleKeeps ==
    ASSUME LifeInv, Process \/ Retry
    PROVE  LifeInv'
<1> USE DEF LifeInv
<1>1. UNCHANGED <<phase, context, objectVars, queueVars, endVars>>
  BY DEF Process, Retry
<1>2. "log" \in Actors /\ at \in [Actors -> Labels]
  BY DEF Actors, LifecycleTypeOK, Labels
<1>3. CASE Process
  <2>1. /\ at["log"] = "busy" /\ at' = [at EXCEPT !["log"] = "scan"]
        /\ taken' = 0 /\ taken \in 1..count
    BY <1>3 DEF Process, Step, TakenInv, LifecycleTypeOK
  <2>2. /\ at' \in [Actors -> Labels]
        /\ \A b \in Actors : at'[b] = IF b = "log" THEN "scan" ELSE at[b]
    BY <1>2, <2>1 DEF Labels
  <2>3. /\ processed \subseteq processed' /\ retrying \subseteq retrying'
        /\ processed' \subseteq processed \cup {taken} /\ retrying' \subseteq retrying \cup {taken}
        /\ taken \in processed' \/ taken \in retrying'
    BY <1>3 DEF Process
  <2>4. /\ retrying' \in SUBSET (1..count) /\ processed' \in SUBSET (1..count)
        /\ stranded' \in BOOLEAN
    BY <1>3, <2>1, <2>3 DEF LifecycleTypeOK, Process
  <2>5. LifecycleTypeOK'
    BY <1>1, <2>1, <2>2, <2>4 DEF LifecycleTypeOK, Labels, objectVars, queueVars, endVars
  <2>6. HeldInv'
    BY <1>1, <2>3 DEF HeldInv, queueVars
  <2>7. TakenInv' /\ StopInv'
    BY <1>1, <1>2, <2>1, <2>2, <2>3 DEF TakenInv, StopInv, objectVars, queueVars
  <2> QED
    BY <2>5, <2>6, <2>7
<1>4. CASE Retry
  <2>1. /\ UNCHANGED <<at, taken, stranded>>
        /\ \E m \in retrying : processed' = processed \cup {m} /\ retrying' = retrying \ {m}
    BY <1>4 DEF Retry
  <2>2. LifecycleTypeOK'
    BY <1>1, <2>1 DEF LifecycleTypeOK, objectVars, queueVars, endVars
  <2>3. HeldInv'
    BY <1>1, <2>1 DEF HeldInv, queueVars
  <2>4. TakenInv' /\ StopInv'
    BY <1>1, <2>1 DEF TakenInv, StopInv, objectVars, queueVars
  <2> QED
    BY <2>2, <2>3, <2>4
<1> QED
  BY <1>3, <1>4
-----------------------------------------------------------------------------
\* A stop request wakes the logging thread up; what was accepted before the
\* first one is due.
LEMMA StopRequestKeeps ==
    ASSUME LifeInv, NEW a \in Actors, StopRequest(a)
    PROVE  LifeInv'
<1> USE DEF LifeInv
<1>1. /\ UNCHANGED <<phase, context, objectVars, m_mutex, m_events, count, workVars, endVars>>
      /\ at[a] = "flag"
      /\ at' = [at EXCEPT ![a] = "join", !["log"] = IF @ = "wait" THEN "scan" ELSE @]
      /\ m_do_terminate' = TRUE
      /\ due' = IF m_do_terminate THEN due ELSE 1..count
  BY DEF StopRequest
<1>2. at \in [Actors -> Labels] /\ "log" \in Actors
  BY DEF LifecycleTypeOK, Labels, Actors
<1>3. /\ at' \in [Actors -> Labels]
      /\ at'["log"] \in {"scan", "wait", "done"} => at["log"] \in {"scan", "wait", "done"}
      /\ \A label \in {"busy", "done"} : at'["log"] = label => at["log"] = label
      /\ \A b \in Actors : at'[b] = "delete" => at[b] = "delete"
  BY <1>1, <1>2 DEF Labels
<1>4. m_do_terminate' \in BOOLEAN
  BY <1>1
<1>5. due' \in SUBSET (1..count)
  BY <1>1 DEF LifecycleTypeOK
<1>6. LifecycleTypeOK'
  BY <1>1, <1>3, <1>4, <1>5 DEF LifecycleTypeOK, Labels, objectVars, workVars, endVars
<1>7. HeldInv' /\ TakenInv'
  BY <1>1, <1>3 DEF HeldInv, TakenInv, workVars
<1>8. StopInv'
  BY <1>1, <1>3 DEF StopInv, objectVars, workVars
<1> QED
  BY <1>6, <1>7, <1>8

\* The log_thread is joined when the logging thread is done.
LEMMA JoinKeeps ==
    ASSUME LifeInv, NEW a \in Actors, Join(a)
    PROVE  LifeInv'
<1> USE DEF LifeInv
<1>1. /\ UNCHANGED <<phase, context, instance, m_thread, queueVars, workVars, endVars>>
      /\ at["log"] = "done" /\ a # "log"
      /\ at' = [at EXCEPT ![a] = "delete"] /\ object' = "joined"
  BY DEF Join, Step
<1>2. at \in [Actors -> Labels] /\ "log" \in Actors
  BY DEF LifecycleTypeOK, Labels, Actors
<1>3. at' \in [Actors -> Labels] /\ at'["log"] = "done"
  BY <1>1, <1>2 DEF Labels
<1>4. LifecycleTypeOK'
  BY <1>1, <1>3 DEF LifecycleTypeOK, Labels, queueVars, workVars, endVars
<1>5. HeldInv' /\ TakenInv' /\ StopInv'
  BY <1>1, <1>3 DEF HeldInv, TakenInv, StopInv, queueVars, workVars
<1> QED
  BY <1>4, <1>5

\* It is deleted only after that.
LEMMA DeleteKeeps ==
    ASSUME LifeInv, NEW a \in Actors, Delete(a)
    PROVE  LifeInv'
<1> USE DEF LifeInv
<1>1. /\ UNCHANGED <<phase, context, instance, queueVars, workVars, endVars>>
      /\ at[a] = "delete" /\ object' = "freed" /\ m_thread' \in {"dangling", m_thread}
      /\ \E to \in {"free", "reset"} : at' = [at EXCEPT ![a] = to]
  BY DEF Delete, Step
<1>2. at \in [Actors -> Labels] /\ "log" \in Actors
  BY DEF LifecycleTypeOK, Labels, Actors
<1>3. /\ at' \in [Actors -> Labels]
      /\ \A b \in Actors : at'[b] \in {at[b], "free", "reset"}
  BY <1>1, <1>2 DEF Labels
<1>4. object # "alive"
  BY <1>1 DEF StopInv
<1>5. UNCHANGED workQueue
  BY <1>1 DEF workQueue, queueVars, workVars
<1>6. HeldInv' /\ TakenInv' /\ StopInv'
  BY <1>1, <1>2, <1>3, <1>4, <1>5, DrainKept
<1>7. LifecycleTypeOK'
  BY <1>1, <1>3 DEF LifecycleTypeOK, Labels, queueVars, workVars, endVars
<1> QED
  BY <1>6, <1>7

\* The other steps of the end of the process touch neither the queue nor the
\* log_thread.
LEMMA EndKeeps ==
    ASSUME LifeInv, NEW a \in Actors,
           Test(a) \/ Reset(a) \/ Signal(a) \/ CallExit(a) \/ Leave(a) \/ Free(a) \/ Statics(a)
    PROVE  LifeInv'
<1> USE DEF LifeInv
<1>1. UNCHANGED <<phase, object, queueVars, workVars, fault>>
  BY DEF Test, Reset, Signal, CallExit, Leave, Exit, Free, Statics, objectVars, endVars
<1>2. \/ at' = at
      \/ \E to \in {"leave", "flag", "fetch", "free", "statics"} : at' = [at EXCEPT ![a] = to]
  BY DEF Test, Reset, Signal, CallExit, Leave, Exit, Free, Statics, Step
<1>3. UNCHANGED workQueue /\ object' = object
  BY <1>1 DEF workQueue, queueVars, workVars
<1>4. HeldInv' /\ TakenInv' /\ StopInv' /\ at' \in [Actors -> Labels]
  <2>1. CASE at' = at
    BY <1>3, <2>1, DrainKept DEF LifecycleTypeOK, Labels
  <2>2. CASE \E to \in {"leave", "flag", "fetch", "free", "statics"} : at' = [at EXCEPT ![a] = to]
    BY <1>3, <2>2, StepKeeps DEF Labels
  <2> QED
    BY <1>2, <2>1, <2>2
<1>5. \/ context' = context
      \/ \E c \in {"handler", "exit"} : context' = [context EXCEPT ![a] = c]
  BY DEF Test, Reset, Signal, CallExit, Leave, Exit, Free, Statics
<1>6. context' \in [Actors -> {"log", "handler", "exit"}]
  BY <1>5 DEF LifecycleTypeOK
<1>7. /\ instance' \in {instance, "freed"} /\ m_thread' \in {m_thread, "null"}
      /\ exiting' \in {exiting, a} /\ ended' \in {ended, "exit", "handler"}
  BY DEF Test, Reset, Signal, CallExit, Leave, Exit, Free, Statics, objectVars, endVars
<1>8. hit' \in {"none", "outside", "inside", "log", "retry"}
  <2>1. hit' \in {hit, "outside", "inside"} \/ (hit' = a /\ a \notin Threads)
    BY DEF Test, Reset, Signal, CallExit, Leave, Exit, Free, Statics, endVars
  <2> QED
    BY <2>1 DEF LifecycleTypeOK, Actors
<1>9. LifecycleTypeOK'
  BY <1>1, <1>4, <1>6, <1>7, <1>8 DEF LifecycleTypeOK, Labels, queueVars, workVars
<1> QED
  BY <1>4, <1>9
-----------------------------------------------------------------------------
\* Every step preserves the invariant.
LEMMA LifecycleNextPreserves ==
    LifeInv /\ [LifecycleNext]_<<vars, lifeVars>> => LifeInv'
<1> SUFFICES ASSUME LifeInv, [LifecycleNext]_<<vars, lifeVars>> PROVE LifeInv'
  OBVIOUS
<1>1. CASE UNCHANGED lifeVars
  BY <1>1 DEF LifeInv, LifecycleTypeOK, HeldInv, TakenInv, StopInv,
              lifeVars, objectVars, queueVars, workVars, endVars
<1>2. CASE Begin
  <2>1. UNCHANGED workQueue /\ at' = at /\ object' = object
    BY <1>2 DEF Begin, workQueue, objectVars, queueVars, workVars
  <2>2. LifecycleTypeOK'
    BY <1>2 DEF Begin, LifeInv, LifecycleTypeOK, objectVars, queueVars, workVars, endVars
  <2> QED
    BY <2>1, <2>2, DrainKept DEF LifeInv
<1>3. CASE Work
  <2>1. CASE WorkFaults
    BY <2>1, CrashKeeps DEF WorkFaults
  <2> QED
    BY <1>3, <2>1, ScanKeeps, SettleKeeps DEF Work
<1>4. ASSUME NEW a \in Actors, LogCall(a) \/ CallLog(a) PROVE LifeInv'
  <2>1. CASE LogFaults(a)
    BY <2>1, CrashKeeps DEF LogFaults
  <2> QED
    BY <1>4, <2>1, CallKeeps, PushKeeps, NotifyKeeps DEF LogCall
<1>5. ASSUME NEW a \in Actors, Terminate(a) PROVE LifeInv'
  <2>1. CASE TerminateFaults(a)
    BY <2>1, CrashKeeps DEF TerminateFaults
  <2> QED
    BY <1>5, <2>1, StopRequestKeeps, JoinKeeps, DeleteKeeps, EndKeeps DEF Terminate
<1>6. ASSUME NEW a \in Actors, Signal(a) \/ CallExit(a) \/ Leave(a) \/ Free(a) \/ Statics(a)
      PROVE  LifeInv'
  BY <1>6, EndKeeps
<1>7. CASE Retry
  BY <1>7, SettleKeeps
<1> QED
  BY <1>1, <1>2, <1>3, <1>4, <1>5, <1>6, <1>7 DEF LifecycleNext, Going

\* The invariant holds throughout.
LEMMA LifecycleInvariance == LifecycleSpec => []LifeInv
  BY LifecycleInitEstablishes, LifecycleNextPreserves, PTL DEF LifecycleSpec

\* All variables keep their types.
THEOREM LifecycleTypeCorrect == LifecycleSpec => []LifecycleTypeOK
<1>1. LifeInv => LifecycleTypeOK
  BY DEF LifeInv
<1> QED
  BY <1>1, LifecycleInvariance, PTL

\* When the log_thread is deleted, every message that was accepted before the
\* stop was asked for is settled, whatever thread crashes or exits.
THEOREM DrainedAtEnd == LifecycleSpec => []EndDrains
<1>1. LifeInv => EndDrains
  BY DEF LifeInv, StopInv, EndDrains
<1> QED
  BY <1>1, LifecycleInvariance, PTL
-----------------------------------------------------------------------------
(***************************************************************************)
(* FaultExplained.  Only a handler and a call of exit() take the logger    *)
(* apart.  While one actor does so alone, and the signal arrived neither   *)
(* in a thread that is inside the library nor in the logging thread, where *)
(* it is says what is left of the logger.                                  *)
(***************************************************************************)

Others == Actors \ {"log"}

\* Who is where: only a handler or a call of exit() goes beyond log(), and
\* only a handler takes the logging or the retry thread away from its work.
ActorInv ==
    /\ phase = "registry" => fault = "none"
    /\ \A b \in Others :
          /\ context[b] # "log" => at[b] # "idle"
          /\ context[b] = "log" => at[b] \in {"idle", "fetch", "lock", "push", "notify"}
    /\ at["retry"] # "idle" => hit = "retry" /\ retrying # {}
    /\ hit # "retry" => context["retry"] = "log"
    /\ hit # "log" => at["log"] \in {"scan", "wait", "busy", "done"}
    /\ object # "alive" => at["log"] = "done"
    /\ at["log"] = "done" => retrying = {}

Alone ==
    /\ hit \notin {"inside", "log"}
    /\ \A b, c \in Others : context[b] # "log" /\ context[c] # "log" => b = c

Whole == instance = "alive" /\ m_thread = "valid" /\ object = "alive"

\* What is left of the logger when b is the one that takes it apart.
Stage(b) ==
    \/ at[b] \in {"lock", "push", "notify", "test", "flag", "join"} /\ Whole
    \/ at[b] = "fetch" /\ context[b] = "handler" /\ Whole
    \/ at[b] = "delete" /\ instance = "alive" /\ m_thread = "valid" /\ object = "joined"
    \/ /\ at[b] = "reset" /\ context[b] = "handler"
       /\ instance = "alive" /\ m_thread = "dangling" /\ object = "freed"
    \/ /\ at[b] = "leave" /\ context[b] = "handler"
       /\ instance = "alive" /\ m_thread = "null" /\ object = "freed"
    \/ at[b] = "free" /\ context[b] = "exit" /\ instance = "alive" /\ object = "freed"
    \/ /\ at[b] \in {"statics", "fetch"} /\ context[b] = "exit"
       /\ instance = "freed" /\ object = "freed"

AloneInv ==
    Alone => /\ (\A b \in Others : context[b] = "log") => Whole
             /\ \A b \in Others : context[b] # "log" => Stage(b)

EndInv == LifeInv /\ ActorInv /\ AloneInv /\ FaultExplained

\* The actors and what is known of their labels.
LEMMA ActorFacts ==
    ASSUME LifeInv
    PROVE  /\ "log" \in Actors /\ "retry" \in Others /\ Actors = Others \cup {"log"}
           /\ Threads \subseteq Others /\ Others = Threads \cup {"retry"}
           /\ at \in [Actors -> Labels] /\ context \in [Actors -> {"log", "handler", "exit"}]
  BY LifecycleAssumption DEF Actors, Others, LifeInv, LifecycleTypeOK, Labels

\* The process starts with the logger whole and nobody inside.
LEMMA EndInitEstablishes == LifecycleInit => EndInv
<1> SUFFICES ASSUME LifecycleInit PROVE EndInv
  OBVIOUS
<1>1. LifeInv
  BY LifecycleInitEstablishes
<1>2. /\ \A b \in Others : at[b] = "idle" /\ context[b] = "log"
      /\ at["log"] = "wait" /\ at["retry"] = "idle" /\ context["retry"] = "log"
  BY DEF LifecycleInit, Others, Actors
<1>3. /\ fault = "none" /\ object = "alive" /\ hit = "none"
      /\ instance = "alive" /\ m_thread = "valid"
  BY DEF LifecycleInit
<1> QED
  BY <1>1, <1>2, <1>3 DEF EndInv, ActorInv, AloneInv, Whole, FaultExplained

Gone == instance # "alive" \/ m_thread # "valid" \/ object # "alive"

\* Where an actor needs what is gone.
Bereft(a) ==
    \/ at[a] \in {"lock", "push", "notify", "fetch", "test", "flag", "join"} /\ Gone
    \/ at[a] \in {"delete", "reset"} /\ instance # "alive"
    \/ at[a] = "delete" /\ m_thread = "dangling"

Explained ==
    \/ hit \in {"inside", "log"}
    \/ \E a, b \in Actors \ {"log"} : a # b /\ at[a] # "idle" /\ at[b] # "idle"
    \/ \E a \in Threads : context[a] = "exit" /\ at[a] = "fetch"

\* An actor that needs what is gone is not alone, or a static destructor.
LEMMA BereftExplained ==
    ASSUME EndInv, NEW a \in Others, Bereft(a)
    PROVE  Explained
<1> SUFFICES ASSUME ~Explained PROVE FALSE
  OBVIOUS
<1> USE DEF EndInv
<1>1. hit \notin {"inside", "log"} /\ \A b \in Others : b # a => at[b] = "idle"
  BY DEF Explained, Others, Bereft
<1>2. \A b \in Others : b # a => context[b] = "log"
  BY <1>1 DEF ActorInv
<1>3. Alone
  BY <1>1, <1>2 DEF Alone
<1>4. context[a] # "log"
  BY <1>2, <1>3 DEF AloneInv, Gone, Whole, Bereft, ActorInv
<1>5. Stage(a)
  BY <1>3, <1>4 DEF AloneInv
<1>6. at[a] = "fetch" /\ context[a] = "exit" /\ object = "freed"
  BY <1>5 DEF Stage, Bereft, Gone, Whole
<1>7. at["retry"] = "idle"
  BY <1>6 DEF ActorInv
<1>8. a \in Threads
  BY <1>6, <1>7, ActorFacts
<1> QED
  BY <1>6, <1>8 DEF Explained

\* The faults of the model are uses of what is gone.
LEMMA FaultsExplained ==
    ASSUME EndInv, Running, NEW a \in Actors, LogFaults(a) \/ TerminateFaults(a) \/ WorkFaults
    PROVE  EndInv'
<1> USE DEF EndInv
<1>1. /\ UNCHANGED <<at, context, instance, m_thread, object, retrying, hit, phase>>
      /\ fault' \in {"freed", "null", "join"}
  BY DEF LogFaults, TerminateFaults, WorkFaults, Crash, objectVars, workVars
<1>2. LifeInv'
  BY CrashKeeps DEF LogFaults, TerminateFaults, WorkFaults
<1>3. ~WorkFaults
  BY DEF WorkFaults, Crash, ActorInv, Retries
<1>4. a = "log" => hit = "log"
  <2>1. a = "log" => at["log"] \notin {"scan", "wait", "busy", "done"}
    BY <1>3 DEF LogFaults, TerminateFaults, Crash
  <2> QED
    BY <2>1 DEF ActorInv
<1>5. a # "log" => Bereft(a)
  BY <1>3 DEF LogFaults, TerminateFaults, Crash, Bereft, Gone
<1>6. Explained
  BY <1>4, <1>5, BereftExplained DEF Others, Explained
<1>7. phase # "registry"
  BY DEF Running
<1>8. ActorInv'
  BY <1>1, <1>7 DEF ActorInv
<1>9. AloneInv'
  BY <1>1 DEF AloneInv, Alone, Whole, Stage
<1> QED
  BY <1>1, <1>2, <1>6, <1>8, <1>9 DEF FaultExplained, Explained
\* A step of an actor on behalf of log(), or of the logging thread, that
\* leaves the logger as it is.
LEMMA LogStepAlone ==
    ASSUME EndInv, NEW a \in Actors, a = "log" \/ context[a] = "log",
           \A b \in Others : b # a => at'[b] = at[b],
           UNCHANGED <<context, hit, instance, m_thread, object>>
    PROVE  AloneInv'
<1> USE DEF EndInv
<1> SUFFICES ASSUME Alone' PROVE (/\ (\A b \in Others : context[b] = "log") => Whole
                                 /\ \A b \in Others : context[b] # "log" => Stage(b))'
  BY DEF AloneInv
<1>1. Alone
  BY DEF Alone
<1>2. ((\A b \in Others : context[b] = "log") => Whole)'
  BY <1>1 DEF AloneInv, Whole
<1>3. ASSUME NEW b \in Others, context'[b] # "log" PROVE Stage(b)'
  <2>1. b # a
    BY <1>3, ActorFacts DEF Others
  <2>2. Stage(b) /\ at'[b] = at[b] /\ context'[b] = context[b]
    BY <1>1, <1>3, <2>1 DEF AloneInv
  <2> QED
    BY <2>2 DEF Stage, Whole
<1> QED
  BY <1>2, <1>3

\* A step of the one that takes the logger apart.
LEMMA EndStepAlone ==
    ASSUME EndInv, NEW a \in Others, context[a] # "log", context'[a] # "log",
           \A b \in Others : b # a => context'[b] = context[b],
           hit' = hit, Stage(a) => Stage(a)'
    PROVE  AloneInv'
<1> USE DEF EndInv
<1> SUFFICES ASSUME Alone' PROVE (/\ (\A b \in Others : context[b] = "log") => Whole
                                 /\ \A b \in Others : context[b] # "log" => Stage(b))'
  BY DEF AloneInv
<1>1. \A b \in Others : context'[b] # "log" <=> context[b] # "log"
  OBVIOUS
<1>2. Alone
  BY <1>1 DEF Alone
<1>3. Stage(a)'
  BY <1>2 DEF AloneInv
<1>4. \A b \in Others : context'[b] # "log" => b = a
  BY DEF Alone
<1> QED
  BY <1>3, <1>4

\* Nothing but a step of an actor whose labels are in order.
LEMMA ActorKept ==
    ASSUME EndInv, Running, NEW a \in Others, at[a] # "idle",
           UNCHANGED <<phase, fault, hit, retrying>>,
           \A b \in Others : b # a => at'[b] = at[b],
           at'["log"] = at["log"] \/ (at["log"] = "wait" /\ at'["log"] = "scan"),
           \A b \in Others : \/ context'[b] = context[b]
                             \/ b = a /\ context[a] # "log" /\ context'[a] # "log",
           context[a] # "log" => at'[a] # "idle",
           context[a] = "log" => at'[a] \in {"idle", "fetch", "lock", "push", "notify"},
           object' # "alive" => object # "alive" \/ at["log"] = "done"
    PROVE  ActorInv'
<1> USE DEF EndInv
<1>1. /\ (phase = "registry" => fault = "none")'
      /\ (hit # "log" => at["log"] \in {"scan", "wait", "busy", "done"})'
      /\ (object # "alive" => at["log"] = "done")'
      /\ (at["log"] = "done" => retrying = {})'
  BY DEF ActorInv
<1>2. (\A b \in Others :
          /\ context[b] # "log" => at[b] # "idle"
          /\ context[b] = "log" => at[b] \in {"idle", "fetch", "lock", "push", "notify"})'
  BY DEF ActorInv
<1>3. (/\ at["retry"] # "idle" => hit = "retry" /\ retrying # {}
       /\ hit # "retry" => context["retry"] = "log")'
  BY ActorFacts DEF ActorInv
<1> QED
  BY <1>1, <1>2, <1>3 DEF ActorInv

\* The logging thread runs a handler only when the signal arrived in it.
LEMMA LogHit ==
    ASSUME EndInv, at["log"] \notin {"scan", "wait", "busy", "done"}
    PROVE  hit = "log"
  BY DEF EndInv, ActorInv

\* With the signal in the logging thread everything is explained; what a step
\* of its handler keeps is who is where.
LEMMA LogHandlerKept ==
    ASSUME EndInv, Running, at["log"] \notin {"scan", "wait", "busy", "done"},
           UNCHANGED <<phase, fault, hit, retrying>>,
           \A b \in Others : at'[b] = at[b] /\ context'[b] = context[b],
           at'["log"] # "done", object' = object
    PROVE  ActorInv' /\ AloneInv'
<1> USE DEF EndInv
<1>1. hit = "log"
  BY LogHit
<1>2. AloneInv'
  BY <1>1 DEF AloneInv, Alone
<1>3. object = "alive"
  BY DEF ActorInv
<1>4. ActorInv'
  BY <1>1, <1>3, ActorFacts DEF ActorInv
<1> QED
  BY <1>2, <1>4
-----------------------------------------------------------------------------
\* log() and its hand-over.
LEMMA CallEnd ==
    ASSUME EndInv, Running, NEW a \in Actors,
           CallLog(a) \/ Fetch(a) \/ LockEvents(a) \/ Push(a) \/ NotifyEvents(a)
    PROVE  ActorInv' /\ AloneInv'
<1> USE DEF EndInv
<1>1. UNCHANGED <<phase, fault, hit, retrying, context, instance, m_thread, object>>
  BY DEF CallLog, Fetch, LockEvents, Push, NotifyEvents, objectVars, queueVars, workVars, endVars
<1>2. CASE a = "log"
  <2>1. at["log"] \notin {"scan", "wait", "busy", "done"}
    BY <1>2, LifecycleAssumption DEF CallLog, Fetch, LockEvents, Push, NotifyEvents, Step
  <2>2. at'["log"] # "done" /\ \A b \in Others : at'[b] = at[b]
    BY <1>2, <2>1, ActorFacts DEF CallLog, Fetch, LockEvents, Push, NotifyEvents, Step, Others
  <2> QED
    BY <1>1, <2>1, <2>2, LogHandlerKept
<1>3. CASE CallLog(a) /\ a # "log"
  <2>1. a \in Others /\ a # "retry" /\ context[a] = "log"
    BY <1>3, LifecycleAssumption DEF CallLog, Step, Others, ActorInv
  <2>2. /\ at["log"] = at'["log"] /\ at'[a] = "fetch"
        /\ \A b \in Others : b # a => at'[b] = at[b]
    BY <1>3, ActorFacts DEF CallLog, Step, Others
  <2>3. AloneInv'
    BY <1>1, <2>1, <2>2, LogStepAlone
  <2>4. ActorInv'
    BY <1>1, <2>1, <2>2, ActorFacts DEF ActorInv
  <2> QED
    BY <2>3, <2>4
<1>4. CASE ~CallLog(a) /\ a # "log"
  <2>1. a \in Others /\ at[a] \in {"fetch", "lock", "push", "notify"}
    BY <1>4 DEF Fetch, LockEvents, Push, NotifyEvents, Step, Others
  <2>2. /\ \A b \in Others : b # a => at'[b] = at[b]
        /\ at'["log"] = at["log"] \/ (at["log"] = "wait" /\ at'["log"] = "scan")
    BY <1>4, ActorFacts DEF Fetch, LockEvents, Push, NotifyEvents, Step, Others
  <2>3. /\ at[a] = "lock" => at'[a] = "push"
        /\ at[a] = "push" => at'[a] = "notify"
        /\ at[a] = "notify" => at'[a] = IF context[a] = "log" THEN "idle" ELSE "test"
    BY <1>4, ActorFacts DEF Fetch, LockEvents, Push, NotifyEvents, Step, Whole,
                            Others, LifeInv, LifecycleTypeOK
  <2>4. at[a] = "fetch" => instance = "alive" /\ at'[a] = "lock"
    BY <1>4, <2>2, ActorFacts DEF Fetch, LockEvents, Push, NotifyEvents, Step, Others
  <2>5. context[a] # "log" /\ Stage(a) => Stage(a)'
    BY <1>1, <2>1, <2>3, <2>4 DEF Stage, Whole
  <2>6. AloneInv'
    BY <1>1, <2>1, <2>2, <2>5, LogStepAlone, EndStepAlone DEF Others
  <2>7. ActorInv'
    BY <1>1, <2>1, <2>2, <2>3, <2>4, ActorKept
  <2> QED
    BY <2>6, <2>7
<1> QED
  BY <1>2, <1>3, <1>4

\* The logging thread and the retry thread at work.
LEMMA WorkEnd ==
    ASSUME EndInv, Running, Scan \/ Process \/ Retry
    PROVE  ActorInv' /\ AloneInv'
<1> USE DEF EndInv
<1>1. UNCHANGED <<phase, fault, hit, context, instance, m_thread, object>>
  BY DEF Scan, Process, Retry, objectVars, queueVars, workVars, endVars
<1>2. \A b \in Others : at'[b] = at[b]
  BY ActorFacts DEF Scan, Process, Retry, Step, Others
<1>3. AloneInv'
  BY <1>1, <1>2, ActorFacts, LogStepAlone
<1>4. /\ Scan => /\ at["log"] = "scan" /\ at'["log"] \in {"busy", "wait", "done"}
                 /\ retrying' = retrying
                 /\ at'["log"] = "done" => retrying = {}
      /\ Process => /\ at["log"] = "busy" /\ at'["log"] = "scan" /\ retrying \subseteq retrying'
      /\ Retry => at' = at /\ at["retry"] = "idle" /\ retrying' \subseteq retrying
  <2>1. Scan => /\ at["log"] = "scan" /\ at'["log"] \in {"busy", "wait", "done"}
                /\ retrying' = retrying
                /\ at'["log"] = "done" => retrying = {}
    <3> SUFFICES ASSUME Scan PROVE /\ at["log"] = "scan" /\ at'["log"] \in {"busy", "wait", "done"}
                                   /\ retrying' = retrying
                                   /\ at'["log"] = "done" => retrying = {}
      OBVIOUS
    <3>1. at["log"] = "scan" /\ retrying' = retrying
      BY DEF Scan
    <3>2. \/ at' = [at EXCEPT !["log"] = "busy"]
          \/ at' = [at EXCEPT !["log"] = "done"] /\ retrying = {}
          \/ at' = [at EXCEPT !["log"] = "wait"]
      BY DEF Scan
    <3> QED
      BY <3>1, <3>2, ActorFacts
  <2> QED
    BY <2>1, ActorFacts DEF Process, Retry, Step
<1>5. ActorInv'
  BY <1>1, <1>2, <1>4, ActorFacts DEF ActorInv
<1> QED
  BY <1>3, <1>5

\* terminate().
LEMMA TerminateEnd ==
    ASSUME EndInv, Running, NEW a \in Actors,
           Test(a) \/ StopRequest(a) \/ Join(a) \/ Delete(a) \/ Reset(a)
    PROVE  ActorInv' /\ AloneInv'
<1> USE DEF EndInv
<1>1. UNCHANGED <<phase, fault, hit, retrying, context>>
  BY DEF Test, StopRequest, Join, Delete, Reset, objectVars, queueVars, workVars, endVars
<1>2. at[a] \in {"test", "flag", "join", "delete", "reset"}
  BY DEF Test, StopRequest, Join, Delete, Reset, Step
<1>3. /\ \A b \in Others : b # a => at'[b] = at[b]
      /\ a # "log" => at'["log"] = at["log"] \/ (at["log"] = "wait" /\ at'["log"] = "scan")
  BY ActorFacts DEF Test, StopRequest, Join, Delete, Reset, Step, Others
<1>4. /\ at[a] = "test" => /\ UNCHANGED <<instance, m_thread, object>>
                           /\ at'[a] = IF m_thread = "null" THEN "leave" ELSE "flag"
      /\ at[a] = "flag" => UNCHANGED <<instance, m_thread, object>> /\ at'[a] \in {"join", "scan"}
      /\ at[a] = "flag" /\ a # "log" => at'[a] = "join"
      /\ at[a] = "join" => /\ a # "log" /\ at'[a] = "delete" /\ at["log"] = "done"
                           /\ UNCHANGED <<instance, m_thread>> /\ object' = "joined"
      /\ at[a] = "delete" => /\ instance = "alive" /\ instance' = instance /\ object' = "freed"
                             /\ m_thread' = IF m_thread = "valid" THEN "dangling" ELSE m_thread
                             /\ at'[a] = IF context[a] = "exit" THEN "free" ELSE "reset"
      /\ at[a] = "reset" => /\ UNCHANGED <<instance, object>> /\ m_thread' = "null"
                            /\ at'[a] = "leave"
  BY ActorFacts DEF Test, StopRequest, Join, Delete, Reset, Step, objectVars
<1>5. CASE a = "log"
  <2>1. at["log"] \notin {"scan", "wait", "busy", "done"}
    BY <1>2, <1>5
  <2>2. object = "alive"
    BY <2>1 DEF ActorInv
  <2>3. at["log"] # "delete"
    BY <2>2, ActorFacts DEF LifeInv, StopInv
  <2> QED
    BY <1>1, <1>2, <1>3, <1>4, <1>5, <2>1, <2>3, LogHandlerKept DEF Others
<1>6. CASE a # "log"
  <2>1. a \in Others /\ context[a] # "log"
    BY <1>2, <1>6 DEF Others, ActorInv
  <2>2. at'[a] # "idle"
    BY <1>2, <1>4, <1>6
  <2>3. object' # "alive" => object # "alive" \/ at["log"] = "done"
    BY <1>2, <1>4, <2>1, ActorFacts DEF LifeInv, StopInv
  <2>4. ActorInv'
    BY <1>1, <1>2, <1>3, <1>6, <2>1, <2>2, <2>3, ActorKept
  <2>5. context[a] \in {"handler", "exit"}
    BY <2>1, ActorFacts DEF Others
  <2>6. Stage(a) => Stage(a)'
    BY <1>1, <1>2, <1>4, <1>6, <2>5 DEF Stage, Whole
  <2>7. AloneInv'
    BY <1>1, <2>1, <2>6, EndStepAlone
  <2> QED
    BY <2>4, <2>7
<1> QED
  BY <1>5, <1>6

\* The signal, and exit().
LEMMA SignalEnd ==
    ASSUME EndInv, Running, NEW a \in Actors, Signal(a)
    PROVE  ActorInv' /\ AloneInv'
<1> USE DEF EndInv
<1>1. /\ UNCHANGED <<phase, fault, retrying, instance, m_thread, object>>
      /\ hit = "none"
      /\ \/ a \in Threads
         \/ a = "log" /\ at[a] = "busy"
         \/ a = "retry" /\ retrying # {}
      /\ hit' = IF a \notin Threads THEN a ELSE IF at[a] = "idle" THEN "outside" ELSE "inside"
  BY DEF Signal, Retries, objectVars, workVars
<1>2. /\ \A b \in Actors : at'[b] = IF b = a THEN "fetch" ELSE at[b]
      /\ \A b \in Actors : context'[b] = IF b = a THEN "handler" ELSE context[b]
  BY ActorFacts DEF Signal
<1>3. CASE a = "log"
  <2>1. hit' = "log" /\ at["log"] = "busy"
    BY <1>1, <1>3, LifecycleAssumption
  <2>2. AloneInv'
    BY <2>1 DEF AloneInv, Alone
  <2>3. ActorInv'
    BY <1>1, <1>2, <1>3, <2>1, ActorFacts DEF ActorInv, Others
  <2> QED
    BY <2>2, <2>3
<1>4. CASE a # "log"
  <2>1. a \in Others /\ hit' # "log" /\ hit = "none"
    BY <1>1, <1>4, LifecycleAssumption DEF Others, Signal
  <2>2. a = "retry" <=> hit' = "retry"
    BY <1>1, <1>4, LifecycleAssumption
  <2>3. ActorInv'
    BY <1>1, <1>2, <2>1, <2>2, ActorFacts, LifecycleAssumption DEF ActorInv, Others
  <2>4. AloneInv'
    <3> SUFFICES ASSUME Alone' PROVE (/\ (\A b \in Others : context[b] = "log") => Whole
                                     /\ \A b \in Others : context[b] # "log" => Stage(b))'
      BY DEF AloneInv
    <3>1. \A b \in Others : b # a => context[b] = "log" /\ context'[b] = "log"
      BY <1>2, <2>1 DEF Alone, Others
    <3>2. at[a] = "idle"
      BY <1>1, <2>1, <2>2 DEF Alone, ActorInv
    <3>3. context[a] = "log"
      BY <2>1, <3>2 DEF ActorInv
    <3>4. Alone
      BY <2>1, <3>1 DEF Alone
    <3>5. Whole
      BY <3>1, <3>3, <3>4 DEF AloneInv
    <3> QED
      BY <1>1, <1>2, <2>1, <3>1, <3>5, ActorFacts DEF Stage, Whole, Others
  <2> QED
    BY <2>3, <2>4
<1> QED
  BY <1>3, <1>4

\* exit(), and the end of the process.
LEMMA ExitEnd ==
    ASSUME EndInv, Running, NEW a \in Actors,
           CallExit(a) \/ Leave(a) \/ Free(a) \/ Statics(a)
    PROVE  ActorInv' /\ AloneInv'
<1> USE DEF EndInv
<1>1. UNCHANGED <<phase, fault, hit, retrying, object, m_thread>>
  <2>1. CallExit(a) \/ Leave(a) => UNCHANGED <<phase, fault, hit, retrying, object, m_thread>>
    BY DEF CallExit, Leave, Exit, objectVars, workVars
  <2>2. Free(a) \/ Statics(a) => UNCHANGED <<phase, fault, hit, retrying, object, m_thread>>
    BY DEF Free, Statics, objectVars, workVars, endVars
  <2> QED
    BY <2>1, <2>2
<1>2. /\ \A b \in Actors : b # a => at'[b] = at[b] /\ context'[b] = context[b]
      /\ context' = context \/ context'[a] = "exit"
  BY ActorFacts DEF CallExit, Leave, Exit, Free, Statics, Step
<1>3. CASE CallExit(a)
  <2>1. /\ a \in Threads /\ a \in Others /\ a # "retry" /\ at[a] = "idle" /\ context'[a] = "exit"
        /\ at'[a] = IF m_thread = "null" THEN "free" ELSE "flag"
        /\ instance' = instance /\ context[a] = "log"
    BY <1>3, ActorFacts, LifecycleAssumption DEF CallExit, Exit, objectVars, ActorInv
  <2>2. ActorInv'
    BY <1>1, <1>2, <2>1, ActorFacts DEF ActorInv, Others
  <2>3. AloneInv'
    <3> SUFFICES ASSUME Alone' PROVE (/\ (\A b \in Others : context[b] = "log") => Whole
                                     /\ \A b \in Others : context[b] # "log" => Stage(b))'
      BY DEF AloneInv
    <3>1. \A b \in Others : context[b] = "log" /\ (b # a => context'[b] = "log")
      BY <1>2, <2>1 DEF Alone, Others
    <3>2. Alone /\ Whole
      BY <1>1, <3>1 DEF Alone, AloneInv
    <3> QED
      BY <1>1, <2>1, <3>1, <3>2 DEF Stage, Whole
  <2> QED
    BY <2>2, <2>3
<1>4. CASE ~CallExit(a)
  <2>1. /\ at[a] = "leave" => /\ instance' = instance
                              /\ \/ at' = at /\ context' = context
                                 \/ /\ context'[a] = "exit"
                                    /\ at'[a] = IF m_thread = "null" THEN "free" ELSE "flag"
        /\ at[a] = "free" => instance' = "freed" /\ at'[a] = "statics" /\ context' = context
        /\ at[a] = "statics" => /\ instance' = instance /\ context' = context
                                /\ at'[a] \in {"statics", "fetch"}
        /\ at[a] \in {"leave", "free", "statics"}
    BY <1>4, ActorFacts DEF Leave, Exit, Free, Statics, Step, objectVars
  <2>2. CASE a = "log"
    <3>1. at["log"] \notin {"scan", "wait", "busy", "done"}
      BY <2>1, <2>2
    <3>2. at'["log"] # "done"
      BY <2>1, <2>2
    <3> QED
      BY <1>1, <1>2, <2>2, <3>1, <3>2, LogHandlerKept DEF Others
  <2>3. CASE a # "log"
    <3>1. /\ a \in Others /\ context[a] # "log" /\ context'[a] # "log"
          /\ at[a] # "idle" /\ at'[a] # "idle"
      BY <1>2, <2>1, <2>3 DEF Others, ActorInv
    <3>2. at'["log"] = at["log"]
      BY <1>2, <2>3, ActorFacts
    <3>3. ActorInv'
      BY <1>1, <1>2, <3>1, <3>2, ActorKept DEF Others
    <3>4. Stage(a) => Stage(a)'
      BY <1>1, <2>1 DEF Stage, Whole
    <3>5. AloneInv'
      BY <1>1, <1>2, <3>1, <3>4, EndStepAlone DEF Others
    <3> QED
      BY <3>3, <3>5
  <2> QED
    BY <2>2, <2>3
<1> QED
  BY <1>3, <1>4

\* Every step preserves the invariant: only a fault needs an explanation.
LEMMA EndNextPreserves == EndInv /\ [LifecycleNext]_<<vars, lifeVars>> => EndInv'
<1> SUFFICES ASSUME EndInv, [LifecycleNext]_<<vars, lifeVars>> PROVE EndInv'
  OBVIOUS
<1>1. LifeInv'
  BY LifecycleNextPreserves DEF EndInv
<1>2. CASE UNCHANGED lifeVars
  <2>1. UNCHANGED <<phase, at, context, instance, m_thread, object, retrying, hit, fault>>
    BY <1>2 DEF lifeVars, objectVars, workVars, endVars
  <2> QED
    BY <1>1, <2>1 DEF EndInv, ActorInv, AloneInv, Alone, Whole, Stage, FaultExplained
<1>3. CASE Begin
  <2>1. /\ UNCHANGED <<at, context, instance, m_thread, object, retrying, hit, fault>>
        /\ fault = "none"
    BY <1>3 DEF Begin, objectVars, workVars, endVars, EndInv, ActorInv
  <2> QED
    BY <1>1, <2>1 DEF EndInv, ActorInv, AloneInv, Alone, Whole, Stage, FaultExplained
<1>4. CASE Running /\ (Going \/ Retry \/ \E a \in Actors : CallLog(a) \/ Signal(a) \/ CallExit(a))
  <2>1. CASE WorkFaults \/ \E a \in Actors : LogFaults(a) \/ TerminateFaults(a)
    BY <1>4, <2>1, FaultsExplained, ActorFacts DEF EndInv
  <2>2. CASE ~(WorkFaults \/ \E a \in Actors : LogFaults(a) \/ TerminateFaults(a))
    <3>1. \/ Scan \/ Process \/ Retry
          \/ \E a \in Actors :
                \/ CallLog(a) \/ Fetch(a) \/ LockEvents(a) \/ Push(a) \/ NotifyEvents(a)
                \/ Test(a) \/ StopRequest(a) \/ Join(a) \/ Delete(a) \/ Reset(a)
                \/ Signal(a) \/ CallExit(a) \/ Leave(a) \/ Free(a) \/ Statics(a)
      BY <1>4, <2>2 DEF Going, Work, LogCall, Terminate
    <3>2. ActorInv' /\ AloneInv'
      BY <1>4, <3>1, CallEnd, WorkEnd, TerminateEnd, SignalEnd, ExitEnd
    <3>3. fault' = "none"
      <4>1. fault' = fault
        BY <3>1 DEF Scan, Process, Retry, CallLog, Fetch, LockEvents, Push, NotifyEvents, Test,
                    StopRequest, Join, Delete, Reset, Signal, CallExit, Leave, Exit, Free,
                    Statics, endVars
      <4> QED
        BY <1>4, <4>1 DEF Running
    <3> QED
      BY <1>1, <3>2, <3>3 DEF EndInv, FaultExplained
  <2> QED
    BY <2>1, <2>2
<1> QED
  BY <1>2, <1>3, <1>4 DEF LifecycleNext

\* A logger, m_thread or log_thread that is gone is used, and the logging
\* thread joined twice or by itself, only if two threads are inside the
\* library at the same time, the signal arrives in one that is, or a static
\* destructor logs.
THEOREM FaultsAreExplained == LifecycleSpec => []FaultExplained
<1>1. EndInv => FaultExplained
  BY DEF EndInv
<1> QED
  BY <1>1, EndInitEstablishes, EndNextPreserves, PTL DEF LifecycleSpec
=============================================================================
