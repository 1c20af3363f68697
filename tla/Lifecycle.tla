----------------------------- MODULE Lifecycle -----------------------------
(***************************************************************************)
(* How the process ends: exit() with atexit_handler and the destructor of  *)
(* the logger, and signal_handler with logger::terminate, while other      *)
(* threads log.                                                            *)
(*                                                                         *)
(* The actors are the application threads, the logging thread "log" and    *)
(* one retry thread "retry".  An actor is inside the library while at is   *)
(* not "idle"; the same labels serve log() called by the application and   *)
(* by the handler, and terminate() called by the handler and by the        *)
(* destructor.  The logging thread is LogThread in short: it takes one     *)
(* message at a time, which is settled or held for a retry, and after a    *)
(* stop request ends when nothing is left.  A message may be handed to a   *)
(* retry thread that has just decided to end (LogThread's Stranded): from  *)
(* then on nothing that is held is retried.                                *)
(*                                                                         *)
(* The process starts with the registry of Logger.  The end is modelled    *)
(* from the states where the threads have registered one subsystem and     *)
(* nothing more is registered: what follows does not read the registry.    *)
(* SIGSEGV arrives at most once.                                           *)
(***************************************************************************)
EXTENDS Logger, Sequences

CONSTANT MaxMsgs    \* bound on the number of messages logged by the threads

ASSUME LifecycleAssumption == MaxMsgs \in Nat /\ {"log", "retry"} \cap Threads = {}

Actors == Threads \cup {"log", "retry"}

VARIABLES
    phase,          \* "registry", then "running"
    at,             \* what each actor does
    context,        \* on whose behalf: "log", "handler" (of the signal) or "exit"
    instance,       \* the logger that s_instance points to: "alive" or "freed"
    m_thread,       \* the pointer: "valid", "dangling" or "null"
    object,         \* the log_thread: "alive", "joined" or "freed"
    m_mutex,        \* the actor that holds it, or Nobody
    m_events, m_do_terminate,
    taken,          \* the message the logging thread is processing, 0 for none
    retrying,       \* the messages the retry thread holds
    stranded,       \* they are held by a retry thread that has ended
    count,          \* history: the number of messages accepted
    processed,      \* history: the messages settled
    due,            \* history: the messages accepted before the first stop request
    exiting,        \* the actor that has called exit(), or Nobody
    hit,            \* where the signal arrived
    fault, ended

objectVars == <<instance, m_thread, object>>
queueVars  == <<m_mutex, m_events, m_do_terminate, count, due>>
workVars   == <<taken, retrying, stranded, processed>>
endVars    == <<exiting, hit, fault, ended>>
lifeVars == <<phase, at, context, objectVars, queueVars, workVars, endVars>>

LifecycleTypeOK ==
    /\ phase \in {"registry", "running"}
    /\ at \in [Actors -> {"idle", "fetch", "lock", "push", "notify", "test", "flag", "join",
                          "delete", "reset", "leave", "free", "statics", "busy", "scan", "wait",
                          "done"}]
    /\ context \in [Actors -> {"log", "handler", "exit"}]
    /\ instance \in {"alive", "freed"}
    /\ m_thread \in {"valid", "dangling", "null"}
    /\ object \in {"alive", "joined", "freed"}
    /\ m_mutex \in Actors \cup {Nobody}
    /\ count \in Nat
    /\ m_events \in Seq(1..count) /\ m_do_terminate \in BOOLEAN
    /\ taken \in 0..count /\ retrying \in SUBSET (1..count)
    /\ stranded \in BOOLEAN
    /\ processed \in SUBSET (1..count) /\ due \in SUBSET (1..count)
    /\ exiting \in Actors \cup {Nobody}
    /\ hit \in {"none", "outside", "inside", "log", "retry"}
    /\ fault \in {"none", "freed", "null", "join"}
    /\ ended \in {"no", "exit", "handler"}

LifecycleInit ==
    /\ Init
    /\ phase = "registry"
    /\ at = [a \in Actors |-> IF a = "log" THEN "wait" ELSE "idle"]
    /\ context = [a \in Actors |-> "log"]
    /\ instance = "alive" /\ m_thread = "valid" /\ object = "alive"
    /\ m_mutex = Nobody /\ m_events = <<>> /\ m_do_terminate = FALSE
    /\ taken = 0 /\ retrying = {} /\ stranded = FALSE /\ count = 0 /\ processed = {} /\ due = {}
    /\ exiting = Nobody /\ hit = "none" /\ fault = "none" /\ ended = "no"

Running == phase = "running" /\ fault = "none" /\ ended = "no"

Begin ==
    /\ phase = "registry"
    /\ \A t \in Threads : pc[t] = "idle" /\ registered[t] = 1 /\ logged[t] = 0
    /\ ~torn /\ \A s \in m_subsystems : s.id = 0 /\ s.min_level = 0
    /\ phase' = "running"
    /\ UNCHANGED <<at, context, objectVars, queueVars, workVars, endVars>>

Step(a, from, to) == at[a] = from /\ at' = [at EXCEPT ![a] = to]

\* An actor uses the logger, its m_thread or a log_thread that is gone.
Crash(a, labels, kind) ==
    /\ at[a] \in labels
    /\ fault' = kind
    /\ UNCHANGED <<phase, at, context, objectVars, queueVars, workVars, exiting, hit, ended>>
-----------------------------------------------------------------------------
(***************************************************************************)
(* log(): look the instance and m_thread up, then enqueue.                 *)
(***************************************************************************)
CallLog(a) ==
    /\ a \in Threads
    /\ count < MaxMsgs
    /\ Step(a, "idle", "fetch")
    /\ UNCHANGED <<phase, context, objectVars, queueVars, workVars, endVars>>

Fetch(a) ==
    /\ instance = "alive" /\ m_thread = "valid"
    /\ Step(a, "fetch", "lock")
    /\ UNCHANGED <<phase, context, objectVars, queueVars, workVars, endVars>>

LockEvents(a) ==
    /\ object # "freed" /\ m_mutex = Nobody
    /\ Step(a, "lock", "push")
    /\ m_mutex' = a
    /\ UNCHANGED <<phase, context, objectVars, m_events, m_do_terminate, count, due, workVars,
                   endVars>>

\* Mutant: the message is numbered before it is counted.
PushEarly(a) ==
    /\ object # "freed"
    /\ Step(a, "push", "notify")
    /\ m_events' = Append(m_events, count)
    /\ count' = count + 1
    /\ m_mutex' = Nobody
    /\ UNCHANGED <<phase, context, objectVars, m_do_terminate, due, workVars, endVars>>

Push(a) ==
    /\ object # "freed"
    /\ Step(a, "push", "notify")
    /\ count' = count + 1
    /\ m_events' = Append(m_events, count')
    /\ m_mutex' = Nobody
    /\ UNCHANGED <<phase, context, objectVars, m_do_terminate, due, workVars, endVars>>

\* notify_one; then the caller goes on.
NotifyEvents(a) ==
    /\ object # "freed"
    /\ at[a] = "notify"
    /\ at' = [at EXCEPT ![a] = IF context[a] = "log" THEN "idle" ELSE "test",
                        !["log"] = IF @ = "wait" THEN "scan" ELSE @]
    /\ UNCHANGED <<phase, context, objectVars, queueVars, workVars, endVars>>

LogFaults(a) ==
    \/ instance = "freed" /\ Crash(a, {"fetch"}, "freed")
    \/ instance = "alive" /\ m_thread = "dangling" /\ Crash(a, {"fetch"}, "freed")
    \/ instance = "alive" /\ m_thread = "null" /\ Crash(a, {"fetch"}, "null")
    \/ object = "freed" /\ Crash(a, {"lock", "push", "notify"}, "freed")

LogCall(a) ==
    Fetch(a) \/ LockEvents(a) \/ Push(a) \/ NotifyEvents(a) \/ LogFaults(a)
-----------------------------------------------------------------------------
(***************************************************************************)
(* The logging thread and the retry thread.                                *)
(***************************************************************************)

\* The next message, a scan for active retry threads, or a wait.
Scan ==
    /\ at["log"] = "scan"
    /\ m_mutex = Nobody
    /\ \/ /\ m_events # <<>>
          /\ taken' = Head(m_events) /\ m_events' = Tail(m_events)
          /\ at' = [at EXCEPT !["log"] = "busy"]
       \/ /\ m_events = <<>>
          /\ m_do_terminate => retrying = {}
          /\ at' = [at EXCEPT !["log"] = IF m_do_terminate THEN "done" ELSE "wait"]
          /\ UNCHANGED <<taken, m_events>>
    /\ UNCHANGED <<phase, context, objectVars, m_mutex, m_do_terminate, count, due, retrying,
                   stranded, processed, endVars>>

\* The message is settled, or handed to the retry thread, which may have
\* decided to end just before.
Process ==
    /\ Step("log", "busy", "scan")
    /\ taken' = 0
    /\ \/ processed' = processed \cup {taken} /\ UNCHANGED <<retrying, stranded>>
       \/ /\ retrying' = retrying \cup {taken}
          /\ \/ UNCHANGED stranded
             \/ at["retry"] = "idle" /\ stranded' = TRUE
          /\ UNCHANGED processed
    /\ UNCHANGED <<phase, context, objectVars, queueVars, endVars>>

\* There is a retry thread, with messages to write.
Retries == retrying # {} /\ ~stranded

\* A message is written, or expires.
Retry ==
    /\ at["retry"] = "idle"
    /\ Retries
    /\ \E m \in retrying :
          processed' = processed \cup {m} /\ retrying' = retrying \ {m}
    /\ UNCHANGED <<phase, at, context, objectVars, queueVars, taken, stranded, endVars>>

\* The threads of the library work on a log_thread that is gone.
WorkFaults ==
    \/ object = "freed" /\ Crash("log", {"scan", "busy", "wait"}, "freed")
    \/ object = "freed" /\ Retries /\ Crash("retry", {"idle"}, "freed")

Work == Scan \/ Process \/ WorkFaults
-----------------------------------------------------------------------------
(***************************************************************************)
(* terminate(), for the handler and for the destructor of the logger.      *)
(***************************************************************************)

\* if (instance()->m_d->m_thread)
Test(a) ==
    /\ instance = "alive"
    /\ Step(a, "test", IF m_thread = "null" THEN "leave" ELSE "flag")
    /\ UNCHANGED <<phase, context, objectVars, queueVars, workVars, endVars>>

\* Mutant: the logging thread is not woken up.
StopRequestSilent(a) ==
    /\ instance = "alive" /\ m_thread = "valid" /\ object # "freed" /\ m_mutex = Nobody
    /\ Step(a, "flag", "join")
    /\ m_do_terminate' = TRUE
    /\ due' = IF m_do_terminate THEN due ELSE 1..count
    /\ UNCHANGED <<phase, context, objectVars, m_mutex, m_events, count, workVars, endVars>>

\* log_thread::terminate sets the flag and wakes the logging thread.
StopRequest(a) ==
    /\ instance = "alive" /\ m_thread = "valid" /\ object # "freed" /\ m_mutex = Nobody
    /\ at[a] = "flag"
    /\ at' = [at EXCEPT ![a] = "join", !["log"] = IF @ = "wait" THEN "scan" ELSE @]
    /\ m_do_terminate' = TRUE
    /\ due' = IF m_do_terminate THEN due ELSE 1..count
    /\ UNCHANGED <<phase, context, objectVars, m_mutex, m_events, count, workVars, endVars>>

\* Mutant: the logging thread is not waited for.
JoinSkipped(a) ==
    /\ object = "alive" /\ a # "log"
    /\ Step(a, "join", "delete")
    /\ object' = "joined"
    /\ UNCHANGED <<phase, context, instance, m_thread, queueVars, workVars, endVars>>

Join(a) ==
    /\ object = "alive" /\ a # "log" /\ at["log"] = "done"
    /\ Step(a, "join", "delete")
    /\ object' = "joined"
    /\ UNCHANGED <<phase, context, instance, m_thread, queueVars, workVars, endVars>>

\* delete m_thread; of a null pointer it does nothing.
Delete(a) ==
    /\ instance = "alive" /\ m_thread # "dangling"
    /\ Step(a, "delete", IF context[a] = "exit" THEN "free" ELSE "reset")
    /\ object' = "freed"
    /\ m_thread' = IF m_thread = "valid" THEN "dangling" ELSE m_thread
    /\ UNCHANGED <<phase, context, instance, queueVars, workVars, endVars>>

\* Mutant: the pointer is left as it is.
ResetForgotten(a) ==
    /\ instance = "alive"
    /\ Step(a, "reset", "leave")
    /\ UNCHANGED <<phase, context, objectVars, queueVars, workVars, endVars>>

\* logger::terminate: m_thread = nullptr
Reset(a) ==
    /\ instance = "alive"
    /\ Step(a, "reset", "leave")
    /\ m_thread' = "null"
    /\ UNCHANGED <<phase, context, instance, object, queueVars, workVars, endVars>>

\* A second join, a join of the own thread, and uses of what is gone.
TerminateFaults(a) ==
    \/ instance = "freed" /\ Crash(a, {"test", "flag", "delete", "reset"}, "freed")
    \/ instance = "alive" /\ m_thread = "dangling" /\ Crash(a, {"flag", "delete"}, "freed")
    \/ instance = "alive" /\ m_thread = "null" /\ Crash(a, {"flag"}, "null")
    \/ (object = "joined" \/ a = "log") /\ Crash(a, {"join"}, "join")
    \/ object = "freed" /\ Crash(a, {"join"}, "freed")

Terminate(a) ==
    Test(a) \/ StopRequest(a) \/ Join(a) \/ Delete(a) \/ Reset(a) \/ TerminateFaults(a)
-----------------------------------------------------------------------------
(***************************************************************************)
(* The signal and the exit.                                                *)
(***************************************************************************)

\* SIGSEGV in an application thread, in a sink that the logging thread calls
\* or in one that the retry thread calls.  The handler logs first.
Signal(a) ==
    /\ hit = "none"
    /\ \/ a \in Threads
       \/ a = "log" /\ at[a] = "busy"
       \/ a = "retry" /\ Retries
    /\ hit' = IF a \notin Threads THEN a ELSE IF at[a] = "idle" THEN "outside" ELSE "inside"
    /\ at' = [at EXCEPT ![a] = "fetch"]
    /\ context' = [context EXCEPT ![a] = "handler"]
    /\ UNCHANGED <<phase, objectVars, queueVars, workVars, exiting, fault, ended>>

\* A second call of exit() is undefined; here it waits.
Exit(a) ==
    /\ exiting = Nobody
    /\ exiting' = a
    /\ context' = [context EXCEPT ![a] = "exit"]
    /\ at' = [at EXCEPT ![a] = IF m_thread = "null" THEN "free" ELSE "flag"]
    /\ UNCHANGED <<phase, objectVars, queueVars, workVars, hit, fault, ended>>

\* An application thread calls exit(): atexit_handler deletes the logger.
CallExit(a) == a \in Threads /\ at[a] = "idle" /\ Exit(a)

\* The handler calls the one before it, which ends the process, or exit(1).
Leave(a) ==
    /\ at[a] = "leave"
    /\ \/ Exit(a)
       \/ ended' = "handler"
          /\ UNCHANGED <<phase, at, context, objectVars, queueVars, workVars, exiting, hit, fault>>

\* The logger is freed; s_instance still points to it.
Free(a) ==
    /\ Step(a, "free", "statics")
    /\ instance' = "freed"
    /\ UNCHANGED <<phase, context, m_thread, object, queueVars, workVars, endVars>>

\* A static destructor logs, or the process is over.
Statics(a) ==
    /\ at[a] = "statics"
    /\ \/ at' = [at EXCEPT ![a] = "fetch"] /\ UNCHANGED ended
       \/ ended' = "exit" /\ UNCHANGED at
    /\ UNCHANGED <<phase, context, objectVars, queueVars, workVars, exiting, hit, fault>>

Going == Work \/ \E a \in Actors : LogCall(a) \/ Terminate(a) \/ Leave(a) \/ Free(a) \/ Statics(a)

\* The handler waits for ever if the signal arrived in a retry thread or in a
\* thread that holds m_mutex; or for another thread's exit().
Hung ==
    \/ hit = "retry"
    \/ \E a \in Threads : m_mutex = a /\ at[a] # "push"
    \/ \E a \in Actors : at[a] = "leave" /\ exiting # Nobody

LifecycleNext ==
    \/ phase = "registry" /\ Next /\ UNCHANGED lifeVars
    \/ Begin /\ UNCHANGED vars
    \/ /\ Running
       /\ Going \/ Retry \/ \E a \in Actors : CallLog(a) \/ Signal(a) \/ CallExit(a)
       /\ UNCHANGED vars
    \/ /\ ended # "no" \/ fault # "none" \/ Hung \/ stranded \/ \E t \in Threads : pc[t] = "failed"
       /\ UNCHANGED <<vars, lifeVars>>

\* The threads run.  Nobody has to log, to call exit() or to crash, and a
\* retry need not succeed.
LifecycleSpec ==
    /\ LifecycleInit /\ [][LifecycleNext]_<<vars, lifeVars>>
    /\ WF_<<vars, lifeVars>>(Running /\ Going /\ UNCHANGED vars)
-----------------------------------------------------------------------------
\* "wait until all log events have been processed": when the log_thread is
\* deleted, every message accepted before the stop was asked for is settled,
\* whoever asked for it and how many did.
EndDrains == object = "freed" => due \subseteq processed

\* The end touches nothing that is gone and joins the logging thread once,
\* unless two threads are inside the library at the same time, the signal
\* arrives in a thread that is, or a static destructor logs.  A crash outside
\* of the library followed by exit(1) deletes nothing twice.
FaultExplained ==
    fault # "none" =>
        \/ hit \in {"inside", "log"}
        \/ \E a, b \in Actors \ {"log"} : a # b /\ at[a] # "idle" /\ at[b] # "idle"
        \/ \E a \in Threads : context[a] = "exit" /\ at[a] = "fetch"

\* The assumption that sinks recover or the messages they refuse expire;
\* neither is certain of a message of level severe.
Recovery == WF_<<vars, lifeVars>>(Running /\ Retry /\ UNCHANGED vars)

\* If sinks recover, a call of exit() or a crash ends the process, unless it
\* is hung or a message is stranded.
ProcessEnds ==
    Recovery =>
        (exiting # Nobody \/ hit # "none"
             ~> ended # "no" \/ fault # "none" \/ Hung \/ stranded)
=============================================================================
