-------------------------- MODULE OutputStreamFile --------------------------
(***************************************************************************)
(* output_stream_file: a log file that is archived (renamed) when it would *)
(* outgrow its limit, when the stream is destroyed, and when a new stream  *)
(* finds a file left over by an earlier process.                           *)
(*                                                                         *)
(* One action is one file-system operation, so that the process can be     *)
(* killed between any two of them.  Every operation can fail.  A std       *)
(* ofstream is described by is_open and good (no error bit set): open()    *)
(* fails on a stream that is open and clears the error bits otherwise,     *)
(* close() fails on one that is not, and nothing is written to a stream    *)
(* with an error bit.  flush() hands everything to the operating system,   *)
(* so what was written survives the process.  stat() is taken to fail only *)
(* when there is no file.                                                  *)
(*                                                                         *)
(* A message that was not acknowledged is written again, as retry_thread   *)
(* does.  now is the time in the resolution of format_timestamp (ms).      *)
(***************************************************************************)
EXTENDS Integers, FiniteSets

CONSTANTS MaxMsgs,      \* bound on the number of messages
          MaxFaults,    \* bound on the number of operations that fail
          MaxRestarts,  \* bound on the number of times the stream ends early
          LineSizes,    \* sizes a formatted message may have
          Header,       \* size of "<logfile>" and of the line end
          Trailer,      \* size of "</logfile>" and of the line end
          m_maxsize     \* limit on the size of the file

ASSUME FileAssumption ==
    /\ MaxMsgs \in Nat /\ MaxFaults \in Nat /\ MaxRestarts \in Nat
    /\ LineSizes \subseteq Nat \ {0}
    /\ Header \in Nat \ {0} /\ Trailer \in Nat /\ m_maxsize \in Nat

VARIABLES
    pc,        \* where the thread that uses the stream is
    caller,    \* which function open() or archive() returns to
    m_isopen, is_open, good,
    line,      \* size of the line do_write is about to write, 0 if none
    file,      \* the set holding the file m_filename, or {} if there is none
    archives,  \* the archived files, with their time stamps
    now,
    acked,     \* the messages do_write has returned true for: 1..acked
    replaced,  \* history: the messages in archives that rename() has replaced
    faults, restarts

streamVars == <<m_isopen, is_open, good>>
diskVars   == <<file, archives, replaced, now>>
vars == <<pc, caller, streamVars, line, diskVars, acked, faults, restarts>>

Msg     == 1..MaxMsgs
File    == [msgs : SUBSET Msg, size : Nat, mtime : Nat]
Archive == [msgs : SUBSET Msg, size : Nat, time : Nat]

TypeOK ==
    /\ pc \in {"none", "idle", "open", "create", "size", "close", "archive", "append"}
    /\ caller \in {"ctor", "do_write", "rotate", "dtor"}
    /\ m_isopen \in BOOLEAN /\ is_open \in BOOLEAN /\ good \in BOOLEAN
    /\ line \in LineSizes \cup {0}
    /\ file \in SUBSET File /\ Cardinality(file) <= 1
    /\ archives \in SUBSET Archive
    /\ replaced \in SUBSET Msg
    /\ now \in Nat
    /\ acked \in 0..MaxMsgs
    /\ faults \in 0..MaxFaults /\ restarts \in 0..MaxRestarts

Init ==
    /\ pc = "none" /\ caller = "ctor"
    /\ m_isopen = FALSE /\ is_open = FALSE /\ good = TRUE
    /\ line = 0
    /\ file = {} /\ archives = {} /\ replaced = {} /\ now = 0
    /\ acked = 0 /\ faults = 0 /\ restarts = 0

\* An operation fails.
Fault == faults < MaxFaults /\ faults' = faults + 1
NoFault == UNCHANGED faults

\* Time passes before a file is created and before it is archived, by at
\* least a millisecond or not.  Only equal or different matters, so that the
\* operations in between need no choice of their own.
TimePasses == now' = now + 1 \/ now' = now

\* rename(): an archive of the same name is replaced.
Rename(f, t) ==
    /\ archives' = {a \in archives : a.time # t}
                       \cup {[msgs |-> f.msgs, size |-> f.size, time |-> t]}
    /\ replaced' = replaced \cup UNION {a.msgs : a \in {b \in archives : b.time = t}}
    /\ file' = {}
-----------------------------------------------------------------------------
\* The constructor; m_isopen is not initialised.  It takes a millisecond and
\* more to start a process.
Construct ==
    /\ pc = "none"
    /\ acked < MaxMsgs
    /\ pc' = "open" /\ caller' = "ctor"
    /\ m_isopen' \in BOOLEAN /\ is_open' = FALSE /\ good' = TRUE
    /\ now' = now + 1
    /\ UNCHANGED <<line, file, archives, replaced, acked, faults, restarts>>

\* The return of open() with result ok; rotate() ignores it.
OpenReturns(ok) ==
    \/ caller = "ctor" /\ pc' = "idle" /\ UNCHANGED line
    \/ caller = "do_write" /\ ok /\ pc' = "size" /\ UNCHANGED line
    \/ caller = "do_write" /\ ~ok /\ pc' = "idle" /\ line' = 0
    \/ caller = "rotate" /\ pc' = "append" /\ UNCHANGED line

\* Mutant: open() goes on when the old file could not be renamed.
OpenRegardless ==
    /\ pc = "open"
    /\ pc' = "create"
    /\ \/ /\ file = {}
          /\ NoFault /\ UNCHANGED <<line, file, archives, replaced>>
       \/ /\ \E f \in file : Rename(f, f.mtime)
          /\ NoFault /\ UNCHANGED line
       \/ /\ file # {}
          /\ Fault /\ UNCHANGED <<line, file, archives, replaced>>
    /\ UNCHANGED <<caller, streamVars, now, acked, restarts>>

\* open(): a file that exists is archived under its modification time first.
Open ==
    /\ pc = "open"
    /\ \/ /\ file = {}
          /\ pc' = "create"
          /\ NoFault /\ UNCHANGED <<line, file, archives, replaced>>
       \/ /\ \E f \in file : Rename(f, f.mtime)
          /\ pc' = "create"
          /\ NoFault /\ UNCHANGED line
       \/ /\ file # {}
          /\ OpenReturns(FALSE)
          /\ Fault /\ UNCHANGED <<file, archives, replaced>>
    /\ UNCHANGED <<caller, streamVars, now, acked, restarts>>

\* m_stream.open() and the first line.
Create ==
    /\ pc = "create"
    /\ UNCHANGED <<caller, archives, replaced, acked, restarts>>
    /\ \/ \* the file is created and the line written
          /\ ~is_open
          /\ TimePasses
          /\ file' = {[msgs |-> {}, size |-> Header, mtime |-> now']}
          /\ is_open' = TRUE /\ good' = TRUE /\ m_isopen' = TRUE
          /\ OpenReturns(TRUE)
          /\ NoFault
       \/ \* the file is created, but the line is not written
          /\ ~is_open
          /\ TimePasses
          /\ file' = {[msgs |-> {}, size |-> 0, mtime |-> now']}
          /\ is_open' = TRUE /\ good' = FALSE /\ m_isopen' = FALSE
          /\ OpenReturns(FALSE)
          /\ Fault
       \/ \* the file cannot be opened, or the stream still is open
          /\ good' = FALSE /\ m_isopen' = FALSE
          /\ OpenReturns(FALSE)
          /\ IF is_open THEN NoFault ELSE Fault
          /\ UNCHANGED <<is_open, file, now>>

\* Mutant: the line end is not counted.
do_write_short(n) ==
    /\ pc = "idle"
    /\ acked < MaxMsgs
    /\ line' = n - 1
    /\ caller' = "do_write"
    /\ pc' = IF m_isopen THEN "size" ELSE "open"
    /\ UNCHANGED <<streamVars, diskVars, acked, faults, restarts>>

do_write(n) ==
    /\ pc = "idle"
    /\ acked < MaxMsgs
    /\ line' = n
    /\ caller' = "do_write"
    /\ pc' = IF m_isopen THEN "size" ELSE "open"
    /\ UNCHANGED <<streamVars, diskVars, acked, faults, restarts>>

\* tellp() is -1 on a stream that is not open or has an error bit set.
tellp == IF is_open /\ good THEN (CHOOSE f \in file : TRUE).size ELSE -1

\* Mutant: the line itself is left out of the new size.
CheckOldSize ==
    /\ pc = "size"
    /\ pc' = IF tellp + Trailer > m_maxsize THEN "close" ELSE "append"
    /\ caller' = "rotate"
    /\ UNCHANGED <<streamVars, line, diskVars, acked, faults, restarts>>

\* Rotate if the line and the trailer do not fit any more.
CheckSize ==
    /\ pc = "size"
    /\ pc' = IF tellp + line + Trailer > m_maxsize THEN "close" ELSE "append"
    /\ caller' = "rotate"
    /\ UNCHANGED <<streamVars, line, diskVars, acked, faults, restarts>>

\* The stream ends early, or after the last message.
EndsEarly ==
    \/ restarts < MaxRestarts /\ restarts' = restarts + 1
    \/ acked = MaxMsgs /\ UNCHANGED restarts

Destroy ==
    /\ pc = "idle"
    /\ EndsEarly
    /\ pc' = "close" /\ caller' = "dtor"
    /\ UNCHANGED <<streamVars, line, diskVars, acked, faults>>

\* close(): the last line, then m_stream.close().
Close ==
    /\ pc = "close"
    /\ pc' = "archive"
    /\ is_open' = FALSE
    /\ \/ /\ is_open /\ good
          /\ file' = {[f EXCEPT !.size = @ + Trailer, !.mtime = now] : f \in file}
          /\ NoFault /\ UNCHANGED good
       \/ /\ is_open /\ good
          /\ good' = FALSE
          /\ Fault /\ UNCHANGED file
       \/ /\ ~(is_open /\ good)
          /\ good' = FALSE
          /\ NoFault /\ UNCHANGED file
    /\ UNCHANGED <<caller, m_isopen, line, archives, replaced, now, acked, restarts>>

\* close(): archive under the current time; the result is not looked at.
ArchiveNow ==
    /\ pc = "archive"
    /\ pc' = IF caller = "dtor" THEN "none" ELSE "open"
    /\ \/ /\ TimePasses
          /\ \E f \in file : Rename(f, now')
          /\ NoFault
       \/ /\ IF file = {} THEN NoFault ELSE Fault
          /\ UNCHANGED diskVars
    /\ UNCHANGED <<caller, streamVars, line, acked, restarts>>

\* Mutant: the line is formatted, but not written.
AppendNothing ==
    /\ pc = "append"
    /\ pc' = "idle" /\ line' = 0
    /\ UNCHANGED <<caller, streamVars, diskVars, acked, faults, restarts>>

\* m_stream << line, flush(), return good().
Append ==
    /\ pc = "append"
    /\ pc' = "idle" /\ line' = 0
    /\ \/ /\ is_open /\ good
          /\ file' = {[f EXCEPT !.msgs = @ \cup {acked + 1}, !.size = @ + line, !.mtime = now]
                         : f \in file}
          /\ acked' = acked + 1
          /\ NoFault /\ UNCHANGED good
       \/ /\ is_open /\ good
          /\ good' = FALSE
          /\ Fault
          /\ \/ UNCHANGED file
             \/ file' = {[f EXCEPT !.size = @ + line, !.mtime = now] : f \in file}
          /\ UNCHANGED acked
       \/ /\ ~(is_open /\ good)
          /\ good' = FALSE
          /\ NoFault /\ UNCHANGED <<file, acked>>
    /\ UNCHANGED <<caller, m_isopen, is_open, archives, replaced, now, restarts>>

\* The process is killed.
Crash ==
    /\ pc # "none"
    /\ EndsEarly
    /\ pc' = "none" /\ line' = 0
    /\ UNCHANGED <<caller, streamVars, diskVars, acked, faults>>

Step ==
    \/ Construct \/ Open \/ Create \/ CheckSize \/ Close \/ ArchiveNow \/ Append
    \/ \E n \in LineSizes : do_write(n)

\* Everything has been written and the stream is destroyed.
Ended == pc = "none" /\ acked = MaxMsgs

Next == Step \/ Destroy \/ Crash \/ (Ended /\ UNCHANGED vars)

Spec == Init /\ [][Next]_vars

\* The logging thread or the retry thread goes on writing.
FairSpec == Spec /\ WF_vars(Step)
-----------------------------------------------------------------------------
\* No acknowledged message disappears from the disk: it is in the log file or
\* in an archive, whatever fails and wherever the process is killed, unless
\* its archive had the same time stamp as a later one.
AcknowledgedKept ==
    \A m \in 1..acked : \/ \E f \in file : m \in f.msgs
                        \/ \E a \in archives : m \in a.msgs
                        \/ m \in replaced

\* A file outgrows the limit only by its single message: with the trailer
\* still to come it stays within m_maxsize.
SizeLimit ==
    /\ \A f \in file : is_open /\ Cardinality(f.msgs) > 1 => f.size + Trailer <= m_maxsize
    /\ \A a \in archives : Cardinality(a.msgs) > 1 => a.size <= m_maxsize

\* The stream has an error that open() will not clear.
Jammed == ~good /\ (m_isopen \/ is_open)

\* Faults are finitely many: in the end all messages are written, unless the
\* stream has jammed for good.
WrittenOrJammed == <>[](acked = MaxMsgs \/ Jammed)
=============================================================================
