------------------------ MODULE OutputStreamFileProofs ------------------------
(***************************************************************************)
(* Proofs about OutputStreamFile, for any number of messages, faults and   *)
(* restarts and any sizes: nothing that was acknowledged disappears from   *)
(* the disk, and a file outgrows its limit only by a single message.       *)
(***************************************************************************)
EXTENDS OutputStreamFile, FiniteSetTheorems, TLAPS

\* A stream that accepts text writes to the log file, and is on no path on
\* which the file is renamed or created.
StreamInv ==
    pc # "none" /\ is_open /\ good =>
        m_isopen /\ file # {} /\ pc \notin {"open", "create", "archive"}

\* There is at most one log file, and none when one is created.
FileInv ==
    /\ \A f, g \in file : f = g
    /\ pc = "create" => file = {}

\* What is about to be appended fits, or is the only message of the file.
FitInv ==
    pc = "append" /\ is_open /\ good =>
        \A f \in file : f.msgs = {} \/ f.size + line + Trailer <= m_maxsize

\* A file of several messages is within the limit, even when nothing is
\* written to it any more.
LimitInv ==
    /\ SizeLimit
    /\ \A f \in file : Cardinality(f.msgs) > 1 => f.size <= m_maxsize

\* A message is left to be written, except on the way to the end.
WorkInv ==
    \/ pc \in {"open", "create", "size", "append"}
    \/ pc \in {"close", "archive"} /\ caller # "dtor"
    => acked < MaxMsgs

IInv == TypeOK /\ WorkInv /\ StreamInv /\ FileInv /\ FitInv /\ LimitInv /\ AcknowledgedKept

\* A set of at most one element is finite and counts at most one.
LEMMA AtMostOne ==
    ASSUME NEW S, \A x, y \in S : x = y
    PROVE  Cardinality(S) <= 1
<1>1. CASE S = {}
  BY <1>1, FS_EmptySet
<1>2. CASE S # {}
  <2>1. PICK x \in S : TRUE
    BY <1>2
  <2>2. S = {x}
    BY <2>1
  <2> QED
    BY <2>2, FS_Singleton
<1> QED
  BY <1>1, <1>2

\* A file that grows by n keeps its messages.
LEMMA FileGrows ==
    ASSUME NEW f \in File, NEW n \in Nat, NEW t \in Nat
    PROVE  /\ [f EXCEPT !.size = @ + n, !.mtime = t] \in File
           /\ [f EXCEPT !.size = @ + n, !.mtime = t].msgs = f.msgs
           /\ [f EXCEPT !.size = @ + n, !.mtime = t].size = f.size + n
<1> DEFINE g == [f EXCEPT !.size = @ + n]
<1>1. g \in File /\ g.msgs = f.msgs /\ g.size = f.size + n
  BY DEF File
<1>2. [f EXCEPT !.size = @ + n, !.mtime = t] = [g EXCEPT !.mtime = t]
  OBVIOUS
<1> HIDE DEF g
<1>3. /\ [g EXCEPT !.mtime = t] \in File /\ [g EXCEPT !.mtime = t].msgs = g.msgs
      /\ [g EXCEPT !.mtime = t].size = g.size
  BY <1>1 DEF File
<1> QED
  BY <1>1, <1>2, <1>3

\* A file that grows by a message.
LEMMA MessageAdded ==
    ASSUME NEW f \in File, NEW m \in Msg, NEW n \in Nat, NEW t \in Nat
    PROVE  /\ [f EXCEPT !.msgs = @ \cup {m}, !.size = @ + n, !.mtime = t] \in File
           /\ [f EXCEPT !.msgs = @ \cup {m}, !.size = @ + n, !.mtime = t].msgs = f.msgs \cup {m}
           /\ [f EXCEPT !.msgs = @ \cup {m}, !.size = @ + n, !.mtime = t].size = f.size + n
<1> DEFINE g == [f EXCEPT !.msgs = @ \cup {m}]
<1>1. g \in File /\ g.msgs = f.msgs \cup {m} /\ g.size = f.size
  BY DEF File
<1>2. [f EXCEPT !.msgs = @ \cup {m}, !.size = @ + n, !.mtime = t]
        = [g EXCEPT !.size = @ + n, !.mtime = t]
  OBVIOUS
<1> HIDE DEF g
<1>3. /\ [g EXCEPT !.size = @ + n, !.mtime = t] \in File
      /\ [g EXCEPT !.size = @ + n, !.mtime = t].msgs = g.msgs
      /\ [g EXCEPT !.size = @ + n, !.mtime = t].size = g.size + n
  BY <1>1, FileGrows
<1> QED
  BY <1>1, <1>2, <1>3

\* There is no file at first.
LEMMA InitEstablishes == Init => IInv
<1> SUFFICES ASSUME Init PROVE IInv
  OBVIOUS
<1>1. /\ pc = "none" /\ caller = "ctor" /\ line = 0 /\ file = {} /\ archives = {}
      /\ replaced = {} /\ now = 0 /\ acked = 0 /\ faults = 0 /\ restarts = 0
  BY DEF Init
<1>2. m_isopen \in BOOLEAN /\ is_open \in BOOLEAN /\ good \in BOOLEAN
  BY DEF Init
<1>3. Cardinality(file) <= 1
  BY <1>1, AtMostOne
<1>4. faults \in 0..MaxFaults /\ restarts \in 0..MaxRestarts /\ acked \in 0..MaxMsgs
  BY <1>1, FileAssumption
<1>5. TypeOK
  BY <1>1, <1>2, <1>3, <1>4 DEF TypeOK
<1> QED
  BY <1>1, <1>5 DEF IInv, WorkInv, StreamInv, FileInv, FitInv, LimitInv, SizeLimit, AcknowledgedKept

\* What rename() moves is in the archives; what it replaces is recorded.
LEMMA RenameKeeps ==
    ASSUME IInv, NEW f \in file, NEW t \in Nat, Rename(f, t)
    PROVE  /\ archives' \in SUBSET Archive /\ replaced' \in SUBSET Msg /\ file' = {}
           /\ \A a \in archives' : Cardinality(a.msgs) > 1 => a.size <= m_maxsize
           /\ \A m \in 1..acked : (\E a \in archives' : m \in a.msgs) \/ m \in replaced'
<1> DEFINE new == [msgs |-> f.msgs, size |-> f.size, time |-> t]
<1>1. /\ archives' = {a \in archives : a.time # t} \cup {new}
      /\ replaced' = replaced \cup UNION {a.msgs : a \in {b \in archives : b.time = t}}
      /\ file' = {}
  BY DEF Rename
<1>2. f \in File /\ new \in Archive
  BY DEF IInv, TypeOK, File, Archive
<1>3. \A a \in archives : a.msgs \subseteq Msg
  BY DEF IInv, TypeOK, Archive
<1>4. replaced' \in SUBSET Msg
  BY <1>1, <1>3 DEF IInv, TypeOK
<1>5. new.msgs = f.msgs /\ new.size = f.size
  OBVIOUS
<1>6. \A g \in file : g = f
  BY DEF IInv, FileInv
<1> HIDE DEF new
<1>7. \A a \in archives' : Cardinality(a.msgs) > 1 => a.size <= m_maxsize
  BY <1>1, <1>5 DEF IInv, LimitInv, SizeLimit
<1>8. ASSUME NEW m \in 1..acked PROVE (\E a \in archives' : m \in a.msgs) \/ m \in replaced'
  <2>1. CASE \E g \in file : m \in g.msgs
    BY <1>1, <1>5, <1>6, <2>1
  <2>2. CASE \E a \in archives : m \in a.msgs
    <3>1. PICK a \in archives : m \in a.msgs
      BY <2>2
    <3>2. CASE a.time = t
      BY <1>1, <3>1, <3>2
    <3>3. CASE a.time # t
      BY <1>1, <3>1, <3>3
    <3> QED
      BY <3>2, <3>3
  <2>3. CASE m \in replaced
    BY <1>1, <2>3
  <2> QED
    BY <2>1, <2>2, <2>3 DEF IInv, AcknowledgedKept
<1> QED
  BY <1>1, <1>2, <1>4, <1>7, <1>8 DEF IInv, TypeOK

\* The counter of the faults stays within its bound.
LEMMA FaultBound ==
    ASSUME TypeOK, Fault \/ NoFault
    PROVE  faults' \in 0..MaxFaults
  BY FileAssumption DEF TypeOK, Fault, NoFault

\* A step that leaves the disk and what is acknowledged alone keeps what was
\* acknowledged, and the limits unless it opens the stream.
LEMMA DiskKept ==
    ASSUME IInv, UNCHANGED <<diskVars, acked>>, is_open' => is_open
    PROVE  /\ AcknowledgedKept' /\ LimitInv'
           /\ \A f, g \in file' : f = g
           /\ file' \in SUBSET File /\ Cardinality(file') <= 1
           /\ archives' \in SUBSET Archive /\ replaced' \in SUBSET Msg
           /\ now' \in Nat /\ acked' \in 0..MaxMsgs
  BY DEF IInv, TypeOK, AcknowledgedKept, LimitInv, SizeLimit, FileInv, diskVars

\* The return of open() after a failure.
LEMMA FailureReturns ==
    ASSUME TypeOK, OpenReturns(FALSE)
    PROVE  pc' \in {"idle", "append"} /\ line' \in LineSizes \cup {0}
  BY DEF TypeOK, OpenReturns

\* The constructor.
LEMMA ConstructKeeps ==
    ASSUME IInv, Construct
    PROVE  IInv'
<1> USE DEF IInv
<1>1. /\ UNCHANGED <<line, file, archives, replaced, acked, faults, restarts>>
      /\ pc' = "open" /\ caller' = "ctor" /\ now' = now + 1
  BY DEF Construct
<1>2. m_isopen' \in BOOLEAN /\ is_open' = FALSE /\ good' = TRUE
  BY DEF Construct
<1>3. TypeOK'
  <2>1. is_open' \in BOOLEAN /\ good' \in BOOLEAN
    BY <1>2
  <2> QED
    BY <1>1, <1>2, <2>1 DEF TypeOK
<1>4. WorkInv' /\ StreamInv' /\ FileInv' /\ FitInv' /\ LimitInv'
  BY <1>1, <1>2 DEF Construct, WorkInv, StreamInv, FileInv, FitInv, LimitInv, SizeLimit
<1>5. AcknowledgedKept'
  BY <1>1 DEF AcknowledgedKept
<1> QED
  BY <1>3, <1>4, <1>5

\* open() archives the file that is there, or gives up.
LEMMA OpenKeeps ==
    ASSUME IInv, Open
    PROVE  IInv'
<1> USE DEF IInv
<1>1. pc = "open" /\ UNCHANGED <<caller, streamVars, now, acked, restarts>>
  BY DEF Open
<1>2. ~(is_open /\ good)
  BY <1>1 DEF StreamInv
<1>3. faults' \in 0..MaxFaults
  BY FaultBound DEF Open
<1>4. m_isopen' \in BOOLEAN /\ is_open' \in BOOLEAN /\ good' \in BOOLEAN
  BY <1>1 DEF TypeOK, streamVars
<1>5. StreamInv' /\ FitInv' /\ WorkInv'
  <2>1. acked' < MaxMsgs
    BY <1>1 DEF WorkInv
  <2> QED
    BY <1>1, <1>2, <2>1 DEF StreamInv, FitInv, WorkInv, streamVars
<1>6. CASE file = {} /\ pc' = "create" /\ UNCHANGED <<line, file, archives, replaced>>
  <2>1. /\ AcknowledgedKept' /\ LimitInv' /\ FileInv' /\ file' \in SUBSET File
        /\ Cardinality(file') <= 1
    BY <1>1, <1>6, DiskKept DEF diskVars, streamVars, FileInv
  <2> QED
    BY <1>1, <1>3, <1>4, <1>5, <1>6, <2>1 DEF TypeOK
<1>7. CASE (\E f \in file : Rename(f, f.mtime)) /\ pc' = "create" /\ UNCHANGED line
  <2>1. PICK f \in file : Rename(f, f.mtime)
    BY <1>7
  <2>2. f.mtime \in Nat
    BY DEF TypeOK, File
  <2>3. /\ archives' \in SUBSET Archive /\ replaced' \in SUBSET Msg /\ file' = {}
        /\ \A a \in archives' : Cardinality(a.msgs) > 1 => a.size <= m_maxsize
        /\ \A m \in 1..acked : (\E a \in archives' : m \in a.msgs) \/ m \in replaced'
    BY <2>1, <2>2, RenameKeeps
  <2>4. Cardinality(file') <= 1
    BY <2>3, AtMostOne
  <2>5. TypeOK'
    BY <1>1, <1>3, <1>4, <1>7, <2>3, <2>4 DEF TypeOK
  <2>6. FileInv' /\ LimitInv' /\ AcknowledgedKept'
    BY <1>1, <2>3 DEF FileInv, LimitInv, SizeLimit, AcknowledgedKept
  <2> QED
    BY <1>5, <2>5, <2>6
<1>8. CASE OpenReturns(FALSE) /\ UNCHANGED <<file, archives, replaced>>
  <2>1. pc' \in {"idle", "append"} /\ line' \in LineSizes \cup {0}
    BY <1>8, FailureReturns
  <2>2. /\ AcknowledgedKept' /\ LimitInv' /\ FileInv' /\ file' \in SUBSET File
        /\ Cardinality(file') <= 1
    BY <1>1, <1>8, <2>1, DiskKept DEF diskVars, streamVars, FileInv
  <2> QED
    BY <1>1, <1>3, <1>4, <1>5, <1>8, <2>1, <2>2 DEF TypeOK
<1> QED
  BY <1>6, <1>7, <1>8 DEF Open

\* A new file is created where there is none.
LEMMA CreateKeeps ==
    ASSUME IInv, Create
    PROVE  IInv'
<1> USE DEF IInv
<1>1. /\ pc = "create" /\ file = {}
      /\ UNCHANGED <<caller, archives, replaced, acked, restarts>>
  BY DEF Create, FileInv
<1>2. faults' \in 0..MaxFaults
  BY FaultBound DEF Create
<1>3. /\ pc' \in {"idle", "size", "append"} /\ line' \in LineSizes \cup {0}
  BY DEF Create, OpenReturns, TypeOK
<1>4. \/ \E n \in {Header, 0} : file' = {[msgs |-> {}, size |-> n, mtime |-> now']}
      \/ UNCHANGED file
  BY DEF Create
<1>5. now' \in Nat
  <2>1. TimePasses \/ now' = now
    BY DEF Create
  <2> QED
    BY <2>1 DEF TimePasses, TypeOK
<1>6. \A f \in file' : f \in File /\ f.msgs = {}
  <2>1. \A n \in {Header, 0} : [msgs |-> {}, size |-> n, mtime |-> now'] \in File
    BY <1>5, FileAssumption DEF File
  <2> QED
    BY <1>1, <1>4, <2>1
<1>7. \A f, g \in file' : f = g
  BY <1>1, <1>4
<1>8. Cardinality(file') <= 1
  BY <1>7, AtMostOne
<1>9. m_isopen' \in BOOLEAN /\ is_open' \in BOOLEAN /\ good' \in BOOLEAN
  <2>1. m_isopen' \in BOOLEAN
    BY DEF Create
  <2>2. is_open' \in BOOLEAN
    BY DEF Create, TypeOK
  <2>3. good' \in BOOLEAN
    BY DEF Create
  <2> QED
    BY <2>1, <2>2, <2>3
<1>10. TypeOK'
  BY <1>1, <1>2, <1>3, <1>5, <1>6, <1>8, <1>9 DEF TypeOK
<1>11. StreamInv'
  <2>1. is_open' /\ good' => m_isopen' /\ file' # {}
    BY DEF Create
  <2> QED
    BY <1>3, <2>1 DEF StreamInv
<1>12. FileInv' /\ FitInv' /\ WorkInv'
  BY <1>1, <1>3, <1>6, <1>7 DEF FileInv, FitInv, WorkInv
<1>13. LimitInv'
  <2>1. \A f \in file' : Cardinality(f.msgs) = 0
    BY <1>6, FS_EmptySet
  <2> QED
    BY <1>1, <2>1 DEF LimitInv, SizeLimit
<1>14. AcknowledgedKept'
  BY <1>1 DEF AcknowledgedKept
<1> QED
  BY <1>10, <1>11, <1>12, <1>13, <1>14

\* The beginning of do_write, and of the destructor, and a crash.
LEMMA BeginKeeps ==
    ASSUME IInv, Destroy \/ Crash \/ \E n \in LineSizes : do_write(n)
    PROVE  IInv'
<1> USE DEF IInv
<1>1. UNCHANGED <<m_isopen, is_open, good>> /\ UNCHANGED <<diskVars, acked, faults>>
  BY DEF Destroy, Crash, do_write, streamVars
<1>2. /\ pc' \in {"none", "close", "size", "open"}
      /\ pc' \in {"size", "open"} => pc' = IF m_isopen THEN "size" ELSE "open"
      /\ pc' # "none" => pc # "none"
      /\ caller' \in {caller, "do_write", "dtor"}
      /\ line' \in LineSizes \cup {0}
  BY DEF Destroy, Crash, do_write, TypeOK
<1>3. restarts' \in 0..MaxRestarts
  BY FileAssumption DEF Destroy, Crash, do_write, EndsEarly, TypeOK
<1>4. /\ AcknowledgedKept' /\ LimitInv'
      /\ \A f, g \in file' : f = g
      /\ file' \in SUBSET File /\ Cardinality(file') <= 1
      /\ archives' \in SUBSET Archive /\ replaced' \in SUBSET Msg
      /\ now' \in Nat /\ acked' \in 0..MaxMsgs
  BY <1>1, DiskKept
<1>5. m_isopen' \in BOOLEAN /\ is_open' \in BOOLEAN /\ good' \in BOOLEAN
  BY <1>1 DEF TypeOK
<1>6. TypeOK'
  BY <1>1, <1>2, <1>3, <1>4, <1>5 DEF TypeOK
<1>7. StreamInv'
  BY <1>1, <1>2 DEF StreamInv, diskVars
<1>8. FileInv' /\ FitInv' /\ WorkInv'
  <2>1. pc' \in {"size", "open"} \/ (pc' = "close" /\ caller' # "dtor") => acked < MaxMsgs
    BY DEF Destroy, Crash, do_write
  <2> QED
    BY <1>1, <1>2, <1>4, <2>1 DEF FileInv, FitInv, WorkInv
<1> QED
  BY <1>4, <1>6, <1>7, <1>8

\* The size is that of the only file.
LEMMA CheckSizeKeeps ==
    ASSUME IInv, CheckSize
    PROVE  IInv'
<1> USE DEF IInv
<1>1. /\ UNCHANGED <<m_isopen, is_open, good>> /\ UNCHANGED <<diskVars, acked, faults>>
      /\ UNCHANGED <<line, restarts>>
      /\ pc = "size" /\ caller' = "rotate"
      /\ pc' = IF tellp + line + Trailer > m_maxsize THEN "close" ELSE "append"
  BY DEF CheckSize, streamVars
<1>2. /\ AcknowledgedKept' /\ LimitInv'
      /\ \A f, g \in file' : f = g
      /\ file' \in SUBSET File /\ Cardinality(file') <= 1
      /\ archives' \in SUBSET Archive /\ replaced' \in SUBSET Msg
      /\ now' \in Nat /\ acked' \in 0..MaxMsgs
  BY <1>1, DiskKept
<1>3. m_isopen' \in BOOLEAN /\ is_open' \in BOOLEAN /\ good' \in BOOLEAN
  BY <1>1 DEF TypeOK
<1>4. TypeOK'
  BY <1>1, <1>2, <1>3 DEF TypeOK
<1>5. StreamInv' /\ FileInv' /\ WorkInv'
  BY <1>1, <1>2 DEF StreamInv, FileInv, WorkInv, diskVars
<1>6. FitInv'
  <2> SUFFICES ASSUME pc' = "append", is_open, good, NEW f \in file
               PROVE  f.size + line + Trailer <= m_maxsize
    BY <1>1 DEF FitInv, diskVars
  <2>1. file = {f}
    BY DEF FileInv
  <2>2. (CHOOSE g \in file : TRUE) = f
    BY <2>1
  <2>3. tellp = f.size
    BY <2>2 DEF tellp
  <2>4. f.size \in Nat /\ line \in Nat
    BY FileAssumption DEF TypeOK, File
  <2> QED
    BY <1>1, <2>3, <2>4, FileAssumption
<1> QED
  BY <1>2, <1>4, <1>5, <1>6

\* The trailer still fits.
LEMMA CloseKeeps ==
    ASSUME IInv, Close
    PROVE  IInv'
<1> USE DEF IInv
<1>1. /\ UNCHANGED <<caller, m_isopen, line, archives, replaced, now, acked, restarts>>
      /\ pc = "close" /\ pc' = "archive"
  BY DEF Close
<1>2. m_isopen' \in BOOLEAN /\ is_open' = FALSE
  BY DEF Close, TypeOK
<1>3. good' \in BOOLEAN
  BY DEF Close, TypeOK
<1>4. faults' \in 0..MaxFaults
  BY FaultBound DEF Close
<1>5. \/ UNCHANGED file
      \/ is_open /\ file' = {[f EXCEPT !.size = @ + Trailer, !.mtime = now] : f \in file}
  BY DEF Close
<1> DEFINE closed(f) == [f EXCEPT !.size = @ + Trailer, !.mtime = now]
<1>6. \A f \in file : closed(f) \in File /\ closed(f).msgs = f.msgs /\ closed(f).size = f.size + Trailer
  <2> TAKE f \in file
  <2>1. f \in File /\ now \in Nat
    BY DEF TypeOK
  <2> QED
    BY <2>1, FileGrows, FileAssumption
<1>7. UNCHANGED file \/ (is_open /\ file' = {closed(f) : f \in file})
  BY <1>5
<1> HIDE DEF closed
<1>8. file' \in SUBSET File /\ \A f, g \in file' : f = g
  BY <1>6, <1>7 DEF TypeOK, FileInv
<1>9. Cardinality(file') <= 1
  BY <1>8, AtMostOne
<1>10. is_open' \in BOOLEAN
  BY <1>2
<1>11. TypeOK'
  BY <1>1, <1>2, <1>3, <1>4, <1>8, <1>9, <1>10 DEF TypeOK
<1>12. StreamInv' /\ FileInv' /\ FitInv' /\ WorkInv'
  BY <1>1, <1>2, <1>8 DEF StreamInv, FileInv, FitInv, WorkInv
<1>13. LimitInv'
  BY <1>1, <1>2, <1>6, <1>7 DEF LimitInv, SizeLimit
<1>14. AcknowledgedKept'
  BY <1>1, <1>6, <1>7 DEF AcknowledgedKept
<1> QED
  BY <1>11, <1>12, <1>13, <1>14

\* The closed file becomes an archive, or stays.
LEMMA ArchiveKeeps ==
    ASSUME IInv, ArchiveNow
    PROVE  IInv'
<1> USE DEF IInv
<1>1. /\ UNCHANGED <<m_isopen, is_open, good>> /\ UNCHANGED <<caller, line, acked, restarts>>
      /\ pc = "archive" /\ pc' \in {"none", "open"}
  BY DEF ArchiveNow, streamVars
<1>2. faults' \in 0..MaxFaults
  BY FaultBound DEF ArchiveNow
<1>3. m_isopen' \in BOOLEAN /\ is_open' \in BOOLEAN /\ good' \in BOOLEAN
  BY <1>1 DEF TypeOK
<1>4. StreamInv' /\ FitInv' /\ WorkInv'
  BY <1>1 DEF ArchiveNow, StreamInv, FitInv, WorkInv
<1>5. CASE TimePasses /\ \E f \in file : Rename(f, now')
  <2>1. PICK f \in file : Rename(f, now')
    BY <1>5
  <2>2. now' \in Nat
    BY <1>5 DEF TimePasses, TypeOK
  <2>3. /\ archives' \in SUBSET Archive /\ replaced' \in SUBSET Msg /\ file' = {}
        /\ \A a \in archives' : Cardinality(a.msgs) > 1 => a.size <= m_maxsize
        /\ \A m \in 1..acked : (\E a \in archives' : m \in a.msgs) \/ m \in replaced'
    BY <2>1, <2>2, RenameKeeps
  <2>4. Cardinality(file') <= 1
    BY <2>3, AtMostOne
  <2>5. TypeOK'
    BY <1>1, <1>2, <1>3, <2>2, <2>3, <2>4 DEF TypeOK
  <2>6. FileInv' /\ LimitInv' /\ AcknowledgedKept'
    BY <1>1, <2>3 DEF FileInv, LimitInv, SizeLimit, AcknowledgedKept
  <2> QED
    BY <1>4, <2>5, <2>6
<1>6. CASE UNCHANGED diskVars
  <2>1. /\ AcknowledgedKept' /\ LimitInv'
        /\ \A f, g \in file' : f = g
        /\ file' \in SUBSET File /\ Cardinality(file') <= 1
        /\ archives' \in SUBSET Archive /\ replaced' \in SUBSET Msg
        /\ now' \in Nat /\ acked' \in 0..MaxMsgs
    BY <1>1, <1>6, DiskKept
  <2>2. FileInv'
    BY <1>1, <2>1 DEF FileInv
  <2> QED
    BY <1>1, <1>2, <1>3, <1>4, <2>1, <2>2 DEF TypeOK
<1> QED
  BY <1>5, <1>6 DEF ArchiveNow

\* A line is acknowledged when it is in the file; it fits, or is the first.
LEMMA AppendKeeps ==
    ASSUME IInv, Append
    PROVE  IInv'
<1> USE DEF IInv
<1>1. /\ UNCHANGED <<m_isopen, is_open>> /\ UNCHANGED <<caller, archives, replaced, now, restarts>>
      /\ pc = "append" /\ pc' = "idle" /\ line' = 0
  BY DEF Append
<1>2. faults' \in 0..MaxFaults
  BY FaultBound DEF Append
<1>3. good' = good \/ good' = FALSE
  BY DEF Append
<1>4. good' \in BOOLEAN
  BY <1>3 DEF TypeOK
<1>5. m_isopen' \in BOOLEAN /\ is_open' \in BOOLEAN
  BY <1>1 DEF TypeOK
<1>6. CASE /\ is_open /\ good
           /\ file' = {[f EXCEPT !.msgs = @ \cup {acked + 1}, !.size = @ + line, !.mtime = now]
                          : f \in file}
           /\ acked' = acked + 1
  <2>1. file # {}
    BY <1>1, <1>6 DEF StreamInv
  <2>2. PICK f \in file : \A g \in file : g = f
    BY <2>1 DEF FileInv
  <2> DEFINE new == [f EXCEPT !.msgs = @ \cup {acked + 1}, !.size = @ + line, !.mtime = now]
  <2>3. file' = {new}
    BY <1>6, <2>2
  <2>4. f \in File /\ now \in Nat /\ line \in Nat
    BY FileAssumption DEF TypeOK
  <2>5. acked \in Nat /\ acked < MaxMsgs /\ acked + 1 \in Msg
    BY <1>1, FileAssumption DEF TypeOK, WorkInv, Msg
  <2>6. new \in File /\ new.msgs = f.msgs \cup {acked + 1} /\ new.size = f.size + line
    <3> DEFINE g == [f EXCEPT !.msgs = @ \cup {acked + 1}]
    <3>1. g \in File /\ g.msgs = f.msgs \cup {acked + 1} /\ g.size = f.size
      BY <2>4, <2>5 DEF File
    <3>2. new = [g EXCEPT !.size = @ + line, !.mtime = now]
      OBVIOUS
    <3> HIDE DEF g, new
    <3>3. /\ [g EXCEPT !.size = @ + line, !.mtime = now] \in File
          /\ [g EXCEPT !.size = @ + line, !.mtime = now].msgs = g.msgs
          /\ [g EXCEPT !.size = @ + line, !.mtime = now].size = g.size + line
      BY <2>4, <3>1, FileGrows
    <3> QED
      BY <3>1, <3>2, <3>3
  <2> HIDE DEF new
  <2>7. Cardinality(file') <= 1
    BY <2>3, AtMostOne
  <2>8. acked' \in 0..MaxMsgs
    <3>1. acked' = acked + 1
      BY <1>6
    <3> QED
      BY <2>5, <3>1, FileAssumption
  <2>9. TypeOK'
    BY <1>1, <1>2, <1>4, <1>5, <2>3, <2>6, <2>7, <2>8 DEF TypeOK
  <2>10. WorkInv' /\ StreamInv' /\ FileInv' /\ FitInv'
    BY <1>1, <1>3, <2>3 DEF WorkInv, StreamInv, FileInv, FitInv
  <2>11. LimitInv'
    <3>1. Cardinality(new.msgs) > 1 => new.size + Trailer <= m_maxsize
      <4>1. CASE f.msgs = {}
        <5>1. new.msgs = {acked + 1}
          BY <2>6, <4>1
        <5>2. Cardinality(new.msgs) = 1
          BY <5>1, FS_Singleton
        <5> QED
          BY <5>2
      <4>2. CASE f.msgs # {}
        BY <1>1, <1>6, <2>6, <4>2 DEF FitInv
      <4> QED
        BY <4>1, <4>2
    <3>2. new.size \in Nat
      BY <2>6 DEF File
    <3> QED
      BY <1>1, <2>3, <3>1, <3>2, FileAssumption DEF LimitInv, SizeLimit
  <2>12. AcknowledgedKept'
    <3>1. \A m \in 1..acked' : m \in 1..acked \/ m = acked + 1
      <4>1. acked' = acked + 1
        BY <1>6
      <4> QED
        BY <2>5, <4>1
    <3> QED
      BY <1>1, <2>2, <2>3, <2>6, <3>1 DEF AcknowledgedKept
  <2> QED
    BY <2>9, <2>10, <2>11, <2>12
<1>7. CASE /\ is_open /\ good /\ acked' = acked
           /\ file' = {[f EXCEPT !.size = @ + line, !.mtime = now] : f \in file}
  <2> DEFINE cut(f) == [f EXCEPT !.size = @ + line, !.mtime = now]
  <2>1. \A f \in file : cut(f) \in File /\ cut(f).msgs = f.msgs /\ cut(f).size = f.size + line
    <3> TAKE f \in file
    <3>1. f \in File /\ now \in Nat /\ line \in Nat
      BY FileAssumption DEF TypeOK
    <3> QED
      BY <3>1, FileGrows
  <2>2. file' = {cut(f) : f \in file}
    BY <1>7
  <2> HIDE DEF cut
  <2>3. file' \in SUBSET File /\ \A f, g \in file' : f = g
    BY <2>1, <2>2 DEF FileInv
  <2>4. Cardinality(file') <= 1
    BY <2>3, AtMostOne
  <2>5. TypeOK'
    BY <1>1, <1>2, <1>4, <1>5, <1>7, <2>3, <2>4 DEF TypeOK
  <2>6. file # {}
    BY <1>1, <1>7 DEF StreamInv
  <2>7. WorkInv' /\ StreamInv' /\ FileInv' /\ FitInv'
    BY <1>1, <1>3, <2>2, <2>3, <2>6 DEF WorkInv, StreamInv, FileInv, FitInv
  <2>8. \A f \in file : Cardinality(f.msgs) > 1 => f.size + line + Trailer <= m_maxsize
    <3> TAKE f \in file
    <3>1. f.msgs = {} => Cardinality(f.msgs) = 0
      BY FS_EmptySet
    <3>2. f.msgs = {} \/ f.size + line + Trailer <= m_maxsize
      BY <1>1, <1>7 DEF FitInv
    <3> QED
      BY <3>1, <3>2
  <2>9. LimitInv'
    <3>1. \A f \in file : f.size \in Nat /\ line \in Nat
      BY FileAssumption DEF TypeOK, File
    <3> QED
      BY <1>1, <2>1, <2>2, <2>8, <3>1, FileAssumption DEF LimitInv, SizeLimit
  <2>10. AcknowledgedKept'
    BY <1>1, <1>7, <2>1, <2>2 DEF AcknowledgedKept
  <2> QED
    BY <2>5, <2>7, <2>9, <2>10
<1>8. CASE UNCHANGED <<file, acked>>
  <2>1. UNCHANGED <<diskVars, acked>>
    BY <1>1, <1>8 DEF diskVars
  <2>2. /\ AcknowledgedKept' /\ LimitInv'
        /\ \A f, g \in file' : f = g
        /\ file' \in SUBSET File /\ Cardinality(file') <= 1
        /\ archives' \in SUBSET Archive /\ replaced' \in SUBSET Msg
        /\ now' \in Nat /\ acked' \in 0..MaxMsgs
    BY <1>1, <2>1, DiskKept
  <2>3. TypeOK'
    BY <1>1, <1>2, <1>4, <1>5, <1>8, <2>2 DEF TypeOK
  <2>4. WorkInv' /\ StreamInv' /\ FileInv' /\ FitInv'
    BY <1>1, <1>3, <1>8, <2>2 DEF WorkInv, StreamInv, FileInv, FitInv
  <2> QED
    BY <2>2, <2>3, <2>4
<1> QED
  BY <1>6, <1>7, <1>8 DEF Append
-----------------------------------------------------------------------------
\* Every step preserves the invariant.
LEMMA NextPreserves == IInv /\ [Next]_vars => IInv'
<1> SUFFICES ASSUME IInv, [Next]_vars PROVE IInv'
  OBVIOUS
<1>1. CASE UNCHANGED vars
  BY <1>1 DEF IInv, TypeOK, WorkInv, StreamInv, FileInv, FitInv, LimitInv, SizeLimit,
              AcknowledgedKept, vars, streamVars, diskVars
<1>2. CASE Step \/ Destroy \/ Crash
  BY <1>2, ConstructKeeps, OpenKeeps, CreateKeeps, BeginKeeps, CheckSizeKeeps, CloseKeeps,
     ArchiveKeeps, AppendKeeps DEF Step
<1> QED
  BY <1>1, <1>2 DEF Next

\* The invariant holds throughout.
LEMMA Invariance == Spec => []IInv
  BY InitEstablishes, NextPreserves, PTL DEF Spec

\* All variables keep their types.
THEOREM FileTypeCorrect == Spec => []TypeOK
<1>1. IInv => TypeOK
  BY DEF IInv
<1> QED
  BY <1>1, Invariance, PTL

\* An acknowledged message is in the log file or in an archive, whatever
\* fails and wherever the process is killed, unless its archive was replaced.
THEOREM AcknowledgedOnDisk == Spec => []AcknowledgedKept
<1>1. IInv => AcknowledgedKept
  BY DEF IInv
<1> QED
  BY <1>1, Invariance, PTL

\* A file of several messages stays within m_maxsize, with the trailer that
\* is still to come.
THEOREM FilesLimited == Spec => []SizeLimit
<1>1. IInv => SizeLimit
  BY DEF IInv, LimitInv
<1> QED
  BY <1>1, Invariance, PTL
=============================================================================
