------------------------------- MODULE Logger -------------------------------
(***************************************************************************)
(* The logger singleton and its registry of subsystems, used by several    *)
(* threads: logger::instance, register_subsystem (called by                *)
(* subsystem_registrator), find_subsystem, set_subsystem_min_log_level and *)
(* log up to the hand-over to log_thread::enqueue.                         *)
(*                                                                         *)
(* s_instance is protected by s_instance_mutex.  m_subsystems and          *)
(* m_next_free_subsystem_id are not protected: the steps of                *)
(* register_subsystem interleave, the increment is a read and a write, and *)
(* an insertion into the map takes time: a look-up by another thread may   *)
(* meanwhile miss any entry, and two insertions that overlap may leave     *)
(* entries out, or one id with two.  A look-up is one step; one that       *)
(* begins before an insertion and ends during it is the step that comes    *)
(* after the beginning.  A crash inside the map is left out.               *)
(***************************************************************************)
EXTENDS Naturals, FiniteSets

CONSTANTS Threads, Nobody,
          Names,       \* names of subsystems
          Severe,      \* the highest log level; the levels are 0..Severe
          MaxRegister, \* bound on the number of registrations by a thread
          MaxLog       \* bound on the number of messages logged by a thread

ASSUME LoggerAssumption ==
    /\ Nobody \notin Threads /\ Names # {}
    /\ Severe \in Nat /\ MaxRegister \in Nat /\ MaxLog \in Nat

LogLevel == 0..Severe

VARIABLES
    s_instance_mutex,          \* the thread that holds it, or Nobody
    s_instance,                \* has a logger been stored
    created,                   \* history: number of loggers constructed
    m_subsystems,              \* set of entries [id, name, min_level]
    m_next_free_subsystem_id,
    pc,
    name, id,                  \* locals of register_subsystem
    torn,                      \* history: have two insertions overlapped
    returned,                  \* history: <<name, id>> that registrations returned
    registered, logged,        \* number of calls per thread
    accepted                   \* history: the messages passed to enqueue

regVars == <<m_subsystems, m_next_free_subsystem_id, name, id, torn, returned, registered>>
vars == <<s_instance_mutex, s_instance, created, regVars, pc, logged, accepted>>

Entry   == [id : Nat, name : Names, min_level : LogLevel]
Message == [id : Nat, name : Names, level : LogLevel]

TypeOK ==
    /\ s_instance_mutex \in Threads \cup {Nobody}
    /\ s_instance \in BOOLEAN
    /\ created \in Nat
    /\ m_subsystems \in SUBSET Entry
    /\ m_next_free_subsystem_id \in Nat
    /\ pc \in [Threads -> {"start", "locked", "create", "unlock", "idle", "take", "count",
                           "emplace", "insert", "failed"}]
    /\ name \in [Threads -> Names]
    /\ id \in [Threads -> Nat]
    /\ torn \in BOOLEAN
    /\ returned \in SUBSET (Names \X Nat)
    /\ registered \in [Threads -> 0..MaxRegister]
    /\ logged \in [Threads -> 0..MaxLog]
    /\ accepted \in SUBSET Message

Init ==
    /\ s_instance_mutex = Nobody /\ s_instance = FALSE /\ created = 0
    /\ m_subsystems = {} /\ m_next_free_subsystem_id = 0
    /\ pc = [t \in Threads |-> "start"]
    /\ name = [t \in Threads |-> CHOOSE n \in Names : TRUE]
    /\ id = [t \in Threads |-> 0]
    /\ torn = FALSE /\ returned = {} /\ accepted = {}
    /\ registered = [t \in Threads |-> 0] /\ logged = [t \in Threads |-> 0]

Goto(t, label) == pc' = [pc EXCEPT ![t] = label]
-----------------------------------------------------------------------------
(***************************************************************************)
(* logger::instance.                                                       *)
(***************************************************************************)

\* Mutant: the lock is left out, as it is on Windows.
LockNothing(t) ==
    /\ pc[t] = "start"
    /\ Goto(t, "locked")
    /\ UNCHANGED <<s_instance_mutex, s_instance, created, regVars, logged, accepted>>

Lock(t) ==
    /\ pc[t] = "start"
    /\ s_instance_mutex = Nobody
    /\ s_instance_mutex' = t
    /\ Goto(t, "locked")
    /\ UNCHANGED <<s_instance, created, regVars, logged, accepted>>

\* if (!s_instance)
TestInstance(t) ==
    /\ pc[t] = "locked"
    /\ Goto(t, IF s_instance THEN "unlock" ELSE "create")
    /\ UNCHANGED <<s_instance_mutex, s_instance, created, regVars, logged, accepted>>

\* s_instance = new logger: installs the handlers and starts the log_thread.
CreateInstance(t) ==
    /\ pc[t] = "create"
    /\ created' = created + 1
    /\ s_instance' = TRUE
    /\ Goto(t, "unlock")
    /\ UNCHANGED <<s_instance_mutex, regVars, logged, accepted>>

Unlock(t) ==
    /\ pc[t] = "unlock"
    /\ s_instance_mutex' = Nobody
    /\ Goto(t, "idle")
    /\ UNCHANGED <<s_instance, created, regVars, logged, accepted>>
-----------------------------------------------------------------------------
(***************************************************************************)
(* The registry.                                                           *)
(***************************************************************************)
Ids == {s.id : s \in m_subsystems}

\* find_if walks the map in the order of the ids.
find_subsystem(n) ==
    LET found == {s.id : s \in {x \in m_subsystems : x.name = n}}
    IN  {i \in found : \A j \in found : i <= j}

\* The other threads that are changing the tree of the map.
Inserting(t) == {u \in Threads \ {t} : pc[u] = "insert"}

\* register_subsystem: the name is known, or an id has to be allotted.
Register(t, n) ==
    /\ pc[t] = "idle"
    /\ registered[t] < MaxRegister
    /\ name' = [name EXCEPT ![t] = n]
    /\ registered' = [registered EXCEPT ![t] = @ + 1]
    /\ \/ /\ find_subsystem(n) = {} \/ Inserting(t) # {}
          /\ Goto(t, "take")
          /\ UNCHANGED returned
       \/ /\ \E i \in find_subsystem(n) : returned' = returned \cup {<<n, i>>}
          /\ UNCHANGED pc
    /\ UNCHANGED <<s_instance_mutex, s_instance, created, m_subsystems,
                   m_next_free_subsystem_id, id, torn, logged, accepted>>

\* new_id = m_next_free_subsystem_id++, first half
TakeId(t) ==
    /\ pc[t] = "take"
    /\ id' = [id EXCEPT ![t] = m_next_free_subsystem_id]
    /\ Goto(t, "count")
    /\ UNCHANGED <<s_instance_mutex, s_instance, created, m_subsystems,
                   m_next_free_subsystem_id, name, torn, returned, registered, logged, accepted>>

CountId(t) ==
    /\ pc[t] = "count"
    /\ m_next_free_subsystem_id' = id[t] + 1
    /\ Goto(t, "emplace")
    /\ UNCHANGED <<s_instance_mutex, s_instance, created, m_subsystems, name, id, torn, returned,
                   registered, logged, accepted>>

\* emplace: the place of the entry is sought.
Emplace(t) ==
    /\ pc[t] = "emplace"
    /\ torn' = (torn \/ Inserting(t) # {})
    /\ Goto(t, "insert")
    /\ UNCHANGED <<s_instance_mutex, s_instance, created, m_subsystems,
                   m_next_free_subsystem_id, name, id, returned, registered, logged, accepted>>

NewEntry(t) == [id |-> id[t], name |-> name[t], min_level |-> 0]

\* Mutant: operator[] instead of emplace.
Overwrite(t) ==
    /\ pc[t] = "insert"
    /\ m_subsystems' = {s \in m_subsystems : s.id # id[t]} \cup {NewEntry(t)}
    /\ returned' = returned \cup {<<name[t], id[t]>>}
    /\ Goto(t, "idle")
    /\ UNCHANGED <<s_instance_mutex, s_instance, created, m_next_free_subsystem_id, name, id,
                   torn, registered, logged, accepted>>

\* Mutant: the entry is made under the counter instead of the id.
InsertNext(t) ==
    /\ pc[t] = "insert"
    /\ m_subsystems' = m_subsystems \cup {[NewEntry(t) EXCEPT !.id = m_next_free_subsystem_id]}
    /\ returned' = returned \cup {<<name[t], id[t]>>}
    /\ Goto(t, "idle")
    /\ UNCHANGED <<s_instance_mutex, s_instance, created, m_next_free_subsystem_id, name, id,
                   torn, registered, logged, accepted>>

\* The entry is linked; one that exists already is left as it is.  Once two
\* insertions have overlapped, any entry may be lost and any id have two.
Insert(t) ==
    /\ pc[t] = "insert"
    /\ \/ /\ ~torn
          /\ m_subsystems' = m_subsystems \cup (IF id[t] \in Ids THEN {} ELSE {NewEntry(t)})
       \/ torn /\ m_subsystems' \in SUBSET (m_subsystems \cup {NewEntry(t)})
    /\ returned' = returned \cup {<<name[t], id[t]>>}
    /\ Goto(t, "idle")
    /\ UNCHANGED <<s_instance_mutex, s_instance, created, m_next_free_subsystem_id, name, id,
                   torn, registered, logged, accepted>>

\* The assertion in set_subsystem_min_log_level() and log(): the entry of an
\* id that a registration has returned is not found.
AssertFails(t) ==
    /\ pc[t] = "idle"
    /\ \E r \in returned : r[2] \notin Ids \/ Inserting(t) # {}
    /\ Goto(t, "failed")
    /\ UNCHANGED <<s_instance_mutex, s_instance, created, regVars, logged, accepted>>

\* Mutant: one level more.
set_subsystem_min_log_level_off(t, l) ==
    /\ pc[t] = "idle"
    /\ \E r \in returned :
          m_subsystems' = {IF s.id = r[2] THEN [s EXCEPT !.min_level = l + 1] ELSE s : s \in m_subsystems}
    /\ UNCHANGED <<s_instance_mutex, s_instance, created, m_next_free_subsystem_id, pc, name,
                   id, torn, returned, registered, logged, accepted>>

\* Called with an id that a registration has returned.
set_subsystem_min_log_level(t, l) ==
    /\ pc[t] = "idle"
    /\ \E r \in returned :
          m_subsystems' = {IF s.id = r[2] THEN [s EXCEPT !.min_level = l] ELSE s : s \in m_subsystems}
    /\ UNCHANGED <<s_instance_mutex, s_instance, created, m_next_free_subsystem_id, pc, name,
                   id, torn, returned, registered, logged, accepted>>

\* log() with an id that a registration has returned: the entry gives the
\* minimum level and the name that goes into the message.
Log(t, l) ==
    /\ pc[t] = "idle"
    /\ logged[t] < MaxLog
    /\ logged' = [logged EXCEPT ![t] = @ + 1]
    /\ \E r \in returned, s \in m_subsystems :
          /\ s.id = r[2]
          /\ accepted' = IF l < s.min_level THEN accepted
                         ELSE accepted \cup {[id |-> s.id, name |-> s.name, level |-> l]}
    /\ UNCHANGED <<s_instance_mutex, s_instance, created, regVars, pc>>

Next ==
    \E t \in Threads :
        \/ Lock(t) \/ TestInstance(t) \/ CreateInstance(t) \/ Unlock(t)
        \/ \E n \in Names : Register(t, n)
        \/ TakeId(t) \/ CountId(t) \/ Emplace(t) \/ Insert(t) \/ AssertFails(t)
        \/ \E l \in LogLevel : set_subsystem_min_log_level(t, l) \/ Log(t, l)

Spec == Init /\ [][Next]_vars
-----------------------------------------------------------------------------
\* At most one logger is ever constructed, whichever threads call instance().
SingleInstance == created <= 1

\* What log() and set_subsystem_min_log_level() assert: an id that a
\* registration returned has an entry, and only one.  Registrations that race
\* in the look-up and in the increment, so that two threads get one id, do no
\* harm to that; only two insertions that overlap do.
ReturnedKnown ==
    ~torn => \A r \in returned : Cardinality({s \in m_subsystems : s.id = r[2]}) = 1

\* An entry, once made, keeps its name, also when a second thread was given
\* its id: messages logged under an id are never attributed to two
\* subsystems, unless two insertions have overlapped.
AttributionStable ==
    ~torn => \A m1, m2 \in accepted : m1.id = m2.id => m1.name = m2.name

\* logger.h: "Calling this function several times with the same _name will
\* always return the same id."
SameNameSameId ==
    \A r1, r2 \in returned : r1[1] = r2[1] => r1[2] = r2[2]
=============================================================================
