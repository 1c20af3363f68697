----------------------------- MODULE LoggerProofs -----------------------------
(***************************************************************************)
(* Proofs about Logger, for every set of threads and names and any number  *)
(* of levels and calls.                                                    *)
(***************************************************************************)
EXTENDS Logger, FiniteSetTheorems, TLAPS

\* The thread inside logger::instance holds the mutex; what it has found out
\* about s_instance still holds.
InstanceInv ==
    /\ \A t \in Threads : pc[t] \in {"locked", "create", "unlock"} <=> s_instance_mutex = t
    /\ \A t \in Threads : pc[t] = "create" => ~s_instance
    /\ created = IF s_instance THEN 1 ELSE 0

\* Until two insertions overlap no id has two entries, whatever ids racing
\* registrations were allotted, and every id that was returned has one.
RegistryInv ==
  ~torn =>
    /\ \A s1, s2 \in m_subsystems : s1.id = s2.id => s1 = s2
    /\ \A r \in returned : \E s \in m_subsystems : s.id = r[2]

\* Until then the name in a message is still the name of its id.
AttributionInv ==
    ~torn => \A m \in accepted : \E s \in m_subsystems : s.id = m.id /\ s.name = m.name

IInv == TypeOK /\ InstanceInv /\ RegistryInv /\ AttributionInv

-----------------------------------------------------------------------------
\* The first call of instance() may be made by any thread.
LEMMA InitEstablishes == Init => IInv
<1> SUFFICES ASSUME Init PROVE IInv
  OBVIOUS
<1>1. TypeOK
  <2>1. (CHOOSE n \in Names : TRUE) \in Names
    BY LoggerAssumption
  <2>2. name \in [Threads -> Names]
    BY <2>1 DEF Init
  <2>3. /\ pc \in [Threads -> {"start"}] /\ id \in [Threads -> {0}]
        /\ registered \in [Threads -> {0}] /\ logged \in [Threads -> {0}]
    BY DEF Init
  <2>4. /\ pc \in [Threads -> {"start", "locked", "create", "unlock", "idle", "take", "count",
                             "emplace", "insert", "failed"}]
        /\ id \in [Threads -> Nat]
    BY <2>3
  <2>5. registered \in [Threads -> 0..MaxRegister] /\ logged \in [Threads -> 0..MaxLog]
    BY <2>3, LoggerAssumption
  <2>6. /\ s_instance_mutex \in Threads \cup {Nobody} /\ s_instance \in BOOLEAN
        /\ created \in Nat /\ m_subsystems \in SUBSET Entry
        /\ m_next_free_subsystem_id \in Nat /\ returned \in SUBSET (Names \X Nat)
        /\ torn \in BOOLEAN
        /\ accepted \in SUBSET Message
    BY DEF Init
  <2> QED
    BY <2>2, <2>4, <2>5, <2>6 DEF TypeOK
<1>2. InstanceInv
  BY LoggerAssumption DEF Init, InstanceInv
<1> QED
  BY <1>1, <1>2 DEF Init, IInv, RegistryInv, AttributionInv

\* The steps of logger::instance leave the registry alone.
LEMMA InstanceStep ==
    ASSUME IInv, NEW t \in Threads,
           Lock(t) \/ TestInstance(t) \/ CreateInstance(t) \/ Unlock(t)
    PROVE  IInv'
<1> USE DEF IInv, Goto
<1>1. TypeOK'
  <2>1. CASE Lock(t)
    BY <2>1 DEF TypeOK, Lock, regVars
  <2>2. CASE TestInstance(t)
    BY <2>2 DEF TypeOK, TestInstance, regVars
  <2>3. CASE CreateInstance(t)
    BY <2>3 DEF TypeOK, CreateInstance, regVars
  <2>4. CASE Unlock(t)
    BY <2>4 DEF TypeOK, Unlock, regVars
  <2> QED
    BY <2>1, <2>2, <2>3, <2>4
<1>2. InstanceInv'
  <2>1. CASE Lock(t)
    BY <2>1, LoggerAssumption DEF InstanceInv, TypeOK, Lock
  <2>2. CASE TestInstance(t)
    BY <2>2 DEF InstanceInv, TypeOK, TestInstance
  <2>3. CASE CreateInstance(t)
    BY <2>3 DEF InstanceInv, TypeOK, CreateInstance
  <2>4. CASE Unlock(t)
    BY <2>4, LoggerAssumption DEF InstanceInv, TypeOK, Unlock
  <2> QED
    BY <2>1, <2>2, <2>3, <2>4
<1>3. RegistryInv' /\ AttributionInv'
  BY DEF RegistryInv, AttributionInv, Lock, TestInstance, CreateInstance, Unlock, regVars
<1> QED
  BY <1>1, <1>2, <1>3

\* What is not in logger::instance and stays out of it preserves InstanceInv.
LEMMA InstanceUntouched ==
    ASSUME TypeOK, InstanceInv, NEW t \in Threads, NEW label,
           pc[t] \notin {"locked", "create", "unlock"},
           label \notin {"locked", "create", "unlock"},
           pc' = [pc EXCEPT ![t] = label],
           UNCHANGED <<s_instance_mutex, s_instance, created>>
    PROVE  InstanceInv'
  BY DEF TypeOK, InstanceInv

\* The look-up, the two halves of the increment, the search for the place of
\* an entry and an assertion that fails make no entry.
LEMMA RegisterStep ==
    ASSUME IInv, NEW t \in Threads,
           \/ (\E n \in Names : Register(t, n)) \/ TakeId(t) \/ CountId(t)
           \/ Emplace(t) \/ AssertFails(t)
    PROVE  IInv'
<1> USE DEF IInv
<1>1. CASE \E n \in Names : Register(t, n)
  <2> PICK n \in Names : Register(t, n)
    BY <1>1
  <2>1. find_subsystem(n) \subseteq {s.id : s \in m_subsystems}
    BY DEF find_subsystem
  <2>2. find_subsystem(n) \subseteq Nat
    BY <2>1 DEF TypeOK, Entry
  <2>3. registered[t] + 1 \in 0..MaxRegister
    BY LoggerAssumption DEF TypeOK, Register
  <2>4. TypeOK'
    BY <2>2, <2>3 DEF TypeOK, Register, Goto
  <2>5. InstanceInv'
    BY InstanceUntouched DEF Register, Goto, InstanceInv, TypeOK
  <2>6. RegistryInv' /\ AttributionInv'
    BY <2>1 DEF RegistryInv, AttributionInv, Register
  <2> QED
    BY <2>4, <2>5, <2>6
<1>2. CASE TakeId(t) \/ CountId(t)
  <2>1. TypeOK'
    BY <1>2 DEF TypeOK, TakeId, CountId, Goto
  <2>2. InstanceInv'
    BY <1>2, InstanceUntouched DEF TakeId, CountId, Goto
  <2>3. RegistryInv' /\ AttributionInv'
    BY <1>2 DEF RegistryInv, AttributionInv, TakeId, CountId
  <2> QED
    BY <2>1, <2>2, <2>3
<1>3. CASE Emplace(t) \/ AssertFails(t)
  <2>1. TypeOK'
    BY <1>3 DEF TypeOK, Emplace, AssertFails, Goto, regVars
  <2>2. InstanceInv'
    BY <1>3, InstanceUntouched DEF Emplace, AssertFails, Goto
  <2>3. RegistryInv' /\ AttributionInv'
    BY <1>3 DEF RegistryInv, AttributionInv, Emplace, AssertFails, regVars
  <2> QED
    BY <2>1, <2>2, <2>3
<1> QED
  BY <1>1, <1>2, <1>3

\* emplace makes an entry only for an id that has none.
LEMMA EmplaceStep ==
    ASSUME IInv, NEW t \in Threads, Insert(t)
    PROVE  IInv'
<1> USE DEF IInv
<1> DEFINE new == NewEntry(t)
<1>0. new \in Entry /\ new.id = id[t]
  BY LoggerAssumption DEF NewEntry, TypeOK, Entry, LogLevel
<1>7. m_subsystems' \subseteq m_subsystems \cup {new}
  BY DEF Insert
<1> HIDE DEF new
<1>3. TypeOK'
  BY <1>0, <1>7 DEF TypeOK, Insert, Goto
<1>4. InstanceInv'
  BY InstanceUntouched DEF Insert, Goto
<1>8. CASE torn
  BY <1>3, <1>4, <1>8 DEF Insert, RegistryInv, AttributionInv
<1>9. CASE ~torn
  <2>1. m_subsystems' = m_subsystems \cup (IF id[t] \in Ids THEN {} ELSE {new})
    BY <1>9 DEF Insert, new
  <2>2. /\ m_subsystems \subseteq m_subsystems'
        /\ \A s \in m_subsystems' : s \in m_subsystems \/ (s = new /\ id[t] \notin Ids)
    BY <2>1
  <2>3. \E s \in m_subsystems' : s.id = id[t]
    <3>1. CASE id[t] \in Ids
      BY <2>2, <3>1 DEF Ids
    <3>2. CASE id[t] \notin Ids
      BY <1>0, <2>1, <3>2
    <3> QED
      BY <3>1, <3>2
  <2>4. RegistryInv'
    <3>1. \A s1, s2 \in m_subsystems' : s1.id = s2.id => s1 = s2
      BY <1>0, <1>9, <2>2 DEF RegistryInv, Ids
    <3>2. \A r \in returned' : \E s \in m_subsystems' : s.id = r[2]
      BY <1>9, <2>2, <2>3 DEF RegistryInv, Insert
    <3> QED
      BY <3>1, <3>2 DEF RegistryInv
  <2>5. AttributionInv'
    BY <1>9, <2>2 DEF AttributionInv, Insert
  <2> QED
    BY <1>3, <1>4, <2>4, <2>5
<1> QED
  BY <1>8, <1>9

\* A new level changes neither the ids nor the names.
LEMMA LevelStep ==
    ASSUME IInv, NEW t \in Threads, NEW l \in LogLevel, set_subsystem_min_log_level(t, l)
    PROVE  IInv'
<1> USE DEF IInv
<1>1. PICK r \in returned :
          m_subsystems' = {IF s.id = r[2] THEN [s EXCEPT !.min_level = l] ELSE s : s \in m_subsystems}
  BY DEF set_subsystem_min_log_level
<1> DEFINE changed(s) == IF s.id = r[2] THEN [s EXCEPT !.min_level = l] ELSE s
<1>2. \A s \in m_subsystems :
          changed(s) \in Entry /\ changed(s).id = s.id /\ changed(s).name = s.name
  BY DEF TypeOK, Entry
<1>3. m_subsystems' = {changed(s) : s \in m_subsystems}
  BY <1>1
<1> HIDE DEF changed
<1>4. TypeOK'
  BY <1>2, <1>3 DEF TypeOK, set_subsystem_min_log_level
<1>5. InstanceInv'
  BY DEF InstanceInv, set_subsystem_min_log_level
<1>6. RegistryInv'
  <2>0. torn' = torn
    BY DEF set_subsystem_min_log_level
  <2>1. CASE ~torn
    <3>1. \A s1, s2 \in m_subsystems' : s1.id = s2.id => s1 = s2
      BY <1>2, <1>3, <2>1 DEF RegistryInv
    <3>2. \A q \in returned' : \E s \in m_subsystems' : s.id = q[2]
      BY <1>2, <1>3, <2>1 DEF RegistryInv, set_subsystem_min_log_level
    <3> QED
      BY <3>1, <3>2 DEF RegistryInv
  <2>2. CASE torn
    BY <2>0, <2>2 DEF RegistryInv
  <2> QED
    BY <2>1, <2>2
<1>7. AttributionInv'
  BY <1>2, <1>3 DEF AttributionInv, set_subsystem_min_log_level
<1> QED
  BY <1>4, <1>5, <1>6, <1>7

\* A message takes its name from the entry of its id.
LEMMA LogStep ==
    ASSUME IInv, NEW t \in Threads, NEW l \in LogLevel, Log(t, l)
    PROVE  IInv'
<1> USE DEF IInv
<1>1. PICK s \in m_subsystems :
          accepted' = IF l < s.min_level THEN accepted
                      ELSE accepted \cup {[id |-> s.id, name |-> s.name, level |-> l]}
  BY DEF Log
<1>2. logged[t] + 1 \in 0..MaxLog
  BY LoggerAssumption DEF TypeOK, Log
<1>3. [id |-> s.id, name |-> s.name, level |-> l] \in Message
  BY DEF TypeOK, Entry, Message
<1>4. TypeOK'
  BY <1>1, <1>2, <1>3 DEF TypeOK, Log, regVars
<1>5. InstanceInv' /\ RegistryInv'
  BY DEF InstanceInv, RegistryInv, Log, regVars
<1>6. AttributionInv'
  BY <1>1 DEF AttributionInv, Log, regVars
<1> QED
  BY <1>4, <1>5, <1>6

\* Every step preserves the invariant.
LEMMA NextPreserves == IInv /\ [Next]_vars => IInv'
<1> SUFFICES ASSUME IInv, [Next]_vars PROVE IInv'
  OBVIOUS
<1>1. CASE UNCHANGED vars
  BY <1>1 DEF IInv, TypeOK, InstanceInv, RegistryInv, AttributionInv, vars, regVars
<1>2. CASE Next
  <2> PICK t \in Threads :
        \/ Lock(t) \/ TestInstance(t) \/ CreateInstance(t) \/ Unlock(t)
        \/ \E n \in Names : Register(t, n)
        \/ TakeId(t) \/ CountId(t) \/ Emplace(t) \/ Insert(t) \/ AssertFails(t)
        \/ \E l \in LogLevel : set_subsystem_min_log_level(t, l) \/ Log(t, l)
    BY <1>2 DEF Next
  <2> QED
    BY InstanceStep, RegisterStep, EmplaceStep, LevelStep, LogStep
<1> QED
  BY <1>1, <1>2

\* The invariant holds throughout.
LEMMA Invariance == Spec => []IInv
  BY InitEstablishes, NextPreserves, PTL DEF Spec
-----------------------------------------------------------------------------
\* All variables keep their types.
THEOREM LoggerTypeCorrect == Spec => []TypeOK
<1>1. IInv => TypeOK
  BY DEF IInv
<1> QED
  BY <1>1, Invariance, PTL

\* logger::instance constructs one logger, however many threads call it
\* first at the same time.
THEOREM OneLogger == Spec => []SingleInstance
<1>1. IInv => SingleInstance
  BY DEF IInv, InstanceInv, SingleInstance
<1> QED
  BY <1>1, Invariance, PTL

\* What log() and set_subsystem_min_log_level() assert holds for any number of
\* registrations that race in the look-up and the increment, up to the first
\* overlap of two insertions.
THEOREM RegisteredIdsKnown == Spec => []ReturnedKnown
<1>1. IInv => ReturnedKnown
  <2> SUFFICES ASSUME IInv, ~torn, NEW r \in returned
               PROVE  Cardinality({s \in m_subsystems : s.id = r[2]}) = 1
    BY DEF ReturnedKnown
  <2>1. PICK s \in m_subsystems : s.id = r[2]
    BY DEF IInv, RegistryInv
  <2>2. {x \in m_subsystems : x.id = r[2]} = {s}
    BY <2>1 DEF IInv, RegistryInv
  <2> QED
    BY <2>2, FS_Singleton
<1> QED
  BY <1>1, Invariance, PTL

\* Messages logged under one id carry one name, up to the first overlap of two
\* insertions.
THEOREM AttributionKept == Spec => []AttributionStable
<1>1. IInv => AttributionStable
  BY DEF IInv, RegistryInv, AttributionInv, AttributionStable
<1> QED
  BY <1>1, Invariance, PTL
===============================================================================
