------------------------- MODULE TcpClientSocketProofs -------------------------
(***************************************************************************)
(* Proofs about TcpClientSocket, for any set of threads that use the       *)
(* socket and any set of descriptors.                                      *)
(***************************************************************************)
EXTENDS TcpClientSocket, FiniteSetTheorems, TLAPS

\* One thread at a time is in connect(), and no connection is reported then.
ConnectInv ==
    /\ \A u, v \in Users : pc[u] \in Connecting /\ pc[v] \in Connecting => u = v
    /\ returned => \A u \in Users : pc[u] \notin Connecting

\* m_socket is open and of this object, except between close() and the reset.
OwnInv == connected /\ (\A u \in Users : pc[u] \notin Closing) => table[m_socket] = "socket"

\* Without a disconnect() a call of connect() keeps its socket until it fails,
\* and has it when it returns.
CalmInv ==
    undisturbed =>
        /\ \A u \in Users : pc[u] # "reset"
        /\ \A u \in Users : pc[u] \in Connecting \ {"address", "clear"} => connected
        /\ returned => connected

\* A disconnect() that crosses a call of connect() is remembered.
CrossInv == ~crossed => \A u \in Users : pc[u] \in Connecting => undisturbed

\* A new session is of this socket, and that of a connection that was reported
\* is verified too, unless the socket is gone.
SessionInv ==
    /\ \A u \in Users : pc[u] = "session" => (connected => m_ssl.fd = m_socket)
    /\ returned /\ m_use_ssl =>
           m_ssl_active /\ m_ssl.verified /\ (connected => m_ssl.fd = m_socket)

LinkInv ==
    /\ TypeOK /\ ConnectInv /\ OwnInv /\ CalmInv /\ CrossInv /\ SessionInv
    /\ DataSecure /\ ForeignCloseExplained
-----------------------------------------------------------------------------
\* Nothing is open and nobody is in connect().
LEMMA LinkInit == Init => LinkInv
<1> SUFFICES ASSUME Init PROVE LinkInv
  OBVIOUS
<1>1. TypeOK
  <2>1. m_ssl \in Session
    BY DEF Init, Session
  <2>2. /\ table \in [Descriptors -> {"free", "socket", "foreign"}]
        /\ pc \in [Users -> {"idle", "reset"} \cup Connecting]
    BY DEF Init
  <2>3. moved \in SUBSET [told : BOOLEAN, secure : BOOLEAN]
    BY DEF Init
  <2>4. /\ m_use_socks \in BOOLEAN /\ m_use_ssl \in BOOLEAN /\ m_ssl_active \in BOOLEAN
        /\ m_socket \in Descriptors \cup {INVALID_SOCKET}
        /\ returned \in BOOLEAN /\ undisturbed \in BOOLEAN /\ crossed \in BOOLEAN
        /\ overlapped \in BOOLEAN /\ foreignClosed \in BOOLEAN
    BY DEF Init
  <2>5. connects \in 0..MaxConnects
    BY SocketAssumption DEF Init
  <2> QED
    BY <2>1, <2>2, <2>3, <2>4, <2>5 DEF TypeOK
<1>2. ConnectInv /\ CrossInv
  BY DEF Init, ConnectInv, CrossInv, Connecting
<1>3. OwnInv /\ CalmInv /\ SessionInv
  BY DEF Init, OwnInv, CalmInv, SessionInv, Connecting, connected
<1>4. DataSecure /\ ForeignCloseExplained
  BY DEF Init, DataSecure, ForeignCloseExplained
<1> QED
  BY <1>1, <1>2, <1>3, <1>4 DEF LinkInv

\* A step to a control state.
LEMMA GotoStep ==
    ASSUME TypeOK, NEW u \in Users, NEW l \in {"idle", "reset"} \cup Connecting, Goto(u, l)
    PROVE  /\ pc' \in [Users -> {"idle", "reset"} \cup Connecting]
           /\ pc'[u] = l
           /\ \A v \in Users : v # u => pc'[v] = pc[v]
  BY DEF Goto, TypeOK

\* The steps of connect() that change only the control state.
LEMMA ForwardStep ==
    ASSUME LinkInv, NEW u \in Users, Greeting(u) \/ Request(u) \/ DialSucceeds(u)
    PROVE  LinkInv'
<1> USE DEF LinkInv
<1>1. UNCHANGED <<m_use_socks, m_use_ssl, m_socket, m_ssl_active, m_ssl, table, connects,
                  returned, undisturbed, crossed, moved, overlapped, foreignClosed>>
  BY DEF Greeting, Request, DialSucceeds, config, sslVars, attempt, histVars
<1>2. /\ pc[u] \in {"dial", "greeting", "request"}
      /\ \E l \in {"idle", "greeting", "request", "ssl"} : Goto(u, l)
      /\ pc[u] = "dial" /\ ~connected => Goto(u, "idle")
  BY DEF Greeting, Request, DialSucceeds, Contact
<1>3. PICK l \in {"idle", "greeting", "request", "ssl"} : Goto(u, l)
  BY <1>2
<1>4. /\ pc' \in [Users -> {"idle", "reset"} \cup Connecting]
      /\ pc'[u] = l
      /\ \A v \in Users : v # u => pc'[v] = pc[v]
  BY <1>3, GotoStep DEF Connecting
<1>5. connected' <=> connected
  BY <1>1 DEF connected
<1>6. TypeOK'
  BY <1>1, <1>4 DEF TypeOK
<1>7. ConnectInv' /\ CrossInv'
  BY <1>1, <1>2, <1>4 DEF ConnectInv, CrossInv, Connecting
<1>8. OwnInv'
  BY <1>1, <1>2, <1>4, <1>5 DEF OwnInv, Closing
<1>9. CalmInv'
  BY <1>1, <1>2, <1>4, <1>5 DEF CalmInv, Connecting
<1>10. SessionInv'
  BY <1>1, <1>4, <1>5 DEF SessionInv
<1>11. DataSecure' /\ ForeignCloseExplained'
  BY <1>1 DEF DataSecure, ForeignCloseExplained
<1> QED
  BY <1>6, <1>7, <1>8, <1>9, <1>10, <1>11

\* A call of connect() begins.
LEMMA ConnectStep ==
    ASSUME LinkInv, NEW u \in Users, Connect(u)
    PROVE  LinkInv'
<1> USE DEF LinkInv
<1>1. UNCHANGED <<m_use_socks, m_use_ssl, m_socket, m_ssl_active, m_ssl, table, moved,
                  overlapped, foreignClosed>>
  BY DEF Connect, config, sslVars, histVars
<1>2. /\ pc[u] = "idle" /\ \A v \in Users : pc[v] \notin Connecting
      /\ connects' = connects + 1 /\ connects < MaxConnects
      /\ returned' = FALSE
      /\ undisturbed' = \A v \in Users : pc[v] # "reset"
      /\ crossed' = (crossed \/ ~undisturbed')
  BY DEF Connect
<1>3. /\ pc' \in [Users -> {"idle", "reset"} \cup Connecting]
      /\ pc'[u] \in {"idle", "address"}
      /\ \A v \in Users : v # u => pc'[v] = pc[v]
  <2>1. CASE Goto(u, "address")
    BY <2>1, GotoStep DEF Connecting
  <2>2. CASE UNCHANGED pc
    BY <1>2, <2>2 DEF TypeOK
  <2> QED
    BY <2>1, <2>2 DEF Connect
<1>4. connected' <=> connected
  BY <1>1 DEF connected
<1>5. TypeOK'
  <2>1. connects' \in 0..MaxConnects
    BY <1>2, SocketAssumption DEF TypeOK
  <2>2. undisturbed' \in BOOLEAN /\ crossed' \in BOOLEAN
    BY <1>2 DEF TypeOK
  <2> QED
    BY <1>1, <1>2, <1>3, <2>1, <2>2 DEF TypeOK
<1>6. ConnectInv' /\ CrossInv'
  BY <1>2, <1>3 DEF ConnectInv, CrossInv, Connecting
<1>7. OwnInv'
  BY <1>1, <1>2, <1>3, <1>4 DEF OwnInv, Closing
<1>8. CalmInv'
  BY <1>2, <1>3 DEF CalmInv, Connecting
<1>9. SessionInv'
  BY <1>1, <1>2, <1>3, <1>4 DEF SessionInv, Connecting
<1>10. DataSecure' /\ ForeignCloseExplained'
  BY <1>1 DEF DataSecure, ForeignCloseExplained
<1> QED
  BY <1>5, <1>6, <1>7, <1>8, <1>9, <1>10

\* What the step of one address does to the table and the control state.
LEMMA OpenEffect ==
    ASSUME TypeOK, NEW u \in Users, OpenSocket(u) \/ Clear(u)
    PROVE  /\ pc' \in [Users -> {"idle", "reset"} \cup Connecting]
           /\ pc'[u] \in {"idle", "address", "dial"}
           /\ \A v \in Users : v # u => pc'[v] = pc[v]
           /\ \/ /\ pc[u] = "address" /\ pc'[u] = "dial" /\ m_socket' \in Descriptors
                 /\ table' = [table EXCEPT ![m_socket'] = "socket"]
              \/ pc'[u] # "dial" /\ m_socket' = INVALID_SOCKET /\ UNCHANGED table
<1>1. CASE Clear(u)
  <2>1. PICK l \in {"address", "idle"} : Goto(u, l)
    BY <1>1 DEF Clear
  <2> QED
    BY <1>1, <2>1, GotoStep DEF Clear, Connecting
<1>2. CASE OpenSocket(u) /\ m_socket' = INVALID_SOCKET /\ Goto(u, "idle") /\ UNCHANGED table
  BY <1>2, GotoStep
<1>3. CASE OpenSocket(u) /\ m_socket' = INVALID_SOCKET /\ UNCHANGED pc /\ UNCHANGED table
  BY <1>3 DEF OpenSocket, TypeOK
<1>4. ASSUME NEW d \in Descriptors, pc[u] = "address", table' = [table EXCEPT ![d] = "socket"],
             m_socket' = d, Goto(u, "dial")
      PROVE  /\ pc' \in [Users -> {"idle", "reset"} \cup Connecting]
             /\ pc'[u] = "dial" /\ m_socket' \in Descriptors
             /\ \A v \in Users : v # u => pc'[v] = pc[v]
             /\ table' = [table EXCEPT ![m_socket'] = "socket"]
  BY <1>4, GotoStep DEF Connecting
<1> QED
  BY <1>1, <1>2, <1>3, <1>4 DEF OpenSocket

\* An address: a socket is opened, or none is left.
LEMMA OpenStep ==
    ASSUME LinkInv, NEW u \in Users, OpenSocket(u) \/ Clear(u)
    PROVE  LinkInv'
<1> USE DEF LinkInv
<1>1. UNCHANGED <<m_use_socks, m_use_ssl, m_ssl_active, m_ssl, connects, returned, undisturbed,
                  crossed, moved, overlapped, foreignClosed>>
  BY DEF OpenSocket, Clear, config, sslVars, attempt, histVars
<1>2. pc[u] \in {"address", "clear"} /\ pc[u] \in Connecting /\ ~returned
  BY DEF OpenSocket, Clear, ConnectInv, Connecting
<1>3. /\ pc' \in [Users -> {"idle", "reset"} \cup Connecting]
      /\ pc'[u] \in {"idle", "address", "dial"}
      /\ \A v \in Users : v # u => pc'[v] = pc[v]
  BY OpenEffect
<1>4. \/ /\ pc'[u] = "dial" /\ connected' /\ m_socket' \in Descriptors
         /\ table' = [table EXCEPT ![m_socket'] = "socket"]
      \/ pc'[u] # "dial" /\ m_socket' = INVALID_SOCKET /\ UNCHANGED table
  BY OpenEffect, SocketAssumption DEF connected
<1>5. TypeOK'
  <2>1. m_socket' \in Descriptors \cup {INVALID_SOCKET}
        /\ table' \in [Descriptors -> {"free", "socket", "foreign"}]
    BY <1>4 DEF TypeOK
  <2> QED
    BY <1>1, <1>3, <2>1 DEF TypeOK
<1>6. ConnectInv' /\ CrossInv'
  BY <1>1, <1>2, <1>3 DEF ConnectInv, CrossInv, Connecting
<1>7. OwnInv'
  BY <1>4 DEF OwnInv, connected, TypeOK
<1>8. CalmInv'
  BY <1>1, <1>2, <1>3, <1>4 DEF CalmInv, ConnectInv, Connecting
<1>9. SessionInv'
  BY <1>1, <1>2, <1>3 DEF SessionInv, ConnectInv, Connecting
<1>10. DataSecure' /\ ForeignCloseExplained'
  BY <1>1 DEF DataSecure, ForeignCloseExplained
<1> QED
  BY <1>5, <1>6, <1>7, <1>8, <1>9, <1>10

\* A descriptor of another part is closed only next to another thread that
\* closes.
LEMMA CloseHarm ==
    ASSUME TypeOK, OwnInv, ForeignCloseExplained, NEW u \in Users, pc[u] \notin Closing,
           CloseDescriptor(u)
    PROVE  /\ ForeignCloseExplained'
           /\ table' \in [Descriptors -> {"free", "socket", "foreign"}]
           /\ overlapped' \in BOOLEAN /\ foreignClosed' \in BOOLEAN
<1>1. connected /\ table[m_socket] = "foreign" => \E v \in Users \ {u} : pc[v] \in Closing
  BY DEF OwnInv
<1>2. ForeignCloseExplained'
  BY <1>1 DEF CloseDescriptor, ForeignCloseExplained
<1>3. table' \in [Descriptors -> {"free", "socket", "foreign"}]
  BY DEF CloseDescriptor, TypeOK
<1>4. overlapped' \in BOOLEAN /\ foreignClosed' \in BOOLEAN
  BY DEF CloseDescriptor, TypeOK
<1> QED
  BY <1>2, <1>3, <1>4

\* close() after an address that failed.
LEMMA DialFailsStep ==
    ASSUME LinkInv, NEW u \in Users, DialFails(u)
    PROVE  LinkInv'
<1> USE DEF LinkInv
<1>1. UNCHANGED <<m_use_socks, m_use_ssl, m_socket, m_ssl_active, m_ssl, connects, returned,
                  undisturbed, crossed, moved>>
  BY DEF DialFails, config, sslVars, attempt
<1>2. pc[u] = "dial" /\ CloseDescriptor(u)
  BY DEF DialFails
<1>3. /\ pc' \in [Users -> {"idle", "reset"} \cup Connecting]
      /\ pc'[u] = "clear"
      /\ \A v \in Users : v # u => pc'[v] = pc[v]
  BY GotoStep DEF DialFails, Connecting
<1>4. connected' <=> connected
  BY <1>1 DEF connected
<1>5. /\ ForeignCloseExplained'
      /\ table' \in [Descriptors -> {"free", "socket", "foreign"}]
      /\ overlapped' \in BOOLEAN /\ foreignClosed' \in BOOLEAN
  BY <1>2, CloseHarm DEF Closing
<1>6. TypeOK'
  BY <1>1, <1>3, <1>5 DEF TypeOK
<1>7. ConnectInv' /\ CrossInv'
  BY <1>1, <1>2, <1>3 DEF ConnectInv, CrossInv, Connecting
<1>8. OwnInv'
  BY <1>3 DEF OwnInv, Closing
<1>9. CalmInv'
  BY <1>1, <1>2, <1>3, <1>4 DEF CalmInv, Connecting
<1>10. SessionInv' /\ DataSecure'
  BY <1>1, <1>3, <1>4 DEF SessionInv, DataSecure
<1> QED
  BY <1>5, <1>6, <1>7, <1>8, <1>9, <1>10

\* disconnect(), its close().
LEMMA CloseStep ==
    ASSUME LinkInv, NEW u \in Users, Close(u)
    PROVE  LinkInv'
<1> USE DEF LinkInv
<1>1. UNCHANGED <<m_use_socks, m_use_ssl, m_socket, m_ssl_active, m_ssl, connects, moved>>
  BY DEF Close, config, sslVars
<1>2. /\ pc[u] = "idle" /\ CloseDescriptor(u)
      /\ returned' = FALSE /\ undisturbed' = FALSE
      /\ crossed' = (crossed \/ \E v \in Users : pc[v] \in Connecting)
  BY DEF Close
<1>3. /\ pc' \in [Users -> {"idle", "reset"} \cup Connecting]
      /\ pc'[u] = "reset"
      /\ \A v \in Users : v # u => pc'[v] = pc[v]
  BY GotoStep DEF Close
<1>4. connected' <=> connected
  BY <1>1 DEF connected
<1>5. /\ ForeignCloseExplained'
      /\ table' \in [Descriptors -> {"free", "socket", "foreign"}]
      /\ overlapped' \in BOOLEAN /\ foreignClosed' \in BOOLEAN
  BY <1>2, CloseHarm DEF Closing
<1>6. TypeOK'
  <2>1. crossed' \in BOOLEAN
    BY <1>2 DEF TypeOK
  <2> QED
    BY <1>1, <1>2, <1>3, <1>5, <2>1 DEF TypeOK
<1>7. ConnectInv' /\ CrossInv'
  BY <1>2, <1>3 DEF ConnectInv, CrossInv, Connecting
<1>8. OwnInv'
  BY <1>3 DEF OwnInv, Closing
<1>9. CalmInv'
  BY <1>2 DEF CalmInv
<1>10. SessionInv' /\ DataSecure'
  BY <1>1, <1>2, <1>3, <1>4 DEF SessionInv, DataSecure
<1> QED
  BY <1>5, <1>6, <1>7, <1>8, <1>9, <1>10

\* disconnect(), its reset.
LEMMA ResetStep ==
    ASSUME LinkInv, NEW u \in Users, Reset(u)
    PROVE  LinkInv'
<1> USE DEF LinkInv
<1>1. UNCHANGED <<m_use_socks, m_use_ssl, m_ssl_active, m_ssl, table, connects, returned,
                  undisturbed, crossed, moved, overlapped, foreignClosed>>
  BY DEF Reset, config, sslVars, attempt, histVars
<1>2. pc[u] = "reset" /\ m_socket' = INVALID_SOCKET /\ ~connected' /\ ~undisturbed
  BY DEF Reset, connected, CalmInv
<1>3. /\ pc' \in [Users -> {"idle", "reset"} \cup Connecting]
      /\ pc'[u] = "idle"
      /\ \A v \in Users : v # u => pc'[v] = pc[v]
  BY GotoStep DEF Reset
<1>4. TypeOK'
  BY <1>1, <1>2, <1>3 DEF TypeOK
<1>5. ConnectInv' /\ CrossInv'
  BY <1>1, <1>3 DEF ConnectInv, CrossInv, Connecting
<1>6. OwnInv' /\ CalmInv' /\ SessionInv'
  BY <1>1, <1>2, <1>3 DEF OwnInv, CalmInv, SessionInv
<1>7. DataSecure' /\ ForeignCloseExplained'
  BY <1>1 DEF DataSecure, ForeignCloseExplained
<1> QED
  BY <1>4, <1>5, <1>6, <1>7

\* connect() returns without SSL, or a session is made for the socket.
LEMMA StartSSLStep ==
    ASSUME LinkInv, NEW u \in Users, StartSSL(u)
    PROVE  LinkInv'
<1> USE DEF LinkInv
<1>1. UNCHANGED <<m_use_socks, m_use_ssl, m_socket, m_ssl_active, table, connects, undisturbed,
                  crossed, moved, overlapped, foreignClosed>>
  BY DEF StartSSL, config, attempt, histVars
<1>2. pc[u] = "ssl" /\ (\A v \in Users : v # u => pc[v] \notin Connecting) /\ ~returned
  BY DEF StartSSL, ConnectInv, Connecting
<1>3. connected' <=> connected
  BY <1>1 DEF connected
<1>4. \/ Goto(u, "idle") /\ UNCHANGED m_ssl /\ returned' \in BOOLEAN /\ (returned' => ~m_use_ssl)
      \/ /\ Goto(u, "session") /\ m_ssl' = [fd |-> m_socket, verified |-> FALSE]
         /\ returned' = FALSE
  BY <1>2 DEF StartSSL, TypeOK
<1>5. /\ pc' \in [Users -> {"idle", "reset"} \cup Connecting]
      /\ pc'[u] \in {"idle", "session"}
      /\ \A v \in Users : v # u => pc'[v] = pc[v]
      /\ returned' => pc'[u] = "idle"
      /\ pc'[u] = "session" => m_ssl' = [fd |-> m_socket, verified |-> FALSE]
  BY <1>4, GotoStep DEF Connecting
<1>6. TypeOK'
  <2>1. m_ssl' \in Session
    <3>1. [fd |-> m_socket, verified |-> FALSE] \in Session
      BY DEF TypeOK, Session
    <3> QED
      BY <1>4, <3>1 DEF TypeOK
  <2>2. returned' \in BOOLEAN
    BY <1>4
  <2> QED
    BY <1>1, <1>5, <2>1, <2>2 DEF TypeOK
<1>7. ConnectInv' /\ CrossInv'
  BY <1>1, <1>2, <1>5 DEF ConnectInv, CrossInv, Connecting
<1>8. OwnInv'
  BY <1>1, <1>2, <1>3, <1>5 DEF OwnInv, Closing
<1>9. CalmInv'
  BY <1>1, <1>2, <1>3, <1>5 DEF CalmInv, Connecting
<1>10. SessionInv'
  <2>1. ASSUME NEW v \in Users, pc'[v] = "session" PROVE m_ssl'.fd = m_socket
    <3>1. v = u
      BY <1>2, <1>5, <2>1 DEF Connecting
    <3> QED
      BY <1>5, <2>1, <3>1
  <2>2. ~(returned' /\ m_use_ssl)
    BY <1>4
  <2> QED
    BY <1>1, <2>1, <2>2 DEF SessionInv
<1>11. DataSecure' /\ ForeignCloseExplained'
  BY <1>1 DEF DataSecure, ForeignCloseExplained
<1> QED
  BY <1>6, <1>7, <1>8, <1>9, <1>10, <1>11

\* connect() returns with a session that was verified, or fails.
LEMMA VerifyStep ==
    ASSUME LinkInv, NEW u \in Users, Verify(u)
    PROVE  LinkInv'
<1> USE DEF LinkInv
<1>1. UNCHANGED <<m_use_socks, m_use_ssl, m_socket, table, connects, undisturbed, crossed, moved,
                  overlapped, foreignClosed>>
  BY DEF Verify, config, attempt, histVars
<1>2. /\ pc[u] = "session" /\ (\A v \in Users : v # u => pc[v] \notin Connecting)
      /\ ~returned
  BY DEF Verify, ConnectInv, Connecting
<1>3. connected' <=> connected
  BY <1>1 DEF connected
<1>4. \/ m_ssl' = [m_ssl EXCEPT !.verified = TRUE] /\ m_ssl_active' = TRUE /\ returned' = TRUE
      \/ UNCHANGED <<m_ssl, m_ssl_active>> /\ returned' = FALSE
  BY <1>2 DEF Verify, sslVars, TypeOK
<1>5. /\ pc' \in [Users -> {"idle", "reset"} \cup Connecting]
      /\ pc'[u] = "idle"
      /\ \A v \in Users : v # u => pc'[v] = pc[v]
  BY GotoStep DEF Verify
<1>6. /\ m_ssl' \in Session /\ m_ssl'.fd = m_ssl.fd
      /\ returned' => m_ssl'.verified /\ m_ssl_active'
      /\ m_ssl_active' \in BOOLEAN /\ returned' \in BOOLEAN
  <2>1. m_ssl \in Session
    BY DEF TypeOK
  <2> QED
    BY <1>4, <2>1 DEF TypeOK, Session
<1>7. TypeOK'
  BY <1>1, <1>5, <1>6 DEF TypeOK
<1>8. ConnectInv' /\ CrossInv'
  BY <1>1, <1>2, <1>5 DEF ConnectInv, CrossInv, Connecting
<1>9. OwnInv'
  BY <1>1, <1>2, <1>3, <1>5 DEF OwnInv, Closing
<1>10. CalmInv'
  BY <1>1, <1>2, <1>3, <1>5 DEF CalmInv, Connecting
<1>11. SessionInv'
  <2>1. connected => m_ssl'.fd = m_socket
    BY <1>2, <1>6 DEF SessionInv
  <2>2. \A v \in Users : pc'[v] # "session"
    BY <1>2, <1>5 DEF Connecting
  <2> QED
    BY <1>1, <1>3, <1>6, <2>1, <2>2 DEF SessionInv
<1>12. DataSecure' /\ ForeignCloseExplained'
  BY <1>1 DEF DataSecure, ForeignCloseExplained
<1> QED
  BY <1>7, <1>8, <1>9, <1>10, <1>11, <1>12

\* A frame goes over the session of the connection that was reported.
LEMMA TransferStep ==
    ASSUME LinkInv, NEW u \in Users, Transfer(u)
    PROVE  LinkInv'
<1> USE DEF LinkInv
<1> DEFINE safe == m_ssl_active /\ m_ssl.verified /\ m_ssl.fd = m_socket
<1>1. UNCHANGED <<m_use_socks, m_use_ssl, m_socket, m_ssl_active, m_ssl, table, pc, connects,
                  returned, undisturbed, crossed, overlapped, foreignClosed>>
  BY DEF Transfer, config, sslVars, attempt
<1>2. connected /\ moved' = moved \cup {[told |-> returned, secure |-> safe]}
  BY DEF Transfer
<1>3. safe \in BOOLEAN /\ (returned /\ m_use_ssl => safe)
  BY <1>2 DEF SessionInv
<1> HIDE DEF safe
<1>4. TypeOK'
  <2>1. [told |-> returned, secure |-> safe] \in [told : BOOLEAN, secure : BOOLEAN]
    BY <1>3 DEF TypeOK
  <2>2. moved' \in SUBSET [told : BOOLEAN, secure : BOOLEAN]
    BY <1>2, <2>1 DEF TypeOK
  <2> QED
    BY <1>1, <2>2 DEF TypeOK
<1>5. ConnectInv' /\ CrossInv' /\ OwnInv' /\ CalmInv' /\ SessionInv' /\ ForeignCloseExplained'
  BY <1>1 DEF ConnectInv, CrossInv, OwnInv, CalmInv, SessionInv, ForeignCloseExplained, connected
<1>6. DataSecure'
  <2> SUFFICES ASSUME m_use_ssl PROVE [told |-> TRUE, secure |-> FALSE] \notin moved'
    BY <1>1 DEF DataSecure
  <2>1. [told |-> TRUE, secure |-> FALSE] # [told |-> returned, secure |-> safe]
    BY <1>3
  <2> QED
    BY <1>2, <2>1 DEF DataSecure
<1> QED
  BY <1>4, <1>5, <1>6

\* The rest of the program leaves the sockets of this object alone.
LEMMA ElsewhereStep ==
    ASSUME LinkInv, NEW d \in Descriptors, Elsewhere(d)
    PROVE  LinkInv'
<1> USE DEF LinkInv
<1>1. UNCHANGED <<m_use_socks, m_use_ssl, m_socket, m_ssl_active, m_ssl, pc, connects, returned,
                  undisturbed, crossed, moved, overlapped, foreignClosed>>
  BY DEF Elsewhere, config, sslVars, attempt, histVars
<1>2. /\ table' \in [Descriptors -> {"free", "socket", "foreign"}]
      /\ \A e \in Descriptors : table[e] = "socket" => table'[e] = "socket"
  BY DEF Elsewhere, TypeOK
<1>3. TypeOK'
  BY <1>1, <1>2 DEF TypeOK
<1>4. OwnInv'
  BY <1>1, <1>2 DEF OwnInv, connected, TypeOK
<1> QED
  BY <1>1, <1>3, <1>4 DEF ConnectInv, CrossInv, CalmInv, SessionInv, DataSecure,
                          ForeignCloseExplained, connected

\* Every step preserves the invariant.
LEMMA LinkNext == LinkInv /\ [Next]_vars => LinkInv'
<1> SUFFICES ASSUME LinkInv, [Next]_vars PROVE LinkInv'
  OBVIOUS
<1>1. CASE UNCHANGED vars
  BY <1>1 DEF LinkInv, TypeOK, ConnectInv, OwnInv, CalmInv, CrossInv, SessionInv, DataSecure,
              ForeignCloseExplained, connected, vars, config, sslVars, attempt, histVars
<1> QED
  BY <1>1, ForwardStep, ConnectStep, OpenStep, DialFailsStep, CloseStep, ResetStep,
     StartSSLStep, VerifyStep, TransferStep, ElsewhereStep DEF Next

\* The invariant holds throughout.
LEMMA LinkInvariance == Spec => []LinkInv
  BY LinkInit, LinkNext, PTL DEF Spec

\* All variables keep their types.
THEOREM SocketTypeCorrect == Spec => []TypeOK
<1>1. LinkInv => TypeOK
  BY DEF LinkInv
<1> QED
  BY <1>1, LinkInvariance, PTL

\* When connect() has returned and no disconnect() has run since it was called,
\* m_socket is an open socket of this object, whatever other threads do.
THEOREM ConnectedToOwnSocket == Spec => []OwnSocket
<1>1. LinkInv => OwnSocket
  <2> SUFFICES ASSUME LinkInv, returned, undisturbed PROVE connected /\ table[m_socket] = "socket"
    BY DEF OwnSocket
  <2>1. connected
    BY DEF LinkInv, CalmInv
  <2>2. \A u \in Users : pc[u] \notin Closing
    BY DEF LinkInv, CalmInv, ConnectInv, Connecting, Closing
  <2> QED
    BY <2>1, <2>2 DEF LinkInv, OwnInv
<1> QED
  BY <1>1, LinkInvariance, PTL

\* With SSL no frame of a connection that was reported goes in the clear or
\* over another session, whichever thread sends or reads it.
THEOREM DataProtected == Spec => []DataSecure
<1>1. LinkInv => DataSecure
  BY DEF LinkInv
<1> QED
  BY <1>1, LinkInvariance, PTL

\* A descriptor of another part of the program is closed only by threads that
\* close at the same time.
THEOREM ForeignCloseNeedsOverlap == Spec => []ForeignCloseExplained
<1>1. LinkInv => ForeignCloseExplained
  BY DEF LinkInv
<1> QED
  BY <1>1, LinkInvariance, PTL
-----------------------------------------------------------------------------
Open == {d \in Descriptors : table[d] = "socket"}

\* A call that is still looking for an address has nothing open yet.
OpenInv ==
    ~crossed =>
        /\ IsFiniteSet(Open) /\ Cardinality(Open) <= connects
        /\ \A u \in Users : pc[u] \in {"address", "clear"} => Cardinality(Open) < connects

\* Nothing is open at first.
LEMMA OpenInit == Init => OpenInv
<1> SUFFICES ASSUME Init PROVE OpenInv
  OBVIOUS
<1>1. Open = {}
  BY DEF Init, Open
<1>2. \A u \in Users : pc[u] = "idle"
  BY DEF Init
<1> QED
  BY <1>1, <1>2, FS_EmptySet DEF OpenInv, Init

\* A step that opens nothing and puts no thread back to its addresses.
LEMMA OpenKept ==
    ASSUME LinkInv, OpenInv, connects' = connects, crossed => crossed', Open' \subseteq Open,
           \A u \in Users : pc'[u] \in {"address", "clear"} => pc[u] \in {"address", "clear"}
    PROVE  OpenInv'
<1> SUFFICES ASSUME ~crossed' PROVE
        /\ IsFiniteSet(Open') /\ Cardinality(Open') <= connects'
        /\ \A u \in Users : pc'[u] \in {"address", "clear"} => Cardinality(Open') < connects'
  BY DEF OpenInv
<1>1. IsFiniteSet(Open) /\ Cardinality(Open) <= connects
      /\ \A u \in Users : pc[u] \in {"address", "clear"} => Cardinality(Open) < connects
  BY DEF OpenInv
<1>2. IsFiniteSet(Open') /\ Cardinality(Open') <= Cardinality(Open)
  BY <1>1, FS_Subset
<1>3. Cardinality(Open') \in Nat /\ Cardinality(Open) \in Nat /\ connects \in Nat
  BY <1>1, <1>2, FS_CardinalityType DEF LinkInv, TypeOK
<1> QED
  BY <1>1, <1>2, <1>3

\* An address that fails gives its descriptor back.
LEMMA OpenDialFails ==
    ASSUME LinkInv, OpenInv, NEW u \in Users, DialFails(u)
    PROVE  OpenInv'
<1> SUFFICES ASSUME ~crossed PROVE
        /\ IsFiniteSet(Open') /\ Cardinality(Open') <= connects'
        /\ \A v \in Users : pc'[v] \in {"address", "clear"} => Cardinality(Open') < connects'
  BY DEF OpenInv, DialFails, attempt
<1>1. pc[u] = "dial" /\ connects' = connects
      /\ table' = [d \in Descriptors |-> IF d = m_socket THEN "free" ELSE table[d]]
  BY DEF DialFails, CloseDescriptor
<1>2. undisturbed /\ connected
  BY <1>1 DEF LinkInv, CrossInv, CalmInv, Connecting
<1>3. \A v \in Users : pc[v] \notin Closing
  BY <1>1, <1>2 DEF LinkInv, CalmInv, ConnectInv, Connecting, Closing
<1>4. m_socket \in Descriptors /\ table[m_socket] = "socket"
  BY <1>2, <1>3 DEF LinkInv, OwnInv, TypeOK, connected
<1>5. m_socket \in Open /\ Open' = Open \ {m_socket}
  BY <1>1, <1>4 DEF Open
<1>6. IsFiniteSet(Open) /\ Cardinality(Open) <= connects
  BY DEF OpenInv
<1>7. IsFiniteSet(Open') /\ Cardinality(Open') = Cardinality(Open) - 1
  BY <1>5, <1>6, FS_RemoveElement
<1>8. Cardinality(Open) \in Nat /\ connects \in Nat
  BY <1>6, FS_CardinalityType DEF LinkInv, TypeOK
<1> QED
  BY <1>1, <1>6, <1>7, <1>8

\* An address opens at most one descriptor, and there is none of this call yet.
LEMMA OpenAddress ==
    ASSUME LinkInv, OpenInv, NEW u \in Users, OpenSocket(u) \/ Clear(u)
    PROVE  OpenInv'
<1>1. UNCHANGED <<connects, crossed>> /\ pc[u] \in {"address", "clear"}
  BY DEF OpenSocket, Clear, attempt
<1>2. /\ \A v \in Users : v # u => pc'[v] = pc[v]
      /\ \/ /\ pc'[u] = "dial" /\ m_socket' \in Descriptors
            /\ table' = [table EXCEPT ![m_socket'] = "socket"]
         \/ UNCHANGED table
  BY OpenEffect DEF LinkInv
<1>3. CASE UNCHANGED table
  <2>1. Open' = Open
    BY <1>3 DEF Open
  <2> QED
    BY <1>1, <1>2, <2>1, OpenKept
<1>4. CASE /\ pc'[u] = "dial" /\ m_socket' \in Descriptors
           /\ table' = [table EXCEPT ![m_socket'] = "socket"]
  <2> SUFFICES ASSUME ~crossed PROVE
        /\ IsFiniteSet(Open') /\ Cardinality(Open') <= connects'
        /\ \A v \in Users : pc'[v] \in {"address", "clear"} => Cardinality(Open') < connects'
    BY <1>1 DEF OpenInv
  <2>1. IsFiniteSet(Open) /\ Cardinality(Open) < connects
    BY <1>1 DEF OpenInv
  <2>2. Open' = Open \cup {m_socket'}
    BY <1>4 DEF Open, LinkInv, TypeOK
  <2>3. IsFiniteSet(Open') /\ Cardinality(Open') <= Cardinality(Open) + 1
    <3> DEFINE added == Open \cup {m_socket'}
    <3>1. /\ IsFiniteSet(added)
          /\ Cardinality(added) =
                 IF m_socket' \in Open THEN Cardinality(Open) ELSE Cardinality(Open) + 1
      BY <2>1, FS_AddElement
    <3>2. Cardinality(Open) \in Nat
      BY <2>1, FS_CardinalityType
    <3> HIDE DEF added
    <3>3. IsFiniteSet(added) /\ Cardinality(added) <= Cardinality(Open) + 1
      BY <3>1, <3>2
    <3>4. Open' = added
      BY <2>2 DEF added
    <3> QED
      BY <3>3, <3>4
  <2>4. Cardinality(Open) \in Nat /\ Cardinality(Open') \in Nat /\ connects \in Nat
    BY <2>1, <2>3, FS_CardinalityType DEF LinkInv, TypeOK
  <2>5. \A v \in Users : pc'[v] \notin {"address", "clear"}
    BY <1>1, <1>2, <1>4 DEF LinkInv, ConnectInv, Connecting
  <2> QED
    BY <1>1, <2>1, <2>3, <2>4, <2>5
<1> QED
  BY <1>2, <1>3, <1>4

\* A new call may open one descriptor more.
LEMMA OpenConnect ==
    ASSUME LinkInv, OpenInv, NEW u \in Users, Connect(u)
    PROVE  OpenInv'
<1> SUFFICES ASSUME ~crossed' PROVE
        /\ IsFiniteSet(Open') /\ Cardinality(Open') <= connects'
        /\ \A v \in Users : pc'[v] \in {"address", "clear"} => Cardinality(Open') < connects'
  BY DEF OpenInv
<1>1. ~crossed /\ connects' = connects + 1 /\ Open' = Open
  BY DEF Connect, Open
<1>2. IsFiniteSet(Open) /\ Cardinality(Open) <= connects
  BY <1>1 DEF OpenInv
<1>3. Cardinality(Open) \in Nat /\ connects \in Nat
  BY <1>2, FS_CardinalityType DEF LinkInv, TypeOK
<1> QED
  BY <1>1, <1>2, <1>3

\* A descriptor is opened once per call of connect().
LEMMA OpenNext == LinkInv /\ OpenInv /\ [Next]_vars => OpenInv'
<1> SUFFICES ASSUME LinkInv, OpenInv, [Next]_vars PROVE OpenInv'
  OBVIOUS
<1>1. ASSUME NEW u \in Users,
             Greeting(u) \/ Request(u) \/ DialSucceeds(u) \/ StartSSL(u) \/ Verify(u) \/ Reset(u)
      PROVE  OpenInv'
  <2>1. UNCHANGED <<connects, crossed, table>>
    BY <1>1 DEF Greeting, Request, DialSucceeds, StartSSL, Verify, Reset, attempt
  <2>2. \E l \in {"idle", "greeting", "request", "ssl", "session"} : Goto(u, l)
    BY <1>1 DEF Greeting, Request, DialSucceeds, StartSSL, Verify, Reset, Contact
  <2>3. \A v \in Users : pc'[v] \in {"address", "clear"} => pc[v] \in {"address", "clear"}
    BY <2>2 DEF Goto, LinkInv, TypeOK
  <2>4. Open' = Open
    BY <2>1 DEF Open
  <2> QED
    BY <2>1, <2>3, <2>4, OpenKept
<1>2. ASSUME NEW u \in Users, Close(u) PROVE OpenInv'
  <2>1. connects' = connects /\ (crossed => crossed') /\ Goto(u, "reset")
    BY <1>2 DEF Close
  <2>2. Open' \subseteq Open
    BY <1>2 DEF Close, CloseDescriptor, Open
  <2>3. \A v \in Users : pc'[v] \in {"address", "clear"} => pc[v] \in {"address", "clear"}
    BY <2>1 DEF Goto, LinkInv, TypeOK
  <2> QED
    BY <2>1, <2>2, <2>3, OpenKept
<1>3. ASSUME NEW u \in Users, Transfer(u) PROVE OpenInv'
  BY <1>3 DEF Transfer, attempt, OpenInv, Open
<1>4. ASSUME NEW d \in Descriptors, Elsewhere(d) PROVE OpenInv'
  <2>1. Open' = Open
    BY <1>4 DEF Elsewhere, Open, LinkInv, TypeOK
  <2> QED
    BY <1>4, <2>1 DEF Elsewhere, attempt, OpenInv
<1>5. CASE UNCHANGED vars
  BY <1>5 DEF vars, attempt, OpenInv, Open
<1> QED
  BY <1>1, <1>2, <1>3, <1>4, <1>5, OpenDialFails, OpenAddress, OpenConnect DEF Next

\* Unless a disconnect() crosses a connect(), each call of connect() leaves at
\* most one descriptor open, however many threads use the socket and however
\* many addresses and handshakes fail.
THEOREM DescriptorsBounded == Spec => []OneDescriptorPerCall
<1>1. OpenInv => OneDescriptorPerCall
  BY DEF OpenInv, Open, OneDescriptorPerCall
<1>2. LinkInv /\ OpenInv /\ [Next]_vars => OpenInv'
  BY OpenNext
<1> QED
  BY <1>1, <1>2, OpenInit, LinkInvariance, PTL DEF Spec
=============================================================================
