--------------------------- MODULE TcpClientSocket ---------------------------
(***************************************************************************)
(* tcp_client_socket: a socket that is connected directly or through a     *)
(* SOCKS proxy, with or without SSL, and used again and again by the       *)
(* threads of output_stream_stomp: connect() by one thread at a time,      *)
(* perhaps with the socket still open, the other calls by any thread at    *)
(* any time.  read(), select_read() and write() change nothing; they count *)
(* for what goes over which session.  A call that blocks for ever, in      *)
(* SSL_connect or in select_read for an answer of the proxy, takes no step.*)
(*                                                                         *)
(* Descriptors are a table of the process: the number of a closed socket   *)
(* may be given to any other part of the program.  close() and the reset   *)
(* of m_socket are two steps, in disconnect() and after an address that    *)
(* failed.  An exception is the step that makes the call end with the      *)
(* control state "idle".                                                   *)
(***************************************************************************)
EXTENDS Naturals, FiniteSets

CONSTANTS Users,          \* threads that use the socket
          Descriptors,    \* the numbers of the descriptor table in use
          INVALID_SOCKET,
          MaxConnects     \* bound on the number of calls of connect()

ASSUME SocketAssumption ==
    /\ INVALID_SOCKET \notin Descriptors
    /\ MaxConnects \in Nat

VARIABLES
    m_use_socks, m_use_ssl,  \* the configuration
    m_socket,
    m_ssl_active,
    m_ssl,           \* the SSL session: its descriptor, and was the peer verified
    table,           \* what every descriptor is: "free", "socket" or "foreign"
    pc,
    connects,
    returned,        \* history: the last connect() has returned, no disconnect() came since
    undisturbed,     \* history: no disconnect() has run since connect() was last called
    crossed,         \* history: a disconnect() has run while connect() did
    moved,           \* history: [told, secure] for the frames that were sent or read
    overlapped,      \* history: a descriptor was closed while another thread had closed
                     \* one and not yet reset m_socket
    foreignClosed    \* history: a descriptor of another part was closed

config   == <<m_use_socks, m_use_ssl>>
sslVars  == <<m_ssl_active, m_ssl>>
attempt  == <<undisturbed, crossed>>
histVars == <<moved, overlapped, foreignClosed>>
vars == <<config, m_socket, sslVars, table, pc, connects, returned, attempt, histVars>>

\* Where a thread is in connect(), and where it has closed a descriptor and
\* m_socket still holds the number.
Connecting == {"address", "dial", "clear", "greeting", "request", "ssl", "session"}
Closing == {"clear", "reset"}

Session == [fd : Descriptors \cup {INVALID_SOCKET}, verified : BOOLEAN]

TypeOK ==
    /\ m_use_socks \in BOOLEAN /\ m_use_ssl \in BOOLEAN
    /\ m_socket \in Descriptors \cup {INVALID_SOCKET}
    /\ m_ssl_active \in BOOLEAN /\ m_ssl \in Session
    /\ table \in [Descriptors -> {"free", "socket", "foreign"}]
    /\ pc \in [Users -> {"idle", "reset"} \cup Connecting]
    /\ connects \in 0..MaxConnects
    /\ returned \in BOOLEAN /\ undisturbed \in BOOLEAN /\ crossed \in BOOLEAN
    /\ overlapped \in BOOLEAN /\ foreignClosed \in BOOLEAN
    /\ moved \in SUBSET [told : BOOLEAN, secure : BOOLEAN]

\* use_SOCKS and use_SSL are called right after the constructor, if at all.
Init ==
    /\ m_use_socks \in BOOLEAN /\ m_use_ssl \in BOOLEAN
    /\ m_socket = INVALID_SOCKET
    /\ m_ssl_active = FALSE /\ m_ssl = [fd |-> INVALID_SOCKET, verified |-> FALSE]
    /\ table = [d \in Descriptors |-> "free"]
    /\ pc = [u \in Users |-> "idle"]
    /\ connects = 0 /\ returned = FALSE /\ undisturbed = TRUE /\ crossed = FALSE
    /\ moved = {} /\ overlapped = FALSE /\ foreignClosed = FALSE

Goto(u, label) == pc' = [pc EXCEPT ![u] = label]

connected == m_socket # INVALID_SOCKET
-----------------------------------------------------------------------------
\* connect() by one thread at a time (AttemptsJoined of OutputStreamStomp):
\* the addresses are looked up.
Connect(u) ==
    /\ pc[u] = "idle" /\ \A v \in Users : pc[v] \notin Connecting
    /\ connects < MaxConnects
    /\ connects' = connects + 1
    /\ returned' = FALSE
    /\ undisturbed' = (\A v \in Users : pc[v] # "reset")
    /\ crossed' = (crossed \/ ~undisturbed')
    /\ Goto(u, "address") \/ UNCHANGED pc
    /\ UNCHANGED <<config, m_socket, sslVars, table, histVars>>

\* connect_to_ip: socket() opens a descriptor and overwrites the number of one
\* that is still open; or it fails, and the next address is tried, if any.
OpenSocket(u) ==
    /\ pc[u] = "address"
    /\ \/ \E d \in Descriptors :
             /\ table[d] = "free"
             /\ table' = [table EXCEPT ![d] = "socket"]
             /\ m_socket' = d
             /\ Goto(u, "dial")
       \/ /\ m_socket' = INVALID_SOCKET
          /\ Goto(u, "idle") \/ UNCHANGED pc
          /\ UNCHANGED table
    /\ UNCHANGED <<config, sslVars, connects, returned, attempt, histVars>>

\* What close(m_socket) does, whatever number m_socket holds, -1 included, and
\* what is remembered of it.
CloseDescriptor(u) ==
    /\ table' = [d \in Descriptors |-> IF d = m_socket THEN "free" ELSE table[d]]
    /\ overlapped' = (overlapped \/ \E v \in Users \ {u} : pc[v] \in Closing)
    /\ foreignClosed' = (foreignClosed \/ (connected /\ table[m_socket] = "foreign"))

\* The system's connect() succeeds, and the loop over the addresses ends: with
\* an exception if another thread has taken the socket away.
DialSucceeds(u) ==
    /\ pc[u] = "dial"
    /\ Goto(u, IF connected THEN "greeting" ELSE "idle")
    /\ UNCHANGED <<config, m_socket, sslVars, table, connects, returned, attempt, histVars>>

\* Mutant: connect_to_ip does not close the socket.
DialFailsOpen(u) ==
    /\ pc[u] = "dial"
    /\ Goto(u, "clear")
    /\ UNCHANGED <<config, m_socket, sslVars, table, connects, returned, attempt, histVars>>

\* The system's connect() fails: close() ...
DialFails(u) ==
    /\ pc[u] = "dial"
    /\ CloseDescriptor(u)
    /\ Goto(u, "clear")
    /\ UNCHANGED <<config, m_socket, sslVars, connects, returned, attempt, moved>>

\* Mutant: connect_to_ip leaves the number of the closed socket behind.
ClearForgotten(u) ==
    /\ pc[u] = "clear"
    /\ Goto(u, "address") \/ Goto(u, "greeting")
    /\ UNCHANGED <<config, m_socket, sslVars, table, connects, returned, attempt, histVars>>

\* ... forget the number, and on to the next address, or after the last throw.
Clear(u) ==
    /\ pc[u] = "clear"
    /\ m_socket' = INVALID_SOCKET
    /\ Goto(u, "address") \/ Goto(u, "idle")
    /\ UNCHANGED <<config, sslVars, table, connects, returned, attempt, histVars>>

\* A request to the proxy and its answer; or write(), select_read() or read()
\* throws, or the answer is taken for a refusal.
Contact(u, next) ==
    \/ connected /\ Goto(u, next)
    \/ Goto(u, "idle")

\* start_SOCKS, first handshake: the options of the authentication.
Greeting(u) ==
    /\ pc[u] = "greeting"
    /\ \/ ~m_use_socks /\ Goto(u, "ssl")
       \/ m_use_socks /\ Contact(u, "request")
    /\ UNCHANGED <<config, m_socket, sslVars, table, connects, returned, attempt, histVars>>

\* start_SOCKS, second contact: ask for the connection.
Request(u) ==
    /\ pc[u] = "request"
    /\ Contact(u, "ssl")
    /\ UNCHANGED <<config, m_socket, sslVars, table, connects, returned, attempt, histVars>>

\* The beginning of start_SSL, or the return of connect() without SSL: no
\* context can be made, or a session that is not verified yet.
StartSSL(u) ==
    /\ pc[u] = "ssl"
    /\ \/ /\ ~m_use_ssl
          /\ Goto(u, "idle") /\ returned' = TRUE
          /\ UNCHANGED m_ssl
       \/ m_use_ssl /\ Goto(u, "idle") /\ UNCHANGED <<m_ssl, returned>>
       \/ /\ m_use_ssl
          /\ m_ssl' = [fd |-> m_socket, verified |-> FALSE]
          /\ Goto(u, "session")
          /\ UNCHANGED returned
    /\ UNCHANGED <<config, m_socket, m_ssl_active, table, connects, attempt, histVars>>

\* Mutant: a certificate that is refused is only logged.
VerifyLenient(u) ==
    /\ pc[u] = "session"
    /\ Goto(u, "idle")
    /\ m_ssl_active' = TRUE /\ returned' = TRUE
    /\ m_ssl' \in {m_ssl, [m_ssl EXCEPT !.verified = TRUE]}
    /\ UNCHANGED <<config, m_socket, table, connects, attempt, histVars>>

\* SSL_connect and the end of start_SSL: the certificate is verified, or
\* self-signed and accepted; or an exception leaves the socket, the session
\* and m_ssl_active, TRUE since the first success, as they are.
Verify(u) ==
    /\ pc[u] = "session"
    /\ Goto(u, "idle")
    /\ \/ /\ m_ssl' = [m_ssl EXCEPT !.verified = TRUE]
          /\ m_ssl_active' = TRUE /\ returned' = TRUE
       \/ UNCHANGED <<sslVars, returned>>
    /\ UNCHANGED <<config, m_socket, table, connects, attempt, histVars>>

\* write() or read() of a frame: they ask only whether there is a socket, and
\* go through the SSL session if one is active, whatever socket it belongs to.
Transfer(u) ==
    /\ pc[u] = "idle"
    /\ connected
    /\ moved' = moved \cup
          {[told |-> returned,
            secure |-> m_ssl_active /\ m_ssl.verified /\ m_ssl.fd = m_socket]}
    /\ UNCHANGED <<config, m_socket, sslVars, table, pc, connects, returned, attempt,
                   overlapped, foreignClosed>>

\* disconnect(): close() ...
Close(u) ==
    /\ pc[u] = "idle"
    /\ CloseDescriptor(u)
    /\ returned' = FALSE /\ undisturbed' = FALSE
    /\ crossed' = (crossed \/ \E v \in Users : pc[v] \in Connecting)
    /\ Goto(u, "reset")
    /\ UNCHANGED <<config, m_socket, sslVars, connects, moved>>

\* Mutant: m_socket keeps its number.
ResetForgotten(u) ==
    /\ pc[u] = "reset"
    /\ Goto(u, "idle")
    /\ UNCHANGED <<config, m_socket, sslVars, table, connects, returned, attempt, histVars>>

\* Mutant: 0 is taken for an invalid descriptor.
ResetZero(u) ==
    /\ pc[u] = "reset"
    /\ m_socket' = 0
    /\ Goto(u, "idle")
    /\ UNCHANGED <<config, sslVars, table, connects, returned, attempt, histVars>>

\* ... and forget the number.
Reset(u) ==
    /\ pc[u] = "reset"
    /\ m_socket' = INVALID_SOCKET
    /\ Goto(u, "idle")
    /\ UNCHANGED <<config, sslVars, table, connects, returned, attempt, histVars>>

\* The rest of the program opens and closes descriptors of its own.
Elsewhere(d) ==
    /\ \/ table[d] = "free" /\ table' = [table EXCEPT ![d] = "foreign"]
       \/ table[d] = "foreign" /\ table' = [table EXCEPT ![d] = "free"]
    /\ UNCHANGED <<config, m_socket, sslVars, pc, connects, returned, attempt, histVars>>

Next ==
    \/ \E u \in Users : \/ Connect(u) \/ OpenSocket(u) \/ DialSucceeds(u) \/ DialFails(u)
                        \/ Clear(u) \/ Greeting(u) \/ Request(u) \/ StartSSL(u) \/ Verify(u)
                        \/ Transfer(u) \/ Close(u) \/ Reset(u)
    \/ \E d \in Descriptors : Elsewhere(d)

Spec == Init /\ [][Next]_vars
-----------------------------------------------------------------------------
\* When connect() has returned, m_socket is an open socket of this object,
\* whichever addresses and handshakes failed before, whatever other threads
\* read and write, and whatever was open before; only a disconnect() that runs
\* during connect() can take the socket away.
OwnSocket == returned /\ undisturbed => connected /\ table[m_socket] = "socket"

\* With SSL no frame is sent or read in the clear, over an unverified session
\* or over the session of an earlier connection from the time when connect()
\* returns until it or disconnect() is called again, by whichever threads.
\* Before, frames of other threads may be.
DataSecure == m_use_ssl => [told |-> TRUE, secure |-> FALSE] \notin moved

\* As long as no disconnect() runs during connect(), a call of connect() leaves
\* at most one descriptor open, however many addresses failed; the sockets of
\* failed handshakes add up, as the next call overwrites their numbers.
OneDescriptorPerCall ==
    ~crossed => Cardinality({d \in Descriptors : table[d] = "socket"}) <= connects

\* A descriptor of another part of the program is closed only if two threads
\* close at once, in disconnect() or after an address that failed; a
\* disconnect() at any other time of a connect() does no such harm.
ForeignCloseExplained == foreignClosed => overlapped

\* README: "Fully threadsafe design."  No descriptor of another part of the
\* program is ever closed; two threads that notice the end of a connection at
\* the same time can.
NoForeignClose == ~foreignClosed
=============================================================================
