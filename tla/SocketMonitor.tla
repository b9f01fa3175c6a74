---------------------------- MODULE SocketMonitor ----------------------------
(***************************************************************************)
(* agent/internal/sockmon: the Unix socket of the API, the goroutine that  *)
(* looks at it every five seconds and re-creates it, and Shutdown, which   *)
(* competes with it for the mutex (cmd/wg-sockd calls it on SIGTERM).      *)
(*                                                                         *)
(* Listeners are numbered; 0 is none.  A handler that has started runs to  *)
(* its end whatever happens to its connection, unless the process ends.    *)
(***************************************************************************)
EXTENDS Naturals

CONSTANTS Clients,   \* connections, each made once
          Missing,   \* nothing at the socket path
          File,      \* a file that is no socket
          Other,     \* a socket that another process listens on
          Closed     \* a connection that has ended

ASSUME SocketAssumption == {Missing, File, Other, Closed} \cap Nat = {}

VARIABLES path,      \* what is at the socket path
          server,    \* the listener the current http.Server accepts from
          made,      \* the listeners made so far
          mon,       \* what the monitor goroutine does
          mu,        \* who holds the mutex
          stop,      \* how far the shutdown is
          conn,      \* the listener a connection came through, or Closed
          running    \* connections with a handler at work

socket == <<path, server, made, mon, mu, stop, conn, running>>

SocketInit ==
    /\ path = 1 /\ server = 1 /\ made = 1
    /\ mon = "wait" /\ mu = "free" /\ stop = "no"
    /\ conn = [c \in Clients |-> 0]
    /\ running = {}

Alive == stop # "exit"

\* A client finds the socket of the current server.
Connect(c) ==
    /\ Alive /\ conn[c] = 0
    /\ server # 0 /\ path = server /\ stop # "drain"
    /\ conn' = [conn EXCEPT ![c] = server]
    /\ UNCHANGED <<path, server, made, mon, mu, stop, running>>

Finish(c) ==
    /\ Alive /\ c \in running
    /\ running' = running \ {c}
    /\ UNCHANGED <<path, server, made, mon, mu, stop, conn>>

\* The connections of server n.
Of(n) == {c \in Clients : conn[c] = n /\ n # 0}

CloseConns(cs) == [c \in Clients |-> IF c \in cs THEN Closed ELSE conn[c]]

\* Mutant: whatever is at the path is taken for the socket.
LostIfMissing == path = Missing

\* check: the path is missing or no socket.
Lost == path \in {Missing, File}

\* RunMonitor: a tick, which the select may also take after the signal.
Check ==
    /\ Alive /\ mon = "wait"
    /\ Lost
    /\ mon' = "recreate"
    /\ UNCHANGED <<path, server, made, mu, stop, conn, running>>

MonitorEnds ==
    /\ Alive /\ mon = "wait" /\ stop # "no"
    /\ mon' = "gone"
    /\ UNCHANGED <<path, server, made, mu, stop, conn, running>>

\* recreate, under the mutex: server.Close() and os.Remove.
RecreateBegin ==
    /\ Alive /\ mon = "recreate" /\ mu = "free"
    /\ mu' = "monitor" /\ mon' = "listen"
    /\ conn' = CloseConns(Of(server))
    /\ server' = 0
    /\ path' = Missing
    /\ UNCHANGED <<made, stop, running>>

\* createSocket fails if something is at the path again.
Listen ==
    /\ Alive /\ mon = "listen" /\ path = Missing
    /\ made' = made + 1
    /\ path' = made' /\ server' = made'
    /\ mon' = "wait" /\ mu' = "free"
    /\ UNCHANGED <<stop, conn, running>>

\* Mutant: the mutex is not unlocked.
ListenFailsLocked ==
    /\ Alive /\ mon = "listen"
    /\ mon' = "wait"
    /\ UNCHANGED <<path, server, made, mu, stop, conn, running>>

ListenFails ==
    /\ Alive /\ mon = "listen"
    /\ mon' = "wait" /\ mu' = "free"
    /\ UNCHANGED <<path, server, made, stop, conn, running>>

\* SIGTERM
Signal ==
    /\ stop = "no"
    /\ stop' = "signal"
    /\ UNCHANGED <<path, server, made, mon, mu, conn, running>>

\* Shutdown closes the listener and the idle connections, and waits with the
\* mutex held.
ShutdownBegin ==
    /\ stop = "signal" /\ mu = "free"
    /\ mu' = "shutdown" /\ stop' = "drain"
    /\ conn' = CloseConns(Of(server) \ running)
    /\ UNCHANGED <<path, server, made, mon, running>>

\* Every handler of the server is done, or the five seconds are over.
ShutdownEnd ==
    /\ stop = "drain"
    /\ conn' = CloseConns(Of(server) \ running)
    /\ server' = 0
    /\ mu' = "free" /\ stop' = "closed"
    /\ UNCHANGED <<path, made, mon, running>>

\* The other servers and goroutines are stopped, main returns.
Exit ==
    /\ stop = "closed"
    /\ stop' = "exit"
    /\ running' = {}
    /\ conn' = CloseConns(Clients)
    /\ UNCHANGED <<path, server, made, mon, mu>>
=============================================================================
