------------------------------ MODULE Frontend ------------------------------
(***************************************************************************)
(* The way of a request to a handler: the socket of SocketMonitor, the     *)
(* RateLimiter, and the guard that refuses writes while the disk checker   *)
(* (agent/internal/health/diskcheck.go) finds the disk full; from start-up *)
(* to the end of the process.                                              *)
(***************************************************************************)
EXTENDS RateLimiter, SocketMonitor

CONSTANTS MaxNow,   \* bound of the clock
          Budget    \* how often the environment may act

ASSUME FrontendAssumption ==
    /\ Conns = Clients
    /\ MaxNow \in Nat
    /\ Budget \in [{"request", "tamper", "fault", "disk"} -> Nat]

VARIABLES full,      \* the disk has less than the threshold available
          readOnly,  \* the flag of the disk checker
          budget

disk == <<full, readOnly>>
vars == <<limiter, socket, disk, budget>>

Init == /\ LimiterInit /\ SocketInit
        /\ full \in BOOLEAN
        /\ readOnly = FALSE
        /\ budget = Budget

Spend(what) == /\ budget[what] > 0
               /\ budget' = [budget EXCEPT ![what] = @ - 1]

\* Mutant: the flag is only ever set.
CheckDiskSets ==
    /\ Alive /\ stop = "no"
    /\ readOnly' = (readOnly \/ full)
    /\ UNCHANGED <<limiter, socket, full, budget>>

\* DiskChecker.check, every 30 seconds; without an answer the flag stays.
CheckDisk ==
    /\ Alive /\ stop = "no"
    /\ readOnly' = full
    /\ UNCHANGED <<limiter, socket, full, budget>>

\* ReadOnlyGuard, behind the rate limiter: reads pass, writes unless the flag
\* is set.
Guarded(write) == write => ~ readOnly

\* A connection of the current server takes requests one after the other, until
\* Shutdown ends the keep-alive.
Open(c) == /\ Alive /\ stop # "drain"
           /\ server # 0 /\ conn[c] = server
           /\ c \notin running

\* A request on an open connection: rate limiter, then guard, then handler.
Serve(c, write) ==
    /\ Open(c)
    /\ Spend("request")
    /\ Allow(c)
    /\ running' = IF Admits(c) /\ Guarded(write) THEN running \cup {c}
                                                 ELSE running
    /\ UNCHANGED <<path, server, made, mon, mu, stop, conn, disk>>

\* GET /api/health goes past the rate limiter and the guard.
Health(c) ==
    /\ Open(c)
    /\ running' = running \cup {c}
    /\ UNCHANGED <<limiter, path, server, made, mon, mu, stop, conn, disk,
                   budget>>

\* A step of the socket alone, of the rate limiter alone.
Socket(A) == A /\ UNCHANGED <<limiter, disk, budget>>

Limiter(A) == Alive /\ A /\ UNCHANGED <<socket, disk, budget>>

\* Something else appears at the path, or nothing is there any more.
Tamper ==
    /\ Alive /\ Spend("tamper")
    /\ path' \in {Missing, File, Other} \ {path}
    /\ UNCHANGED <<limiter, server, made, mon, mu, stop, conn, running, disk>>

\* Listening fails, because the path is taken again or for another reason.
NoSocket ==
    /\ IF path = Missing THEN Spend("fault") ELSE UNCHANGED budget
    /\ ListenFails
    /\ UNCHANGED <<limiter, disk>>

\* Space is used up or freed.
Disk == /\ Spend("disk")
        /\ full' = ~ full
        /\ UNCHANGED <<limiter, socket, readOnly>>

Next == \/ \E c \in Clients : \/ Socket(Connect(c)) \/ Socket(Finish(c))
                              \/ Health(c)
                              \/ \E w \in BOOLEAN : Serve(c, w)
        \/ Socket(Check) \/ Socket(MonitorEnds) \/ Socket(RecreateBegin)
        \/ Socket(Listen) \/ NoSocket
        \/ Socket(Signal) \/ Socket(ShutdownBegin) \/ Socket(ShutdownEnd)
        \/ Socket(Exit)
        \/ now < MaxNow /\ Limiter(Tick)
        \/ Limiter(Cleanup)
        \/ CheckDisk \/ Tamper \/ Disk

\* Goroutines are scheduled and tickers tick; nobody must send a signal, and
\* listening does not fail for ever.
Fairness == /\ WF_vars(Socket(Check)) /\ WF_vars(Socket(RecreateBegin))
            /\ WF_vars(Socket(Listen) \/ NoSocket)
            /\ SF_vars(Socket(ShutdownBegin))
            /\ WF_vars(Socket(ShutdownEnd)) /\ WF_vars(Socket(Exit))
            /\ WF_vars(CheckDisk)

Spec == Init /\ [][Next]_vars /\ Fairness

-----------------------------------------------------------------------------
(* Properties. *)

Bucket == [tokens : 0 .. Burst, last : Nat]

\* Every variable has its type, and the mutex is held by who is inside.
TypeOK ==
    /\ now \in Nat
    /\ bucket \in [Conns -> Bucket \cup {NoBucket}]
    /\ made \in Nat \ {0}
    /\ path \in (1 .. made) \cup {Missing, File, Other}
    /\ server \in 0 .. made
    /\ mon \in {"wait", "recreate", "listen", "gone"}
    /\ mu \in {"free", "monitor", "shutdown"}
    /\ stop \in {"no", "signal", "drain", "closed", "exit"}
    /\ conn \in [Clients -> (0 .. made) \cup {Closed}]
    /\ running \subseteq Clients
    /\ full \in BOOLEAN /\ readOnly \in BOOLEAN
    /\ (mu = "monitor") = (mon = "listen")
    /\ (mu = "shutdown") = (stop = "drain")

Served == server # 0 /\ path = server

\* Socket self-healing: "if deleted or replaced, automatically re-creates
\* listener and resumes serving", until the shutdown.  The exception: the
\* monitor does not tell the socket of another process from its own.
Heals == []<>(Served \/ path = Other \/ stop # "no")

\* The mutex between monitor and shutdown: once signalled, the agent ends, also
\* if the socket is being re-created and listening fails.
Stops == stop = "signal" ~> stop = "exit"

\* "when disk is full, write operations return HTTP 503 while reads continue
\* working; auto-recovers when space is freed": the flag that the guard reads
\* follows the disk.
FollowsDisk == <>[](readOnly = full \/ stop # "no")
=============================================================================
