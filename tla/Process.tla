------------------------------- MODULE Process -------------------------------
(***************************************************************************)
(* The service process: its start and stop (src/main.mjs and               *)
(* src/lib/shutdown.mjs), the WebSocket tunnels of src/proxy.mjs, which    *)
(* outlive the HTTP exchange that asked for them, and the cache of         *)
(* src/netbird.mjs, whose requests keep administration connections busy.   *)
(*                                                                         *)
(* What ties them together is the connection.  The stop waits for every    *)
(* connection of both servers: idle ones are closed, busy ones may finish, *)
(* and tunnels end when somebody ends them or the grace period is over.    *)
(* Node's servers, the peers of a connection and the NetBird API are       *)
(* external: a connection or a request in progress ends when they please.  *)
(***************************************************************************)
EXTENDS Integers, FiniteSets

CONSTANTS
    Conns,        \* accepted connections that may be open at one time
    MaxRemote     \* bound: the last version of the data behind the NetBird API

VARIABLES
    server,       \* each server: binding, listening or not listening any more
    run,          \* shutdown: stopping, the grace timer, the closings awaited, exit
    conn,         \* the connections and what each is used for
    active,       \* counters.activeWebSockets
    cache,        \* NetBirdClient.cache, the entry of one path
    remote        \* external: the version the NetBird API would answer

vars == <<server, run, conn, active, cache, remote>>

ASSUME ProcessAssumption ==
    /\ IsFiniteSet(Conns) /\ MaxRemote \in Nat \ {0}

Servers == {"proxy", "admin"}

\* use       the visitor's side: "ended" after socket.end(), "absent" when it
\*           closed while the upgrade was still under way
\* upstream  the request for the upgrade, then the upgraded socket
\* opened, closed   the listeners on 'close' are set; websocketClosed
\* fetch     the version the API had when requestJson was called, 0 for none
\* early     history: accepted before the stop
Free == [server |-> "none", use |-> "closed", upstream |-> "none",
         opened |-> FALSE, closed |-> FALSE, fetch |-> 0, early |-> FALSE]

Uses == {"closed", "idle", "busy", "upgrading", "tunnel", "ended", "absent"}

NoEntry == [value |-> 0, fresh |-> FALSE]

Init ==
    /\ server = [s \in Servers |-> "binding"]
    /\ run = [stopping |-> FALSE, grace |-> "off", awaited |-> {}, exit |-> "none"]
    /\ conn = [c \in Conns |-> Free]
    /\ active = 0
    /\ cache = NoEntry
    /\ remote = 1

Running == run.exit = "none"

Open(c) == conn[c].use \notin {"closed", "absent"}

Sockets(s) == {c \in Conns : Open(c) /\ conn[c].server = s}

Reusable(c) == conn[c].use \in {"closed", "absent"} /\ conn[c].upstream = "none" /\ conn[c].fetch = 0

Set(c, e) == conn' = [conn EXCEPT ![c] = e]

-----------------------------------------------------------------------------
(* main(): both servers bind; either failure ends the start.               *)

Listen(s) ==
    /\ Running /\ server[s] = "binding"
    /\ server' = [server EXCEPT ![s] = "listening"]
    /\ UNCHANGED <<run, conn, active, cache, remote>>

\* A port in use, an uncaught exception, an unhandled rejection: exit(1).
Fails ==
    /\ Running
    /\ run' = [run EXCEPT !.exit = "failed"]
    /\ UNCHANGED <<server, conn, active, cache, remote>>

-----------------------------------------------------------------------------
(* Connections as HTTP sees them.  A fresh connection counts as busy.      *)

Connect(c, s) ==
    /\ Running /\ server[s] = "listening" /\ Reusable(c)
    /\ Set(c, [Free EXCEPT !.server = s, !.use = "busy", !.early = ~run.stopping])
    /\ UNCHANGED <<server, run, active, cache, remote>>

Answer(c) ==
    /\ Running /\ conn[c].use = "busy" /\ conn[c].fetch = 0
    /\ \E use \in {"idle", "closed"} : Set(c, [conn[c] EXCEPT !.use = use])
    /\ UNCHANGED <<server, run, active, cache, remote>>

NextRequest(c) ==
    /\ Running /\ conn[c].use = "idle"
    /\ Set(c, [conn[c] EXCEPT !.use = "busy"])
    /\ UNCHANGED <<server, run, active, cache, remote>>

-----------------------------------------------------------------------------
(* WebSocket tunnels: the 'upgrade' handler of src/proxy.mjs.              *)

\* Fault (mutation only): each of the two sockets counts the tunnel down.
CountsDownTwice(e) == IF e.opened THEN 1 ELSE 0

\* closeWebSocket, the listener on 'close' of both sockets
CountsDown(e) == IF e.opened /\ ~e.closed THEN 1 ELSE 0

\* The visitor's socket closes: its peer left, or it was destroyed.
ClientGone(e) ==
    [e EXCEPT !.use = IF e.use = "upgrading" THEN "absent" ELSE "closed",
              !.closed = e.opened]

ClientCloses(c) ==
    /\ Running /\ Open(c)
    /\ Set(c, ClientGone(conn[c]))
    /\ active' = active - CountsDown(conn[c])
    /\ UNCHANGED <<server, run, cache, remote>>

\* 400, 421 or 502 before anything is sent upstream: socket.end().
UpgradeRefused(c) ==
    /\ Running /\ conn[c].server = "proxy" /\ conn[c].use = "busy"
    /\ Set(c, [conn[c] EXCEPT !.use = "ended"])
    /\ UNCHANGED <<server, run, active, cache, remote>>

Upgrade(c) ==
    /\ Running /\ conn[c].server = "proxy" /\ conn[c].use = "busy"
    /\ Set(c, [conn[c] EXCEPT !.use = "upgrading", !.upstream = "waiting"])
    /\ UNCHANGED <<server, run, active, cache, remote>>

\* Any plain response, an error or a timeout: 502 and socket.end(), which does
\* nothing to a socket that is gone.  The same when the head is not acceptable.
UpstreamRefuses(c) ==
    /\ Running /\ conn[c].upstream = "waiting"
    /\ Set(c, [conn[c] EXCEPT !.upstream = "none",
                              !.use = IF @ = "upgrading" THEN "ended" ELSE @])
    /\ UNCHANGED <<server, run, active, cache, remote>>

\* The handler does not ask whether the visitor is still there.
UpstreamUpgrades(c) ==
    /\ Running /\ conn[c].upstream = "waiting"
    /\ Set(c, [conn[c] EXCEPT !.upstream = "open", !.opened = TRUE,
                              !.use = IF @ = "upgrading" THEN "tunnel" ELSE @])
    /\ active' = active + 1
    /\ UNCHANGED <<server, run, cache, remote>>

\* pipe hands on the end of the upstream stream, but not its destruction.  The
\* idle timer's destroy() of an upgraded request does nothing.
UpstreamCloses(c) ==
    /\ Running /\ conn[c].upstream = "open"
    /\ \E use \in {conn[c].use, IF conn[c].use = "tunnel" THEN "ended" ELSE conn[c].use} :
          Set(c, [conn[c] EXCEPT !.upstream = "none", !.closed = TRUE, !.use = use])
    /\ active' = active - CountsDown(conn[c])
    /\ UNCHANGED <<server, run, cache, remote>>

-----------------------------------------------------------------------------
(* NetBirdClient.request behind GET /api/peers and /api/netbird/clusters.  *)

\* Fault (mutation only): the age of the entry is not looked at.
ServesAny == cache.value # 0

Hit == cache.value # 0 /\ cache.fresh

\* The shape of an answer is checked when it leaves the cache, so a body that is
\* not a list is cached like any other.
FromCache(c) ==
    /\ Running /\ conn[c].server = "admin" /\ conn[c].use = "busy" /\ conn[c].fetch = 0
    /\ Hit
    /\ Set(c, [conn[c] EXCEPT !.use = "idle"])
    /\ UNCHANGED <<server, run, active, cache, remote>>

Fetch(c) ==
    /\ Running /\ conn[c].server = "admin" /\ conn[c].use = "busy" /\ conn[c].fetch = 0
    /\ ~Hit
    /\ Set(c, [conn[c] EXCEPT !.fetch = remote])
    /\ UNCHANGED <<server, run, active, cache, remote>>

\* The visitor's connection may be gone; the fetch goes on.
FetchOver(e) == [e EXCEPT !.fetch = 0, !.use = IF @ = "busy" THEN "idle" ELSE @]

\* The API answers as of any time since the request; cache.set replaces what an
\* overlapping request stored.
FetchAnswered(c) ==
    /\ Running /\ conn[c].fetch # 0
    /\ \E v \in conn[c].fetch..remote : cache' = [value |-> v, fresh |-> TRUE]
    /\ Set(c, FetchOver(conn[c]))
    /\ UNCHANGED <<server, run, active, remote>>

\* Not 2xx, too large, not JSON, no token, 10 s of silence: nothing is cached.
FetchFails(c) ==
    /\ Running /\ conn[c].fetch # 0
    /\ Set(c, FetchOver(conn[c]))
    /\ UNCHANGED <<server, run, active, cache, remote>>

CacheExpires ==
    /\ Running /\ cache.fresh
    /\ cache' = [cache EXCEPT !.fresh = FALSE]
    /\ UNCHANGED <<server, run, conn, active, remote>>

RemoteChanges ==
    /\ remote < MaxRemote
    /\ remote' = remote + 1
    /\ UNCHANGED <<server, run, conn, active, cache>>

-----------------------------------------------------------------------------
(* shutdown and closeTrackedServers.                                       *)

\* Fault (mutation only): a second signal runs the stop again.
EverySignal == TRUE

FirstSignal == ~run.stopping

\* server.close() of what listens, then closeIdleConnections, then the timer.  A
\* server that is still binding is not waited for.
Signal ==
    LET listening == {s \in Servers : server[s] = "listening"} IN
    /\ Running /\ FirstSignal
    /\ run' = [run EXCEPT !.stopping = TRUE, !.grace = "armed", !.awaited = listening]
    /\ server' = [s \in Servers |-> IF s \in listening THEN "closed" ELSE server[s]]
    /\ conn' = [c \in Conns |->
                   IF conn[c].use = "idle" /\ conn[c].server \in listening
                   THEN ClientGone(conn[c]) ELSE conn[c]]
    /\ UNCHANGED <<active, cache, remote>>

\* Fault (mutation only): only the sockets of the proxy are tracked.
ProxySockets == Sockets("proxy")

Tracked == UNION {Sockets(s) : s \in Servers}

GraceOver ==
    /\ Running /\ run.grace = "armed"
    /\ run' = [run EXCEPT !.grace = "fired"]
    /\ conn' = [c \in Conns |-> IF c \in Tracked THEN ClientGone(conn[c]) ELSE conn[c]]
    /\ active' = active - Cardinality({c \in Tracked : CountsDown(conn[c]) = 1})
    /\ UNCHANGED <<server, cache, remote>>

\* The callback of server.close: no connection of that server is left.
ServerClosed(s) ==
    /\ Running /\ s \in run.awaited /\ Sockets(s) = {}
    /\ run' = [run EXCEPT !.awaited = @ \ {s}]
    /\ UNCHANGED <<server, conn, active, cache, remote>>

\* store.close() and exit(0), with nothing in between
Stopped ==
    /\ Running /\ run.stopping /\ run.awaited = {}
    /\ run' = [run EXCEPT !.exit = "clean"]
    /\ UNCHANGED <<server, conn, active, cache, remote>>

-----------------------------------------------------------------------------
Http(c) == Answer(c) \/ NextRequest(c) \/ ClientCloses(c)

Tunnel(c) ==
    \/ UpgradeRefused(c) \/ Upgrade(c) \/ UpstreamRefuses(c)
    \/ UpstreamUpgrades(c) \/ UpstreamCloses(c)

FetchEnds(c) == FetchAnswered(c) \/ FetchFails(c)

Next ==
    \/ \E s \in Servers : Listen(s) \/ ServerClosed(s)
    \/ \E c \in Conns, s \in Servers : Connect(c, s)
    \/ \E c \in Conns : Http(c) \/ Tunnel(c) \/ FromCache(c) \/ Fetch(c) \/ FetchEnds(c)
    \/ CacheExpires \/ RemoteChanges
    \/ Signal \/ GraceOver \/ Stopped \/ Fails

Spec == Init /\ [][Next]_vars

\* Timers fire, the callbacks of closed servers run, and a NetBird request ends
\* at its timeout or its size limit.  Nothing is assumed of visitors and upstreams.
FairSpec ==
    /\ Spec
    /\ WF_vars(GraceOver) /\ WF_vars(Stopped) /\ WF_vars(CacheExpires)
    /\ \A s \in Servers : WF_vars(ServerClosed(s))
    /\ \A c \in Conns : WF_vars(FetchEnds(c))

-----------------------------------------------------------------------------
(* Properties.                                                             *)

\* Type invariant.
TypeOK ==
    /\ server \in [Servers -> {"binding", "listening", "closed"}]
    /\ run \in [stopping : BOOLEAN, grace : {"off", "armed", "fired"},
                awaited : SUBSET Servers, exit : {"none", "clean", "failed"}]
    /\ conn \in [Conns -> [server : Servers \cup {"none"}, use : Uses,
                           upstream : {"none", "waiting", "open"}, opened : BOOLEAN,
                           closed : BOOLEAN, fetch : 0..MaxRemote, early : BOOLEAN]]
    /\ active \in Nat
    /\ cache \in [value : 0..MaxRemote, fresh : BOOLEAN]
    /\ remote \in 1..MaxRemote

\* activeWebSockets is the number of tunnels with both ends open, plus those
\* whose visitor left before the upgrade arrived and whose upstream end is
\* still open: whichever end closes first, or both, one tunnel is counted down
\* once.
ActiveWebSocketsExact ==
    active = Cardinality({c \in Conns : conn[c].upstream = "open" /\ conn[c].use # "closed"})

\* A clean exit before the end of the grace period finds every connection that
\* was accepted before the stop closed: no second signal and no early closing
\* of one server cuts a request of the other.
GraceRespected ==
    run.exit = "clean" /\ run.grace = "armed" => \A c \in Conns : conn[c].early => ~Open(c)

\* Once asked to stop the process exits, whatever its visitors do.
StopEnds == run.stopping ~> ~Running

\* A change behind the NetBird API is seen in the end: an answer of an older
\* request may replace a newer one, but not for good.
PeersCatchUp ==
    \A v \in 1..MaxRemote :
        [](remote = v => <>[](~Running \/ ~Hit \/ cache.value >= v))
=============================================================================
