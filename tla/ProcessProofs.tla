---------------------------- MODULE ProcessProofs ----------------------------
(***************************************************************************)
(* Proofs about the process, for every number of connections and every     *)
(* sequence of versions behind the NetBird API.                            *)
(***************************************************************************)
EXTENDS Process, FiniteSetTheorems, TLAPS

ServerNames == Servers \cup {"none"}

UpstreamEnds == {"none", "waiting", "open"}

Connection ==
    [server : ServerNames, use : Uses, upstream : UpstreamEnds, opened : BOOLEAN,
     closed : BOOLEAN, fetch : 0..MaxRemote, early : BOOLEAN]

OpenUse(e) == e.use \notin {"closed", "absent"}

\* The tunnel counts: its listeners are set and closeWebSocket has not run.
Counts(e) == e.opened /\ ~e.closed

\* What the handler's branches keep of one connection.  The last part says that
\* the listeners count a tunnel down when, and only when, one of its ends goes.
ConnSound(e) ==
    /\ OpenUse(e) => e.server \in Servers
    /\ e.use \in {"idle", "busy"} => e.upstream = "none" /\ ~e.opened /\ ~e.closed
    /\ e.use = "upgrading" => e.upstream = "waiting"
    /\ e.upstream = "waiting" => e.use \in {"upgrading", "absent"} /\ ~e.opened /\ ~e.closed
    /\ Counts(e) <=> e.upstream = "open" /\ e.use # "closed"

ConnsSound == \A c \in Conns : ConnSound(conn[c])

Counted == {c \in Conns : Counts(conn[c])}

\* Before the stop an open connection's server listens; after it, and until the
\* grace timer fires, the stop awaits the server of every early connection.
StopSound ==
    /\ ~run.stopping => /\ run.grace = "off"
                        /\ \A c \in Conns : OpenUse(conn[c]) => server[conn[c].server] = "listening"
    /\ run.stopping /\ run.grace = "armed" =>
          \A c \in Conns : conn[c].early /\ OpenUse(conn[c]) => conn[c].server \in run.awaited
    /\ run.exit = "clean" => run.stopping /\ run.awaited = {}

\* The inductive invariant of the process.
ProcessInv ==
    /\ TypeOK /\ ConnsSound /\ StopSound
    /\ active = Cardinality(Counted)

-----------------------------------------------------------------------------
(* Connections.                                                            *)

LEMMA Names ==
    /\ {"closed", "idle", "busy", "upgrading", "tunnel", "ended", "absent"} \subseteq Uses
    /\ {"none", "waiting", "open"} \subseteq UpstreamEnds
    /\ Servers \subseteq ServerNames /\ "none" \in ServerNames /\ "none" \notin Servers
    /\ 0 \in 0..MaxRemote
BY ProcessAssumption DEF Uses, UpstreamEnds, ServerNames, Servers

LEMMA ConnTyped == TypeOK => conn \in [Conns -> Connection]
BY DEF TypeOK, Connection, ServerNames, UpstreamEnds

LEMMA FreeSound == Free \in Connection /\ ConnSound(Free) /\ ~Counts(Free)
BY Names DEF Free, Connection, ConnSound, Counts, OpenUse

\* The visitor's side closes: the tunnel does not count any more.
LEMMA GoneSound ==
    ASSUME NEW e \in Connection, ConnSound(e), OpenUse(e)
    PROVE  /\ ClientGone(e) \in Connection /\ ConnSound(ClientGone(e))
           /\ ~Counts(ClientGone(e)) /\ ~OpenUse(ClientGone(e))
           /\ ClientGone(e).server = e.server /\ ClientGone(e).early = e.early
<1> DEFINE g == ClientGone(e)
           u == IF e.use = "upgrading" THEN "absent" ELSE "closed"
<1>1. g = [e EXCEPT !.use = u, !.closed = e.opened] /\ u \in Uses
  BY Names DEF ClientGone
<1>2. /\ g \in Connection /\ g.server = e.server /\ g.early = e.early /\ g.use = u
      /\ g.upstream = e.upstream /\ g.opened = e.opened /\ g.closed = e.opened
  <2> HIDE DEF g, u
  <2> QED BY <1>1 DEF Connection
<1>3. e.opened \in BOOLEAN
  BY DEF Connection
<1> HIDE DEF g
<1>4. ~Counts(g) /\ ~OpenUse(g) /\ ConnSound(g)
  BY <1>2, <1>3 DEF Counts, OpenUse, ConnSound
<1> QED BY <1>2, <1>4 DEF g

LEMMA CountedFinite ==
    /\ IsFiniteSet(Counted) /\ Cardinality(Counted) \in Nat
    /\ IsFiniteSet(Counted') /\ Cardinality(Counted') \in Nat
<1>1. Counted \in SUBSET Conns /\ Counted' \in SUBSET Conns
  BY DEF Counted
<1> QED BY <1>1, ProcessAssumption, FS_Subset, FS_CardinalityType

\* One connection changes, and the counter with it.
LEMMA OneChanges ==
    ASSUME ProcessInv, NEW c \in Conns, NEW e \in Connection, ConnSound(e), Set(c, e),
           OpenUse(e) => /\ e.server = conn[c].server /\ e.early = conn[c].early
                         /\ OpenUse(conn[c]),
           \/ active' = active /\ (Counts(e) <=> Counts(conn[c]))
           \/ active' = active + 1 /\ Counts(e) /\ ~Counts(conn[c])
           \/ active' = active - 1 /\ ~Counts(e) /\ Counts(conn[c]),
           cache' \in [value : 0..MaxRemote, fresh : BOOLEAN],
           UNCHANGED <<server, run, remote>>
    PROVE  ProcessInv'
<1>1. conn \in [Conns -> Connection] /\ conn' = [conn EXCEPT ![c] = e]
  BY ConnTyped DEF ProcessInv, Set
<1>2. conn' \in [Conns -> Connection] /\ conn'[c] = e /\ \A d \in Conns \ {c} : conn'[d] = conn[d]
  BY <1>1
<1>3. ConnsSound'
  BY <1>2 DEF ProcessInv, ConnsSound
<1>4. StopSound'
  BY <1>2 DEF ProcessInv, StopSound
<1>5. active' = Cardinality(Counted')
  <2>1. CASE active' = active /\ (Counts(e) <=> Counts(conn[c]))
    <3>1. Counted' = Counted
      BY <1>2, <2>1 DEF Counted
    <3> QED BY <2>1, <3>1 DEF ProcessInv
  <2>2. CASE active' = active + 1 /\ Counts(e) /\ ~Counts(conn[c])
    <3>1. Counted' = Counted \cup {c} /\ c \notin Counted
      BY <1>2, <2>2 DEF Counted
    <3> QED BY <2>2, <3>1, CountedFinite, FS_AddElement DEF ProcessInv
  <2>3. CASE active' = active - 1 /\ ~Counts(e) /\ Counts(conn[c])
    <3>1. Counted' = Counted \ {c} /\ c \in Counted
      BY <1>2, <2>3 DEF Counted
    <3> QED BY <2>3, <3>1, CountedFinite, FS_RemoveElement DEF ProcessInv
  <2> QED BY <2>1, <2>2, <2>3
<1>6. TypeOK'
  BY <1>2, <1>5, CountedFinite DEF ProcessInv, TypeOK, Connection, ServerNames, UpstreamEnds
<1> QED BY <1>3, <1>4, <1>5, <1>6 DEF ProcessInv

\* One field of the visitor's side changes and nothing of the upstream's.
LEMMA UseChanges ==
    ASSUME NEW e \in Connection, ConnSound(e), NEW u \in Uses, e.use \in {"busy", "idle"},
           u \in {"idle", "busy", "ended", "closed"}
    PROVE  LET g == [e EXCEPT !.use = u] IN
           /\ g \in Connection /\ ConnSound(g) /\ (Counts(g) <=> Counts(e))
           /\ g.server = e.server /\ g.early = e.early
<1> DEFINE g == [e EXCEPT !.use = u]
<1>1. /\ g \in Connection /\ g.server = e.server /\ g.early = e.early /\ g.use = u
      /\ g.upstream = e.upstream /\ g.opened = e.opened /\ g.closed = e.closed
  BY DEF Connection
<1>2. e.server \in Servers
  BY DEF ConnSound, OpenUse
<1> HIDE DEF g
<1>3. ConnSound(g) /\ (Counts(g) <=> Counts(e))
  BY <1>1, <1>2 DEF ConnSound, Counts, OpenUse
<1> QED BY <1>1, <1>3 DEF g

-----------------------------------------------------------------------------
(* The steps of one connection.                                            *)

LEMMA Known ==
    ASSUME ProcessInv, NEW c \in Conns
    PROVE  /\ conn[c] \in Connection /\ ConnSound(conn[c])
           /\ cache \in [value : 0..MaxRemote, fresh : BOOLEAN]
           /\ Open(c) <=> OpenUse(conn[c])
BY ConnTyped DEF ProcessInv, TypeOK, ConnsSound, Open, OpenUse

LEMMA ConnectInv ==
    ASSUME ProcessInv, NEW c \in Conns, NEW s \in Servers, Connect(c, s)
    PROVE  ProcessInv'
<1> DEFINE early == ~run.stopping
           e == [Free EXCEPT !.server = s, !.use = "busy", !.early = early]
<1>1. /\ Set(c, e) /\ server[s] = "listening" /\ UNCHANGED <<server, run, active, cache, remote>>
      /\ conn[c].use \in {"closed", "absent"} /\ conn[c].upstream = "none"
  BY DEF Connect, Reusable
<1>2. run.stopping \in BOOLEAN /\ early \in BOOLEAN /\ (early <=> ~run.stopping)
  BY DEF ProcessInv, TypeOK
<1> HIDE DEF early
<1>0. /\ e \in Connection /\ e.server = s /\ e.use = "busy" /\ e.early = early
      /\ e.upstream = "none" /\ ~e.opened /\ ~e.closed
  <2>1. Free.upstream = "none" /\ ~Free.opened /\ ~Free.closed
    BY DEF Free
  <2> QED BY <1>2, <2>1, FreeSound, Names DEF Connection
<1> HIDE DEF e
<1>3. e \in Connection /\ ConnSound(e) /\ ~Counts(e)
  BY <1>0 DEF ConnSound, Counts, OpenUse
<1>4. ~Counts(conn[c])
  BY <1>1, Known DEF ConnSound
<1>5. conn' \in [Conns -> Connection] /\ conn'[c] = e /\ \A d \in Conns \ {c} : conn'[d] = conn[d]
  BY <1>1, <1>3, ConnTyped DEF ProcessInv, Set
<1>6. ConnsSound'
  BY <1>3, <1>5 DEF ProcessInv, ConnsSound
<1>7. StopSound'
  <2>1. e.server = s /\ (e.early <=> ~run.stopping)
    BY <1>2, <1>0
  <2> QED BY <1>1, <1>5, <2>1 DEF ProcessInv, StopSound
<1>8. Counted' = Counted
  BY <1>3, <1>4, <1>5 DEF Counted
<1>9. active' = Cardinality(Counted')
  BY <1>1, <1>8 DEF ProcessInv
<1>10. TypeOK'
  BY <1>1, <1>5 DEF ProcessInv, TypeOK, Connection, ServerNames, UpstreamEnds
<1> QED BY <1>6, <1>7, <1>9, <1>10 DEF ProcessInv

\* A request ends, comes or is refused, or is answered from the cache.
LEMMA UseInv ==
    ASSUME ProcessInv, NEW c \in Conns,
           Answer(c) \/ NextRequest(c) \/ UpgradeRefused(c) \/ FromCache(c)
    PROVE  ProcessInv'
<1>1. PICK u \in {"idle", "busy", "ended", "closed"} : Set(c, [conn[c] EXCEPT !.use = u])
  BY DEF Answer, NextRequest, UpgradeRefused, FromCache
<1>2. conn[c].use \in {"busy", "idle"} /\ UNCHANGED <<server, run, active, cache, remote>>
  BY DEF Answer, NextRequest, UpgradeRefused, FromCache
<1> DEFINE e == [conn[c] EXCEPT !.use = u]
<1>3. u \in Uses
  BY Names
<1>4. /\ e \in Connection /\ ConnSound(e) /\ (Counts(e) <=> Counts(conn[c]))
      /\ e.server = conn[c].server /\ e.early = conn[c].early
  BY <1>2, <1>3, Known, UseChanges
<1>5. OpenUse(conn[c])
  BY <1>2 DEF OpenUse
<1>6. Set(c, e)
  BY <1>1
<1> HIDE DEF e
<1> QED BY <1>2, <1>4, <1>5, <1>6, Known, OneChanges

LEMMA ClientClosesInv ==
    ASSUME ProcessInv, NEW c \in Conns, ClientCloses(c)
    PROVE  ProcessInv'
<1> DEFINE e == ClientGone(conn[c])
<1>1. /\ OpenUse(conn[c]) /\ Set(c, e)
      /\ active' = active - CountsDown(conn[c]) /\ UNCHANGED <<server, run, cache, remote>>
  BY Known DEF ClientCloses
<1>2. e \in Connection /\ ConnSound(e) /\ ~Counts(e) /\ ~OpenUse(e)
  BY <1>1, Known, GoneSound
<1>3. active \in Nat
  BY DEF ProcessInv, TypeOK
<1>4. \/ active' = active /\ (Counts(e) <=> Counts(conn[c]))
      \/ active' = active - 1 /\ ~Counts(e) /\ Counts(conn[c])
  BY <1>1, <1>2, <1>3 DEF CountsDown, Counts
<1> HIDE DEF e
<1> QED BY <1>1, <1>2, <1>4, Known, OneChanges

LEMMA UpgradeInv ==
    ASSUME ProcessInv, NEW c \in Conns, Upgrade(c)
    PROVE  ProcessInv'
<1> DEFINE e == [conn[c] EXCEPT !.use = "upgrading", !.upstream = "waiting"]
<1>1. conn[c].use = "busy" /\ Set(c, e) /\ UNCHANGED <<server, run, active, cache, remote>>
  BY DEF Upgrade
<1>2. /\ e \in Connection /\ e.server = conn[c].server /\ e.early = conn[c].early
      /\ e.use = "upgrading" /\ e.upstream = "waiting"
      /\ e.opened = conn[c].opened /\ e.closed = conn[c].closed
  BY Known, Names DEF Connection
<1> HIDE DEF e
<1>3. OpenUse(conn[c]) /\ ~conn[c].opened /\ ~conn[c].closed
  BY <1>1, Known DEF OpenUse, ConnSound
<1>5. ConnSound(e) /\ ~Counts(e) /\ ~Counts(conn[c])
  BY <1>2, <1>3, Known DEF ConnSound, Counts
<1> QED BY <1>1, <1>2, <1>3, <1>5, Known, OneChanges

LEMMA UpstreamRefusesInv ==
    ASSUME ProcessInv, NEW c \in Conns, UpstreamRefuses(c)
    PROVE  ProcessInv'
<1> DEFINE u == IF conn[c].use = "upgrading" THEN "ended" ELSE conn[c].use
           e == [conn[c] EXCEPT !.upstream = "none", !.use = u]
<1>1. conn[c].upstream = "waiting" /\ Set(c, e) /\ UNCHANGED <<server, run, active, cache, remote>>
  BY DEF UpstreamRefuses
<1>2. /\ conn[c].use \in {"upgrading", "absent"} /\ ~conn[c].opened /\ ~conn[c].closed
      /\ u \in {"ended", "absent"} /\ (u = "ended" => conn[c].use = "upgrading")
  BY <1>1, Known DEF ConnSound
<1> HIDE DEF u
<1>3. /\ e \in Connection /\ e.server = conn[c].server /\ e.early = conn[c].early
      /\ e.use = u /\ e.upstream = "none"
      /\ e.opened = conn[c].opened /\ e.closed = conn[c].closed
  BY <1>2, Known, Names DEF Connection
<1> HIDE DEF e
<1>4. ConnSound(e) /\ (Counts(e) <=> Counts(conn[c])) /\ (OpenUse(e) => OpenUse(conn[c]))
  BY <1>2, <1>3, Known DEF ConnSound, Counts, OpenUse
<1> QED BY <1>1, <1>3, <1>4, Known, OneChanges

LEMMA UpstreamUpgradesInv ==
    ASSUME ProcessInv, NEW c \in Conns, UpstreamUpgrades(c)
    PROVE  ProcessInv'
<1> DEFINE u == IF conn[c].use = "upgrading" THEN "tunnel" ELSE conn[c].use
           e == [conn[c] EXCEPT !.upstream = "open", !.opened = TRUE, !.use = u]
<1>1. /\ conn[c].upstream = "waiting" /\ Set(c, e) /\ active' = active + 1
      /\ UNCHANGED <<server, run, cache, remote>>
  BY DEF UpstreamUpgrades
<1>2. /\ conn[c].use \in {"upgrading", "absent"} /\ ~conn[c].opened /\ ~conn[c].closed
      /\ u \in {"tunnel", "absent"} /\ (u = "tunnel" => conn[c].use = "upgrading")
  BY <1>1, Known DEF ConnSound
<1> HIDE DEF u
<1>3. /\ e \in Connection /\ e.server = conn[c].server /\ e.early = conn[c].early
      /\ e.use = u /\ e.upstream = "open" /\ e.opened /\ e.closed = conn[c].closed
  BY <1>2, Known, Names DEF Connection
<1> HIDE DEF e
<1>4. ConnSound(e) /\ Counts(e) /\ ~Counts(conn[c]) /\ (OpenUse(e) => OpenUse(conn[c]))
  BY <1>2, <1>3, Known DEF ConnSound, Counts, OpenUse
<1> QED BY <1>1, <1>3, <1>4, Known, OneChanges

LEMMA UpstreamClosesInv ==
    ASSUME ProcessInv, NEW c \in Conns, UpstreamCloses(c)
    PROVE  ProcessInv'
<1>1. PICK u \in {conn[c].use, IF conn[c].use = "tunnel" THEN "ended" ELSE conn[c].use} :
         Set(c, [conn[c] EXCEPT !.upstream = "none", !.closed = TRUE, !.use = u])
  BY DEF UpstreamCloses
<1> DEFINE e == [conn[c] EXCEPT !.upstream = "none", !.closed = TRUE, !.use = u]
<1>2. /\ conn[c].upstream = "open" /\ active' = active - CountsDown(conn[c])
      /\ UNCHANGED <<server, run, cache, remote>> /\ active \in Nat
  BY DEF UpstreamCloses, ProcessInv, TypeOK
<1>3. /\ conn[c].use \in Uses /\ conn[c].use \notin {"idle", "busy", "upgrading"}
      /\ u = conn[c].use \/ (u = "ended" /\ conn[c].use = "tunnel")
  BY <1>2, Known DEF ConnSound, Connection
<1>4. u \in Uses
  BY <1>3, Names
<1>5. /\ e \in Connection /\ e.server = conn[c].server /\ e.early = conn[c].early
      /\ e.use = u /\ e.upstream = "none" /\ e.closed
  BY <1>4, Known, Names DEF Connection
<1>6. Set(c, e)
  BY <1>1
<1> HIDE DEF e
<1>7. ConnSound(e) /\ ~Counts(e) /\ (OpenUse(e) => OpenUse(conn[c]))
  BY <1>3, <1>5, Known DEF ConnSound, Counts, OpenUse
<1>8. \/ active' = active /\ (Counts(e) <=> Counts(conn[c]))
      \/ active' = active - 1 /\ ~Counts(e) /\ Counts(conn[c])
  BY <1>2, <1>7 DEF CountsDown, Counts
<1> QED BY <1>2, <1>5, <1>6, <1>7, <1>8, Known, OneChanges

\* What a fetch does to its connection.
LEMMA FetchField ==
    ASSUME NEW e \in Connection, ConnSound(e), NEW v \in 0..MaxRemote, NEW u \in Uses,
           u = e.use \/ (e.use = "busy" /\ u = "idle")
    PROVE  LET g == [e EXCEPT !.fetch = v, !.use = u] IN
           /\ g \in Connection /\ ConnSound(g) /\ (Counts(g) <=> Counts(e))
           /\ g.server = e.server /\ g.early = e.early /\ (OpenUse(g) => OpenUse(e))
<1> DEFINE g == [e EXCEPT !.fetch = v, !.use = u]
<1>1. /\ g \in Connection /\ g.server = e.server /\ g.early = e.early /\ g.use = u
      /\ g.upstream = e.upstream /\ g.opened = e.opened /\ g.closed = e.closed
  BY DEF Connection
<1> HIDE DEF g
<1>2. ConnSound(g) /\ (Counts(g) <=> Counts(e)) /\ (OpenUse(g) => OpenUse(e))
  BY <1>1 DEF ConnSound, Counts, OpenUse
<1> QED BY <1>1, <1>2 DEF g

LEMMA FetchInv ==
    ASSUME ProcessInv, NEW c \in Conns, Fetch(c) \/ FetchEnds(c)
    PROVE  ProcessInv'
<1>1. remote \in 0..MaxRemote /\ conn[c].use \in Uses /\ conn[c].fetch \in 0..MaxRemote
  BY Known DEF ProcessInv, TypeOK, Connection
<1>2. CASE Fetch(c)
  <2> DEFINE e == [conn[c] EXCEPT !.fetch = remote, !.use = conn[c].use]
  <2>1. Set(c, e) /\ UNCHANGED <<server, run, active, cache, remote>>
    <3>1. e = [conn[c] EXCEPT !.fetch = remote]
      BY Known DEF Connection
    <3> QED BY <1>2, <3>1 DEF Fetch
  <2>2. /\ e \in Connection /\ ConnSound(e) /\ (Counts(e) <=> Counts(conn[c]))
        /\ e.server = conn[c].server /\ e.early = conn[c].early /\ (OpenUse(e) => OpenUse(conn[c]))
    BY <1>1, Known, FetchField
  <2> HIDE DEF e
  <2> QED BY <2>1, <2>2, Known, OneChanges
<1>3. CASE FetchEnds(c)
  <2> DEFINE u == IF conn[c].use = "busy" THEN "idle" ELSE conn[c].use
             e == [conn[c] EXCEPT !.fetch = 0, !.use = u]
  <2>1. Set(c, e) /\ UNCHANGED <<server, run, active, remote>>
    BY <1>3 DEF FetchEnds, FetchAnswered, FetchFails, FetchOver
  <2>2. cache' \in [value : 0..MaxRemote, fresh : BOOLEAN]
    <3>1. CASE FetchAnswered(c)
      <4>1. PICK v \in conn[c].fetch..remote : cache' = [value |-> v, fresh |-> TRUE]
        BY <3>1 DEF FetchAnswered
      <4>2. v \in 0..MaxRemote
        BY <1>1, ProcessAssumption
      <4> QED BY <4>1, <4>2
    <3>2. CASE FetchFails(c)
      BY <3>2, Known DEF FetchFails
    <3> QED BY <1>3, <3>1, <3>2 DEF FetchEnds
  <2>3. u \in Uses /\ (u = conn[c].use \/ (conn[c].use = "busy" /\ u = "idle"))
    BY <1>1, Names
  <2> HIDE DEF u
  <2>4. /\ e \in Connection /\ ConnSound(e) /\ (Counts(e) <=> Counts(conn[c]))
        /\ e.server = conn[c].server /\ e.early = conn[c].early /\ (OpenUse(e) => OpenUse(conn[c]))
    BY <2>3, Known, Names, FetchField
  <2> HIDE DEF e
  <2> QED BY <2>1, <2>2, <2>4, OneChanges
<1> QED BY <1>2, <1>3

-----------------------------------------------------------------------------
(* The process and its stop.                                               *)

\* A step that leaves every connection and the counter alone.
LEMMA ConnsKept ==
    ASSUME ProcessInv, UNCHANGED <<conn, active>>, TypeOK', StopSound'
    PROVE  ProcessInv'
BY DEF ProcessInv, ConnsSound, Counted

LEMMA RunStepInv ==
    ASSUME ProcessInv,
           \/ \E s \in Servers : Listen(s) \/ ServerClosed(s)
           \/ CacheExpires \/ RemoteChanges \/ Stopped \/ Fails
    PROVE  ProcessInv'
<1>1. UNCHANGED <<conn, active>> /\ TypeOK /\ StopSound /\ ConnsSound
  BY DEF ProcessInv, Listen, ServerClosed, CacheExpires, RemoteChanges, Stopped, Fails
<1>2. CASE \E s \in Servers : Listen(s)
  <2>1. PICK s \in Servers : Listen(s)
    BY <1>2
  <2>2. /\ server' = [server EXCEPT ![s] = "listening"] /\ server[s] = "binding"
        /\ UNCHANGED <<run, cache, remote>>
    BY <2>1 DEF Listen
  <2>3. TypeOK'
    BY <1>1, <2>2 DEF TypeOK
  <2>4. \A t \in Servers : server[t] = "listening" => server'[t] = "listening"
    BY <1>1, <2>2 DEF TypeOK
  <2>5. StopSound'
    BY <1>1, <2>2, <2>4 DEF StopSound, ConnsSound, ConnSound
  <2> QED BY <1>1, <2>3, <2>5, ConnsKept
<1>3. CASE \E s \in Servers : ServerClosed(s)
  <2>1. PICK s \in Servers : ServerClosed(s)
    BY <1>3
  <2>2. /\ run' = [run EXCEPT !.awaited = run.awaited \ {s}] /\ Sockets(s) = {}
        /\ s \in run.awaited /\ run.exit = "none" /\ UNCHANGED <<server, cache, remote>>
    BY <2>1 DEF ServerClosed, Running
  <2>3. TypeOK'
    BY <1>1, <2>2 DEF TypeOK
  <2>4. /\ run'.stopping = run.stopping /\ run'.grace = run.grace /\ run'.exit = run.exit
        /\ run'.awaited = run.awaited \ {s}
    BY <1>1, <2>2 DEF TypeOK
  <2>5. \A c \in Conns : OpenUse(conn[c]) => conn[c].server # s
    BY <2>2 DEF Sockets, Open, OpenUse
  <2>6. StopSound'
    BY <1>1, <2>2, <2>4, <2>5 DEF StopSound
  <2> QED BY <1>1, <2>3, <2>6, ConnsKept
<1>4. CASE CacheExpires \/ RemoteChanges
  <2>1. UNCHANGED <<server, run>>
    BY <1>4 DEF CacheExpires, RemoteChanges
  <2>2. StopSound'
    BY <1>1, <2>1 DEF StopSound
  <2>3. TypeOK'
    <3>1. cache' \in [value : 0..MaxRemote, fresh : BOOLEAN]
      BY <1>1, <1>4 DEF TypeOK, CacheExpires, RemoteChanges
    <3>2. remote' \in 1..MaxRemote
      BY <1>1, <1>4, ProcessAssumption DEF TypeOK, CacheExpires, RemoteChanges
    <3> QED BY <1>1, <2>1, <3>1, <3>2 DEF TypeOK
  <2> QED BY <1>1, <2>2, <2>3, ConnsKept
<1>5. ASSUME NEW e \in {"clean", "failed"}, run' = [run EXCEPT !.exit = e],
             e = "clean" => run.stopping /\ run.awaited = {},
             UNCHANGED <<server, cache, remote>>
      PROVE  ProcessInv'
  <2>1. TypeOK'
    BY <1>1, <1>5 DEF TypeOK
  <2>2. /\ run'.stopping = run.stopping /\ run'.grace = run.grace /\ run'.exit = e
        /\ run'.awaited = run.awaited
    BY <1>1, <1>5 DEF TypeOK
  <2>3. StopSound'
    BY <1>1, <1>5, <2>2 DEF StopSound
  <2> QED BY <1>1, <2>1, <2>3, ConnsKept
<1>6. CASE Stopped \/ Fails
  BY <1>5, <1>6 DEF Stopped, Fails
<1> QED BY <1>2, <1>3, <1>4, <1>6

LEMMA SignalInv ==
    ASSUME ProcessInv, Signal
    PROVE  ProcessInv'
<1> DEFINE listening == {s \in Servers : server[s] = "listening"}
           Closes(c) == conn[c].use = "idle" /\ conn[c].server \in listening
<1>1. /\ ~run.stopping /\ run.exit = "none"
      /\ run' = [run EXCEPT !.stopping = TRUE, !.grace = "armed", !.awaited = listening]
      /\ server' = [s \in Servers |-> IF s \in listening THEN "closed" ELSE server[s]]
      /\ conn' = [c \in Conns |-> IF Closes(c) THEN ClientGone(conn[c]) ELSE conn[c]]
      /\ UNCHANGED <<active, cache, remote>>
  BY DEF Signal, FirstSignal, Running
<1>2. ASSUME NEW c \in Conns
      PROVE  /\ conn'[c] \in Connection /\ ConnSound(conn'[c])
             /\ Counts(conn'[c]) <=> Counts(conn[c])
             /\ OpenUse(conn'[c]) => OpenUse(conn[c]) /\ conn'[c] = conn[c]
  <2>1. CASE Closes(c)
    <3>1. conn'[c] = ClientGone(conn[c]) /\ conn[c].use = "idle"
      BY <1>1, <2>1
    <3>2. OpenUse(conn[c]) /\ ~Counts(conn[c])
      BY <3>1, Known DEF OpenUse, Counts, ConnSound
    <3> QED BY <3>1, <3>2, Known, GoneSound
  <2>2. CASE ~Closes(c)
    <3>1. conn'[c] = conn[c]
      BY <1>1, <2>2
    <3> QED BY <3>1, Known
  <2> QED BY <2>1, <2>2
<1>3. conn' \in [Conns -> Connection]
  <2>1. conn' = [c \in Conns |-> conn'[c]]
    BY <1>1
  <2> QED BY <1>2, <2>1
<1>4. Counted' = Counted
  BY <1>2 DEF Counted
<1>5. run \in [stopping : BOOLEAN, grace : {"off", "armed", "fired"},
               awaited : SUBSET Servers, exit : {"none", "clean", "failed"}]
  BY DEF ProcessInv, TypeOK
<1>6. run'.stopping /\ run'.grace = "armed" /\ run'.awaited = listening /\ run'.exit = "none"
  BY <1>1, <1>5
<1>7. StopSound'
  <2>1. \A c \in Conns : OpenUse(conn[c]) => conn[c].server \in listening
    BY <1>1, Known DEF ProcessInv, StopSound, ConnSound
  <2> HIDE DEF listening, Closes
  <2>2. \A c \in Conns : conn'[c].early /\ OpenUse(conn'[c]) => conn'[c].server \in listening
    BY <1>2, <2>1
  <2> QED BY <1>6, <2>2 DEF StopSound
<1>8. TypeOK'
  <2>1. run' \in [stopping : BOOLEAN, grace : {"off", "armed", "fired"},
                  awaited : SUBSET Servers, exit : {"none", "clean", "failed"}]
    BY <1>1, <1>5
  <2>2. server' \in [Servers -> {"binding", "listening", "closed"}]
    BY <1>1 DEF ProcessInv, TypeOK
  <2> QED BY <1>1, <1>3, <2>1, <2>2 DEF ProcessInv, TypeOK, Connection, ServerNames, UpstreamEnds
<1>9. ConnsSound'
  BY <1>2 DEF ConnsSound
<1>10. active' = Cardinality(Counted')
  BY <1>1, <1>4 DEF ProcessInv
<1> QED BY <1>7, <1>8, <1>9, <1>10 DEF ProcessInv

LEMMA GraceOverInv ==
    ASSUME ProcessInv, GraceOver
    PROVE  ProcessInv'
<1>1. /\ run' = [run EXCEPT !.grace = "fired"] /\ run.exit = "none" /\ run.grace = "armed"
      /\ conn' = [c \in Conns |-> IF c \in Tracked THEN ClientGone(conn[c]) ELSE conn[c]]
      /\ active' = active - Cardinality({c \in Tracked : CountsDown(conn[c]) = 1})
      /\ UNCHANGED <<server, cache, remote>>
  BY DEF GraceOver, Running
<1>2. \A c \in Conns : c \in Tracked <=> OpenUse(conn[c])
  BY Known DEF Tracked, Sockets, ConnSound
<1>3. Tracked \subseteq Conns
  BY DEF Tracked, Sockets
<1>4. ASSUME NEW c \in Conns
      PROVE  /\ conn'[c] \in Connection /\ ConnSound(conn'[c])
             /\ Counts(conn'[c]) <=> Counts(conn[c]) /\ c \notin Tracked
  <2>1. CASE c \in Tracked
    <3>1. conn'[c] = ClientGone(conn[c]) /\ OpenUse(conn[c])
      BY <1>1, <1>2, <2>1
    <3> QED BY <2>1, <3>1, Known, GoneSound
  <2>2. CASE c \notin Tracked
    BY <1>1, <2>2, Known
  <2> QED BY <2>1, <2>2
<1>5. conn' \in [Conns -> Connection]
  <2>1. conn' = [c \in Conns |-> conn'[c]]
    BY <1>1
  <2> QED BY <1>4, <2>1
<1>6. active' = Cardinality(Counted')
  <2>1. Counted' = Counted \ Tracked
    BY <1>4 DEF Counted
  <2>2. {c \in Tracked : CountsDown(conn[c]) = 1} = Counted \cap Tracked
    BY <1>3 DEF Counted, CountsDown, Counts
  <2>3. Cardinality(Counted \ Tracked) = Cardinality(Counted) - Cardinality(Counted \cap Tracked)
    BY CountedFinite, FS_Difference
  <2> QED BY <1>1, <2>1, <2>2, <2>3 DEF ProcessInv
<1>7. run \in [stopping : BOOLEAN, grace : {"off", "armed", "fired"},
               awaited : SUBSET Servers, exit : {"none", "clean", "failed"}]
  BY DEF ProcessInv, TypeOK
<1>8. /\ run'.stopping = run.stopping /\ run'.grace = "fired" /\ run'.exit = "none"
      /\ run' \in [stopping : BOOLEAN, grace : {"off", "armed", "fired"},
                   awaited : SUBSET Servers, exit : {"none", "clean", "failed"}]
  BY <1>1, <1>7
<1>9. StopSound'
  <2>1. run.stopping
    BY <1>1, <1>7 DEF ProcessInv, StopSound
  <2> QED BY <1>8, <2>1 DEF StopSound
<1>10. TypeOK'
  BY <1>1, <1>5, <1>6, <1>8, CountedFinite DEF ProcessInv, TypeOK, Connection, ServerNames, UpstreamEnds
<1>11. ConnsSound'
  BY <1>4 DEF ConnsSound
<1> QED BY <1>6, <1>9, <1>10, <1>11 DEF ProcessInv

LEMMA InitInv == Init => ProcessInv
<1> SUFFICES ASSUME Init PROVE ProcessInv
  OBVIOUS
<1>1. conn \in [Conns -> Connection] /\ \A c \in Conns : conn[c] = Free
  BY FreeSound DEF Init
<1>2. ConnsSound
  BY <1>1, FreeSound DEF ConnsSound
<1>3. Counted = {}
  BY <1>1, FreeSound DEF Counted
<1>4. active = Cardinality(Counted)
  BY <1>3, FS_EmptySet DEF Init
<1>5. ~OpenUse(Free)
  BY DEF OpenUse, Free
<1>6. StopSound
  BY <1>1, <1>5 DEF Init, StopSound
<1>7. TypeOK
  BY <1>1, ProcessAssumption DEF Init, TypeOK, Connection, ServerNames, UpstreamEnds, NoEntry
<1> QED BY <1>2, <1>4, <1>6, <1>7 DEF ProcessInv

LEMMA StepInv == ProcessInv /\ [Next]_vars => ProcessInv'
<1> SUFFICES ASSUME ProcessInv, [Next]_vars PROVE ProcessInv'
  OBVIOUS
<1>1. CASE UNCHANGED vars
  BY <1>1 DEF vars, ProcessInv, TypeOK, ConnsSound, StopSound, Counted
<1>2. ASSUME NEW c \in Conns, Http(c) \/ Tunnel(c) \/ FromCache(c) \/ Fetch(c) \/ FetchEnds(c)
      PROVE  ProcessInv'
  BY <1>2, UseInv, ClientClosesInv, UpgradeInv, UpstreamRefusesInv, UpstreamUpgradesInv,
     UpstreamClosesInv, FetchInv DEF Http, Tunnel
<1> QED BY <1>1, <1>2, ConnectInv, RunStepInv, SignalInv, GraceOverInv DEF Next

\* Every connection, whatever its two ends do and however often the process is
\* signalled, stays within what the handlers keep of it.
THEOREM ProcessInvariant == Spec => []ProcessInv
BY InitInv, StepInv, PTL DEF Spec

THEOREM ProcessTypes == Spec => []TypeOK
<1>1. ProcessInv => TypeOK
  BY DEF ProcessInv
<1> QED BY <1>1, ProcessInvariant, PTL

\* counters.activeWebSockets is the number of tunnels that are open.
THEOREM WebSocketsExact == Spec => []ActiveWebSocketsExact
<1>1. ASSUME ProcessInv
      PROVE  ActiveWebSocketsExact
  <2>1. {c \in Conns : conn[c].upstream = "open" /\ conn[c].use # "closed"} = Counted
    BY <1>1 DEF Counted, ProcessInv, ConnsSound, ConnSound
  <2> QED BY <1>1, <2>1 DEF ActiveWebSocketsExact, ProcessInv
<1> QED BY <1>1, ProcessInvariant, PTL

\* An orderly stop within the grace period cuts nobody off.
THEOREM GraceIsRespected == Spec => []GraceRespected
<1>1. ASSUME ProcessInv
      PROVE  GraceRespected
  BY <1>1 DEF ProcessInv, StopSound, GraceRespected, Open, OpenUse
<1> QED BY <1>1, ProcessInvariant, PTL

=============================================================================
