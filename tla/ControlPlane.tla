---------------------------- MODULE ControlPlane ----------------------------
(***************************************************************************)
(* The route handlers of src/admin.mjs over the store, and the hostname    *)
(* map of src/proxy.mjs that they publish into.                            *)
(*                                                                         *)
(* One Node process runs everything, so a handler keeps the event loop     *)
(* (running) until it awaits; the only await inside the route handlers is  *)
(* the health probe of the candidate's upstream.  While a handler waits    *)
(* for its probe, any other handler may run, and what it read before is    *)
(* stale.  Each SQLite transaction is a step of its own: the process may   *)
(* crash between two of them, and a restart then builds the map from what  *)
(* was committed.                                                          *)
(***************************************************************************)
EXTENDS RouteStore

CONSTANTS Handlers,     \* requests an administrator has open at once
          NoHandler,    \* nobody holds the event loop
          NoRoute

VARIABLES up,           \* the process is running
          live,         \* Hosts -> what the proxy serves, or Nobody
          running,      \* the handler that holds the event loop
          req           \* Handlers -> the state of the request's handler

vars == <<routes, lastNo, vstatus, vconfig, vcheck, profiles, up, live, running, req>>

ASSUME NoHandlerAssumption == NoHandler \notin Handlers
ASSUME NoRouteAssumption == NoRoute \notin RouteIds

Kinds == {"test", "activate", "rollback", "enabled", "delete"}
Stages == {"probing", "stuck", "save", "record", "commit", "reload"}

\* version is the draft the handler works on; source is the version a rollback
\* copies, or the active version an enable/disable started from; cand is the
\* configuration the handler probes and means to publish.
Idle == [kind |-> "none", stage |-> "idle", route |-> NoRoute, version |-> NoVersion,
         source |-> NoVersion, cand |-> NoConfig, check |-> "none"]

Request(kind, stage, r, version, source, cand, check) ==
    [kind |-> kind, stage |-> stage, route |-> r, version |-> version,
     source |-> source, cand |-> cand, check |-> check]

LoopFree == up /\ running = NoHandler

Answer(h) == /\ req' = [req EXCEPT ![h] = Idle]
             /\ running' = NoHandler

Holds(h, stage) == up /\ running = h /\ req[h].stage = stage

Continue(h, stage) == /\ req' = [req EXCEPT ![h].stage = stage]
                      /\ running' = h

Init ==
    /\ StoreInit
    /\ up = TRUE
    /\ live = [h \in Hosts |-> Nobody]
    /\ running = NoHandler
    /\ req = [h \in Handlers |-> Idle]

-----------------------------------------------------------------------------
(* The handlers up to their first await.                                   *)

\* An enabled candidate waits for its probe; a disabled one records a skipped
\* check and runs on without giving up the event loop.
Submit(h, kind, r, version, source, cand) ==
    IF cand.enabled
    THEN /\ req' = [req EXCEPT ![h] =
                       Request(kind, "probing", r, version, source, cand, "none")]
         /\ running' = NoHandler
    ELSE /\ req' = [req EXCEPT ![h] =
                       Request(kind, IF kind = "enabled" THEN "save" ELSE "record",
                               r, version, source, cand, "skipped")]
         /\ running' = h

\* POST /api/routes/:id/test probes enabled and disabled drafts alike.
StartTest(h, r, n) ==
    /\ LoopFree /\ req[h] = Idle
    /\ vstatus[r][n] = "draft"
    /\ CanMaterialize(vconfig[r][n])
    /\ req' = [req EXCEPT ![h] = Request("test", "probing", r, n, NoVersion,
                                         Materialize(vconfig[r][n]), "none")]
    /\ UNCHANGED <<storeVars, up, live, running>>

\* POST /api/routes/:id/activate
StartActivate(h, r, n) ==
    /\ LoopFree /\ req[h] = Idle
    /\ vstatus[r][n] = "draft"
    /\ CanMaterialize(vconfig[r][n])
    /\ Submit(h, "activate", r, n, NoVersion, Materialize(vconfig[r][n]))
    /\ UNCHANGED <<storeVars, up, live>>

\* POST /api/routes/:id/rollback saves the draft before it validates and probes
\* the historical configuration.
StartRollback(h, r, source) ==
    /\ LoopFree /\ req[h] = Idle
    /\ RollbackDraft(r, source)
    /\ Submit(h, "rollback", r, lastNo[r] + 1, source, vconfig'[r][lastNo[r] + 1])
    /\ UNCHANGED <<up, live>>

\* ... which the network policy of this process may no longer accept; the
\* request fails and its draft stays.
RollbackRejected(h, r, source) ==
    /\ LoopFree /\ req[h] = Idle
    /\ RollbackDraft(r, source)
    /\ UNCHANGED <<up, live, running, req>>

\* POST /api/routes/:id/enabled: the exact active configuration, switched.
StartEnabled(h, r, enabled) ==
    /\ LoopFree /\ req[h] = Idle
    /\ routes[r].state = "present"
    /\ routes[r].active # NoVersion
    /\ routes[r].draft = NoVersion
    /\ Submit(h, "enabled", r, NoVersion, routes[r].active,
              [ActiveConfig(r) EXCEPT !.enabled = enabled])
    /\ UNCHANGED <<storeVars, up, live>>

\* Fault (mutation only): the proxy is not told.
DeleteWithoutReload(h, r) ==
    /\ LoopFree /\ req[h] = Idle
    /\ DeleteRoute(r)
    /\ UNCHANGED <<up, live, running, req>>

\* DELETE /api/routes/:id
StartDelete(h, r) ==
    /\ LoopFree /\ req[h] = Idle
    /\ DeleteRoute(r)
    /\ req' = [req EXCEPT ![h] = Request("delete", "reload", r, NoVersion, NoVersion,
                                         NoConfig, "none")]
    /\ running' = h
    /\ UNCHANGED <<up, live>>

-----------------------------------------------------------------------------
(* The probe, and the handlers after it.                                   *)

\* An enable/disable that fails its probe answers at once; the other handlers
\* record the outcome first.
ProbeSettles(h, result) ==
    /\ LoopFree
    /\ req[h].stage = "probing"
    /\ IF req[h].kind = "enabled" /\ result = "failed"
       THEN Answer(h)
       ELSE /\ req' = [req EXCEPT ![h].check = result,
                                  ![h].stage = IF req[h].kind = "enabled" THEN "save"
                                               ELSE "record"]
            /\ running' = h
    /\ UNCHANGED <<storeVars, up, live>>

\* probeRoute listens to the response's 'end' and the request's 'error' and
\* drops its timer on 'close'.  An upstream that closes in the middle of the
\* response body causes neither: the promise stays pending.
ProbeLost(h) ==
    /\ LoopFree
    /\ req[h].stage = "probing"
    /\ req' = [req EXCEPT ![h].stage = "stuck"]
    /\ UNCHANGED <<storeVars, up, live, running>>

\* Fault (mutation only): only the route's existence is read again.
StillActive(h) ==
    LET r == req[h].route
    IN  routes[r].state = "present" /\ routes[r].active # NoVersion

\* The route is as the enable/disable request found it before its probe.
StillFresh(h) ==
    LET r == req[h].route
    IN  /\ routes[r].state = "present"
        /\ routes[r].active = req[h].source
        /\ routes[r].draft = NoVersion

SaveToggle(h) ==
    /\ Holds(h, "save")
    /\ IF StillFresh(h) /\ lastNo[req[h].route] < MaxVersion      \* bound
       THEN /\ SaveDraft(req[h].route, req[h].cand)
            /\ req' = [req EXCEPT ![h].version = lastNo[req[h].route] + 1,
                                  ![h].stage = "record"]
            /\ UNCHANGED running
       ELSE Answer(h) /\ UNCHANGED storeVars
    /\ UNCHANGED <<up, live>>

Record(h) ==
    /\ Holds(h, "record")
    /\ RecordValidation(req[h].route, req[h].version, req[h].check)
    /\ IF req[h].kind = "test" \/ req[h].check = "failed"
       THEN Answer(h)
       ELSE Continue(h, "commit")
    /\ UNCHANGED <<up, live>>

\* Fault (mutation only): the candidate is built again after the probe.
BuiltAgain(h) == Materialize(vconfig[req[h].route][req[h].version])

\* The configuration activated is the one captured before the probe.
ToPublish(h) == req[h].cand

\* Fault (mutation only): a refusal by the store is not answered.
CommitOrNothing(h) ==
    /\ Holds(h, "commit")
    /\ Activate(req[h].route, req[h].version, ToPublish(h))
    /\ Continue(h, "reload")
    /\ UNCHANGED <<up, live>>

\* store.activate; its refusal is the error the request is answered with.
Commit(h) ==
    /\ Holds(h, "commit")
    /\ IF CanActivate(req[h].route, req[h].version, ToPublish(h))
       THEN /\ Activate(req[h].route, req[h].version, ToPublish(h))
            /\ Continue(h, "reload")
       ELSE Answer(h) /\ UNCHANGED storeVars
    /\ UNCHANGED <<up, live>>

\* proxy.reload: build the complete map, then swap the reference.
Reload(h) ==
    /\ Holds(h, "reload")
    /\ live' = ServedTable
    /\ Answer(h)
    /\ UNCHANGED <<storeVars, up>>

-----------------------------------------------------------------------------
(* Handlers without an await, and the process itself.                      *)

\* The configuration a clone starts from: the active one, else the draft.
CloneConfig(r, host) ==
    LET source == IF routes[r].active # NoVersion THEN routes[r].active ELSE routes[r].draft
    IN  Submitted(host, FALSE, vconfig[r][source].profileIds)

\* POST draft, clone, import, profiles; DELETE profile.
Edit ==
    /\ LoopFree
    /\ \/ \E r \in RouteIds, cfg \in SubmittedConfigs : SaveDraft(r, cfg)
       \/ \E r, new \in RouteIds, host \in Hosts :
              /\ routes[r].state = "present"
              /\ routes[new].state = "absent"
              /\ SaveDraft(new, CloneConfig(r, host))
       \/ \E cfgs \in ImportedConfigs, ps \in ImportedProfiles : Import(cfgs, ps)
       \/ \E p \in Profiles, e \in BOOLEAN : SaveProfile(p, e)
       \/ \E p \in Profiles : DeleteProfile(p)
    /\ UNCHANGED <<up, live, running, req>>

Crash ==
    /\ up
    /\ up' = FALSE
    /\ live' = [h \in Hosts |-> Nobody]
    /\ running' = NoHandler
    /\ req' = [h \in Handlers |-> Idle]
    /\ UNCHANGED storeVars

\* createProxy loads the map before the listeners open.
Restart ==
    /\ ~up
    /\ up' = TRUE
    /\ live' = ServedTable
    /\ UNCHANGED <<storeVars, running, req>>

Start(h) ==
    \E r \in RouteIds :
        \/ \E n \in VersionNos :
               \/ StartTest(h, r, n)
               \/ StartActivate(h, r, n)
               \/ StartRollback(h, r, n)
               \/ RollbackRejected(h, r, n)
        \/ \E e \in BOOLEAN : StartEnabled(h, r, e)
        \/ StartDelete(h, r)

Probe(h) == ProbeLost(h) \/ \E result \in {"ok", "failed"} : ProbeSettles(h, result)

Resume(h) == SaveToggle(h) \/ Record(h) \/ Commit(h) \/ Reload(h)

Next ==
    \/ \E h \in Handlers : Start(h) \/ Probe(h) \/ Resume(h)
    \/ Edit
    \/ Crash
    \/ Restart

Spec == Init /\ [][Next]_vars

\* A handler that holds the event loop runs to its next await, and the event
\* loop gets round to every settled probe however many others it serves.
Fairness == \A h \in Handlers : WF_vars(Resume(h)) /\ SF_vars(Probe(h))

FairSpec == Spec /\ Fairness

-----------------------------------------------------------------------------
(***************************************************************************)
(* Properties.                                                             *)
(***************************************************************************)

TypeOK ==
    /\ StoreTypeOK
    /\ up \in BOOLEAN
    /\ live \in [Hosts -> {Nobody} \cup [route : RouteIds, config : Config]]
    /\ running \in Handlers \cup {NoHandler}
    /\ req \in [Handlers -> {Idle} \cup
           [kind : Kinds, stage : Stages, route : RouteIds,
            version : 0..MaxVersion, source : 0..MaxVersion,
            cand : Config \cup {NoConfig}, check : Checks]]

\* The proxy serves exactly what the database says is active and enabled, at
\* every moment but between a commit and the reload that follows it.  An event
\* is handled in that gap only after a crash, which loses the map anyway.
LiveMatchesStore ==
    up /\ ~(running # NoHandler /\ req[running].stage = "reload") => live = ServedTable

\* The health gate: whatever is active and enabled carries a successful check
\* of this very version, however tests, activations and rollbacks overlap and
\* wherever a crash fell.
HealthGate ==
    \A r \in RouteIds :
        routes[r].active # NoVersion /\ routes[r].enabled =>
            vcheck[r][routes[r].active] = "ok"

\* Traffic changes only to the configuration that the running handler captured
\* and probed: not to a profile revision saved, a draft replaced or a route
\* activated while it waited.
PublishesCandidateStep ==
    \A h \in Hosts :
        up /\ live'[h] # live[h] /\ live'[h] # Nobody =>
            /\ running # NoHandler
            /\ live'[h] = [route |-> req[running].route, config |-> req[running].cand]

PublishesCandidate == [][PublishesCandidateStep]_vars

\* Enable/disable switches the exact active snapshot: when it replaces the
\* active version, only the enabled flag differs from the one it replaces,
\* and it never discards a draft that someone else saved.
ToggleStep ==
    running # NoHandler /\ req[running].kind = "enabled" =>
        \A r \in RouteIds :
            /\ routes'[r].active # routes[r].active =>
                   vconfig'[r][routes'[r].active] =
                       [ActiveConfig(r) EXCEPT !.enabled = req[running].cand.enabled]
            /\ routes[r].draft # NoVersion =>
                   vstatus'[r][routes[r].draft] \in {"draft", "active"}

ToggleIsExact == [][ToggleStep]_vars

\* A rollback activates the historical configuration unchanged, profile items
\* included, though the profiles may have been saved or deleted since.
RollbackStep ==
    running # NoHandler /\ req[running].kind = "rollback" =>
        \A r \in RouteIds :
            routes'[r].active # routes[r].active =>
                vconfig'[r][routes'[r].active] = vconfig[r][req[running].source]

RollbackIsExact == [][RollbackStep]_vars

\* Every request is answered, unless its probe is lost.
Answered ==
    \A h \in Handlers :
        req[h] # Idle ~> (req[h] = Idle \/ req[h].stage = "stuck")

\* docs/INJECTION_PROFILES.md: an activated route stores a materialized
\* snapshot.  A rollback does not materialize, and a draft that was superseded
\* before it was ever activated holds no snapshot: the route is then served
\* without the items of its attached profiles.
ServedIsMaterialized ==
    \A r \in RouteIds :
        IsServed(r) /\ ActiveConfig(r).profileIds # {} => ActiveConfig(r).materialized

-----------------------------------------------------------------------------
(***************************************************************************)
(* The inductive invariant behind the safety properties above: what every  *)
(* handler relies on when it goes on after its probe.                      *)
(***************************************************************************)

\* Only the handler that holds the event loop is past its await.
Held == {"save", "record", "commit", "reload"}

OneRuns == \A h \in Handlers : running = h <=> req[h].stage \in Held

\* Which kinds of handler reach which stage, and with what.
Staged(q) ==
    /\ q.kind \notin {"none", "delete"} => q.cand \in Config
    /\ q.kind \in {"none", "delete"} => q.stage \in {"idle", "reload"} /\ q.version = NoVersion
    /\ q.stage = "save" => q.kind = "enabled"
    /\ q.stage = "commit" => q.kind # "test"
    /\ q.kind \in {"test", "activate", "rollback"} \/ q.stage \in {"record", "commit"} =>
           q.version \in VersionNos

\* While the version it works on is a draft, the candidate is what the draft
\* holds or a materialized copy of it.
FromDraft(q) ==
    q.version # NoVersion =>
        /\ vstatus[q.route][q.version] # "absent"
        /\ vstatus[q.route][q.version] = "draft" => q.cand \in Candidates(q.route, q.version)

\* Past the await there is a check; an enabled candidate's was not skipped, and
\* it stands with the draft before the draft is activated.
Gated(q) ==
    /\ q.stage \in {"save", "record", "commit"} =>
           q.check \in Results /\ (q.check = "skipped" => ~q.cand.enabled)
    /\ q.stage = "commit" =>
           /\ q.check # "failed"
           /\ vstatus[q.route][q.version] = "draft" => vcheck[q.route][q.version] = q.check

\* The version that a rollback copies and the one that an enable/disable
\* started from are history or still active, and the candidate is theirs.
FromSource(q) ==
    /\ q.kind = "rollback" =>
           /\ q.source \in VersionNos /\ vstatus[q.route][q.source] = "superseded"
           /\ q.cand = vconfig[q.route][q.source]
    /\ q.kind = "enabled" =>
           /\ q.source \in VersionNos /\ vstatus[q.route][q.source] \in {"active", "superseded"}
           /\ q.cand = [vconfig[q.route][q.source] EXCEPT !.enabled = q.cand.enabled]
           /\ q.stage \in {"record", "commit"} => routes[q.route].active = q.source

RequestsSound ==
    \A h \in Handlers : Staged(req[h]) /\ FromDraft(req[h]) /\ Gated(req[h]) /\ FromSource(req[h])

\* What a reload will change: entries go, or become the running handler's.
ReloadPending ==
    up /\ running # NoHandler /\ req[running].stage = "reload" =>
        \A h \in Hosts :
            ServedTable[h] \in {live[h], Nobody,
                                [route |-> req[running].route, config |-> req[running].cand]}

\* Everything that was captured before a probe is still good after it.
ControlInv ==
    /\ TypeOK
    /\ StoreInv
    /\ OneRuns
    /\ RequestsSound
    /\ HealthGate
    /\ LiveMatchesStore
    /\ ReloadPending
=============================================================================
