----------------------------- MODULE RouteStore -----------------------------
(***************************************************************************)
(* The route and profile tables of src/lib/store.mjs.                      *)
(*                                                                         *)
(* A route keeps every version it ever had.  A version is a draft, the     *)
(* active one, or superseded; the route's row points at its draft and at   *)
(* its active version.  Each action below is one committed transaction;    *)
(* a call whose guard is false throws and is rolled back, so it changes    *)
(* nothing.  A version is identified by its route and its number, which is *)
(* what the UNIQUE(route_id, version_no) constraint allows.                *)
(*                                                                         *)
(* A configuration is reduced to what decides which traffic is served:     *)
(* the hostname, the enabled flag, the attached profiles, and whether the  *)
(* profiles' items have been copied into it (materialized) and from which  *)
(* revision (0: the profile was disabled, so skipped).  Version numbers    *)
(* and revisions are bounded by MaxVersion and MaxRevision.                *)
(***************************************************************************)
EXTENDS Integers, FiniteSets

CONSTANTS RouteIds, Hosts, Profiles,
          MaxVersion,   \* bound: versions a route may accumulate
          MaxRevision,  \* bound: times a profile may be saved
          NoConfig,     \* the configuration of a version that does not exist
          NoHost,       \* the hostname of a route that does not exist
          Nobody        \* what a hostname without a route is served by

VARIABLES routes,       \* RouteIds -> row of the routes table
          lastNo,       \* RouteIds -> MAX(version_no), 0 without versions
          vstatus,      \* RouteIds -> version number -> status
          vconfig,      \* RouteIds -> version number -> config_json
          vcheck,       \* RouteIds -> version number -> validation_json
          profiles      \* Profiles -> row of the profiles table

storeVars == <<routes, lastNo, vstatus, vconfig, vcheck, profiles>>

VersionNos == 1..MaxVersion
NoVersion == 0
Statuses == {"absent", "draft", "active", "superseded"}
Results == {"ok", "failed", "skipped"}    \* the outcomes of a validation
Checks == {"none"} \cup Results

Config == [host : Hosts, enabled : BOOLEAN, profileIds : SUBSET Profiles,
           materialized : BOOLEAN, resolved : [Profiles -> 0..MaxRevision]]

RouteRow == [state : {"absent", "present", "deleted"}, host : Hosts \cup {NoHost},
             enabled : BOOLEAN, active : 0..MaxVersion, draft : 0..MaxVersion]

ProfileRow == [revision : 0..MaxRevision, enabled : BOOLEAN]

ASSUME BoundsAssumption == MaxVersion \in Nat /\ MaxRevision \in Nat
ASSUME NoConfigAssumption == NoConfig \notin Config
ASSUME NoHostAssumption == NoHost \notin Hosts
ASSUME NobodyAssumption == Nobody \notin [route : RouteIds, config : Config]

-----------------------------------------------------------------------------
NothingResolved == [p \in Profiles |-> 0]

\* The configuration an administrator submits: no profile items in it yet.
Submitted(host, enabled, profileIds) ==
    [host |-> host, enabled |-> enabled, profileIds |-> profileIds,
     materialized |-> FALSE, resolved |-> NothingResolved]

SubmittedConfigs == {Submitted(h, e, ps) : h \in Hosts, e \in BOOLEAN, ps \in SUBSET Profiles}

\* listActiveConfigs: the routes the data plane is told about.
IsServed(r) ==
    /\ routes[r].state = "present"
    /\ routes[r].enabled
    /\ routes[r].active # NoVersion
    /\ vstatus[r][routes[r].active] = "active"

ActiveConfig(r) == vconfig[r][routes[r].active]

\* materializeProfiles throws when an attached profile no longer exists.
CanMaterialize(cfg) == \A p \in cfg.profileIds : profiles[p].revision > 0

\* materializeProfiles: copy the attached, enabled profiles into the candidate.
Materialize(cfg) ==
    [cfg EXCEPT !.materialized = TRUE,
                !.resolved = [p \in Profiles |->
                    IF p \in cfg.profileIds /\ profiles[p].enabled
                    THEN profiles[p].revision ELSE 0]]

-----------------------------------------------------------------------------
StoreInit ==
    /\ routes = [r \in RouteIds |-> [state |-> "absent", host |-> NoHost, enabled |-> FALSE,
                                     active |-> NoVersion, draft |-> NoVersion]]
    /\ lastNo = [r \in RouteIds |-> 0]
    /\ vstatus = [r \in RouteIds |-> [n \in VersionNos |-> "absent"]]
    /\ vconfig = [r \in RouteIds |-> [n \in VersionNos |-> NoConfig]]
    /\ vcheck = [r \in RouteIds |-> [n \in VersionNos |-> "none"]]
    /\ profiles = [p \in Profiles |-> [revision |-> 0, enabled |-> FALSE]]

\* Fault (mutation only): the draft's hostname is taken at once.
HostOfDraft(r, cfg) == cfg.host

\* The hostname column after a draft is saved: traffic of an active route keeps
\* its hostname until the draft is activated.
HostAfterDraft(r, cfg) ==
    IF routes[r].active = NoVersion THEN cfg.host ELSE routes[r].host

\* The statuses of r's versions once version no is its draft.
StatusAfterDraft(r, no) ==
    [n \in VersionNos |->
        IF n = no THEN "draft"
        ELSE IF n = routes[r].draft /\ vstatus[r][n] = "draft" THEN "superseded"
        ELSE vstatus[r][n]]

(***************************************************************************)
(* saveDraft: insert the next version as the route's draft; an earlier     *)
(* draft is superseded.  The row's hostname follows the draft only while   *)
(* nothing is active.                                                      *)
(***************************************************************************)
SaveDraft(r, cfg) ==
    LET no == lastNo[r] + 1
    IN  /\ routes[r].state # "deleted"
        /\ no \in VersionNos                              \* bound
        /\ vstatus' = [vstatus EXCEPT ![r] = StatusAfterDraft(r, no)]
        /\ vconfig' = [vconfig EXCEPT ![r] =
               [n \in VersionNos |-> IF n = no THEN cfg ELSE vconfig[r][n]]]
        /\ lastNo' = [lastNo EXCEPT ![r] = no]
        /\ routes' = [routes EXCEPT ![r] =
               [state |-> "present",
                host |-> HostAfterDraft(r, cfg),
                enabled |-> routes[r].enabled,
                active |-> routes[r].active,
                draft |-> no]]
        /\ UNCHANGED <<vcheck, profiles>>

\* Fault (mutation only): the UPDATE is not restricted to drafts.
RecordAnyStatus(r, n, result) ==
    /\ vcheck' = [vcheck EXCEPT ![r] =
           [m \in VersionNos |-> IF m = n THEN result ELSE vcheck[r][m]]]
    /\ UNCHANGED <<routes, lastNo, vstatus, vconfig, profiles>>

\* recordValidation: an UPDATE restricted to drafts, so it may change no row.
RecordValidation(r, n, result) ==
    /\ vcheck' = [vcheck EXCEPT ![r] =
           [m \in VersionNos |-> IF m = n /\ vstatus[r][n] = "draft"
                                 THEN result ELSE vcheck[r][m]]]
    /\ UNCHANGED <<routes, lastNo, vstatus, vconfig, profiles>>

\* Fault (mutation only): the hostname is checked when the draft is saved only.
HostNotAsked(r, host) == FALSE

\* Another route that is active, enabled or not, holds the hostname.
HostTaken(r, host) ==
    \E q \in RouteIds \ {r} :
        /\ routes[q].state # "deleted"
        /\ routes[q].active # NoVersion
        /\ routes[q].host = host

\* Fault (mutation only): neither the version's status nor the row's draft is asked.
ActivatesAnyVersion(r, n, cfg) ==
    vstatus[r][n] # "absent" /\ routes[r].state = "present" /\ ~HostTaken(r, cfg.host)

CanActivate(r, n, cfg) ==
    /\ vstatus[r][n] = "draft"
    /\ routes[r].state = "present"
    /\ routes[r].draft = n
    /\ ~HostTaken(r, cfg.host)

\* The statuses of r's versions once version n is active.
StatusAfterActivation(r, n) ==
    [m \in VersionNos |-> IF m = n THEN "active"
                          ELSE IF vstatus[r][m] = "active" THEN "superseded"
                          ELSE vstatus[r][m]]

\* activate: the draft becomes the active version, with the configuration the
\* caller validated in place of the one the draft was saved with.
Activate(r, n, cfg) ==
    /\ CanActivate(r, n, cfg)
    /\ vstatus' = [vstatus EXCEPT ![r] = StatusAfterActivation(r, n)]
    /\ vconfig' = [vconfig EXCEPT ![r] =
           [m \in VersionNos |-> IF m = n THEN cfg ELSE vconfig[r][m]]]
    /\ routes' = [routes EXCEPT ![r] =
           [state |-> routes[r].state, host |-> cfg.host, enabled |-> cfg.enabled,
            active |-> n, draft |-> NoVersion]]
    /\ UNCHANGED <<lastNo, vcheck, profiles>>

\* Fault (mutation only): the profiles are resolved anew.
RollbackResolvesAnew(r, source) ==
    /\ vstatus[r][source] = "superseded"
    /\ SaveDraft(r, Materialize(vconfig[r][source]))

\* rollbackDraft: the source's stored configuration becomes the new draft.
RollbackDraft(r, source) ==
    /\ vstatus[r][source] = "superseded"
    /\ SaveDraft(r, vconfig[r][source])

\* deleteRoute: soft and permanent; the versions stay as history.
DeleteRoute(r) ==
    /\ routes[r].state = "present"
    /\ vstatus' = [vstatus EXCEPT ![r] =
           [n \in VersionNos |-> IF vstatus[r][n] \in {"active", "draft"}
                                 THEN "superseded" ELSE vstatus[r][n]]]
    /\ routes' = [routes EXCEPT ![r] =
           [state |-> "deleted", host |-> routes[r].host, enabled |-> FALSE,
            active |-> NoVersion, draft |-> NoVersion]]
    /\ UNCHANGED <<lastNo, vconfig, vcheck, profiles>>

\* saveProfile: the revision grows with every save of an existing profile.
SaveProfile(p, enabled) ==
    /\ profiles[p].revision < MaxRevision                 \* bound
    /\ profiles' = [profiles EXCEPT ![p] =
           [revision |-> profiles[p].revision + 1, enabled |-> enabled]]
    /\ UNCHANGED <<routes, lastNo, vstatus, vconfig, vcheck>>

\* deleteProfile does not ask whether a route has the profile attached.
DeleteProfile(p) ==
    /\ profiles[p].revision > 0
    /\ profiles' = [profiles EXCEPT ![p] = [revision |-> 0, enabled |-> FALSE]]
    /\ UNCHANGED <<routes, lastNo, vstatus, vconfig, vcheck>>

(***************************************************************************)
(* The transaction of an import: new profiles, and new routes as disabled  *)
(* drafts.  cfgs gives the imported routes and their configurations.  The  *)
(* identity of a deleted route is refused by saveDraft inside the          *)
(* transaction, which then rolls everything back.  newProfiles gives the   *)
(* imported profiles and whether each is enabled.                          *)
(***************************************************************************)
Import(cfgs, newProfiles) ==
    /\ \A r \in DOMAIN cfgs : routes[r].state = "absent" /\ ~cfgs[r].enabled
    /\ \A p \in DOMAIN newProfiles : profiles[p].revision = 0
    /\ MaxVersion > 0 /\ MaxRevision > 0                  \* bound
    /\ vstatus' = [r \in RouteIds |-> IF r \in DOMAIN cfgs
           THEN [n \in VersionNos |-> IF n = 1 THEN "draft" ELSE vstatus[r][n]] ELSE vstatus[r]]
    /\ vconfig' = [r \in RouteIds |-> IF r \in DOMAIN cfgs
           THEN [n \in VersionNos |-> IF n = 1 THEN cfgs[r] ELSE vconfig[r][n]] ELSE vconfig[r]]
    /\ lastNo' = [r \in RouteIds |-> IF r \in DOMAIN cfgs THEN 1 ELSE lastNo[r]]
    /\ routes' = [r \in RouteIds |-> IF r \in DOMAIN cfgs
           THEN [state |-> "present", host |-> cfgs[r].host, enabled |-> FALSE,
                 active |-> NoVersion, draft |-> 1] ELSE routes[r]]
    /\ profiles' = [p \in Profiles |-> IF p \in DOMAIN newProfiles
           THEN [revision |-> 1, enabled |-> newProfiles[p]] ELSE profiles[p]]
    /\ UNCHANGED vcheck

\* The routes of one import, each as a disabled draft.
ImportedConfigs ==
    UNION {[R -> {c \in SubmittedConfigs : ~c.enabled}] : R \in SUBSET RouteIds}

ImportedProfiles == UNION {[P -> BOOLEAN] : P \in SUBSET Profiles}

\* What the candidate of version n may have become by the time it is
\* activated: the stored configuration, or a copy with some profile snapshot.
Candidates(r, n) ==
    {vconfig[r][n]} \cup
    {[vconfig[r][n] EXCEPT !.materialized = TRUE, !.resolved = s] :
        s \in [Profiles -> 0..MaxRevision]}

\* A draft is what somebody submitted or, for enable/disable, an active
\* configuration with its profile snapshot.
StoreNext ==
    \/ \E r \in RouteIds :
        \/ \E cfg \in Config : SaveDraft(r, cfg)
        \/ \E n \in VersionNos, c \in Results :
               vstatus[r][n] # "absent" /\ RecordValidation(r, n, c)
        \/ \E n \in VersionNos :
               vstatus[r][n] = "draft" /\ \E cfg \in Candidates(r, n) : Activate(r, n, cfg)
        \/ \E n \in VersionNos : RollbackDraft(r, n)
        \/ DeleteRoute(r)
    \/ \E p \in Profiles :
        \/ \E e \in BOOLEAN : SaveProfile(p, e)
        \/ DeleteProfile(p)
    \/ \E cfgs \in ImportedConfigs, ps \in ImportedProfiles : Import(cfgs, ps)

StoreSpec == StoreInit /\ [][StoreNext]_storeVars

-----------------------------------------------------------------------------
(***************************************************************************)
(* Properties.                                                             *)
(***************************************************************************)

\* The columns hold the values the schema allows.
StoreTypeOK ==
    /\ routes \in [RouteIds -> RouteRow]
    /\ lastNo \in [RouteIds -> 0..MaxVersion]
    /\ vstatus \in [RouteIds -> [VersionNos -> Statuses]]
    /\ vconfig \in [RouteIds -> [VersionNos -> Config \cup {NoConfig}]]
    /\ vcheck \in [RouteIds -> [VersionNos -> Checks]]
    /\ profiles \in [Profiles -> ProfileRow]

\* A route's pointers and its versions' statuses always agree: the active
\* pointer names the one active version, the draft pointer the one draft, and
\* a version is neither unless it is pointed at.  Every operation updates the
\* two tables by separate statements.
PointersMatchStatus ==
    \A r \in RouteIds, n \in VersionNos :
        /\ vstatus[r][n] = "active" <=> routes[r].active = n
        /\ vstatus[r][n] = "draft" <=> routes[r].draft = n

\* No two routes are active with one hostname IN THEIR CONFIGURATIONS.  The
\* index is on the row's hostname, but the proxy keys its map by the
\* configuration's: were the two to drift apart, one route would silently
\* replace the other in the map.
ActiveHostnamesUnique ==
    \A q, r \in RouteIds :
        /\ q # r
        /\ routes[q].active # NoVersion
        /\ routes[r].active # NoVersion
        => ActiveConfig(q).host # ActiveConfig(r).host

\* A route that is not deleted always has a configuration to clone or export
\* (admin.mjs reads active ?? draft without a test for neither).
RouteHasConfig ==
    \A r \in RouteIds :
        routes[r].state = "present" =>
            routes[r].active # NoVersion \/ routes[r].draft # NoVersion

\* History is append-only.  A version only moves draft -> active -> superseded
\* or draft -> superseded, its configuration is final once it has left draft,
\* its validation record too, and no version is ever removed.
HistoryStep ==
    \A r \in RouteIds, n \in VersionNos :
        /\ vstatus[r][n] = "absent" =>
               vstatus'[r][n] \in {"absent", "draft"}
        /\ vstatus[r][n] = "draft" => vstatus'[r][n] # "absent"
        /\ vstatus[r][n] \in {"active", "superseded"} =>
               /\ vstatus'[r][n] \in {vstatus[r][n], "superseded"}
               /\ vconfig'[r][n] = vconfig[r][n]
               /\ vcheck'[r][n] = vcheck[r][n]

HistoryAppendOnly == [][HistoryStep]_storeVars

\* What the data plane would be told now, hostname by hostname.
ServedBy(h) == {r \in RouteIds : IsServed(r) /\ ActiveConfig(r).host = h}

ServedTable ==
    [h \in Hosts |->
        IF ServedBy(h) = {} THEN Nobody
        ELSE LET r == CHOOSE q \in ServedBy(h) : TRUE
             IN  [route |-> r, config |-> ActiveConfig(r)]]

Table == INSTANCE ServingTable WITH table <- ServedTable, Configs <- Config

\* The store implements the abstract serving table: a transaction publishes,
\* moves or withdraws one route and disturbs no other.
ServesTable == Table!TableSpec

-----------------------------------------------------------------------------
(***************************************************************************)
(* The inductive invariant behind the properties above.                    *)
(***************************************************************************)

\* Versions are numbered without gaps, and only an existing route has any.
VersionsNumbered ==
    \A r \in RouteIds :
        /\ routes[r].state = "absent" <=> lastNo[r] = 0
        /\ \A n \in VersionNos :
               /\ vstatus[r][n] = "absent" <=> n > lastNo[r]
               /\ vconfig[r][n] = NoConfig <=> n > lastNo[r]

\* The row repeats the hostname and the enabled flag of the active version,
\* and a row that is not present points at nothing.
RowMatchesActive ==
    \A r \in RouteIds :
        /\ routes[r].active # NoVersion =>
               /\ routes[r].host = ActiveConfig(r).host
               /\ routes[r].enabled = ActiveConfig(r).enabled
        /\ routes[r].active = NoVersion => ~routes[r].enabled
        /\ routes[r].state # "present" =>
               routes[r].active = NoVersion /\ routes[r].draft = NoVersion

\* The partial unique index routes_active_hostname.
ActiveRowsUnique ==
    \A q, r \in RouteIds :
        /\ q # r
        /\ routes[q].active # NoVersion
        /\ routes[r].active # NoVersion
        => routes[q].host # routes[r].host

StoreInv ==
    /\ StoreTypeOK
    /\ PointersMatchStatus
    /\ VersionsNumbered
    /\ RowMatchesActive
    /\ ActiveRowsUnique
    /\ RouteHasConfig
=============================================================================
