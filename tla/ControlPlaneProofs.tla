-------------------------- MODULE ControlPlaneProofs --------------------------
(***************************************************************************)
(* Proofs about the store and the control plane, for every number of       *)
(* administrators' requests, routes, hostnames and profiles and every      *)
(* bound on versions and revisions.  The store is a specification of its   *)
(* own, and what is proved of it comes first.  The handlers use it as that *)
(* specification allows, so it holds of them too; and the invariant of the *)
(* handlers in progress gives the health gate and the agreement of the     *)
(* proxy's map with the database.                                          *)
(***************************************************************************)
EXTENDS ControlPlane, TLAPS

-----------------------------------------------------------------------------
(***************************************************************************)
(* The store.                                                              *)
(***************************************************************************)
\* Every configuration an administrator can submit is a Config.
LEMMA SubmittedType == SubmittedConfigs \subseteq Config
<1>1. NothingResolved \in [Profiles -> 0..MaxRevision]
  BY BoundsAssumption DEF NothingResolved
<1>2. ASSUME NEW h \in Hosts, NEW e \in BOOLEAN, NEW ps \in SUBSET Profiles
      PROVE  Submitted(h, e, ps) \in Config
  BY <1>1 DEF Submitted, Config
<1> QED BY <1>2 DEF SubmittedConfigs

\* The candidates of an existing version are Configs.
LEMMA CandidatesType ==
    ASSUME StoreTypeOK, NEW r \in RouteIds, NEW n \in VersionNos, vconfig[r][n] # NoConfig
    PROVE  Candidates(r, n) \subseteq Config
<1>1. vconfig[r][n] \in Config
  BY DEF StoreTypeOK
<1>2. ASSUME NEW s \in [Profiles -> 0..MaxRevision]
      PROVE  [vconfig[r][n] EXCEPT !.materialized = TRUE, !.resolved = s] \in Config
  BY <1>1 DEF Config
<1> QED BY <1>1, <1>2 DEF Candidates

-----------------------------------------------------------------------------
(***************************************************************************)
(* One lemma per transaction: it preserves the inductive invariant.        *)
(***************************************************************************)

LEMMA SaveDraftInv ==
    ASSUME StoreInv, NEW r \in RouteIds, NEW cfg \in Config, SaveDraft(r, cfg)
    PROVE  StoreInv'
<1> DEFINE no == lastNo[r] + 1
<1>1. /\ no \in VersionNos /\ no \in 1..MaxVersion /\ no > lastNo[r]
      /\ lastNo[r] \in Nat
      /\ routes[r].state # "deleted"
  BY BoundsAssumption DEF SaveDraft, StoreInv, StoreTypeOK, VersionNos
<1>2. /\ routes' = [routes EXCEPT ![r] =
               [state |-> "present", host |-> HostAfterDraft(r, cfg),
                enabled |-> routes[r].enabled, active |-> routes[r].active, draft |-> no]]
      /\ lastNo' = [lastNo EXCEPT ![r] = no]
      /\ vstatus' = [vstatus EXCEPT ![r] = StatusAfterDraft(r, no)]
      /\ vconfig' = [vconfig EXCEPT ![r] =
               [n \in VersionNos |-> IF n = no THEN cfg ELSE vconfig[r][n]]]
      /\ UNCHANGED <<vcheck, profiles>>
  BY DEF SaveDraft
<1>3. StoreTypeOK'
  <2>1. HostAfterDraft(r, cfg) \in Hosts \cup {NoHost}
    BY DEF HostAfterDraft, StoreInv, StoreTypeOK, RouteRow, Config
  <2>2. routes' \in [RouteIds -> RouteRow]
    BY <1>1, <1>2, <2>1 DEF StoreInv, StoreTypeOK, RouteRow, VersionNos
  <2>3. StatusAfterDraft(r, no) \in [VersionNos -> Statuses]
    BY DEF StatusAfterDraft, StoreInv, StoreTypeOK, Statuses
  <2>4. vstatus' \in [RouteIds -> [VersionNos -> Statuses]]
    BY <1>2, <2>3 DEF StoreInv, StoreTypeOK
  <2>5. vconfig' \in [RouteIds -> [VersionNos -> Config \cup {NoConfig}]]
    BY <1>2 DEF StoreInv, StoreTypeOK
  <2>6. lastNo' \in [RouteIds -> 0..MaxVersion]
    BY <1>1, <1>2 DEF StoreInv, StoreTypeOK, VersionNos
  <2> QED BY <1>2, <2>2, <2>4, <2>5, <2>6 DEF StoreInv, StoreTypeOK
<1>4. /\ \A q \in RouteIds \ {r} : /\ routes'[q] = routes[q] /\ lastNo'[q] = lastNo[q]
                                   /\ vstatus'[q] = vstatus[q] /\ vconfig'[q] = vconfig[q]
      /\ routes'[r] = [state |-> "present", host |-> HostAfterDraft(r, cfg),
                enabled |-> routes[r].enabled, active |-> routes[r].active, draft |-> no]
      /\ lastNo'[r] = no
      /\ \A n \in VersionNos :
            /\ vstatus'[r][n] = IF n = no THEN "draft"
                                ELSE IF n = routes[r].draft /\ vstatus[r][n] = "draft"
                                     THEN "superseded" ELSE vstatus[r][n]
            /\ vconfig'[r][n] = IF n = no THEN cfg ELSE vconfig[r][n]
  BY <1>1, <1>2 DEF StoreInv, StoreTypeOK, StatusAfterDraft
<1>5. /\ vstatus[r][no] = "absent"
      /\ routes[r].active # no /\ routes[r].draft # no
  BY <1>1 DEF StoreInv, VersionsNumbered, PointersMatchStatus, VersionNos
<1>6. PointersMatchStatus'
  BY <1>1, <1>4, <1>5 DEF StoreInv, PointersMatchStatus
<1>7. VersionsNumbered'
  BY <1>1, <1>4, <1>5, NoConfigAssumption DEF StoreInv, VersionsNumbered, VersionNos
<1>8. RowMatchesActive'
  <2>1. routes[r].active # NoVersion => routes[r].active \in VersionNos
    BY BoundsAssumption DEF StoreInv, StoreTypeOK, RouteRow, VersionNos, NoVersion
  <2>2. routes[r].active # NoVersion => ActiveConfig(r)' = ActiveConfig(r)
    BY <1>4, <1>5, <2>1 DEF ActiveConfig
  <2>3. \A q \in RouteIds \ {r} : ActiveConfig(q)' = ActiveConfig(q)
    BY <1>4 DEF ActiveConfig
  <2> QED BY <1>4, <2>2, <2>3 DEF StoreInv, RowMatchesActive, HostAfterDraft
<1>9. ActiveRowsUnique'
  BY <1>4 DEF StoreInv, ActiveRowsUnique, HostAfterDraft
<1>10. RouteHasConfig'
  BY <1>1, <1>4 DEF StoreInv, RouteHasConfig, NoVersion
<1> QED BY <1>3, <1>6, <1>7, <1>8, <1>9, <1>10 DEF StoreInv

LEMMA RecordValidationInv ==
    ASSUME StoreInv, NEW r \in RouteIds, NEW n \in VersionNos, NEW c \in Results,
           RecordValidation(r, n, c)
    PROVE  StoreInv'
<1>1. vcheck' \in [RouteIds -> [VersionNos -> Checks]]
  BY DEF RecordValidation, StoreInv, StoreTypeOK, Checks
<1> QED
  BY <1>1 DEF RecordValidation, StoreInv, StoreTypeOK, PointersMatchStatus, VersionsNumbered,
              RowMatchesActive, ActiveRowsUnique, RouteHasConfig, ActiveConfig

LEMMA ActivateInv ==
    ASSUME StoreInv, NEW r \in RouteIds, NEW n \in VersionNos, NEW cfg \in Config,
           Activate(r, n, cfg)
    PROVE  StoreInv'
<1>1. /\ vstatus[r][n] = "draft" /\ routes[r].state = "present" /\ routes[r].draft = n
      /\ ~HostTaken(r, cfg.host)
      /\ n \in 1..MaxVersion /\ n # NoVersion
  BY BoundsAssumption DEF Activate, CanActivate, VersionNos, NoVersion
<1>2. /\ routes' = [routes EXCEPT ![r] = [state |-> routes[r].state, host |-> cfg.host,
               enabled |-> cfg.enabled, active |-> n, draft |-> NoVersion]]
      /\ vstatus' = [vstatus EXCEPT ![r] = StatusAfterActivation(r, n)]
      /\ vconfig' = [vconfig EXCEPT ![r] =
               [m \in VersionNos |-> IF m = n THEN cfg ELSE vconfig[r][m]]]
      /\ UNCHANGED <<lastNo, vcheck, profiles>>
  BY DEF Activate
<1>3. StoreTypeOK'
  <2>1. routes' \in [RouteIds -> RouteRow]
    BY <1>1, <1>2, BoundsAssumption DEF StoreInv, StoreTypeOK, RouteRow, Config, NoVersion
  <2>2. StatusAfterActivation(r, n) \in [VersionNos -> Statuses]
    BY DEF StatusAfterActivation, StoreInv, StoreTypeOK, Statuses
  <2>3. vstatus' \in [RouteIds -> [VersionNos -> Statuses]]
    BY <1>2, <2>2 DEF StoreInv, StoreTypeOK
  <2>4. vconfig' \in [RouteIds -> [VersionNos -> Config \cup {NoConfig}]]
    BY <1>2 DEF StoreInv, StoreTypeOK
  <2> QED BY <1>2, <2>1, <2>3, <2>4 DEF StoreInv, StoreTypeOK
<1>4. /\ \A q \in RouteIds \ {r} : /\ routes'[q] = routes[q] /\ vstatus'[q] = vstatus[q]
                                   /\ vconfig'[q] = vconfig[q]
      /\ routes'[r] = [state |-> "present", host |-> cfg.host, enabled |-> cfg.enabled,
                       active |-> n, draft |-> NoVersion]
      /\ \A m \in VersionNos :
            /\ vstatus'[r][m] = IF m = n THEN "active"
                                ELSE IF vstatus[r][m] = "active" THEN "superseded"
                                ELSE vstatus[r][m]
            /\ vconfig'[r][m] = IF m = n THEN cfg ELSE vconfig[r][m]
  BY <1>1, <1>2 DEF StoreInv, StoreTypeOK, StatusAfterActivation
<1>5. PointersMatchStatus'
  BY <1>1, <1>4 DEF StoreInv, PointersMatchStatus, NoVersion, VersionNos
<1>6. VersionsNumbered'
  BY <1>1, <1>2, <1>4, NoConfigAssumption DEF StoreInv, VersionsNumbered
<1>7. RowMatchesActive'
  <2>1. ActiveConfig(r)' = cfg
    BY <1>4 DEF ActiveConfig
  <2>2. \A q \in RouteIds \ {r} : ActiveConfig(q)' = ActiveConfig(q)
    BY <1>4 DEF ActiveConfig
  <2> QED BY <1>1, <1>4, <2>1, <2>2 DEF StoreInv, RowMatchesActive
<1>8. ActiveRowsUnique'
  <2>1. \A q \in RouteIds \ {r} : routes[q].active # NoVersion => routes[q].host # cfg.host
    BY <1>1 DEF HostTaken, StoreInv, RowMatchesActive
  <2> QED BY <1>4, <2>1 DEF StoreInv, ActiveRowsUnique
<1>9. RouteHasConfig'
  BY <1>1, <1>4 DEF StoreInv, RouteHasConfig
<1> QED BY <1>3, <1>5, <1>6, <1>7, <1>8, <1>9 DEF StoreInv

LEMMA DeleteRouteInv ==
    ASSUME StoreInv, NEW r \in RouteIds, DeleteRoute(r)
    PROVE  StoreInv'
<1> DEFINE status == [n \in VersionNos |-> IF vstatus[r][n] \in {"active", "draft"}
                                          THEN "superseded" ELSE vstatus[r][n]]
<1>1. /\ routes[r].state = "present"
      /\ routes' = [routes EXCEPT ![r] = [state |-> "deleted", host |-> routes[r].host,
               enabled |-> FALSE, active |-> NoVersion, draft |-> NoVersion]]
      /\ vstatus' = [vstatus EXCEPT ![r] = status]
      /\ UNCHANGED <<lastNo, vconfig, vcheck, profiles>>
  BY DEF DeleteRoute
<1>2. StoreTypeOK'
  <2>1. routes' \in [RouteIds -> RouteRow]
    BY <1>1, BoundsAssumption DEF StoreInv, StoreTypeOK, RouteRow, NoVersion
  <2>2. status \in [VersionNos -> Statuses]
    BY DEF StoreInv, StoreTypeOK, Statuses
  <2>3. vstatus' \in [RouteIds -> [VersionNos -> Statuses]]
    BY <1>1, <2>2 DEF StoreInv, StoreTypeOK
  <2> QED BY <1>1, <2>1, <2>3 DEF StoreInv, StoreTypeOK
<1>3. /\ \A q \in RouteIds \ {r} : routes'[q] = routes[q] /\ vstatus'[q] = vstatus[q]
      /\ routes'[r] = [state |-> "deleted", host |-> routes[r].host,
                       enabled |-> FALSE, active |-> NoVersion, draft |-> NoVersion]
      /\ \A n \in VersionNos :
            vstatus'[r][n] = IF vstatus[r][n] \in {"active", "draft"}
                             THEN "superseded" ELSE vstatus[r][n]
  BY <1>1 DEF StoreInv, StoreTypeOK
<1>4. PointersMatchStatus'
  BY <1>3 DEF StoreInv, PointersMatchStatus, NoVersion, VersionNos
<1>5. VersionsNumbered'
  BY <1>1, <1>3 DEF StoreInv, VersionsNumbered
<1>6. RowMatchesActive'
  <2>1. \A q \in RouteIds \ {r} : ActiveConfig(q)' = ActiveConfig(q)
    BY <1>1, <1>3 DEF ActiveConfig
  <2> QED BY <1>3, <2>1 DEF StoreInv, RowMatchesActive
<1>7. ActiveRowsUnique'
  BY <1>3 DEF StoreInv, ActiveRowsUnique
<1>8. RouteHasConfig'
  BY <1>3 DEF StoreInv, RouteHasConfig
<1> QED BY <1>2, <1>4, <1>5, <1>6, <1>7, <1>8 DEF StoreInv

\* A step on the profiles alone.
LEMMA ProfileStepInv ==
    ASSUME StoreInv, profiles' \in [Profiles -> ProfileRow],
           UNCHANGED <<routes, lastNo, vstatus, vconfig, vcheck>>
    PROVE  StoreInv'
  BY DEF StoreInv, StoreTypeOK, PointersMatchStatus, VersionsNumbered, RowMatchesActive,
         ActiveRowsUnique, RouteHasConfig, ActiveConfig

LEMMA ProfilesInv ==
    ASSUME StoreInv, NEW p \in Profiles,
           (\E e \in BOOLEAN : SaveProfile(p, e)) \/ DeleteProfile(p)
    PROVE  StoreInv'
<1>1. profiles' \in [Profiles -> ProfileRow]
  <2>1. profiles \in [Profiles -> ProfileRow]
    BY DEF StoreInv, StoreTypeOK
  <2>2. ASSUME NEW e \in BOOLEAN, SaveProfile(p, e)
        PROVE  profiles' \in [Profiles -> ProfileRow]
    <3>1. profiles[p].revision + 1 \in 0..MaxRevision
      BY <2>1, <2>2, BoundsAssumption DEF SaveProfile, ProfileRow
    <3> QED BY <2>1, <2>2, <3>1 DEF SaveProfile, ProfileRow
  <2>3. CASE DeleteProfile(p)
    BY <2>1, <2>3, BoundsAssumption DEF DeleteProfile, ProfileRow
  <2> QED BY <2>2, <2>3
<1>2. UNCHANGED <<routes, lastNo, vstatus, vconfig, vcheck>>
  BY DEF SaveProfile, DeleteProfile
<1> QED BY <1>1, <1>2, ProfileStepInv

LEMMA ImportInv ==
    ASSUME StoreInv, NEW cfgs \in ImportedConfigs, NEW ps \in ImportedProfiles,
           Import(cfgs, ps)
    PROVE  StoreInv'
<1>1. PICK R \in SUBSET RouteIds : cfgs \in [R -> {c \in SubmittedConfigs : ~c.enabled}]
  BY DEF ImportedConfigs
<1>2. PICK P \in SUBSET Profiles : ps \in [P -> BOOLEAN]
  BY DEF ImportedProfiles
<1>3. /\ 1 \in VersionNos /\ 1 \in 0..MaxVersion /\ 1 \in 0..MaxRevision
      /\ \A r \in R : cfgs[r] \in Config /\ routes[r].state = "absent"
  BY <1>1, BoundsAssumption, SubmittedType DEF Import, VersionNos
<1>4. /\ \A r \in R : routes'[r] = [state |-> "present", host |-> cfgs[r].host,
              enabled |-> FALSE, active |-> NoVersion, draft |-> 1]
      /\ \A r \in R : lastNo'[r] = 1
      /\ \A r \in R, n \in VersionNos : n = 1 =>
              vstatus'[r][n] = "draft" /\ vconfig'[r][n] = cfgs[r]
      /\ \A r \in R, n \in VersionNos : n # 1 =>
              vstatus'[r][n] = vstatus[r][n] /\ vconfig'[r][n] = vconfig[r][n]
  BY <1>1 DEF Import
<1>5. /\ \A r \in RouteIds \ R :
            /\ routes'[r] = routes[r] /\ lastNo'[r] = lastNo[r]
            /\ vstatus'[r] = vstatus[r] /\ vconfig'[r] = vconfig[r]
      /\ vcheck' = vcheck
  BY <1>1 DEF Import
<1>6. StoreTypeOK'
  <2>1. routes' \in [RouteIds -> RouteRow]
    <3>1. ASSUME NEW r \in R PROVE routes'[r] \in RouteRow
      <4>1. cfgs[r].host \in Hosts
        BY <1>3 DEF Config
      <4>2. routes'[r] = [state |-> "present", host |-> cfgs[r].host,
              enabled |-> FALSE, active |-> NoVersion, draft |-> 1]
        BY <1>4
      <4>3. [state |-> "present", host |-> cfgs[r].host,
              enabled |-> FALSE, active |-> NoVersion, draft |-> 1] \in RouteRow
        BY <1>3, <4>1, BoundsAssumption DEF RouteRow, NoVersion
      <4> QED BY <4>2, <4>3
    <3>2. \A r \in RouteIds \ R : routes'[r] \in RouteRow
      BY <1>4, <1>5 DEF StoreInv, StoreTypeOK
    <3> QED BY <3>1, <3>2 DEF Import
  <2>2. lastNo' \in [RouteIds -> 0..MaxVersion]
    BY <1>3 DEF Import, StoreInv, StoreTypeOK
  <2>3. vstatus' \in [RouteIds -> [VersionNos -> Statuses]]
    BY DEF Import, StoreInv, StoreTypeOK, Statuses
  <2>4. vconfig' \in [RouteIds -> [VersionNos -> Config \cup {NoConfig}]]
    BY <1>1, <1>3 DEF Import, StoreInv, StoreTypeOK
  <2>5. profiles' \in [Profiles -> ProfileRow]
    BY <1>2, <1>3 DEF Import, StoreInv, StoreTypeOK, ProfileRow
  <2> QED BY <1>4, <1>5, <2>1, <2>2, <2>3, <2>4, <2>5 DEF StoreInv, StoreTypeOK
<1>7. \A r \in R : /\ routes'[r].state = "present" /\ ~routes'[r].enabled
                   /\ routes'[r].active = NoVersion /\ routes'[r].draft = 1
  <2> SUFFICES ASSUME NEW r \in R
               PROVE  /\ routes'[r].state = "present" /\ ~routes'[r].enabled
                      /\ routes'[r].active = NoVersion /\ routes'[r].draft = 1
    OBVIOUS
  <2>1. routes'[r] = [state |-> "present", host |-> cfgs[r].host,
              enabled |-> FALSE, active |-> NoVersion, draft |-> 1]
    BY <1>4
  <2> QED BY <2>1
<1>8. \A r \in R : /\ lastNo[r] = 0
                   /\ \A n \in VersionNos : vstatus[r][n] = "absent" /\ vconfig[r][n] = NoConfig
                   /\ routes[r].active = NoVersion /\ routes[r].draft = NoVersion
  BY <1>1, <1>3 DEF StoreInv, VersionsNumbered, RowMatchesActive, VersionNos
<1>9. PointersMatchStatus'
  BY <1>3, <1>4, <1>5, <1>7, <1>8 DEF StoreInv, PointersMatchStatus, NoVersion, VersionNos
<1>10. VersionsNumbered'
  BY <1>3, <1>4, <1>5, <1>7, <1>8, NoConfigAssumption DEF StoreInv, VersionsNumbered, VersionNos
<1>11. RowMatchesActive'
  <2>1. \A r \in RouteIds \ R : ActiveConfig(r)' = ActiveConfig(r)
    BY <1>4, <1>5, <1>7 DEF ActiveConfig
  <2> QED BY <1>4, <1>5, <1>7, <2>1 DEF StoreInv, RowMatchesActive
<1>12. ActiveRowsUnique'
  BY <1>4, <1>5, <1>7 DEF StoreInv, ActiveRowsUnique
<1>13. RouteHasConfig'
  BY <1>4, <1>5, <1>7 DEF StoreInv, RouteHasConfig, NoVersion
<1> QED BY <1>6, <1>9, <1>10, <1>11, <1>12, <1>13 DEF StoreInv

-----------------------------------------------------------------------------
LEMMA InitInv == StoreInit => StoreInv
  BY BoundsAssumption
  DEF StoreInit, StoreInv, StoreTypeOK, PointersMatchStatus, VersionsNumbered, RowMatchesActive,
      ActiveRowsUnique, RouteHasConfig, RouteRow, ProfileRow, Statuses, Checks, NoVersion,
      VersionNos

\* A version that is not absent has a configuration.
LEMMA ExistingConfig ==
    ASSUME StoreInv, NEW r \in RouteIds, NEW n \in VersionNos, vstatus[r][n] # "absent"
    PROVE  vconfig[r][n] \in Config
  BY DEF StoreInv, StoreTypeOK, VersionsNumbered

LEMMA NextInv == StoreInv /\ [StoreNext]_storeVars => StoreInv'
<1> SUFFICES ASSUME StoreInv, [StoreNext]_storeVars PROVE StoreInv'
  OBVIOUS
<1>1. CASE UNCHANGED storeVars
  BY <1>1, ProfileStepInv DEF storeVars, StoreInv, StoreTypeOK
<1>2. ASSUME NEW r \in RouteIds, NEW cfg \in Config, SaveDraft(r, cfg)
      PROVE  StoreInv'
  BY <1>2, SaveDraftInv
<1>3. ASSUME NEW r \in RouteIds, NEW n \in VersionNos, NEW c \in Results,
             RecordValidation(r, n, c)
      PROVE  StoreInv'
  BY <1>3, RecordValidationInv
<1>4. ASSUME NEW r \in RouteIds, NEW n \in VersionNos, vstatus[r][n] = "draft",
             NEW cfg \in Candidates(r, n), Activate(r, n, cfg)
      PROVE  StoreInv'
  <2>1. cfg \in Config
    BY <1>4, ExistingConfig, CandidatesType, NoConfigAssumption DEF StoreInv
  <2> QED BY <1>4, <2>1, ActivateInv
<1>5. ASSUME NEW r \in RouteIds, NEW n \in VersionNos, RollbackDraft(r, n)
      PROVE  StoreInv'
  <2>1. vconfig[r][n] \in Config
    BY <1>5, ExistingConfig DEF RollbackDraft
  <2> QED BY <1>5, <2>1, SaveDraftInv DEF RollbackDraft
<1>6. ASSUME NEW r \in RouteIds, DeleteRoute(r) PROVE StoreInv'
  BY <1>6, DeleteRouteInv
<1>7. ASSUME NEW p \in Profiles, (\E e \in BOOLEAN : SaveProfile(p, e)) \/ DeleteProfile(p)
      PROVE  StoreInv'
  BY <1>7, ProfilesInv
<1>8. ASSUME NEW cfgs \in ImportedConfigs, NEW ps \in ImportedProfiles, Import(cfgs, ps)
      PROVE  StoreInv'
  BY <1>8, ImportInv
<1> QED BY <1>1, <1>2, <1>3, <1>4, <1>5, <1>6, <1>7, <1>8 DEF StoreNext

\* The inductive invariant: whatever sequence of transactions commits, the
\* tables keep their types, pointers and statuses agree, versions are numbered
\* without gaps, the row repeats the active version's hostname and flag, and
\* no two active rows share a hostname.
THEOREM StoreInvariant == StoreSpec => []StoreInv
<1>1. StoreInit => StoreInv
  BY InitInv
<1>2. StoreInv /\ [StoreNext]_storeVars => StoreInv'
  BY NextInv
<1> QED BY <1>1, <1>2, PTL DEF StoreSpec

\* Type correctness of the store's tables.
THEOREM StoreTypes == StoreSpec => []StoreTypeOK
<1>1. StoreInv => StoreTypeOK
  BY DEF StoreInv
<1> QED BY <1>1, StoreInvariant, PTL

\* No two active routes have one hostname in the configurations from which the
\* proxy builds its map.
THEOREM HostnamesUnique == StoreSpec => []ActiveHostnamesUnique
<1>1. StoreInv => ActiveHostnamesUnique
  BY DEF StoreInv, ActiveHostnamesUnique, ActiveRowsUnique, RowMatchesActive
<1> QED BY <1>1, StoreInvariant, PTL

\* A route that is not deleted has an active or a draft configuration.
THEOREM ConfigurationExists == StoreSpec => []RouteHasConfig
<1>1. StoreInv => RouteHasConfig
  BY DEF StoreInv
<1> QED BY <1>1, StoreInvariant, PTL

-----------------------------------------------------------------------------
(***************************************************************************)
(* The version history is append-only.                                     *)
(***************************************************************************)

LEMMA HistoryNext == StoreInv /\ [StoreNext]_storeVars => [HistoryStep]_storeVars
<1> SUFFICES ASSUME StoreInv, StoreNext PROVE HistoryStep
  OBVIOUS
<1>1. ASSUME NEW r \in RouteIds, NEW cfg, SaveDraft(r, cfg) PROVE HistoryStep
  <2>1. lastNo[r] \in Nat /\ lastNo[r] + 1 \in VersionNos
    BY <1>1, BoundsAssumption DEF SaveDraft, StoreInv, StoreTypeOK
  <2>2. vstatus[r][lastNo[r] + 1] = "absent"
    BY <2>1 DEF StoreInv, VersionsNumbered
  <2>3. \A n \in VersionNos :
           /\ vstatus'[r][n] = IF n = lastNo[r] + 1 THEN "draft"
                               ELSE IF n = routes[r].draft /\ vstatus[r][n] = "draft"
                                    THEN "superseded" ELSE vstatus[r][n]
           /\ n # lastNo[r] + 1 => vconfig'[r][n] = vconfig[r][n]
    BY <1>1 DEF SaveDraft, StatusAfterDraft, StoreInv, StoreTypeOK
  <2>4. /\ \A q \in RouteIds \ {r} : vstatus'[q] = vstatus[q] /\ vconfig'[q] = vconfig[q]
        /\ vcheck' = vcheck
    BY <1>1 DEF SaveDraft, StoreInv, StoreTypeOK
  <2> QED BY <2>2, <2>3, <2>4 DEF HistoryStep
<1>2. ASSUME NEW r \in RouteIds, NEW n \in VersionNos, NEW c, RecordValidation(r, n, c)
      PROVE  HistoryStep
  <2>1. /\ \A q \in RouteIds, m \in VersionNos :
              vstatus[q][m] # "draft" => vcheck'[q][m] = vcheck[q][m]
        /\ vstatus' = vstatus /\ vconfig' = vconfig
    BY <1>2 DEF RecordValidation, StoreInv, StoreTypeOK
  <2> QED BY <2>1 DEF HistoryStep
<1>3. ASSUME NEW r \in RouteIds, NEW n \in VersionNos, NEW cfg, Activate(r, n, cfg)
      PROVE  HistoryStep
  <2>1. vstatus[r][n] = "draft"
    BY <1>3 DEF Activate, CanActivate
  <2>2. \A m \in VersionNos :
           /\ vstatus'[r][m] = IF m = n THEN "active"
                               ELSE IF vstatus[r][m] = "active" THEN "superseded"
                               ELSE vstatus[r][m]
           /\ m # n => vconfig'[r][m] = vconfig[r][m]
    BY <1>3 DEF Activate, StatusAfterActivation, StoreInv, StoreTypeOK
  <2>3. /\ \A q \in RouteIds \ {r} : vstatus'[q] = vstatus[q] /\ vconfig'[q] = vconfig[q]
        /\ vcheck' = vcheck
    BY <1>3 DEF Activate, StoreInv, StoreTypeOK
  <2> QED BY <2>1, <2>2, <2>3 DEF HistoryStep
<1>4. ASSUME NEW r \in RouteIds, DeleteRoute(r) PROVE HistoryStep
  <2>1. \A n \in VersionNos :
           vstatus'[r][n] = IF vstatus[r][n] \in {"active", "draft"}
                            THEN "superseded" ELSE vstatus[r][n]
    BY <1>4 DEF DeleteRoute, StoreInv, StoreTypeOK
  <2>2. /\ \A q \in RouteIds \ {r} : vstatus'[q] = vstatus[q]
        /\ vconfig' = vconfig /\ vcheck' = vcheck
    BY <1>4 DEF DeleteRoute, StoreInv, StoreTypeOK
  <2> QED BY <2>1, <2>2 DEF HistoryStep
<1>5. ASSUME NEW p \in Profiles, (\E e \in BOOLEAN : SaveProfile(p, e)) \/ DeleteProfile(p)
      PROVE  HistoryStep
  BY <1>5 DEF SaveProfile, DeleteProfile, HistoryStep
<1>6. ASSUME NEW cfgs \in ImportedConfigs, NEW ps \in ImportedProfiles, Import(cfgs, ps)
      PROVE  HistoryStep
  <2>1. PICK R \in SUBSET RouteIds : cfgs \in [R -> {c \in SubmittedConfigs : ~c.enabled}]
    BY DEF ImportedConfigs
  <2>2. \A r \in R, n \in VersionNos : vstatus[r][n] = "absent"
    BY <1>6, <2>1, SMTT(30) DEF Import, StoreInv, VersionsNumbered, VersionNos
  <2>3. /\ \A r \in R, n \in VersionNos : vstatus'[r][n] \in {"draft", vstatus[r][n]}
        /\ \A r \in RouteIds \ R : vstatus'[r] = vstatus[r] /\ vconfig'[r] = vconfig[r]
        /\ vcheck' = vcheck
    BY <1>6, <2>1 DEF Import
  <2> QED BY <2>1, <2>2, <2>3 DEF HistoryStep
<1>7. ASSUME NEW r \in RouteIds, NEW n \in VersionNos, RollbackDraft(r, n) PROVE HistoryStep
  BY <1>1, <1>7 DEF RollbackDraft
<1> QED BY <1>1, <1>2, <1>3, <1>4, <1>5, <1>6, <1>7 DEF StoreNext

\* No transaction ever revives, rewrites or removes a version that has been
\* active or superseded.
THEOREM HistoryIsAppendOnly == StoreSpec => HistoryAppendOnly
<1>1. StoreInv /\ [StoreNext]_storeVars => [HistoryStep]_storeVars
  BY HistoryNext
<1> QED BY <1>1, StoreInvariant, PTL DEF StoreSpec, HistoryAppendOnly

-----------------------------------------------------------------------------
(***************************************************************************)
(* The store implements the abstract serving table.                        *)
(***************************************************************************)

\* A served route has a present row and a configuration whose hostname no
\* other served route's configuration has.
LEMMA ServedUnique ==
    ASSUME StoreInv, NEW h \in Hosts, NEW q \in ServedBy(h), NEW r \in ServedBy(h)
    PROVE  q = r
  BY DEF StoreInv, ActiveRowsUnique, RowMatchesActive, ServedBy, IsServed

LEMMA ServedConfig ==
    ASSUME StoreInv, NEW r \in RouteIds, IsServed(r)
    PROVE  /\ ActiveConfig(r) \in Config
           /\ ActiveConfig(r).host \in Hosts
<1>1. routes[r].active \in VersionNos
  BY BoundsAssumption DEF IsServed, StoreInv, StoreTypeOK, RouteRow, VersionNos, NoVersion
<1>2. ActiveConfig(r) \in Config
  BY <1>1, ExistingConfig DEF IsServed, ActiveConfig
<1> QED BY <1>2 DEF Config

\* The same facts about the state after a step.
LEMMA ServedFacts ==
    StoreInv =>
        /\ \A h \in Hosts : \A q, r \in ServedBy(h) : q = r
        /\ \A r \in RouteIds : IsServed(r) =>
               ActiveConfig(r) \in Config /\ ActiveConfig(r).host \in Hosts
  BY ServedUnique, ServedConfig

LEMMA ServedFactsAfter ==
    (StoreInv =>
        /\ \A h \in Hosts : \A q, r \in ServedBy(h) : q = r
        /\ \A r \in RouteIds : IsServed(r) =>
               ActiveConfig(r) \in Config /\ ActiveConfig(r).host \in Hosts)'
  BY ServedFacts, PTL

\* The table's entry of a hostname, without CHOOSE.
LEMMA TableEntry ==
    ASSUME StoreInv, NEW h \in Hosts
    PROVE  /\ \A r \in ServedBy(h) :
                 ServedTable[h] = [route |-> r, config |-> ActiveConfig(r)]
           /\ ServedBy(h) = {} => ServedTable[h] = Nobody
<1>1. ASSUME NEW r \in ServedBy(h)
      PROVE  ServedTable[h] = [route |-> r, config |-> ActiveConfig(r)]
  <2>1. (CHOOSE q \in ServedBy(h) : TRUE) \in ServedBy(h)
    BY <1>1
  <2>2. (CHOOSE q \in ServedBy(h) : TRUE) = r
    BY <2>1, ServedUnique
  <2> QED BY <2>2 DEF ServedTable
<1> QED BY <1>1 DEF ServedTable

\* Route r owns the entry of h exactly when it is served there.
LEMMA OwnsServed ==
    ASSUME StoreInv, NEW h \in Hosts, NEW r \in RouteIds
    PROVE  /\ Table!Owns(r, h) <=> r \in ServedBy(h)
           /\ ServedTable[h] = Nobody <=> ServedBy(h) = {}
<1>1. CASE ServedBy(h) = {}
  BY <1>1, TableEntry DEF Table!Owns
<1>2. CASE ServedBy(h) # {}
  <2>1. PICK q \in ServedBy(h) : TRUE
    BY <1>2
  <2>2. q \in RouteIds /\ IsServed(q)
    BY <2>1 DEF ServedBy
  <2>3. ServedTable[h] = [route |-> q, config |-> ActiveConfig(q)]
    BY <2>1, TableEntry
  <2>4. ServedTable[h] # Nobody
    BY <2>2, <2>3, ServedConfig, NobodyAssumption
  <2>5. r \in ServedBy(h) <=> r = q
    BY <2>1, ServedUnique
  <2> QED BY <1>2, <2>3, <2>4, <2>5 DEF Table!Owns
<1> QED BY <1>1, <1>2

\* A step that changes what is served by route r alone is a step of the table.
LEMMA OneRouteStep ==
    ASSUME StoreInv, StoreInv', NEW r \in RouteIds,
           \A q \in RouteIds \ {r} : /\ IsServed(q)' = IsServed(q)
                                     /\ ActiveConfig(q)' = ActiveConfig(q)
    PROVE  Table!TableNext
<1>1. ASSUME NEW k \in Hosts, NEW q \in RouteIds \ {r}
      PROVE  (q \in ServedBy(k))' <=> q \in ServedBy(k)
  BY DEF ServedBy
<1>2. ASSUME NEW k \in Hosts, ~(r \in ServedBy(k))'
      PROVE  ServedTable'[k] = IF Table!Owns(r, k) THEN Nobody ELSE ServedTable[k]
  <2>1. CASE Table!Owns(r, k)
    <3>1. ServedBy(k) = {r}
      BY <2>1, OwnsServed, ServedUnique
    <3>2. ServedBy(k)' = {}
      BY <1>1, <1>2, <3>1 DEF ServedBy
    <3> QED BY <2>1, <3>2 DEF ServedTable
  <2>2. CASE ~Table!Owns(r, k)
    <3>1. r \notin ServedBy(k)
      BY <2>2, OwnsServed
    <3>2. ServedBy(k)' = ServedBy(k)
      BY <1>1, <1>2, <3>1 DEF ServedBy
    <3>3. CASE ServedBy(k) = {}
      BY <2>2, <3>2, <3>3 DEF ServedTable
    <3>4. CASE ServedBy(k) # {}
      <4>1. PICK q \in ServedBy(k) : TRUE
        BY <3>4
      <4>2. q \in RouteIds \ {r} /\ (q \in ServedBy(k))'
        BY <3>1, <3>2, <4>1 DEF ServedBy
      <4>3. ServedTable[k] = [route |-> q, config |-> ActiveConfig(q)]
        BY <4>1, TableEntry
      <4>4. ServedTable'[k] = [route |-> q, config |-> ActiveConfig(q)']
        <5>1. (CHOOSE p \in ServedBy(k)' : TRUE) \in ServedBy(k)'
          BY <4>2
        <5>2. (CHOOSE p \in ServedBy(k)' : TRUE) = q
          BY <3>2, <4>1, <5>1, ServedUnique
        <5> QED BY <4>2, <5>2 DEF ServedTable
      <4> QED BY <2>2, <4>2, <4>3, <4>4
    <3> QED BY <3>3, <3>4
  <2> QED BY <2>1, <2>2
<1>3. CASE ~IsServed(r)'
  <2>1. \A k \in Hosts : ~(r \in ServedBy(k))'
    BY <1>3 DEF ServedBy
  <2>2. ServedTable' = [k \in Hosts |-> IF Table!Owns(r, k) THEN Nobody ELSE ServedTable[k]]
    BY <1>2, <2>1 DEF ServedTable
  <2>3. Table!Withdraw(r)
    BY <2>2 DEF Table!Withdraw
  <2> QED BY <2>3 DEF Table!TableNext
<1>4. CASE IsServed(r)'
  <2>1. PICK c \in Config, h \in Hosts : c = ActiveConfig(r)' /\ h = c.host
    BY <1>4, ServedFactsAfter
  <2>2. (r \in ServedBy(h))' /\ \A k \in Hosts \ {h} : ~(r \in ServedBy(k))'
    BY <1>4, <2>1 DEF ServedBy
  <2>3. ServedTable'[h] = [route |-> r, config |-> c]
    <3>1. (CHOOSE p \in ServedBy(h)' : TRUE) \in ServedBy(h)'
      BY <2>2
    <3>2. (CHOOSE p \in ServedBy(h)' : TRUE) = r
      BY <2>1, <2>2, <3>1, ServedFactsAfter
    <3> QED BY <2>1, <2>2, <3>2 DEF ServedTable
  <2>4. ServedTable[h] = Nobody \/ Table!Owns(r, h)
    <3>1. \A q \in ServedBy(h) : q = r
      BY <1>1, <2>1, <2>2, ServedFactsAfter DEF ServedBy
    <3> QED BY <2>1, <3>1, OwnsServed
  <2>5. ServedTable' = [k \in Hosts |-> IF k = h THEN [route |-> r, config |-> c]
                                      ELSE IF Table!Owns(r, k) THEN Nobody
                                      ELSE ServedTable[k]]
    <3>1. \A k \in Hosts : ServedTable'[k] =
              IF k = h THEN [route |-> r, config |-> c]
              ELSE IF Table!Owns(r, k) THEN Nobody ELSE ServedTable[k]
      BY <1>2, <2>2, <2>3
    <3> QED BY <3>1 DEF ServedTable
  <2>6. Table!Publish(r, h, c)
    BY <2>4, <2>5 DEF Table!Publish
  <2> QED BY <2>1, <2>6 DEF Table!TableNext
<1> QED BY <1>3, <1>4

\* A step that changes what no route serves leaves the table as it is.
LEMMA NoRouteStep ==
    ASSUME \A q \in RouteIds : IsServed(q)' = IsServed(q) /\
               (IsServed(q) => ActiveConfig(q)' = ActiveConfig(q))
    PROVE  ServedTable' = ServedTable
<1>1. ASSUME NEW h \in Hosts
      PROVE  ServedTable'[h] = ServedTable[h]
  <2>1. ServedBy(h)' = ServedBy(h)
    BY DEF ServedBy
  <2>2. \A q \in ServedBy(h) : ActiveConfig(q)' = ActiveConfig(q)
    BY DEF ServedBy
  <2>3. CASE ServedBy(h) = {}
    BY <2>1, <2>3 DEF ServedTable
  <2>4. CASE ServedBy(h) # {}
    <3>1. (CHOOSE q \in ServedBy(h) : TRUE) \in ServedBy(h)
      BY <2>4
    <3> QED BY <2>1, <2>2, <2>4, <3>1 DEF ServedTable
  <2> QED BY <2>3, <2>4
<1> QED BY <1>1 DEF ServedTable

\* What is read of a version that is not served does not matter.
LEMMA SameTables ==
    ASSUME UNCHANGED <<routes, vstatus, vconfig>>
    PROVE  ServedTable' = ServedTable
  BY NoRouteStep DEF IsServed, ActiveConfig

\* Imported routes are not served.
LEMMA ImportServesNothing ==
    ASSUME StoreInv, NEW cfgs \in ImportedConfigs, NEW ps \in ImportedProfiles, Import(cfgs, ps)
    PROVE  ServedTable' = ServedTable
<1>1. PICK R \in SUBSET RouteIds : cfgs \in [R -> {c \in SubmittedConfigs : ~c.enabled}]
  BY DEF ImportedConfigs
<1>2. \A r \in R : ~IsServed(r)
  BY <1>1 DEF Import, IsServed
<1>3. \A r \in R : routes'[r] = [state |-> "present", host |-> cfgs[r].host,
           enabled |-> FALSE, active |-> NoVersion, draft |-> 1]
  BY <1>1 DEF Import
<1>4. ASSUME NEW r \in R PROVE ~IsServed(r)'
  <2>1. routes'[r] = [state |-> "present", host |-> cfgs[r].host,
            enabled |-> FALSE, active |-> NoVersion, draft |-> 1]
    BY <1>3
  <2>2. ~routes'[r].enabled
    BY <2>1
  <2> QED BY <2>2 DEF IsServed
<1>5. \A r \in RouteIds \ R : /\ routes'[r] = routes[r] /\ vstatus'[r] = vstatus[r]
                               /\ vconfig'[r] = vconfig[r]
  BY <1>1 DEF Import
<1>6. \A r \in RouteIds \ R : IsServed(r)' = IsServed(r) /\ ActiveConfig(r)' = ActiveConfig(r)
  BY <1>5 DEF IsServed, ActiveConfig
<1>7. ASSUME NEW q \in RouteIds
      PROVE  IsServed(q)' = IsServed(q) /\ (IsServed(q) => ActiveConfig(q)' = ActiveConfig(q))
  <2>1. CASE q \in R
    <3>1. ~IsServed(q) /\ ~IsServed(q)'
      BY <1>2, <1>4, <2>1
    <3> QED BY <3>1 DEF IsServed
  <2>2. CASE q \notin R
    BY <1>6, <2>2
  <2> QED BY <2>1, <2>2
<1> QED BY <1>7, NoRouteStep

LEMMA StepRefines ==
    StoreInv /\ StoreInv' /\ [StoreNext]_storeVars => [Table!TableNext]_ServedTable
<1> SUFFICES ASSUME StoreInv, StoreInv', [StoreNext]_storeVars
             PROVE  Table!TableNext \/ ServedTable' = ServedTable
  OBVIOUS
<1>2. ASSUME NEW r \in RouteIds,
             \A q \in RouteIds \ {r} : /\ routes'[q] = routes[q] /\ vstatus'[q] = vstatus[q]
                                       /\ vconfig'[q] = vconfig[q]
      PROVE  Table!TableNext
  BY <1>2, OneRouteStep DEF IsServed, ActiveConfig
<1>3. CASE UNCHANGED storeVars
  BY <1>3, SameTables DEF storeVars
<1>4. ASSUME NEW r \in RouteIds, NEW cfg, SaveDraft(r, cfg) PROVE Table!TableNext
  BY <1>2, <1>4 DEF SaveDraft, StoreInv, StoreTypeOK
<1>5. ASSUME NEW r \in RouteIds, NEW n \in VersionNos, RollbackDraft(r, n)
      PROVE  Table!TableNext
  BY <1>4, <1>5 DEF RollbackDraft
<1>6. ASSUME NEW r \in RouteIds, NEW n, NEW c, RecordValidation(r, n, c)
      PROVE  ServedTable' = ServedTable
  BY <1>6, SameTables DEF RecordValidation
<1>7. ASSUME NEW r \in RouteIds, NEW n, NEW cfg, Activate(r, n, cfg) PROVE Table!TableNext
  BY <1>2, <1>7 DEF Activate, StoreInv, StoreTypeOK
<1>8. ASSUME NEW r \in RouteIds, DeleteRoute(r) PROVE Table!TableNext
  BY <1>2, <1>8 DEF DeleteRoute, StoreInv, StoreTypeOK
<1>9. ASSUME NEW p \in Profiles, (\E e \in BOOLEAN : SaveProfile(p, e)) \/ DeleteProfile(p)
      PROVE  ServedTable' = ServedTable
  BY <1>9, SameTables DEF SaveProfile, DeleteProfile
<1>10. ASSUME NEW cfgs \in ImportedConfigs, NEW ps \in ImportedProfiles, Import(cfgs, ps)
       PROVE  ServedTable' = ServedTable
  BY <1>10, ImportServesNothing
<1> QED BY <1>3, <1>4, <1>5, <1>6, <1>7, <1>8, <1>9, <1>10 DEF StoreNext

\* What the data plane is told follows the abstract serving table: every
\* transaction publishes, moves or withdraws the entry of one route and leaves
\* every other route's entry alone.
THEOREM StoreServesTable == StoreSpec => ServesTable
<1>1. StoreInit => Table!TableInit
  BY DEF StoreInit, Table!TableInit, ServedTable, ServedBy, IsServed
<1>2. StoreInv /\ StoreInv' /\ [StoreNext]_storeVars => [Table!TableNext]_ServedTable
  BY StepRefines
<1> QED BY <1>1, <1>2, StoreInvariant, PTL DEF StoreSpec, ServesTable, Table!TableSpec

-----------------------------------------------------------------------------
(***************************************************************************)
(* The handlers.                                                           *)
(***************************************************************************)
Requests == [kind : Kinds, stage : Stages, route : RouteIds, version : 0..MaxVersion,
             source : 0..MaxVersion, cand : Config \cup {NoConfig}, check : Checks]

\* The transactions that change nothing of what is active.
Quiet ==
    \/ UNCHANGED storeVars
    \/ \E r \in RouteIds, cfg \in Config : SaveDraft(r, cfg)
    \/ \E r \in RouteIds, n \in VersionNos, c \in Results :
           vstatus[r][n] # "absent" /\ RecordValidation(r, n, c)
    \/ \E p \in Profiles : (\E e \in BOOLEAN : SaveProfile(p, e)) \/ DeleteProfile(p)
    \/ \E cfgs \in ImportedConfigs, ps \in ImportedProfiles : Import(cfgs, ps)

LEMMA QuietNext == Quiet => [StoreNext]_storeVars
  BY DEF Quiet, StoreNext

\* A draft's configuration stays as long as it is a draft.
LEMMA DraftsKept ==
    ASSUME StoreInv, [StoreNext]_storeVars, NEW r \in RouteIds, NEW n \in VersionNos,
           vstatus[r][n] # "absent"
    PROVE  /\ vstatus'[r][n] # "absent"
           /\ vstatus'[r][n] = "draft" =>
                  vstatus[r][n] = "draft" /\ vconfig'[r][n] = vconfig[r][n]
<1>1. [HistoryStep]_storeVars
  BY HistoryNext
<1>2. vstatus'[r][n] # "absent" /\ (vstatus'[r][n] = "draft" => vstatus[r][n] = "draft")
  <2>1. CASE HistoryStep
    <3>1. vstatus[r][n] \in Statuses
      BY DEF StoreInv, StoreTypeOK
    <3> QED BY <2>1, <3>1 DEF HistoryStep, Statuses
  <2>2. CASE UNCHANGED storeVars
    BY <2>2 DEF storeVars
  <2> QED BY <1>1, <2>1, <2>2
<1>3. ASSUME vstatus'[r][n] = "draft" PROVE vconfig'[r][n] = vconfig[r][n]
  <2>1. CASE UNCHANGED storeVars
    BY <2>1 DEF storeVars
  <2>2. ASSUME NEW q \in RouteIds, NEW cfg, SaveDraft(q, cfg) PROVE vconfig'[r][n] = vconfig[r][n]
    <3>1. lastNo[q] + 1 \in VersionNos /\ vstatus[q][lastNo[q] + 1] = "absent"
      BY <2>2, BoundsAssumption DEF SaveDraft, StoreInv, StoreTypeOK, VersionsNumbered
    <3> QED BY <2>2, <3>1 DEF SaveDraft, StoreInv, StoreTypeOK
  <2>3. ASSUME NEW q \in RouteIds, NEW m \in VersionNos, NEW cfg, Activate(q, m, cfg)
        PROVE  vconfig'[r][n] = vconfig[r][n]
    <3>1. vstatus'[q][m] = "active"
      BY <2>3 DEF Activate, StatusAfterActivation, StoreInv, StoreTypeOK
    <3> QED BY <1>3, <2>3, <3>1 DEF Activate, StoreInv, StoreTypeOK
  <2>4. ASSUME NEW cfgs \in ImportedConfigs, NEW ps \in ImportedProfiles, Import(cfgs, ps)
        PROVE  vconfig'[r][n] = vconfig[r][n]
    <3>1. PICK R \in SUBSET RouteIds : cfgs \in [R -> {c \in SubmittedConfigs : ~c.enabled}]
      BY DEF ImportedConfigs
    <3>2. r \notin R
      BY <2>4, <3>1 DEF Import, StoreInv, VersionsNumbered, VersionNos
    <3> QED BY <2>4, <3>1, <3>2 DEF Import
  <2>5. ASSUME UNCHANGED vconfig PROVE vconfig'[r][n] = vconfig[r][n]
    BY <2>5
  <2> QED BY <2>1, <2>2, <2>3, <2>4, <2>5
          DEF StoreNext, RollbackDraft, RecordValidation, DeleteRoute, SaveProfile, DeleteProfile
<1> QED BY <1>2, <1>3

\* History stays as it is.
LEMMA HistoryKept ==
    ASSUME StoreInv, [StoreNext]_storeVars, NEW r \in RouteIds, NEW n \in VersionNos,
           vstatus[r][n] \in {"active", "superseded"}
    PROVE  /\ vstatus'[r][n] \in {vstatus[r][n], "superseded"}
           /\ vconfig'[r][n] = vconfig[r][n] /\ vcheck'[r][n] = vcheck[r][n]
<1>1. [HistoryStep]_storeVars
  BY HistoryNext
<1> QED BY <1>1 DEF HistoryStep, storeVars

-----------------------------------------------------------------------------
(* What is active and served.                                              *)

\* Nothing is activated and no active version is enabled or disabled.
RowsKept ==
    \A q \in RouteIds : routes'[q].active # NoVersion =>
        routes'[q].active = routes[q].active /\ routes'[q].enabled = routes[q].enabled

LEMMA SaveDraftQuiet ==
    ASSUME StoreInv, NEW r \in RouteIds, NEW cfg, SaveDraft(r, cfg)
    PROVE  ServedTable' = ServedTable /\ RowsKept
<1> DEFINE no == lastNo[r] + 1
<1>1. no \in VersionNos /\ vstatus[r][no] = "absent"
  BY BoundsAssumption DEF SaveDraft, StoreInv, StoreTypeOK, VersionsNumbered
<1>2. /\ \A q \in RouteIds \ {r} : routes'[q] = routes[q] /\ vstatus'[q] = vstatus[q]
                                   /\ vconfig'[q] = vconfig[q]
      /\ routes'[r].active = routes[r].active /\ routes'[r].enabled = routes[r].enabled
      /\ routes'[r].state = "present"
      /\ \A n \in VersionNos : n # no =>
            /\ vstatus'[r][n] = "active" <=> vstatus[r][n] = "active"
            /\ vconfig'[r][n] = vconfig[r][n]
  BY <1>1 DEF SaveDraft, StatusAfterDraft, StoreInv, StoreTypeOK
<1>3. routes[r].active # NoVersion =>
          routes[r].active \in VersionNos /\ routes[r].active # no /\ routes[r].state = "present"
  <2>1. routes[r].active # NoVersion => routes[r].active \in VersionNos
    BY BoundsAssumption DEF StoreInv, StoreTypeOK, RouteRow, VersionNos, NoVersion
  <2>2. routes[r].active # no
    BY <1>1 DEF StoreInv, PointersMatchStatus
  <2> QED BY <2>1, <2>2 DEF StoreInv, RowMatchesActive
<1>4. ASSUME NEW q \in RouteIds
      PROVE  IsServed(q)' = IsServed(q) /\ (IsServed(q) => ActiveConfig(q)' = ActiveConfig(q))
  <2>1. CASE q # r
    BY <1>2, <2>1 DEF IsServed, ActiveConfig
  <2>2. CASE q = r
    BY <1>2, <1>3, <2>2 DEF IsServed, ActiveConfig
  <2> QED BY <2>1, <2>2
<1>5. RowsKept
  BY <1>2 DEF RowsKept
<1> QED BY <1>4, <1>5, NoRouteStep

LEMMA QuietServes ==
    ASSUME StoreInv, Quiet
    PROVE  ServedTable' = ServedTable /\ RowsKept
<1>1. CASE UNCHANGED routes /\ UNCHANGED vstatus /\ UNCHANGED vconfig
  BY <1>1, SameTables DEF RowsKept
<1>2. ASSUME NEW r \in RouteIds, NEW cfg \in Config, SaveDraft(r, cfg)
      PROVE  ServedTable' = ServedTable /\ RowsKept
  BY <1>2, SaveDraftQuiet
<1>3. ASSUME NEW cfgs \in ImportedConfigs, NEW ps \in ImportedProfiles, Import(cfgs, ps)
      PROVE  ServedTable' = ServedTable /\ RowsKept
  <2>1. PICK R \in SUBSET RouteIds : cfgs \in [R -> {c \in SubmittedConfigs : ~c.enabled}]
    BY DEF ImportedConfigs
  <2>2. ASSUME NEW q \in RouteIds, routes'[q].active # NoVersion PROVE routes'[q] = routes[q]
    <3>1. q \in R => routes'[q] = [state |-> "present", host |-> cfgs[q].host,
             enabled |-> FALSE, active |-> NoVersion, draft |-> 1]
      BY <1>3, <2>1 DEF Import
    <3>2. q \notin R
      BY <2>2, <3>1
    <3> QED BY <1>3, <2>1, <3>2 DEF Import
  <2> QED BY <1>3, <2>2, ImportServesNothing DEF RowsKept
<1> QED BY <1>1, <1>2, <1>3 DEF Quiet, storeVars, RecordValidation, SaveProfile, DeleteProfile

\* The health gate survives every step that activates nothing.
LEMMA GateKept ==
    ASSUME StoreInv, HealthGate, [StoreNext]_storeVars, RowsKept
    PROVE  HealthGate'
<1> SUFFICES ASSUME NEW r \in RouteIds, routes'[r].active # NoVersion, routes'[r].enabled
             PROVE  vcheck'[r][routes'[r].active] = "ok"
  BY DEF HealthGate
<1>1. routes'[r].active = routes[r].active /\ routes[r].enabled
  BY DEF RowsKept
<1>2. routes[r].active \in VersionNos /\ vstatus[r][routes[r].active] = "active"
  BY <1>1, BoundsAssumption
  DEF StoreInv, StoreTypeOK, RouteRow, VersionNos, NoVersion, PointersMatchStatus
<1>3. vcheck[r][routes[r].active] = "ok"
  BY <1>1 DEF HealthGate
<1> QED BY <1>1, <1>2, <1>3, HistoryKept

-----------------------------------------------------------------------------
(* Handlers that wait.                                                     *)

Sound(q) == Staged(q) /\ FromDraft(q) /\ Gated(q) /\ FromSource(q)

LEMMA CandidatesKept ==
    ASSUME NEW r \in RouteIds, NEW n \in VersionNos, vconfig'[r][n] = vconfig[r][n]
    PROVE  Candidates(r, n)' = Candidates(r, n)
  BY DEF Candidates

\* The draft stays the candidate's.
LEMMA FromDraftKept ==
    ASSUME StoreInv, [StoreNext]_storeVars, NEW q \in Requests, FromDraft(q)
    PROVE  FromDraft(q)'
<1> SUFFICES ASSUME q.version # NoVersion
             PROVE  /\ vstatus'[q.route][q.version] # "absent"
                    /\ vstatus'[q.route][q.version] = "draft" =>
                           q.cand \in Candidates(q.route, q.version)'
  BY DEF FromDraft
<1>1. q.route \in RouteIds /\ q.version \in VersionNos
  BY BoundsAssumption DEF Requests, VersionNos, NoVersion
<1>2. /\ vstatus[q.route][q.version] # "absent"
      /\ vstatus[q.route][q.version] = "draft" => q.cand \in Candidates(q.route, q.version)
  BY DEF FromDraft
<1>3. /\ vstatus'[q.route][q.version] # "absent"
      /\ vstatus'[q.route][q.version] = "draft" =>
             /\ vstatus[q.route][q.version] = "draft"
             /\ vconfig'[q.route][q.version] = vconfig[q.route][q.version]
  BY <1>1, <1>2, DraftsKept
<1> QED BY <1>1, <1>2, <1>3, CandidatesKept

\* The source stays history, the candidate its configuration.
LEMMA FromSourceKept ==
    ASSUME StoreInv, [StoreNext]_storeVars, NEW q \in Requests, FromSource(q),
           q.kind = "enabled" /\ q.stage \in {"record", "commit"} =>
               routes'[q.route].active = q.source
    PROVE  FromSource(q)'
<1>1. q.route \in RouteIds
  BY DEF Requests
<1>2. ASSUME q.kind = "rollback"
      PROVE  /\ q.source \in VersionNos /\ vstatus'[q.route][q.source] = "superseded"
             /\ q.cand = vconfig'[q.route][q.source]
  <2>1. /\ q.source \in VersionNos /\ vstatus[q.route][q.source] = "superseded"
        /\ q.cand = vconfig[q.route][q.source]
    BY <1>2 DEF FromSource
  <2>2. /\ vstatus'[q.route][q.source] \in {vstatus[q.route][q.source], "superseded"}
        /\ vconfig'[q.route][q.source] = vconfig[q.route][q.source]
    BY <1>1, <2>1, HistoryKept
  <2> QED BY <2>1, <2>2
<1>3. ASSUME q.kind = "enabled"
      PROVE  /\ q.source \in VersionNos /\ vstatus'[q.route][q.source] \in {"active", "superseded"}
             /\ q.cand = [vconfig'[q.route][q.source] EXCEPT !.enabled = q.cand.enabled]
  <2>1. /\ q.source \in VersionNos /\ vstatus[q.route][q.source] \in {"active", "superseded"}
        /\ q.cand = [vconfig[q.route][q.source] EXCEPT !.enabled = q.cand.enabled]
    BY <1>3 DEF FromSource
  <2>2. /\ vstatus'[q.route][q.source] \in {vstatus[q.route][q.source], "superseded"}
        /\ vconfig'[q.route][q.source] = vconfig[q.route][q.source]
    BY <1>1, <2>1, HistoryKept
  <2> QED BY <2>1, <2>2
<1> QED BY <1>2, <1>3 DEF FromSource

\* What a handler knows while it waits stays true whatever the others do.
LEMMA WaitingKept ==
    ASSUME StoreInv, [StoreNext]_storeVars, NEW q \in Requests, q.stage \notin Held, Sound(q)
    PROVE  Sound(q)'
<1>1. Staged(q)'
  BY DEF Sound, Staged, Config
<1>2. FromDraft(q)'
  BY FromDraftKept DEF Sound
<1>3. Gated(q)'
  BY DEF Gated, Held
<1>4. FromSource(q)'
  BY FromSourceKept DEF Sound, Held
<1> QED BY <1>1, <1>2, <1>3, <1>4 DEF Sound

LEMMA IdleSound == Sound(Idle)
  BY BoundsAssumption DEF Sound, Staged, FromDraft, Gated, FromSource, Idle, NoVersion

LEMMA IdleSoundAfter == Sound(Idle)'
  BY IdleSound, PTL

\* What the invariant says of one handler, with its request by name.
LEMMA TheRequest ==
    ASSUME ControlInv, NEW h \in Handlers
    PROVE  \E q \in Requests \cup {Idle} : q = req[h] /\ Sound(q)
<1>1. req[h] \in Requests \cup {Idle}
  BY DEF ControlInv, TypeOK, Requests
<1>2. Sound(req[h])
  BY DEF ControlInv, RequestsSound, Sound
<1> QED BY <1>1, <1>2

\* One handler moves, the others wait or are idle.
LEMMA OneMoves ==
    ASSUME ControlInv, [StoreNext]_storeVars, NEW h \in Handlers,
           NEW q \in Requests \cup {Idle}, Sound(q)', req' = [req EXCEPT ![h] = q],
           running \in {h, NoHandler}
    PROVE  RequestsSound' /\ req' \in [Handlers -> {Idle} \cup Requests]
<1>1. ASSUME NEW g \in Handlers PROVE Sound(req[g])'
  <2>1. CASE g = h
    <3>1. req'[g] = q
      BY <2>1 DEF ControlInv, TypeOK
    <3> QED BY <3>1, SMTT(30) DEF Sound, Staged, FromDraft, Gated, FromSource
  <2>2. CASE g # h
    <3>1. PICK p \in Requests \cup {Idle} : p = req[g] /\ Sound(p)
      BY TheRequest
    <3>2. p.stage \notin Held
      BY <2>2, <3>1, NoHandlerAssumption DEF ControlInv, OneRuns
    <3>3. Sound(p)'
      <4>1. CASE p = Idle
        BY <4>1, IdleSoundAfter
      <4>2. CASE p \in Requests
        BY <3>1, <3>2, <4>2, WaitingKept DEF ControlInv
      <4> QED BY <4>1, <4>2
    <3>4. req'[g] = p
      BY <2>2, <3>1 DEF ControlInv, TypeOK
    <3> QED BY <3>3, <3>4 DEF Sound, Staged, FromDraft, Gated, FromSource
  <2> QED BY <2>1, <2>2, SMTT(30)
<1>2. RequestsSound'
  BY <1>1 DEF RequestsSound, Sound
<1>3. req' \in [Handlers -> {Idle} \cup Requests]
  BY DEF ControlInv, TypeOK, Requests
<1> QED BY <1>2, <1>3

-----------------------------------------------------------------------------
(* Steps that activate nothing.                                            *)

\* The invariant without the handlers and the map.
LEMMA QuietStore ==
    ASSUME ControlInv, Quiet
    PROVE  /\ [StoreNext]_storeVars /\ StoreInv' /\ HealthGate'
           /\ ServedTable' = ServedTable
<1>1. StoreInv /\ HealthGate
  BY DEF ControlInv
<1>2. [StoreNext]_storeVars /\ ServedTable' = ServedTable /\ RowsKept
  BY <1>1, QuietNext, QuietServes
<1>3. StoreInv' /\ HealthGate'
  BY <1>1, <1>2, NextInv, GateKept
<1> QED BY <1>2, <1>3

LEMMA QuietStep ==
    ASSUME ControlInv, Quiet, UNCHANGED <<up, live>>, NEW h \in Handlers,
           NEW q \in Requests \cup {Idle}, Sound(q)', req' = [req EXCEPT ![h] = q],
           running \in {h, NoHandler}, q.stage # "reload", req[h].stage # "reload",
           running' = IF q.stage \in Held THEN h ELSE NoHandler
    PROVE  ControlInv'
<1>1. /\ [StoreNext]_storeVars /\ StoreInv' /\ HealthGate'
      /\ ServedTable' = ServedTable
  BY QuietStore
<1>2. RequestsSound' /\ req' \in [Handlers -> {Idle} \cup Requests]
  BY <1>1, OneMoves
<1>3. TypeOK'
  BY <1>1, <1>2 DEF ControlInv, TypeOK, StoreInv, Requests
<1>4. req'[h] = q /\ \A g \in Handlers \ {h} : req'[g] = req[g]
  BY DEF ControlInv, TypeOK
<1>5. OneRuns'
  BY <1>4, NoHandlerAssumption DEF ControlInv, OneRuns
<1>6. LiveMatchesStore'
  BY <1>1 DEF ControlInv, LiveMatchesStore
<1>7. ReloadPending'
  BY <1>4, NoHandlerAssumption DEF ReloadPending
<1> QED BY <1>1, <1>2, <1>3, <1>5, <1>6, <1>7 DEF ControlInv

\* Transactions of handlers that do not wait.
LEMMA QuietEdit ==
    ASSUME ControlInv, Quiet, running = NoHandler, UNCHANGED <<up, live, running, req>>
    PROVE  ControlInv'
<1>1. /\ [StoreNext]_storeVars /\ StoreInv' /\ HealthGate'
      /\ ServedTable' = ServedTable
  BY QuietStore, SMTT(30)
<1>2. ASSUME NEW h \in Handlers PROVE Sound(req[h])'
  <2>1. PICK p \in Requests \cup {Idle} : p = req[h] /\ Sound(p)
    BY TheRequest
  <2>2. req' = [req EXCEPT ![h] = p]
    BY <2>1 DEF ControlInv, TypeOK
  <2>3. p.stage \notin Held
    BY <2>1, NoHandlerAssumption DEF ControlInv, OneRuns
  <2>4. Sound(p)'
    <3>1. CASE p = Idle
      BY <3>1, IdleSoundAfter
    <3>2. CASE p \in Requests
      BY <1>1, <2>1, <2>3, <3>2, WaitingKept DEF ControlInv
    <3> QED BY <3>1, <3>2
  <2> QED BY <2>1, <2>4 DEF Sound, Staged, FromDraft, Gated, FromSource
<1>3. RequestsSound'
  BY <1>2 DEF RequestsSound, Sound
<1>4. TypeOK' /\ OneRuns' /\ ReloadPending'
  BY <1>1 DEF ControlInv, TypeOK, StoreInv, OneRuns, ReloadPending
<1>5. LiveMatchesStore'
  BY <1>1 DEF ControlInv, LiveMatchesStore
<1> QED BY <1>1, <1>3, <1>4, <1>5 DEF ControlInv

\* The materialized configuration of a draft is one of its candidates.
LEMMA MaterializeCandidate ==
    ASSUME StoreInv, NEW r \in RouteIds, NEW n \in VersionNos, vstatus[r][n] # "absent"
    PROVE  Materialize(vconfig[r][n]) \in Candidates(r, n) \cap Config
<1> DEFINE s == [p \in Profiles |-> IF p \in vconfig[r][n].profileIds /\ profiles[p].enabled
                                    THEN profiles[p].revision ELSE 0]
<1>1. s \in [Profiles -> 0..MaxRevision]
  BY BoundsAssumption DEF StoreInv, StoreTypeOK, ProfileRow
<1>2. Materialize(vconfig[r][n]) =
          [vconfig[r][n] EXCEPT !.materialized = TRUE, !.resolved = s]
  BY SMTT(30) DEF Materialize
<1>3. Materialize(vconfig[r][n]) \in Candidates(r, n)
  BY <1>1, <1>2 DEF Candidates
<1>4. vconfig[r][n] # NoConfig /\ StoreTypeOK
  BY ExistingConfig, NoConfigAssumption DEF StoreInv
<1> QED BY <1>3, <1>4, CandidatesType

\* A new request and what it says.
LEMMA NewRequest ==
    ASSUME NEW kind \in Kinds, NEW stage \in Stages, NEW r \in RouteIds,
           NEW version \in 0..MaxVersion, NEW source \in 0..MaxVersion,
           NEW cand \in Config \cup {NoConfig}, NEW check \in Checks
    PROVE  \E q \in Requests :
              /\ q = Request(kind, stage, r, version, source, cand, check)
              /\ q.kind = kind /\ q.stage = stage /\ q.route = r /\ q.version = version
              /\ q.source = source /\ q.cand = cand /\ q.check = check
<1>1. Request(kind, stage, r, version, source, cand, check) \in Requests
  BY DEF Request, Requests
<1> QED BY <1>1 DEF Request

LEMMA IdleFields == Idle.stage = "idle" /\ Idle.kind = "none" /\ Idle \notin Requests
<1>1. Idle.stage = "idle" /\ Idle.kind = "none"
  BY DEF Idle
<1>2. \A q \in Requests : q.kind \in Kinds
  BY DEF Requests
<1> QED BY <1>1, <1>2 DEF Kinds

LEMMA StartTestInv ==
    ASSUME ControlInv, NEW h \in Handlers, NEW r \in RouteIds, NEW n \in VersionNos,
           StartTest(h, r, n)
    PROVE  Quiet /\ ControlInv'
<1>1. PICK c \in Config : c = Materialize(vconfig[r][n]) /\ c \in Candidates(r, n)
  BY MaterializeCandidate DEF StartTest, ControlInv
<1>2. /\ n \in 0..MaxVersion /\ NoVersion \in 0..MaxVersion
      /\ "test" \in Kinds /\ "probing" \in Stages /\ "none" \in Checks
  BY BoundsAssumption DEF VersionNos, NoVersion, Kinds, Stages, Checks
<1>3. PICK q \in Requests :
          /\ q = Request("test", "probing", r, n, NoVersion, c, "none")
          /\ q.kind = "test" /\ q.stage = "probing" /\ q.route = r /\ q.version = n
          /\ q.source = NoVersion /\ q.cand = c /\ q.check = "none"
  BY <1>2, NewRequest
<1>7. Sound(q)
  BY <1>1, <1>3, Zenon DEF StartTest, Sound, Staged, FromDraft, Gated, FromSource
<1>4. Quiet
  BY DEF StartTest, Quiet, storeVars
<1>5. Sound(q)'
  BY <1>3, <1>4, <1>7, QuietNext, WaitingKept DEF ControlInv, Held
<1>6. /\ running = NoHandler /\ running' = NoHandler /\ UNCHANGED <<up, live>>
      /\ req[h] = Idle /\ req' = [req EXCEPT ![h] = q]
  BY <1>1, <1>3 DEF StartTest, LoopFree
<1>8. q.stage \notin Held /\ q.stage # "reload" /\ req[h].stage # "reload"
  BY <1>3, <1>6, IdleFields DEF Held
<1> QED BY <1>4, <1>5, <1>6, <1>8, QuietStep, Zenon

LEMMA SubmitInv ==
    ASSUME ControlInv, Quiet, UNCHANGED <<up, live>>, NEW h \in Handlers, LoopFree, req[h] = Idle,
           NEW kind \in {"activate", "rollback", "enabled"}, NEW r \in RouteIds,
           NEW version \in 0..MaxVersion, NEW source \in 0..MaxVersion, NEW cand \in Config,
           Submit(h, kind, r, version, source, cand),
           kind # "enabled" => version \in VersionNos,
           version # NoVersion => /\ vstatus'[r][version] # "absent"
                                  /\ cand \in Candidates(r, version)',
           kind = "rollback" => /\ source \in VersionNos /\ vstatus'[r][source] = "superseded"
                                /\ cand = vconfig'[r][source],
           kind = "enabled" =>
               /\ source \in VersionNos /\ vstatus'[r][source] \in {"active", "superseded"}
               /\ cand = [vconfig'[r][source] EXCEPT !.enabled = cand.enabled]
    PROVE  ControlInv'
<1>1. running = NoHandler /\ req[h].stage # "reload"
  BY IdleFields DEF LoopFree
<1>2. kind \in Kinds /\ {"none", "skipped"} \subseteq Checks /\ {"probing", "save", "record"} \subseteq Stages
  BY DEF Kinds, Checks, Results, Stages
<1>3. CASE cand.enabled
  <2>1. PICK q \in Requests :
            /\ q = Request(kind, "probing", r, version, source, cand, "none")
            /\ q.kind = kind /\ q.stage = "probing" /\ q.route = r /\ q.version = version
            /\ q.source = source /\ q.cand = cand /\ q.check = "none"
    BY <1>2, NewRequest
  <2>2. Sound(q)'
    BY <2>1 DEF Sound, Staged, FromDraft, Gated, FromSource
  <2>3. running' = NoHandler /\ req' = [req EXCEPT ![h] = q]
    BY <1>3, <2>1 DEF Submit
  <2>4. q.stage \notin Held /\ q.stage # "reload"
    BY <2>1 DEF Held
  <2> QED BY <1>1, <2>2, <2>3, <2>4, QuietStep
<1>4. CASE ~cand.enabled
  <2> DEFINE stage == IF kind = "enabled" THEN "save" ELSE "record"
  <2>1. PICK q \in Requests :
            /\ q = Request(kind, stage, r, version, source, cand, "skipped")
            /\ q.kind = kind /\ q.stage = stage /\ q.route = r /\ q.version = version
            /\ q.source = source /\ q.cand = cand /\ q.check = "skipped"
    BY <1>2, NewRequest
  <2>2. Sound(q)'
    BY <1>4, <2>1 DEF Sound, Staged, FromDraft, Gated, FromSource, Results
  <2>3. running' = h /\ req' = [req EXCEPT ![h] = q]
    BY <1>4, <2>1 DEF Submit
  <2>4. q.stage \in Held /\ q.stage # "reload"
    BY <2>1 DEF Held
  <2> QED BY <1>1, <2>2, <2>3, <2>4, QuietStep
<1> QED BY <1>3, <1>4

LEMMA ActiveVersion ==
    ASSUME StoreInv, NEW r \in RouteIds, routes[r].active # NoVersion
    PROVE  /\ routes[r].active \in VersionNos /\ routes[r].active \in 0..MaxVersion
           /\ vstatus[r][routes[r].active] = "active"
           /\ ActiveConfig(r) \in Config
<1>1. routes[r].active \in VersionNos /\ routes[r].active \in 0..MaxVersion
  BY BoundsAssumption DEF StoreInv, StoreTypeOK, RouteRow, VersionNos, NoVersion
<1>2. vstatus[r][routes[r].active] = "active"
  BY <1>1 DEF StoreInv, PointersMatchStatus
<1> QED BY <1>1, <1>2, ExistingConfig DEF ActiveConfig

LEMMA StartActivateInv ==
    ASSUME ControlInv, NEW h \in Handlers, NEW r \in RouteIds, NEW n \in VersionNos,
           StartActivate(h, r, n)
    PROVE  Quiet /\ ControlInv'
<1>1. PICK c \in Config : c = Materialize(vconfig[r][n]) /\ c \in Candidates(r, n)
  BY MaterializeCandidate DEF StartActivate, ControlInv
<1>2. /\ n \in 0..MaxVersion /\ n \in VersionNos
      /\ NoVersion \in 0..MaxVersion /\ NoVersion # n
  BY BoundsAssumption DEF VersionNos, NoVersion
<1>3. /\ UNCHANGED storeVars /\ UNCHANGED <<up, live>>
      /\ LoopFree /\ req[h] = Idle /\ vstatus[r][n] = "draft"
      /\ Submit(h, "activate", r, n, NoVersion, c)
  BY <1>1 DEF StartActivate
<1>4. vstatus'[r][n] # "absent" /\ c \in Candidates(r, n)'
  BY <1>1, <1>3, CandidatesKept DEF storeVars
<1>5. Quiet
  BY <1>3 DEF Quiet
<1> QED BY <1>2, <1>3, <1>4, <1>5, SubmitInv

\* A rollback's draft.
LEMMA RollbackQuiet ==
    ASSUME StoreInv, NEW r \in RouteIds, NEW n \in VersionNos, RollbackDraft(r, n)
    PROVE  /\ Quiet
           /\ vconfig[r][n] \in Config
           /\ lastNo[r] + 1 \in VersionNos
           /\ vstatus'[r][lastNo[r] + 1] = "draft"
           /\ vconfig'[r][lastNo[r] + 1] = vconfig[r][n]
           /\ vstatus'[r][n] = "superseded" /\ vconfig'[r][n] = vconfig[r][n]
<1>1. vstatus[r][n] = "superseded" /\ SaveDraft(r, vconfig[r][n])
  BY DEF RollbackDraft
<1>2. vconfig[r][n] \in Config
  BY <1>1, ExistingConfig
<1>3. Quiet
  BY <1>1, <1>2 DEF Quiet
<1>4. lastNo[r] + 1 \in VersionNos
  BY <1>1 DEF SaveDraft
<1>5. vstatus'[r][lastNo[r] + 1] = "draft" /\ vconfig'[r][lastNo[r] + 1] = vconfig[r][n]
  BY <1>1, <1>4 DEF SaveDraft, StatusAfterDraft, StoreInv, StoreTypeOK
<1>6. vstatus'[r][n] = "superseded" /\ vconfig'[r][n] = vconfig[r][n]
  BY <1>1, <1>3, QuietNext, HistoryKept
<1> QED BY <1>2, <1>3, <1>4, <1>5, <1>6

LEMMA StartRollbackInv ==
    ASSUME ControlInv, NEW h \in Handlers, NEW r \in RouteIds, NEW n \in VersionNos,
           StartRollback(h, r, n)
    PROVE  Quiet /\ ControlInv'
<1>1. StoreInv /\ RollbackDraft(r, n)
  BY DEF ControlInv, StartRollback
<1>2. PICK v \in VersionNos, c \in Config : v = lastNo[r] + 1 /\ c = vconfig[r][n]
  BY <1>1, RollbackQuiet
<1>3. /\ Quiet /\ vstatus'[r][v] = "draft" /\ vconfig'[r][v] = c
      /\ vstatus'[r][n] = "superseded" /\ vconfig'[r][n] = c
  BY <1>1, <1>2, RollbackQuiet
<1>4. /\ UNCHANGED <<up, live>> /\ LoopFree /\ req[h] = Idle
      /\ Submit(h, "rollback", r, v, n, c)
  BY <1>2, <1>3 DEF StartRollback
<1>5. c \in Candidates(r, v)'
  BY <1>3 DEF Candidates
<1>6. v \in 0..MaxVersion /\ n \in 0..MaxVersion
  BY DEF VersionNos
<1> QED BY <1>3, <1>4, <1>5, <1>6, SubmitInv

LEMMA RollbackRejectedInv ==
    ASSUME ControlInv, NEW h \in Handlers, NEW r \in RouteIds, NEW n \in VersionNos,
           RollbackRejected(h, r, n)
    PROVE  Quiet /\ ControlInv'
<1>1. Quiet
  BY RollbackQuiet DEF RollbackRejected, ControlInv
<1> QED BY <1>1, QuietEdit DEF RollbackRejected, LoopFree

LEMMA StartEnabledInv ==
    ASSUME ControlInv, NEW h \in Handlers, NEW r \in RouteIds, NEW e \in BOOLEAN,
           StartEnabled(h, r, e)
    PROVE  Quiet /\ ControlInv'
<1>1. /\ StoreInv /\ UNCHANGED storeVars /\ UNCHANGED <<up, live>> /\ LoopFree /\ req[h] = Idle
      /\ routes[r].active # NoVersion
  BY DEF ControlInv, StartEnabled
<1>2. PICK v \in VersionNos, b \in Config : v = routes[r].active /\ b = vconfig[r][v]
  BY <1>1, ActiveVersion DEF ActiveConfig
<1>3. v \in 0..MaxVersion /\ NoVersion \in 0..MaxVersion /\ vstatus'[r][v] = "active"
  BY <1>1, <1>2, ActiveVersion, BoundsAssumption DEF storeVars, VersionNos, NoVersion
<1>4. PICK c \in Config : c = [b EXCEPT !.enabled = e]
  BY DEF Config
<1>5. c = [vconfig'[r][v] EXCEPT !.enabled = c.enabled]
  <2>1. c.enabled = e
    BY <1>4 DEF Config
  <2> QED BY <1>1, <1>2, <1>4, <2>1 DEF storeVars
<1>6. Submit(h, "enabled", r, NoVersion, v, c)
  BY <1>2, <1>4 DEF StartEnabled, ActiveConfig
<1>7. Quiet
  BY <1>1 DEF Quiet
<1> QED BY <1>1, <1>3, <1>5, <1>6, <1>7, SubmitInv

-----------------------------------------------------------------------------
(* The probe.                                                              *)

LEMMA ProbeSettlesInv ==
    ASSUME ControlInv, NEW h \in Handlers, NEW result \in {"ok", "failed"},
           ProbeSettles(h, result)
    PROVE  Quiet /\ ControlInv'
<1>1. PICK p \in Requests : p = req[h] /\ Sound(p) /\ p.stage = "probing"
  BY TheRequest, IdleFields DEF ProbeSettles
<1>2. Quiet /\ running = NoHandler /\ UNCHANGED <<up, live>>
  BY DEF Quiet, ProbeSettles, LoopFree
<1>3. CASE p.kind = "enabled" /\ result = "failed"
  <2>1. running' = NoHandler /\ req' = [req EXCEPT ![h] = Idle]
    BY <1>1, <1>3 DEF ProbeSettles, Answer
  <2>2. Idle.stage \notin Held /\ Idle.stage # "reload"
    BY IdleFields DEF Held
  <2> QED BY <1>1, <1>2, <2>1, <2>2, IdleSoundAfter, QuietStep
<1>4. CASE ~(p.kind = "enabled" /\ result = "failed")
  <2> DEFINE stage == IF p.kind = "enabled" THEN "save" ELSE "record"
  <2>1. PICK q : q = [p EXCEPT !.check = result, !.stage = stage]
    OBVIOUS
  <2>2. /\ q \in Requests /\ q.kind = p.kind /\ q.stage = stage /\ q.route = p.route
        /\ q.version = p.version /\ q.source = p.source /\ q.cand = p.cand /\ q.check = result
    BY <2>1 DEF Requests, Stages, Checks, Results
  <2>3. Sound(p)'
    BY <1>1, <1>2, QuietNext, WaitingKept DEF ControlInv, Held
  <2>4. Sound(q)'
    <3>1. p.kind \in {"test", "activate", "rollback", "enabled"}
      BY <1>1 DEF Sound, Staged, Requests, Kinds
    <3>2. Staged(q)'
      BY <2>2, <2>3, <3>1 DEF Sound, Staged
    <3>3. FromDraft(q)' /\ FromSource(q)'
      BY <2>2, <2>3, <3>1 DEF Sound, FromDraft, FromSource
    <3>4. Gated(q)'
      BY <2>2 DEF Gated, Results
    <3> QED BY <3>2, <3>3, <3>4 DEF Sound
  <2>5. running' = h /\ req' = [req EXCEPT ![h] = q]
    BY <1>1, <1>4, <2>1 DEF ProbeSettles, ControlInv, TypeOK
  <2>6. q.stage \in Held /\ q.stage # "reload"
    BY <2>2 DEF Held
  <2> QED BY <1>1, <1>2, <2>2, <2>4, <2>5, <2>6, QuietStep
<1> QED BY <1>2, <1>3, <1>4

LEMMA ProbeLostInv ==
    ASSUME ControlInv, NEW h \in Handlers, ProbeLost(h)
    PROVE  Quiet /\ ControlInv'
<1>1. PICK p \in Requests : p = req[h] /\ Sound(p) /\ p.stage = "probing"
  BY TheRequest, IdleFields DEF ProbeLost
<1>2. Quiet /\ running = NoHandler /\ UNCHANGED <<up, live, running>>
  BY DEF Quiet, ProbeLost, LoopFree
<1>3. PICK q : q = [p EXCEPT !.stage = "stuck"]
  OBVIOUS
<1>4. /\ q \in Requests /\ q.kind = p.kind /\ q.stage = "stuck" /\ q.route = p.route
      /\ q.version = p.version /\ q.source = p.source /\ q.cand = p.cand
  BY <1>3 DEF Requests, Stages
<1>5. Sound(p)'
  BY <1>1, <1>2, QuietNext, WaitingKept DEF ControlInv, Held
<1>6. Sound(q)'
  BY <1>1, <1>4, <1>5 DEF Sound, Staged, FromDraft, Gated, FromSource
<1>7. req' = [req EXCEPT ![h] = q]
  BY <1>1, <1>3 DEF ProbeLost, ControlInv, TypeOK
<1>8. q.stage \notin Held /\ q.stage # "reload"
  BY <1>4 DEF Held
<1> QED BY <1>1, <1>2, <1>4, <1>6, <1>7, <1>8, QuietStep

-----------------------------------------------------------------------------
(* The handlers after the probe.                                           *)

LEMMA SaveToggleInv ==
    ASSUME ControlInv, NEW h \in Handlers, SaveToggle(h)
    PROVE  Quiet /\ ControlInv'
<1>1. PICK p \in Requests : p = req[h] /\ Sound(p) /\ p.stage = "save"
  BY TheRequest, IdleFields DEF SaveToggle, Holds
<1>2. /\ running = h /\ UNCHANGED <<up, live>> /\ StoreInv /\ req[h].stage # "reload"
      /\ p.kind = "enabled" /\ p.cand \in Config /\ p.route \in RouteIds
  BY <1>1 DEF SaveToggle, Holds, ControlInv, Sound, Staged, Requests
<1>3. CASE StillFresh(h) /\ lastNo[req[h].route] < MaxVersion
  <2>1. /\ SaveDraft(p.route, p.cand) /\ running' = h
        /\ routes[p.route].active = p.source
    BY <1>1, <1>2, <1>3 DEF SaveToggle, StillFresh
  <2>2. PICK v \in VersionNos : v = lastNo[p.route] + 1
    BY <2>1 DEF SaveDraft
  <2>3. Quiet
    BY <1>2, <2>1 DEF Quiet
  <2>4. /\ vstatus'[p.route][v] = "draft" /\ vconfig'[p.route][v] = p.cand
        /\ routes'[p.route].active = p.source
    BY <1>2, <2>1, <2>2 DEF SaveDraft, StatusAfterDraft, StoreInv, StoreTypeOK
  <2>5. PICK q : q = [p EXCEPT !.version = v, !.stage = "record"]
    OBVIOUS
  <2>6. /\ q \in Requests /\ q.kind = "enabled" /\ q.stage = "record" /\ q.route = p.route
        /\ q.version = v /\ q.source = p.source /\ q.cand = p.cand /\ q.check = p.check
    <3>1. v \in 0..MaxVersion
      BY DEF VersionNos
    <3> QED BY <1>2, <2>5, <3>1 DEF Requests, Stages
  <2>7. req' = [req EXCEPT ![h] = q]
    BY <1>1, <1>3, <2>2, <2>5 DEF SaveToggle, ControlInv, TypeOK
  <2>8. Sound(q)'
    <3>1. FromSource(p)'
      BY <1>1, <1>2, <2>3, QuietNext, FromSourceKept DEF Sound
    <3>2. FromSource(q)'
      BY <1>2, <2>4, <2>6, <3>1 DEF FromSource
    <3>3. FromDraft(q)'
      BY <2>4, <2>6 DEF FromDraft, Candidates
    <3>4. Staged(q)' /\ Gated(q)'
      BY <1>1, <1>2, <2>6 DEF Sound, Staged, Gated
    <3> QED BY <3>2, <3>3, <3>4 DEF Sound
  <2>9. q.stage \in Held /\ q.stage # "reload"
    BY <2>6 DEF Held
  <2> QED BY <1>2, <2>1, <2>3, <2>6, <2>7, <2>8, <2>9, QuietStep
<1>4. CASE ~(StillFresh(h) /\ lastNo[req[h].route] < MaxVersion)
  <2>1. Quiet /\ running' = NoHandler /\ req' = [req EXCEPT ![h] = Idle]
    BY <1>4 DEF SaveToggle, Answer, Quiet
  <2>2. Idle.stage \notin Held /\ Idle.stage # "reload"
    BY IdleFields DEF Held
  <2> QED BY <1>2, <2>1, <2>2, IdleSoundAfter, QuietStep
<1> QED BY <1>3, <1>4

LEMMA RecordInv ==
    ASSUME ControlInv, NEW h \in Handlers, Record(h)
    PROVE  Quiet /\ ControlInv'
<1>1. PICK p \in Requests : p = req[h] /\ Sound(p) /\ p.stage = "record"
  BY TheRequest, IdleFields DEF Record, Holds
<1>2. /\ running = h /\ UNCHANGED <<up, live>> /\ StoreInv /\ req[h].stage # "reload"
      /\ p.route \in RouteIds /\ p.version \in VersionNos /\ p.check \in Results
      /\ RecordValidation(p.route, p.version, p.check)
  BY <1>1 DEF Record, Holds, ControlInv, Sound, Staged, Gated, Requests
<1>3. Quiet
  <2>1. vstatus[p.route][p.version] # "absent"
    BY <1>1, <1>2 DEF Sound, FromDraft, VersionNos, NoVersion
  <2> QED BY <1>2, <2>1 DEF Quiet
<1>4. CASE p.kind = "test" \/ p.check = "failed"
  <2>1. running' = NoHandler /\ req' = [req EXCEPT ![h] = Idle]
    BY <1>1, <1>4 DEF Record, Answer
  <2>2. Idle.stage \notin Held /\ Idle.stage # "reload"
    BY IdleFields DEF Held
  <2> QED BY <1>2, <1>3, <2>1, <2>2, IdleSoundAfter, QuietStep
<1>5. CASE ~(p.kind = "test" \/ p.check = "failed")
  <2>1. PICK q : q = [p EXCEPT !.stage = "commit"]
    OBVIOUS
  <2>2. /\ q \in Requests /\ q.kind = p.kind /\ q.stage = "commit" /\ q.route = p.route
        /\ q.version = p.version /\ q.source = p.source /\ q.cand = p.cand /\ q.check = p.check
    BY <2>1 DEF Requests, Stages
  <2>3. running' = h /\ req' = [req EXCEPT ![h] = q]
    BY <1>1, <1>5, <2>1 DEF Record, Continue, ControlInv, TypeOK
  <2>4. Sound(q)'
    <3>1. UNCHANGED <<routes, vstatus>>
      BY <1>2 DEF RecordValidation
    <3>2. FromDraft(p)' /\ FromSource(p)'
      <4>1. p.kind = "enabled" => routes'[p.route].active = p.source
        BY <1>1, <3>1 DEF Sound, FromSource
      <4> QED BY <1>1, <1>2, <1>3, <4>1, QuietNext, FromDraftKept, FromSourceKept DEF Sound
    <3>3. FromDraft(q)' /\ FromSource(q)'
      BY <1>1, <2>2, <3>2 DEF FromDraft, FromSource
    <3>4. vstatus'[p.route][p.version] = "draft" => vcheck'[p.route][p.version] = p.check
      BY <1>2, <3>1 DEF RecordValidation, StoreInv, StoreTypeOK
    <3>5. Staged(q)' /\ Gated(q)'
      BY <1>1, <1>2, <1>5, <2>2, <3>4 DEF Sound, Staged, Gated
    <3> QED BY <3>3, <3>5 DEF Sound
  <2>5. q.stage \in Held /\ q.stage # "reload"
    BY <2>2 DEF Held
  <2> QED BY <1>2, <1>3, <2>2, <2>3, <2>4, <2>5, QuietStep
<1> QED BY <1>4, <1>5

\* One route's entry is all that an activation or a deletion changes.
LEMMA Entries ==
    StoreInv => \A h \in Hosts : \A r \in ServedBy(h) :
        ServedTable[h] = [route |-> r, config |-> ActiveConfig(r)]
  BY TableEntry

LEMMA EntriesAfter ==
    (StoreInv => \A h \in Hosts : \A r \in ServedBy(h) :
        ServedTable[h] = [route |-> r, config |-> ActiveConfig(r)])'
  BY Entries, PTL

LEMMA EntryStep ==
    ASSUME StoreInv, StoreInv', NEW r \in RouteIds, NEW h \in Hosts,
           \A q \in RouteIds \ {r} : /\ IsServed(q)' = IsServed(q)
                                     /\ ActiveConfig(q)' = ActiveConfig(q)
    PROVE  \/ ServedTable'[h] \in {ServedTable[h], Nobody}
           \/ IsServed(r)' /\ ServedTable'[h] = [route |-> r, config |-> ActiveConfig(r)']
<1>1. CASE ServedBy(h)' = {}
  BY <1>1 DEF ServedTable
<1>2. CASE ServedBy(h)' # {}
  <2>1. PICK q \in RouteIds : (q \in ServedBy(h))'
    BY <1>2 DEF ServedBy
  <2>2. ServedTable'[h] = [route |-> q, config |-> ActiveConfig(q)'] /\ IsServed(q)'
    BY <2>1, EntriesAfter DEF ServedBy
  <2>3. CASE q = r
    BY <2>2, <2>3
  <2>4. CASE q # r
    <3>1. q \in ServedBy(h)
      BY <2>1, <2>4 DEF ServedBy
    <3> QED BY <2>2, <2>4, <3>1, Entries
  <2> QED BY <2>3, <2>4
<1> QED BY <1>1, <1>2

LEMMA TableType ==
    ASSUME StoreInv
    PROVE  ServedTable \in [Hosts -> {Nobody} \cup [route : RouteIds, config : Config]]
<1>1. ASSUME NEW h \in Hosts
      PROVE  ServedTable[h] \in {Nobody} \cup [route : RouteIds, config : Config]
  <2>1. CASE ServedBy(h) = {}
    BY <2>1 DEF ServedTable
  <2>2. CASE ServedBy(h) # {}
    <3>1. PICK r \in RouteIds : r \in ServedBy(h) /\ IsServed(r)
      BY <2>2 DEF ServedBy
    <3>2. ActiveConfig(r) \in Config
      BY <3>1, ServedFacts
    <3>3. ServedTable[h] = [route |-> r, config |-> ActiveConfig(r)]
      BY <3>1, Entries
    <3> QED BY <3>2, <3>3
  <2> QED BY <2>1, <2>2
<1> QED BY <1>1 DEF ServedTable

\* A reload is what follows every transaction that changes the served table.
LEMMA ToReload ==
    ASSUME ControlInv, StoreNext, HealthGate', UNCHANGED <<up, live>>, NEW h \in Handlers,
           NEW q \in Requests, Sound(q)', q.stage = "reload", req' = [req EXCEPT ![h] = q],
           running' = h, running \in {h, NoHandler}, req[h].stage # "reload",
           \A g \in Hosts : ServedTable'[g] \in
               {ServedTable[g], Nobody, [route |-> q.route, config |-> q.cand]}
    PROVE  ControlInv'
<1>1. [StoreNext]_storeVars /\ StoreInv'
  BY NextInv DEF ControlInv
<1>2. RequestsSound' /\ req' \in [Handlers -> {Idle} \cup Requests]
  BY <1>1, OneMoves
<1>3. TypeOK'
  BY <1>1, <1>2 DEF ControlInv, TypeOK, StoreInv, Requests
<1>4. req'[h] = q /\ \A g \in Handlers \ {h} : req'[g] = req[g]
  BY DEF ControlInv, TypeOK
<1>5. OneRuns'
  BY <1>4, NoHandlerAssumption DEF ControlInv, OneRuns, Held
<1>6. LiveMatchesStore'
  BY <1>4, NoHandlerAssumption DEF LiveMatchesStore
<1>7. ReloadPending'
  <2>1. up => live = ServedTable
    BY NoHandlerAssumption DEF ControlInv, LiveMatchesStore
  <2> QED BY <1>4, <2>1 DEF ReloadPending
<1> QED BY <1>1, <1>2, <1>3, <1>5, <1>6, <1>7 DEF ControlInv

\* What an activation changes.
LEMMA ActivateFacts ==
    ASSUME StoreInv, NEW r \in RouteIds, NEW n \in VersionNos, NEW c \in Config,
           Activate(r, n, c)
    PROVE  /\ vstatus[r][n] = "draft"
           /\ \A q \in RouteIds \ {r} : /\ routes'[q] = routes[q] /\ vstatus'[q] = vstatus[q]
                                        /\ vconfig'[q] = vconfig[q]
           /\ routes'[r].active = n /\ routes'[r].enabled = c.enabled
           /\ vconfig'[r][n] = c /\ vstatus'[r][n] = "active" /\ UNCHANGED vcheck
BY DEF Activate, CanActivate, StatusAfterActivation, StoreInv, StoreTypeOK

LEMMA CommitInv ==
    ASSUME ControlInv, NEW h \in Handlers, Commit(h)
    PROVE  [StoreNext]_storeVars /\ ControlInv'
<1>1. PICK p \in Requests : p = req[h] /\ Sound(p) /\ p.stage = "commit"
  BY TheRequest, IdleFields DEF Commit, Holds
<1>2. /\ running = h /\ UNCHANGED <<up, live>> /\ StoreInv /\ req[h].stage # "reload"
      /\ p.route \in RouteIds /\ p.version \in VersionNos /\ p.cand \in Config
  BY <1>1 DEF Commit, Holds, ControlInv, Sound, Staged, Requests
<1>3. CASE CanActivate(p.route, p.version, p.cand)
  <2>1. Activate(p.route, p.version, p.cand) /\ Continue(h, "reload")
    BY <1>1, <1>3 DEF Commit, ToPublish
  <2>2. /\ vstatus[p.route][p.version] = "draft"
        /\ \A g \in RouteIds \ {p.route} :
              /\ routes'[g] = routes[g] /\ vstatus'[g] = vstatus[g] /\ vconfig'[g] = vconfig[g]
        /\ routes'[p.route].active = p.version /\ routes'[p.route].enabled = p.cand.enabled
        /\ vconfig'[p.route][p.version] = p.cand
        /\ vstatus'[p.route][p.version] = "active" /\ UNCHANGED vcheck
    BY <1>2, <2>1, ActivateFacts
  <2>3. StoreNext
    BY <1>1, <1>2, <2>1, <2>2 DEF StoreNext, Sound, FromDraft, VersionNos, NoVersion
  <2>4. StoreInv'
    BY <1>2, <2>3, NextInv
  <2>5. PICK q : q = [p EXCEPT !.stage = "reload"]
    OBVIOUS
  <2>6. /\ q \in Requests /\ q.kind = p.kind /\ q.stage = "reload" /\ q.route = p.route
        /\ q.version = p.version /\ q.source = p.source /\ q.cand = p.cand
    BY <2>5 DEF Requests, Stages
  <2>7. running' = h /\ req' = [req EXCEPT ![h] = q]
    BY <1>1, <2>1, <2>5 DEF Continue, ControlInv, TypeOK
  <2>8. Sound(q)'
    <3>1. Staged(q)'
      BY <1>1, <1>2, <2>6 DEF Sound, Staged
    <3>2. FromDraft(q)'
      BY <2>2, <2>6 DEF FromDraft
    <3>3. Gated(q)'
      BY <2>6 DEF Gated
    <3>4. FromSource(q)'
      <4>1. FromSource(q)
        BY <1>1, <2>6 DEF Sound, FromSource
      <4> QED BY <1>2, <2>3, <2>6, <4>1, FromSourceKept
    <3> QED BY <3>1, <3>2, <3>3, <3>4 DEF Sound
  <2>9. HealthGate'
    <3> SUFFICES ASSUME NEW r \in RouteIds, routes'[r].active # NoVersion, routes'[r].enabled
                 PROVE  vcheck'[r][routes'[r].active] = "ok"
      BY DEF HealthGate
    <3>1. CASE r = p.route
      <4>1. p.cand.enabled
        BY <2>2, <3>1
      <4>2. p.check = "ok" /\ vcheck[p.route][p.version] = p.check
        BY <1>1, <2>2, <4>1 DEF Sound, Gated, Results
      <4> QED BY <2>2, <3>1, <4>2
    <3>2. CASE r # p.route
      BY <2>2, <3>2 DEF ControlInv, HealthGate
    <3> QED BY <3>1, <3>2
  <2>10. ASSUME NEW g \in Hosts
         PROVE  ServedTable'[g] \in
                    {ServedTable[g], Nobody, [route |-> q.route, config |-> q.cand]}
    <3>1. \A r \in RouteIds \ {p.route} : IsServed(r)' = IsServed(r)
                                          /\ ActiveConfig(r)' = ActiveConfig(r)
      BY <2>2 DEF IsServed, ActiveConfig
    <3>2. ActiveConfig(p.route)' = p.cand
      BY <2>2 DEF ActiveConfig
    <3> QED BY <1>2, <2>4, <2>6, <3>1, <3>2, EntryStep
  <2> QED BY <1>2, <2>3, <2>6, <2>7, <2>8, <2>9, <2>10, ToReload
<1>4. CASE ~CanActivate(p.route, p.version, p.cand)
  <2>1. UNCHANGED storeVars /\ running' = NoHandler /\ req' = [req EXCEPT ![h] = Idle]
    BY <1>1, <1>4 DEF Commit, ToPublish, Answer
  <2>2. Idle.stage \notin Held /\ Idle.stage # "reload"
    BY IdleFields DEF Held
  <2>3. Quiet
    BY <2>1 DEF Quiet
  <2> QED BY <1>2, <2>1, <2>2, <2>3, IdleSoundAfter, QuietStep
<1> QED BY <1>3, <1>4

LEMMA StartDeleteInv ==
    ASSUME ControlInv, NEW h \in Handlers, NEW r \in RouteIds, StartDelete(h, r)
    PROVE  StoreNext /\ ControlInv'
<1>1. /\ StoreInv /\ LoopFree /\ running = NoHandler /\ UNCHANGED <<up, live>>
      /\ DeleteRoute(r) /\ req[h].stage # "reload"
  BY IdleFields DEF ControlInv, StartDelete, LoopFree
<1>2. /\ \A g \in RouteIds \ {r} : /\ routes'[g] = routes[g] /\ vstatus'[g] = vstatus[g]
                                   /\ vconfig'[g] = vconfig[g]
      /\ routes'[r].active = NoVersion /\ routes'[r].enabled = FALSE
  BY <1>1 DEF DeleteRoute, StoreInv, StoreTypeOK
<1>3. StoreNext /\ StoreInv'
  <2>1. StoreNext
    BY <1>1 DEF StoreNext
  <2> QED BY <1>1, <2>1, NextInv
<1>4. HealthGate'
  BY <1>1, <1>2, <1>3, GateKept DEF RowsKept, ControlInv
<1>5. /\ NoVersion \in 0..MaxVersion /\ "delete" \in Kinds /\ "reload" \in Stages
      /\ "none" \in Checks
  BY BoundsAssumption DEF NoVersion, Kinds, Stages, Checks
<1>6. PICK q \in Requests :
          /\ q = Request("delete", "reload", r, NoVersion, NoVersion, NoConfig, "none")
          /\ q.kind = "delete" /\ q.stage = "reload" /\ q.route = r /\ q.version = NoVersion
          /\ q.source = NoVersion /\ q.cand = NoConfig /\ q.check = "none"
  BY <1>5, NewRequest
<1>7. Sound(q)'
  BY <1>6 DEF Sound, Staged, FromDraft, Gated, FromSource
<1>8. running' = h /\ req' = [req EXCEPT ![h] = q]
  BY <1>6 DEF StartDelete
<1>9. ASSUME NEW g \in Hosts
      PROVE  ServedTable'[g] \in {ServedTable[g], Nobody}
  <2>1. \A k \in RouteIds \ {r} : IsServed(k)' = IsServed(k) /\ ActiveConfig(k)' = ActiveConfig(k)
    BY <1>2 DEF IsServed, ActiveConfig
  <2>2. ~IsServed(r)'
    BY <1>2 DEF IsServed
  <2> QED BY <1>1, <1>3, <2>1, <2>2, EntryStep
<1> QED BY <1>1, <1>3, <1>4, <1>6, <1>7, <1>8, <1>9, ToReload

\* The store as it was, whatever becomes of the handlers.
LEMMA StoreStays ==
    ASSUME ControlInv, UNCHANGED storeVars
    PROVE  /\ StoreInv' /\ StoreTypeOK' /\ HealthGate' /\ ServedTable' = ServedTable
           /\ ServedTable' \in [Hosts -> {Nobody} \cup [route : RouteIds, config : Config]]
<1>1. StoreInv' /\ HealthGate' /\ ServedTable' = ServedTable
  BY QuietStore DEF Quiet
<1>2. ServedTable \in [Hosts -> {Nobody} \cup [route : RouteIds, config : Config]]
  BY TableType DEF ControlInv
<1> QED BY <1>1, <1>2 DEF StoreInv

LEMMA ReloadInv ==
    ASSUME ControlInv, NEW h \in Handlers, Reload(h)
    PROVE  UNCHANGED storeVars /\ ControlInv'
<1>1. /\ UNCHANGED storeVars /\ up' = up /\ live' = ServedTable /\ running = h
      /\ running' = NoHandler /\ req' = [req EXCEPT ![h] = Idle]
  BY DEF Reload, Holds, Answer
<1>2. /\ StoreInv' /\ StoreTypeOK' /\ HealthGate' /\ ServedTable' = ServedTable
      /\ ServedTable' \in [Hosts -> {Nobody} \cup [route : RouteIds, config : Config]]
  BY <1>1, StoreStays
<1>3. RequestsSound' /\ req' \in [Handlers -> {Idle} \cup Requests]
  BY <1>1, IdleSoundAfter, OneMoves
<1>4. TypeOK'
  BY <1>1, <1>2, <1>3 DEF ControlInv, TypeOK, Requests
<1>5. OneRuns'
  BY <1>1, IdleFields, NoHandlerAssumption DEF ControlInv, TypeOK, OneRuns, Held
<1>6. LiveMatchesStore' /\ ReloadPending'
  BY <1>1, <1>2 DEF LiveMatchesStore, ReloadPending
<1> QED BY <1>1, <1>2, <1>3, <1>4, <1>5, <1>6 DEF ControlInv

LEMMA CrashInv ==
    ASSUME ControlInv, Crash
    PROVE  UNCHANGED storeVars /\ ControlInv'
<1>1. /\ UNCHANGED storeVars /\ up' = FALSE /\ live' = [h \in Hosts |-> Nobody]
      /\ running' = NoHandler /\ req' = [h \in Handlers |-> Idle]
  BY DEF Crash
<1>2. StoreInv' /\ StoreTypeOK' /\ HealthGate'
  BY <1>1, StoreStays
<1>3. TypeOK'
  BY <1>1, <1>2 DEF TypeOK
<1>4. RequestsSound'
  <2>1. ASSUME NEW h \in Handlers PROVE Sound(req[h])'
    <3>1. req'[h] = Idle
      BY <1>1
    <3> QED BY <3>1, IdleSoundAfter DEF Sound, Staged, FromDraft, Gated, FromSource
  <2> QED BY <2>1 DEF RequestsSound, Sound
<1>5. OneRuns'
  BY <1>1, IdleFields, NoHandlerAssumption DEF OneRuns, Held
<1>6. LiveMatchesStore' /\ ReloadPending'
  BY <1>1 DEF LiveMatchesStore, ReloadPending
<1> QED BY <1>1, <1>2, <1>3, <1>4, <1>5, <1>6 DEF ControlInv

\* The requests as they were.
LEMMA RequestsStay ==
    ASSUME ControlInv, UNCHANGED storeVars, UNCHANGED req
    PROVE  RequestsSound'
<1>1. ASSUME NEW h \in Handlers PROVE Sound(req[h])'
  <2>1. PICK p \in Requests \cup {Idle} : p = req[h] /\ Sound(p)
    BY TheRequest
  <2>2. CASE p = Idle
    BY <2>1, <2>2, IdleSoundAfter, SMTT(30) DEF Sound, Staged, FromDraft, Gated, FromSource
  <2>3. CASE p \in Requests
    <3>1. UNCHANGED <<routes, vstatus, vconfig, vcheck>>
      BY DEF storeVars
    <3>2. Staged(p)' /\ Gated(p)' /\ FromSource(p)'
      BY <2>1, <3>1 DEF Sound, Staged, Gated, FromSource
    <3>3. FromDraft(p)'
      BY <2>1, <2>3, FromDraftKept DEF Sound, ControlInv
    <3> QED BY <2>1, <3>2, <3>3 DEF Sound, Staged, FromDraft, Gated, FromSource
  <2> QED BY <2>2, <2>3
<1> QED BY <1>1 DEF RequestsSound, Sound

LEMMA RestartInv ==
    ASSUME ControlInv, Restart
    PROVE  UNCHANGED storeVars /\ ControlInv'
<1>1. UNCHANGED <<storeVars, running, req>> /\ up' = TRUE /\ live' = ServedTable
  BY DEF Restart
<1>2. /\ StoreInv' /\ StoreTypeOK' /\ HealthGate' /\ ServedTable' = ServedTable
      /\ ServedTable' \in [Hosts -> {Nobody} \cup [route : RouteIds, config : Config]]
  BY <1>1, StoreStays
<1>3. TypeOK'
  BY <1>1, <1>2 DEF ControlInv, TypeOK
<1>4. RequestsSound'
  BY <1>1, RequestsStay
<1>5. OneRuns'
  BY <1>1 DEF ControlInv, OneRuns
<1>6. LiveMatchesStore' /\ ReloadPending'
  BY <1>1, <1>2 DEF LiveMatchesStore, ReloadPending
<1> QED BY <1>1, <1>2, <1>3, <1>4, <1>5, <1>6 DEF ControlInv

-----------------------------------------------------------------------------
(* Every step, and the invariant.                                          *)

\* A clone starts from a configuration: one that is not deleted always has one.
LEMMA CloneType ==
    ASSUME StoreInv, NEW r \in RouteIds, NEW host \in Hosts, routes[r].state = "present"
    PROVE  CloneConfig(r, host) \in Config
<1> DEFINE source == IF routes[r].active # NoVersion THEN routes[r].active ELSE routes[r].draft
<1>1. source \in VersionNos /\ vstatus[r][source] # "absent"
  <2>1. source # NoVersion /\ source \in VersionNos
    BY BoundsAssumption
    DEF StoreInv, StoreTypeOK, RouteRow, RouteHasConfig, VersionNos, NoVersion
  <2> QED BY <2>1 DEF StoreInv, PointersMatchStatus
<1>2. vconfig[r][source] \in Config
  BY <1>1, ExistingConfig
<1>3. vconfig[r][source].profileIds \in SUBSET Profiles
  BY <1>2 DEF Config
<1>4. CloneConfig(r, host) = Submitted(host, FALSE, vconfig[r][source].profileIds)
  BY DEF CloneConfig
<1> QED BY <1>3, <1>4, BoundsAssumption DEF Submitted, Config, NothingResolved

LEMMA EditInv ==
    ASSUME ControlInv, Edit
    PROVE  Quiet /\ ControlInv'
<1>1. Quiet
  <2>1. ASSUME NEW r \in RouteIds, NEW cfg \in SubmittedConfigs, SaveDraft(r, cfg) PROVE Quiet
    BY <2>1, SubmittedType DEF Quiet
  <2>2. ASSUME NEW r \in RouteIds, NEW new \in RouteIds, NEW host \in Hosts,
               routes[r].state = "present", SaveDraft(new, CloneConfig(r, host))
        PROVE  Quiet
    <3>1. CloneConfig(r, host) \in Config
      BY <2>2, CloneType DEF ControlInv
    <3> QED BY <2>2, <3>1 DEF Quiet
  <2> QED BY <2>1, <2>2 DEF Edit, Quiet
<1> QED BY <1>1, QuietEdit DEF Edit, LoopFree

LEMMA ControlInit == Init => ControlInv
<1> SUFFICES ASSUME Init PROVE ControlInv
  OBVIOUS
<1>1. StoreInv /\ StoreTypeOK
  BY InitInv DEF Init, StoreInv
<1>2. \A r \in RouteIds : routes[r].active = NoVersion
  BY DEF Init, StoreInit
<1>3. TypeOK
  BY <1>1 DEF Init, TypeOK
<1>4. RequestsSound
  BY IdleSound DEF Init, RequestsSound, Sound
<1>5. OneRuns
  BY IdleFields, NoHandlerAssumption DEF Init, OneRuns, Held
<1>6. HealthGate
  BY <1>2 DEF HealthGate
<1>7. LiveMatchesStore /\ ReloadPending
  <2>1. \A h \in Hosts : ServedBy(h) = {}
    BY <1>2 DEF ServedBy, IsServed
  <2>2. ServedTable = [h \in Hosts |-> Nobody]
    BY <2>1 DEF ServedTable
  <2> QED BY <2>2 DEF Init, LiveMatchesStore, ReloadPending
<1> QED BY <1>1, <1>3, <1>4, <1>5, <1>6, <1>7 DEF ControlInv

LEMMA ControlNext == ControlInv /\ [Next]_vars => ControlInv' /\ [StoreNext]_storeVars
<1> SUFFICES ASSUME ControlInv, [Next]_vars PROVE ControlInv' /\ [StoreNext]_storeVars
  OBVIOUS
<1>1. ASSUME NEW h \in Handlers, Start(h) PROVE ControlInv' /\ [StoreNext]_storeVars
  BY <1>1, QuietNext, StartTestInv, StartActivateInv, StartRollbackInv, RollbackRejectedInv,
     StartEnabledInv, StartDeleteInv DEF Start
<1>2. ASSUME NEW h \in Handlers, Probe(h) PROVE ControlInv' /\ [StoreNext]_storeVars
  BY <1>2, QuietNext, ProbeLostInv, ProbeSettlesInv DEF Probe
<1>3. ASSUME NEW h \in Handlers, Resume(h) PROVE ControlInv' /\ [StoreNext]_storeVars
  BY <1>3, QuietNext, SaveToggleInv, RecordInv, CommitInv, ReloadInv DEF Resume
<1>4. CASE Edit
  BY <1>4, QuietNext, EditInv
<1>5. CASE Crash \/ Restart
  BY <1>5, CrashInv, RestartInv
<1>6. CASE UNCHANGED vars
  <2>1. UNCHANGED storeVars /\ UNCHANGED <<up, live, running, req>>
    BY <1>6 DEF vars, storeVars
  <2>2. StoreInv' /\ HealthGate' /\ ServedTable' = ServedTable
    BY <2>1, StoreStays
  <2>3. TypeOK' /\ OneRuns'
    BY <2>1, <2>2 DEF ControlInv, TypeOK, StoreInv, OneRuns
  <2>4. LiveMatchesStore' /\ ReloadPending'
    BY <2>1, <2>2 DEF ControlInv, LiveMatchesStore, ReloadPending
  <2>5. RequestsSound'
    BY <2>1, RequestsStay
  <2> QED BY <2>1, <2>2, <2>3, <2>4, <2>5 DEF ControlInv
<1> QED BY <1>1, <1>2, <1>3, <1>4, <1>5, <1>6 DEF Next

\* Whatever the handlers read before they waited for a probe, and however they
\* overlap with one another and with a crash, what they go on with is still good.
THEOREM ControlInvariant == Spec => []ControlInv
<1>1. Init => ControlInv
  BY ControlInit
<1>2. ControlInv /\ [Next]_vars => ControlInv'
  BY ControlNext
<1> QED BY <1>1, <1>2, PTL DEF Spec

\* Type correctness of the handlers, the map and the tables.
THEOREM ControlTypes == Spec => []TypeOK
<1>1. ControlInv => TypeOK
  BY DEF ControlInv
<1> QED BY <1>1, ControlInvariant, PTL

\* What is active and enabled passed its health check in this very version.
THEOREM HealthGateHolds == Spec => []HealthGate
<1>1. ControlInv => HealthGate
  BY DEF ControlInv
<1> QED BY <1>1, ControlInvariant, PTL

\* Between handlers, the proxy serves exactly what the database says.
THEOREM MapFollowsStore == Spec => []LiveMatchesStore
<1>1. ControlInv => LiveMatchesStore
  BY DEF ControlInv
<1> QED BY <1>1, ControlInvariant, PTL

\* The handlers implement the store's specification: no interleaving of them
\* makes a transaction that the store does not allow by itself.
THEOREM HandlersUseStore == Spec => StoreSpec
<1>1. Init => StoreInit
  BY DEF Init
<1>2. ControlInv /\ [Next]_vars => [StoreNext]_storeVars
  BY ControlNext
<1> QED BY <1>1, <1>2, ControlInvariant, PTL DEF Spec, StoreSpec

\* So the handlers implement the abstract serving table too.
THEOREM HandlersServeTable == Spec => ServesTable
  BY HandlersUseStore, StoreServesTable

\* No two routes that the handlers have activated have one hostname.
THEOREM HandlersKeepHostnames == Spec => []ActiveHostnamesUnique
  BY HandlersUseStore, HostnamesUnique

\* And they never rewrite a route's history.
THEOREM HandlersKeepHistory == Spec => HistoryAppendOnly
  BY HandlersUseStore, HistoryIsAppendOnly

-----------------------------------------------------------------------------
(* What a step may never do.                                               *)

\* A step of the handler that holds the event loop, with its request by name;
\* every other step leaves what is active alone.
LEMMA WhoActs ==
    ASSUME ControlInv, [Next]_vars, running # NoHandler
    PROVE  \/ UNCHANGED storeVars
           \/ \E h \in Handlers, p \in Requests :
                  /\ running = h /\ p = req[h] /\ Sound(p) /\ p.route \in RouteIds
                  /\ \/ p.stage = "save" /\ StillFresh(h) /\ SaveDraft(p.route, p.cand)
                     \/ p.stage = "record" /\ RecordValidation(p.route, p.version, p.check)
                     \/ /\ p.stage = "commit" /\ p.version \in VersionNos /\ p.cand \in Config
                        /\ Activate(p.route, p.version, p.cand)
<1>1. CASE UNCHANGED vars \/ Crash \/ Restart
  BY <1>1 DEF vars, storeVars, Crash, Restart
<1>2. ASSUME NEW h \in Handlers, Resume(h), ~UNCHANGED storeVars
      PROVE  \E p \in Requests :
                  /\ running = h /\ p = req[h] /\ Sound(p) /\ p.route \in RouteIds
                  /\ \/ p.stage = "save" /\ StillFresh(h) /\ SaveDraft(p.route, p.cand)
                     \/ p.stage = "record" /\ RecordValidation(p.route, p.version, p.check)
                     \/ /\ p.stage = "commit" /\ p.version \in VersionNos /\ p.cand \in Config
                        /\ Activate(p.route, p.version, p.cand)
  <2>1. running = h /\ req[h].stage # "idle"
    BY <1>2 DEF Resume, SaveToggle, Record, Commit, Reload, Holds
  <2>2. PICK p \in Requests : p = req[h] /\ Sound(p)
    BY <2>1, TheRequest, IdleFields
  <2>3. p.route \in RouteIds /\ (p.stage = "commit" => p.version \in VersionNos /\ p.cand \in Config)
    BY <2>2 DEF Requests, Sound, Staged
  <2>4. \/ p.stage = "save" /\ StillFresh(h) /\ SaveDraft(p.route, p.cand)
        \/ p.stage = "record" /\ RecordValidation(p.route, p.version, p.check)
        \/ p.stage = "commit" /\ Activate(p.route, p.version, p.cand)
    BY <1>2, <2>2 DEF Resume, SaveToggle, Record, Commit, Reload, Holds, ToPublish
  <2> QED BY <2>1, <2>2, <2>3, <2>4
<1>3. ASSUME LoopFree PROVE FALSE
  BY <1>3 DEF LoopFree
<1>4. CASE Edit \/ \E h \in Handlers : Start(h) \/ Probe(h)
  <2>1. ~Edit
    BY <1>3 DEF Edit
  <2>2. ASSUME NEW h \in Handlers PROVE ~Start(h)
    BY <1>3 DEF Start, StartTest, StartActivate, StartRollback, RollbackRejected, StartEnabled, StartDelete
  <2>3. ASSUME NEW h \in Handlers PROVE ~Probe(h)
    BY <1>3 DEF Probe, ProbeLost, ProbeSettles
  <2> QED BY <1>4, <2>1, <2>2, <2>3
<1> QED
  <2>1. UNCHANGED vars \/ Crash \/ Restart \/ Edit \/ \E h \in Handlers : Start(h) \/ Probe(h) \/ Resume(h)
    BY DEF Next
  <2> QED BY <1>1, <1>2, <1>4, <2>1

LEMMA RollbackNext == ControlInv /\ [Next]_vars => [RollbackStep]_vars
<1> SUFFICES ASSUME ControlInv, [Next]_vars, running # NoHandler, req[running].kind = "rollback",
                    NEW r \in RouteIds, routes'[r].active # routes[r].active
             PROVE  vconfig'[r][routes'[r].active] = vconfig[r][req[running].source]
  BY DEF RollbackStep
<1>1. ~UNCHANGED storeVars
  BY DEF storeVars
<1>2. PICK h \in Handlers, p \in Requests :
          /\ running = h /\ p = req[h] /\ Sound(p) /\ p.route \in RouteIds
          /\ \/ p.stage = "save" /\ StillFresh(h) /\ SaveDraft(p.route, p.cand)
             \/ p.stage = "record" /\ RecordValidation(p.route, p.version, p.check)
             \/ /\ p.stage = "commit" /\ p.version \in VersionNos /\ p.cand \in Config
                /\ Activate(p.route, p.version, p.cand)
  BY <1>1, WhoActs
<1>3. p.stage # "save" /\ p.stage # "record"
  BY <1>2 DEF Sound, Staged, RecordValidation
<1>4. /\ \A q \in RouteIds \ {p.route} : routes'[q] = routes[q]
      /\ routes'[p.route].active = p.version /\ vconfig'[p.route][p.version] = p.cand
  BY <1>2, <1>3, ActivateFacts DEF ControlInv
<1>5. p.cand = vconfig[p.route][p.source]
  BY <1>2 DEF Sound, FromSource
<1> QED BY <1>2, <1>4, <1>5

\* A rollback activates the historical configuration unchanged.
THEOREM RollbacksAreExact == Spec => RollbackIsExact
<1>1. ControlInv /\ [Next]_vars => [RollbackStep]_vars
  BY RollbackNext
<1> QED BY <1>1, ControlInvariant, PTL DEF Spec, RollbackIsExact

LEMMA ToggleNext == ControlInv /\ [Next]_vars => [ToggleStep]_vars
<1> SUFFICES ASSUME ControlInv, [Next]_vars, running # NoHandler, req[running].kind = "enabled",
                    NEW r \in RouteIds
             PROVE  /\ routes'[r].active # routes[r].active =>
                           vconfig'[r][routes'[r].active] =
                               [ActiveConfig(r) EXCEPT !.enabled = req[running].cand.enabled]
                    /\ routes[r].draft # NoVersion =>
                           vstatus'[r][routes[r].draft] \in {"draft", "active"}
  BY DEF ToggleStep
<1>1. routes[r].draft # NoVersion =>
          routes[r].draft \in VersionNos /\ vstatus[r][routes[r].draft] = "draft"
  <2>1. routes[r].draft # NoVersion => routes[r].draft \in VersionNos
    BY BoundsAssumption
    DEF ControlInv, StoreInv, StoreTypeOK, RouteRow, VersionNos, NoVersion
  <2> QED BY <2>1 DEF ControlInv, StoreInv, PointersMatchStatus
<1>2. CASE routes'[r].active = routes[r].active /\ vstatus'[r] = vstatus[r]
  BY <1>1, <1>2
<1>3. CASE ~(routes'[r].active = routes[r].active /\ vstatus'[r] = vstatus[r])
  <2>1. ~UNCHANGED storeVars
    BY <1>3 DEF storeVars
  <2>2. PICK h \in Handlers, p \in Requests :
            /\ running = h /\ p = req[h] /\ Sound(p) /\ p.route \in RouteIds
            /\ \/ p.stage = "save" /\ StillFresh(h) /\ SaveDraft(p.route, p.cand)
               \/ p.stage = "record" /\ RecordValidation(p.route, p.version, p.check)
               \/ /\ p.stage = "commit" /\ p.version \in VersionNos /\ p.cand \in Config
                  /\ Activate(p.route, p.version, p.cand)
    BY <2>1, WhoActs
  <2>3. p.stage # "record"
    BY <1>3, <2>2 DEF RecordValidation
  <2>4. CASE p.stage = "save"
    <3>1. routes[p.route].draft = NoVersion
      BY <2>2, <2>4 DEF StillFresh
    <3>2. SaveDraft(p.route, p.cand)
      BY <2>2, <2>4
    <3>3. /\ routes'[p.route].active = routes[p.route].active
          /\ \A q \in RouteIds \ {p.route} : routes'[q] = routes[q] /\ vstatus'[q] = vstatus[q]
      BY <2>2, <3>2 DEF SaveDraft, ControlInv, StoreInv, StoreTypeOK
    <3> QED BY <1>3, <3>1, <3>3
  <2>5. CASE p.stage = "commit"
    <3>1. /\ p.version \in VersionNos /\ p.cand \in Config
          /\ Activate(p.route, p.version, p.cand)
      BY <2>2, <2>5
    <3>2. /\ \A q \in RouteIds \ {p.route} : routes'[q] = routes[q] /\ vstatus'[q] = vstatus[q]
          /\ routes'[p.route].active = p.version /\ vconfig'[p.route][p.version] = p.cand
          /\ vstatus'[p.route][p.version] = "active"
      BY <2>2, <3>1, ActivateFacts DEF ControlInv
    <3>3. r = p.route
      BY <1>3, <3>2
    <3>4. routes[p.route].draft = p.version
      BY <3>1 DEF Activate, CanActivate
    <3>5. p.kind = "enabled"
      BY <2>2
    <3>6. /\ p.cand = [vconfig[p.route][p.source] EXCEPT !.enabled = p.cand.enabled]
          /\ routes[p.route].active = p.source
      BY <2>2, <2>5, <3>5 DEF Sound, FromSource
    <3>7. p.cand = [ActiveConfig(r) EXCEPT !.enabled = req[running].cand.enabled]
      BY <2>2, <3>3, <3>6 DEF ActiveConfig
    <3> QED BY <3>2, <3>3, <3>4, <3>7
  <2> QED BY <2>2, <2>3, <2>4, <2>5
<1> QED BY <1>2, <1>3

\* An enable/disable changes the flag and nothing else, and discards no draft.
THEOREM TogglesAreExact == Spec => ToggleIsExact
<1>1. ControlInv /\ [Next]_vars => [ToggleStep]_vars
  BY ToggleNext
<1> QED BY <1>1, ControlInvariant, PTL DEF Spec, ToggleIsExact

LEMMA PublishNext == ControlInv /\ [Next]_vars => [PublishesCandidateStep]_vars
<1> SUFFICES ASSUME ControlInv, [Next]_vars, NEW g \in Hosts, up,
                    live'[g] # live[g], live'[g] # Nobody
             PROVE  /\ running # NoHandler
                    /\ live'[g] = [route |-> req[running].route, config |-> req[running].cand]
  BY DEF PublishesCandidateStep
<1>1. ASSUME NEW h \in Handlers, Reload(h)
      PROVE  /\ running # NoHandler
             /\ live'[g] = [route |-> req[running].route, config |-> req[running].cand]
  <2>1. running = h /\ req[running].stage = "reload" /\ live'[g] = ServedTable[g]
    BY <1>1 DEF Reload, Holds
  <2>2. running # NoHandler
    BY <2>1, NoHandlerAssumption
  <2>3. ServedTable[g] \in {live[g], Nobody,
                            [route |-> req[running].route, config |-> req[running].cand]}
    BY <2>1, <2>2 DEF ControlInv, ReloadPending
  <2> QED BY <2>1, <2>2, <2>3
<1>2. CASE UNCHANGED live
  BY <1>2
<1>3. CASE Crash
  BY <1>3 DEF Crash
<1>4. CASE Restart
  BY <1>4 DEF Restart
<1>5. ASSUME NEW h \in Handlers, Start(h) \/ Probe(h) PROVE UNCHANGED live
  BY <1>5 DEF Start, Probe, StartTest, StartActivate, StartRollback, RollbackRejected,
     StartEnabled, StartDelete, ProbeLost, ProbeSettles
<1>6. ASSUME NEW h \in Handlers, SaveToggle(h) \/ Record(h) \/ Commit(h) PROVE UNCHANGED live
  BY <1>6 DEF SaveToggle, Record, Commit
<1>7. CASE Edit
  BY <1>7 DEF Edit
<1> QED BY <1>1, <1>2, <1>3, <1>4, <1>5, <1>6, <1>7 DEF Next, Resume, vars

\* Traffic only ever changes to the configuration that was captured and probed.
THEOREM OnlyCandidatesPublished == Spec => PublishesCandidate
<1>1. ControlInv /\ [Next]_vars => [PublishesCandidateStep]_vars
  BY PublishNext
<1> QED BY <1>1, ControlInvariant, PTL DEF Spec, PublishesCandidate
=============================================================================
