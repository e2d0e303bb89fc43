# Verification of the NetBird Injector Manager

TLA+ models of this repository's service, the TLC configurations that check
them, and TLAPS proofs of what matters most. Paths are relative to the
repository root.

## 1. Inventory

The service is one Node process with two listeners and one SQLite file. The
shell program `setup` installs, updates and restores it around that process.

| Part | Source | State it keeps | Operations | What makes it correct |
|---|---|---|---|---|
| Route store | `src/lib/store.mjs` | routes, versions, profiles in SQLite | save draft, record validation, activate, roll back, delete; profiles; import/export | pointers agree with statuses; one active route per hostname; append-only history; one route per transaction |
| Control plane | `src/admin.mjs` (route handlers) | handler locals across an await | test, activate, rollback, enable/disable, delete, clone, draft, import, profiles | the health gate; nothing stale is published; the proxy's map is the database's |
| Data plane map | `src/proxy.mjs` `reload` | hostname map | reload, lookup | complete map swapped in one step |
| Data plane requests | `src/proxy.mjs` handler, `LimitedRequestBody`, `InjectionTransform`, upgrade | per-request flags, timers, counters | forward, transform, interrupt, tunnel | one answer per request; counters return to zero; original body on failure |
| Health probe | `src/proxy.mjs` `probeRoute` | one promise, one timer | probe | settles once |
| Injection engine | `src/lib/injection.mjs` | none | eligibility, boundaries, insertion, preview | idempotent, ordered, never loses original bytes |
| Account, sessions, limiter | `src/lib/security.mjs`, `src/admin.mjs` account handlers, `src/lib/store.mjs` account rows | account row, session map, limiter map | login, logout, credentials, two-factor, recovery codes | a recovery code counts once; sessions end with a credential change |
| Validation | `src/lib/model.mjs`, `src/lib/umami.mjs` | none | validate and normalise inputs | idempotent normalisation |
| Network policy | `src/lib/network.mjs` | parsed CIDRs | ingress trust, dial-time address check | every dialled address is allowed |
| NetBird client | `src/netbird.mjs` | response cache | peers, clusters, local status | stale answers marked, an outage never reaches the data plane |
| Process | `src/main.mjs`, `src/lib/shutdown.mjs` | listeners, tracked sockets | start, stop, crash | a stop ends within the grace period |
| Configuration and logging | `src/config.mjs`, `src/lib/logger.mjs`, `src/lib/util.mjs` | parsed configuration | load, validate, redact | rejects unsafe combinations |
| Lifecycle | `setup`, `scripts/*.mjs`, `install.sh`, `bootstrap-ubuntu.sh`, `packaging/` | releases, `current` link, configuration, database, backups | install, update, rollback, reconfigure, repair, restore, uninstall | a failed step leaves a running release with its data |
| Administration page | `src/ui/` | one open form, `currentDraft`, `editingInjectionIndex`, the locals of async functions | open, edit, save, test, activate, toggle, delete | a reply that comes late or out of order changes no traffic that was not confirmed |

How they interact: an admin handler calls the store (each call is one
transaction), awaits `probeRoute` where an enabled configuration is about to be
published, and calls `proxy.reload`, which reads `listActiveConfigs` and swaps
the map. A data-plane request looks its hostname up once and keeps that route
object until it ends. `setup` stops, starts and checks the process from
outside and replaces its files while it is stopped.

What is hard here: (a) one handler awaits a probe while others change the
route, the profiles or the draft it read; (b) several transactions make up one
request, and the process can end between them; (c) the map in memory and the
database are two copies; (d) per-request races among response, abort, timers
and body limits; (e) partial failure of the lifecycle scripts; (f) account requests
that overlap while scrypt runs; (g) what one validation stores must suit the next;
(h) a stop that waits for connections others hold; (i) replies to the page that
come after another form was opened.

## 2. Plan

Modules in the order they were written; those without * are left.

1. * `ServingTable`: the abstract promise about traffic.
2. * `RouteStore`: the store's transactions; implements `ServingTable`.
3. * `ControlPlane`: overlapping handlers, probes, crashes; composes `RouteStore`
   with the proxy's map and implements both it and `ServingTable`.
   * `ControlPlaneProofs`, of the store and of the handlers.
4. * `ProxyRequest`: one data-plane request: body limit, injection decision,
   timers, abort, counters. * `ProxyRequestProofs`.
5. * `Account`: logins that overlap with account requests, sessions, limiter,
   recovery codes. * `AccountProofs`.
6. * `Process`: start and stop, the WebSocket tunnels, the NetBird cache, composed
   because the stop waits for the connections of all three. * `ProcessProofs`.
7. * `Injection`, `Validation`, `Network`: the pure functions; `Content` sends pages,
   forms, snippets, names and configurations through them. * `ContentProofs` (forms and
   networks) and `PageProofs`.
8. * `Console`: the administration page against the server. * `ConsoleProofs`.
9. * `Lifecycle`: the commands of `setup`, with failures, deaths and a service
   that goes on meanwhile. * `LifecycleProofs`.

## 3. The store (`RouteStore`, `ServingTable`)

| TLA+ | Code |
|---|---|
| `routes`, `lastNo` | table `routes`; `MAX(version_no)` |
| `vstatus`, `vconfig`, `vcheck` | columns of `route_versions`, keyed by (route, number) |
| `profiles` | table `profiles`; revision 0 means no row |
| `SaveDraft`, `RecordValidation`, `Activate`, `RollbackDraft`, `DeleteRoute` | the methods of the same names |
| `SaveProfile`, `DeleteProfile`, `Materialize` | `saveProfile`, `deleteProfile`, `materializeProfiles` |
| `Import` | the one transaction of `POST /api/import` |
| `ServedTable` | the map `reload` builds from `listActiveConfigs` |

An action is one committed transaction. SQLite's isolation is taken as given:
the process has a single synchronous connection, so a failed call leaves no
trace and is not a step. A configuration keeps the hostname, the enabled flag,
the set of attached profiles and whether, and from which revisions, their items
were copied in. The order of profiles and everything about upstreams is
abstracted. Submitted configurations hold no profile snapshot, as the
administration page sends them (`src/ui/app.js:66`) and exports store them.
Profile names and their uniqueness are left out.

`Activate` accepts any configuration in `Candidates`: the stored one, or that
with some snapshot, since a caller may have materialized it long before.

## 4. The control plane (`ControlPlane`)

`running` is the handler that holds the event loop. A handler runs from its
start, or from its probe's answer, to its next await or its answer, and only
`Crash` can come between two of its transactions. `req[h]` holds the handler's
locals: the route, the draft it works on, the version it read first (`source`)
and the candidate (`cand`) captured before the probe.

| TLA+ | Code |
|---|---|
| `StartTest` .. `StartDelete` | the handlers of `src/admin.mjs` up to the await |
| `ProbeSettles`, `ProbeLost` | `probeRoute`: an answer, or none |
| `SaveToggle` | enable/disable after its probe: compare with what was read, save |
| `Record`, `Commit`, `Reload` | `recordValidation`, `activate`, `proxy.reload` |
| `Edit` | handlers without an await: draft, clone, import, profiles |
| `Crash`, `Restart` | process exit at any point; `createProxy` loads the map |

`ProbeLost`: the promise of `probeRoute` resolves on the response's `end`, on
the request's `error`, or after its own timer destroys the request. The timer is
cleared on `close`. An upstream that sends headers and then closes in the
middle of the body makes Node emit `aborted` and `close` but neither of the two
events, so the request is never answered. The model allows it; safety does not
depend on it and the liveness property names it as the exception.

## 5. Data-plane requests (`ProxyRequest`)

`ex[q]` is one exchange: the visitor's connection, the request body as
`LimitedRequestBody` saw it, the response object, the upstream request and
response, the `InjectionTransform`, the armed timers, and the three flags of the
handler (`completed`, `requestFinished`, `responseInterrupted`). An action is one
event with every listener that Node runs for it before it returns to the loop.

| TLA+ | Code (`src/proxy.mjs`) |
|---|---|
| `Refuse`, `Forward` | the handler up to the upstream request |
| `UploadEnds`, `UploadTooLarge` | `LimitedRequestBody` |
| `Connect`, `Timeout`, `IdleTimeout` | `armTimeouts` |
| `UpstreamError`, `Close`, `HangUp` | listeners of the upstream request and response |
| `RespondPiped`, `RespondEligible` | the response callback, without and with a transform |
| `Overflow` and the actions after it | `InjectionTransform`: pass on, decide, flush |
| `Finish`, `Disconnect` | `finish` and `close` of the response, `aborted` of the request |
| `Failed`, `Interrupted` | `fail`, `interruptResponse` |

Bodies are `original` or `transformed`; that a page is eligible and what the
engine makes of it is an input of the step. What Node's `http` decides is
external: when a body ends, when `close` follows a destroy, and that `aborted` is
emitted only while the visitor's request is still being read. A visitor who
leaves later therefore does not destroy the upstream request by itself; the idle
timer or the upstream's own end does, which is what `UpstreamReleased` relies on.
The transform never meets backpressure, so its completion and its flush are one
step. The route object is captured once and frozen: a reload in the middle of an
exchange cannot reach it, so routes do not appear here.

Left out: an upstream that streams events without end (it is outside the
liveness claims, and legal) and `101` as an answer to a plain request. The upgrade
handler is in `Process`.

## 6. The account (`Account`)

`request[c]` is one login or account handler between two awaits: for its body
(`readJson`), for scrypt to check a password (`verifyPassword`) and for scrypt to
hash one (`hashPassword`). Whatever it read before an await may be old after it,
and the session that let it in may be gone; its object lives on in the handler.

| TLA+ | Code |
|---|---|
| `account`, `session`, `limiter` | the row of `admin_account`; `SessionManager`; the entry of `LoginLimiter` for one address |
| `ArriveLogin`, `LoginBody`, `LoginPlain`, `LoginByCode`, `LoginFails` | `/api/login` up to each await and to each of its ends |
| `ArriveOperation`, `OperationBody`, `BodyRead`, `OperationRefused` | `requireAuth`, the body, the current password |
| `ChangeUsername`, `HashPassword`, `ChangePassword` | `/api/account/credentials` |
| `Setup`, `Enable`, `ReplaceCodes`, `Disable` | the two-factor handlers |
| `SessionEnds`, `SetupLapses`, `WindowEnds`, `BlockEnds` | logout and time |

A secret stands for every valid TOTP code of it. `shown`, `uses` and `chosen` are
history: the codes last shown, how often each was accepted, and the password of the
last acknowledged choice. Fresh secrets and codes are unknown to everybody, which is
what their random bytes are for (`src/lib/security.mjs:74`, `:110`).

`ChangeEndsSessions` tells the changes apart as the handlers do. A new user name or
password and the end of two-factor authentication empty the map (`destroyAll`), the
session that asked included; a new secret and new codes leave at most the session whose
request is answered in that step, and only if it is still there (`destroyAllExcept`). It
speaks of the sessions there are at that moment. A login in flight finishes with the
account it read: it may have checked the old password before the change and open its
session after it, though `docs/ADMIN_ACCESS.md:77` has the change invalidate all sessions.
The model has this step, and no property covers it.

Two more things the model shows that are no contradiction of a document: a change of the
user name is lost when a change of the password that read the row earlier ends later
(`updateAdminCredentials` writes both columns); and a failure that arrives after the
window has passed starts a new count.

## 7. The process (`Process`)

The stop waits for every connection of both servers, so what keeps a connection busy
belongs to one model: a request, a tunnel, a query of the NetBird API.

| TLA+ | Code |
|---|---|
| `server`, `run` | the two listeners; `shutdown` with its grace timer and what it still awaits |
| `conn[c]` | an accepted socket, what it is used for, and for a tunnel its other end and the flags `opened`, `closed` |
| `Listen`, `Fails`, `FirstSignal`, `Signal`, `Stopped` | `src/main.mjs` |
| `GraceOver`, `ServerClosed`, `Tracked` | `closeTrackedServers` |
| `Upgrade`, `UpgradeRefused`, `UpstreamUpgrades`, `UpstreamRefuses`, `UpstreamCloses`, `ClientCloses` | the `upgrade` handler of `src/proxy.mjs` |
| `cache`, `Fetch`, `FetchAnswered`, `FetchFails`, `CacheExpires` | `NetBirdClient.request`, `requestJson` |

`remote` numbers the states of the data behind the NetBird API. External are Node's
servers (when an answered connection idles or closes; that `close` waits for all), the
visitors and the API.

What the model shows besides: a server that is still binding when the signal arrives is
not awaited; destroying one end of a tunnel is not passed on by `pipe`, so the other end
may stay until its peer leaves or the stop destroys it; two overlapping queries may leave
the older answer in the cache until it expires.

## 8. Pure functions (`Injection`, `Validation`, `Network`, `Content`)

`Injection` has a page as a sequence of tokens. What the scanner passes over (comments,
raw text) is one "text" token, a marker comment stands for its start and end, and a
page's length for its size. `HtmlBoundaries`, `SortedItems`, `Skipped`, `InjectAt`,
`InjectHtml` and `Eligible` are the functions of `src/lib/injection.mjs`; `Proxied` is what
`InjectionTransform` makes of them, `Preview` what the administration page shows. The
type "url" stands for external scripts and style sheets and for Umami items, whose URLs
and website id are one text; "inline" for scripts, styles and HTML that `automaticDuplicate`
looks for; "plain" for what it does not (metas, and such text of under eight characters).
`Escapes` says which texts `escapeHtml` changes. An item is inserted as `Rendered`, escaped
if it is a URL, and looked for as it was configured (`AutomaticDuplicate`), so `ScriptOnce`
excepts URLs that escaping changes (section 13). `SortedItems` says which item comes at
which position, not how they are sorted.

`Validation` has a value as the class it belongs to as far as the validator tells values
apart: "variant" is rewritten to a canonical value, "bad" refused, "absent" left out; a
field is a function from the class given to the class stored, and `ValidateRoute`,
`ValidateInjection`, `ValidateProfile` are records of such fields with the conditions that
tie fields together. `ParseUmamiSnippet` makes the options of an item of a pasted snippet.

A host name in brackets becomes what is in them: `[ip6]` is accepted as `ip6`, which the
same function refuses without brackets. "ip." stands for whatever turns out to be an
address once it is canonical.

`Network` has an address as a number of `Width` bits and its family. An answer of the
resolver may also be `Mapped`, an IPv4 address written `::ffff:a.b.c.d`, which
`assertAddress` judges by the IPv4 networks. `Members` is the reference: the addresses that
agree with a network bit by bit; `Reached` adds the answers that lead to them.

`Content` sends content through these functions as the server does: a page through the
proxy, and once more when its origin serves what it was sent; a form through validation
when it is saved, activated and toggled; a snippet into an item; a name to an address; a
configuration into the set of clients that are answered.

`DraftRevalidates` has two exceptions that the code makes necessary. A server name like
`1.2.3.4.` or `[1.2.3.4]` is compared with an address before its dot or its brackets are
dropped (`src/lib/model.mjs:168-172`), so it is saved as the address and refused at
activation. A bracketed IPv6 address among the `includeHostnames` of an item
(`:113`, `src/lib/util.mjs:73-82`) is stored without its brackets, and the draft is then
refused for the colons. It speaks of the fields of a form, not of the items that profiles
add at activation, which may be too many or have ids the route has as well.
Lists of host names or environments whose entries become equal only by being made
canonical (`:113-116`) are stored twice by the first pass and once by the second, which is
why `ActiveUnchanged` speaks of forms from their second validation on.

Left out: attributes, nonces and the wording of what is rendered; that a text may be a part
of another one; a URL that an inline item or a meta has besides its content; html items
with structural tags of their own; encodings other than identity; texts that a change to
lower case makes longer than their limit.

## 9. The administration page (`Console`)

The page has one form, the variables `currentDraft` and `editingInjectionIndex` behind it,
and async functions that read the form when they start and change it, or those variables,
when their reply comes, whatever site the form shows by then.

| TLA+ | Code (`src/ui/app.js`) |
|---|---|
| `page` | `#route-id`, `#injections`, `currentDraft`, `editingInjectionIndex` |
| `call[c]` | one async function: what it asked for, its locals, whether it was served |
| `OpenRoute`, `FillRoute` | `openRoute`, `fillRoute`; the card may be of any age |
| `EditItem`, `RemoveItem`, `SaveItem`, `CancelItem`, `EditJson` | the simple item editor and the JSON of the advanced mode |
| `NewRoute`, `SaveDraft`, `ActivateDraft`, `SetRouteEnabled`, `DeleteRoute` | the functions of the same names up to their request |
| `Serve...`, `SaveElsewhere` | the handlers, as one step each (their awaits are the subject of `ControlPlane`), and another tab |
| `Reply`, `Fail` | the rest of the function; any failure of `api` |

`ConfirmedOnly` rests on the handler's comparison of the version's route with the path
(`src/admin.mjs:219`): when a save is answered after another site was opened, the form
holds one site and `currentDraft` the version of another, and an activation is refused.
`EditsOwnItem` has one exception, `rewritten`: editing the JSON while an item is open in
the simple form leaves the index as it was, and saving then replaces whatever item stands
there, one with advanced controls included (`src/ui/app.js:733` does not reset it, unlike
the removal of an item, `:258`).

Also seen: two saves in flight may be served in the other order, so that the draft is the
older text; a late answer to an activation clears `currentDraft` of another form, whose
draft must be saved again before it can be activated.

## 10. The lifecycle program (`Lifecycle`)

A command of `setup` is a list of steps (`Script`); `cmd.todo` holds those that
remain. Steps whose failure the program tests (`UnitFails`, `CheckFails`,
`ConfigureRejects`, `Reset`) continue with the steps of `Undo`; all others end
the program at once, since it runs under `set -e`: that is `Die`, which also
stands for a kill and a power cut.

| TLA+ | Code |
|---|---|
| `releases`, `current` | `/opt/.../releases`, the link `/opt/.../current` |
| `unit`, `config`, `cert`, `db`, `backups` | the installed unit file, `config.json`, `admin.crt`, `state.db`, `/var/backups/...` |
| `proc` | the process: what it had loaded when systemd started it |
| `Install` .. `Uninstall` | the checks at the head of `cmd_install` .. `cmd_uninstall` |
| `MakeBackup`, `InitializeState`, `NoState` | `create_backup`, `recover_interrupted_install_state` |
| `PutRelease`, `Link`, `PutUnit`, `MakeCertificate`, `Configure`, `PutDatabase`, `Remove` | the functions and lines that replace those files |
| `Stop`, `Start`, `Restart`, `Load` | `systemctl`, and what a starting process reads |
| `CheckPasses`, `CheckFails` | `health_check`, which may also be too impatient |
| `ServiceStarts`, `ServiceCrashes` | systemd between two steps of a command |

`Start` leaves an active service alone, as `systemctl start` and `enable --now`
do. `Works` says which release comes up at which address. A configuration is
its administration address; a certificate is the address it names; a database is
the set of changes made through the administration page. `orphan` marks a
process whose database file was replaced while it ran: what it writes from then
on goes to the removed file.

Assumed: one command at a time (the program takes no lock), and that a step of an
undo does its work (the code ignores their failures with `|| true`). Left out:
accounts and permissions, and the commands that change nothing.

`NothingLost` has exceptions that the code makes necessary: changes made during a
restore between its backup (`setup:430`) and the stop of the service, and changes
made after its start when it is undone, because the undo replaces the database
file before it restarts the service (`setup:435-439`). They are counted as
`forfeited`.

## 11. What each run checks

| Run | Question | Shows |
|---|---|---|
| `control_plane` | Two overlapping requests on one route, three versions, crashes | `HealthGate`, `HistoryAppendOnly`, `ToggleIsExact`, `RollbackIsExact` (without profiles here; with them it rests on `RollbacksAreExact`); `Answered`, but for a probe that never settles |
| `publish` | A hostname moves and a profile is edited while two requests wait for probes | `PublishesCandidate`; `ControlInv`, the inductive invariant |
| `two_routes` | Two routes that want one hostname, clones, deletions, crashes | `LiveMatchesStore`; `ServesTable`: the database implements `ServingTable` |
| `materialized` | Does a served route hold its profiles' items? | violated: section 13 |
| `proxy_request` | Two exchanges, every interleaving of their events | `RequestInv` (one head, and what goes with each state), `ActiveRequestsExact`, `OutcomesCountedOnce`, `WholeAnswers`; `RequestEnds`, `UpstreamReleased` |
| `account` | Two requests that overlap at every await | `RecoveryCodeOnce`, `CodesAsShown`, `LastPasswordStands`, `ChangeEndsSessions`, `FailuresBounded` |
| `process` | Two connections while servers start and stop | `ActiveWebSocketsExact`, `GraceRespected`; `StopEnds`, `PeersCatchUp` |
| `content` | Every small page, unusual form, snippet and network | pages: `InjectedExactly`, `InOrder`, `ScriptOnce` (but for URLs that escaping changes), `InjectedOnce`, `PreviewAgrees`; forms: `DraftRevalidates`, `ActiveUnchanged`, `ParsedAccepted`; networks: `AllowedExactly`, `AdminStaysPrivate` |
| `console` | Two sites, one form, replies in any order, another tab | `ConfirmedOnly`, `EditsOwnItem` |
| `lifecycle` | What does a command leave behind, succeeding or failing? | `StaysHealthy`, `FailedReinstates` (link, unit, configuration, database), `RunsInstalled`; that administrators' changes are kept meanwhile: `NothingLost` |
| `reconfigure`, `repair` | What the documents say of failures and of repair | violated: section 13 |

Every property of a passing run has a mutant: an operator marked "Fault" that
makes one definition wrong the way a bug in the code would, under which the
run's own configuration refutes the property.

The type invariants of `ControlPlane`, `ProxyRequest`, `Account` and `Process` are
conjuncts of the inductive invariants and theorems (`ControlTypes`, `RequestTypes`,
`AccountTypes`, `ProcessTypes`), so no run repeats them beside those.

### Bounds

| Bound | Value | Why it is enough |
|---|---|---|
| `RouteIds`, `Hosts` | 1 or 2 | the only relation between routes is a shared hostname; a route that moves needs two hostnames, two routes that compete need one |
| `MaxVersion` | 2 or 3 | three versions give an active, a superseded and a draft one at a time, so that a rollback's source, what it replaces and what it creates differ; two where several routes or revisions do the work |
| `MaxRevision` | 0 or 2 | two revisions make the one captured before a probe differ from the stored one; with 0 profiles are left out where the property is not about them |
| `Handlers` | 2 | a handler's await lets others run; each hazard listed is between one that waits and one that acts |
| `Requests` | 2 | exchanges share only the counters; two show every interleaving of updates |
| `Conns`, `MaxRemote` | 2, 2 | two connections are one on each server, two tunnels, or two queries that overlap; two states of the API are an older and a newer one |
| `Sessions`, `Usernames`, `Passwords`, `Secrets`, `Codes` | 2 each | one that is in force and one that replaces it |
| `CodesPerSet`, `Attempts` | 1, 2 | one code that two requests present; one failure short of the limit and the limit |
| pages | 4 tokens of five kinds in any order; whole pages with three items; one URL that escaping changes | every way in which the four structural tags can be missing, doubled or out of order; `PageProofs` covers every length |
| forms | a good one with any two fields changed | the validator ties at most two fields together; `ContentProofs` covers every combination |
| snippets, addresses | 3 script tags; 3 bits | a tracker, a recorder and one more; prefixes of zero, of full length and between; `ContentProofs` covers every number of each |
| `round` (in `Content`) | 2 for pages, 3 for forms | saved, activated and toggled; the third pass shows that the second was a fixed point |
| `Sites`, `Calls`, `MaxVersions`, `MaxItems` | 2, 2, 3, 2 | the site shown and another, the late reply and a request, a draft of each site and one that supersedes it, the item that is open and another |
| `Releases`, `Addresses` | 3; 2 or 3 | one release that works everywhere, one only locally, one nowhere; loopback, a private address and one the host does not have |
| `MaxChanges`, `MaxBackups`, `MaxFaults` | 2, 2, 1 | an old backup and that of the running command; a second death finds a state that the first already left, with a new command begun |

The guards that are bounds carry the comment `bound`. Symmetry is declared over
sets that no definition tells apart, and never in a run with a liveness
property. `CHECK_DEADLOCK FALSE` is given where the system may come to rest: all
versions used up, every exchange at its end, the process gone, the content through.

### Fairness

- `ControlPlane`: weak fairness of `Resume(h)`: a handler that holds the event
  loop is synchronous code. Strong fairness of `Probe(h)`: an answer or its
  timer waits in the event loop's queue while other handlers take their turns,
  so it is enabled again and again. Fairness is of the disjunction of an answer
  and of `ProbeLost`, never of a good answer.
- `ProxyRequest`: weak fairness of what Node does by itself (`Finish`, `PipeEnds`,
  `close` after a destroy, on either side) and of the idle timer, which is armed
  for the life of the upstream socket. Nothing is assumed of visitors or
  upstreams.
- `Process`: weak fairness of the timers (`GraceOver`, `CacheExpires`), of the callbacks
  of a server that has closed and of the exit after them, and of the end of a NetBird
  request, which has a timeout of its own. Nothing is assumed of visitors, of tunnels or
  of upstreams, so `StopEnds` shows that the grace period is enough by itself.
- `Account`, `Content` and `Console` have no liveness property. `Lifecycle` has none
  because every command may be killed.

## 12. What is proved

The proofs hold for any sets of routes, hostnames, profiles, handlers, sessions, codes,
connections, any finite set of exchanges and any bounds, under the named assumptions of
the modules: bounds are natural numbers, null values are none of the values they stand
beside, and the actors are finitely many.

`ControlPlaneProofs`, the store. `StoreInv` is inductive as it stands: types, the agreement of
each route's pointers with its versions' statuses, the equality of a served
route's hostname with that of its row, and the uniqueness of the latter among
active rows. One lemma per transaction (`SaveDraftInv`, `ActivateInv`, ...,
`ImportInv`) and `NextInv` give `StoreInvariant`; `StoreTypes`, `HostnamesUnique`
and `ConfigurationExists` follow from it. Uniqueness needs the equality of the
two hostnames: the code checks the row's column and the proxy keys its map by the
configuration's. `HistoryIsAppendOnly` goes through the same transactions with the
invariant in hand. `StoreServesTable` shows the refinement: `OneRouteStep` maps a
transaction that touches one route to a publication, a move, a withdrawal or a
stutter of the table, `NoRouteStep` the others to a stutter; both need the
invariant, since the table is a function of hostnames only while they are unique.

The handlers. A chain of refinements: `HandlersUseStore` (`Spec => StoreSpec`) shows that every step of
the handlers is a transaction of `RouteStore` or leaves its variables alone, so that what
is proved of the store holds of the handlers too: `HandlersServeTable`,
`HandlersKeepHostnames`, `HandlersKeepHistory`. A step of a handler is a transaction only
because of what the handler remembers, so the refinement rests on the invariant.
`ControlInv` adds to `StoreInv` one conjunct per stage a handler can be in
(`RequestsSound`): its draft, if it is still one, is the version it names
(`FromDraft`); its candidate is that version's configuration, materialized or as it is;
a version it recorded as good is good (`Gated`); the version a toggle compares with still
has the configuration it read (`FromSource`). Others may supersede the draft at any time,
which `activate` then refuses. `ReloadPending` says where the map may lag behind the
database: only under a handler about to reload, or while the process is down. The lemmas
`...Kept` say that a transaction of somebody else leaves a waiting handler sound; there is
then one lemma per action. The theorems are `ControlInvariant`, `HealthGateHolds`,
`MapFollowsStore`, `ControlTypes`, and the action properties `OnlyCandidatesPublished`,
`RollbacksAreExact` and `TogglesAreExact`.

`ProxyRequestProofs`. The invariant is `Inv`: every exchange is typed and `Sound`,
and the counter equals the cardinality of the unfinished ones. `Sound` is the
strengthening: `OneHead` and `WholeAnswers` alone are not inductive, because that a
failure writes no second head rests on `completed` being set with the head and on
a buffering transform having written none. There is one lemma per event
(`ForwardEffect`, `FailureEffect`, `FlushEffect`, ...) that says what it does to its
own exchange and to the counters, and `EffectCounts` for the cardinality. The
theorems `RequestInvariant`, `AtMostOneHead`, `AnswersAreWhole`,
`ActiveRequestsAreExact` and `RequestTypes` follow. `OutcomesAreCountedOnce` goes through
the events once more with the outcome each counts and the set of exchanges it moves.

`AccountProofs`. `AccountInv` is the type invariant, the three invariants and what a
request remembers (`RequestsSound`: a proof that it was let in, the factor it brought).
`ChangesEndSessions` follows from it, action by action: every action that writes one of the
columns also writes the map. `FailuresStayBounded` has an
invariant of its own, `LimiterInv`: once the limiter blocks, the failures counted and
the logins still in flight share the bound, since no new login starts.

`ProcessProofs`. `ProcessInv` has `ConnSound` for each connection (which flags of a tunnel
go with which of its two ends), the count of tunnels as a cardinality, and `StopSound`:
before the stop nothing is closed, and while the grace timer is armed every connection
accepted before the stop belongs to a server that is still awaited.

`ContentProofs`. One lemma per field says that what was stored is stored again as it is,
or, for the lists and host names of section 8, that it settles or is refused at the second pass; `RouteSettles`,
`ItemSettles` and `ProfileSettles` put them together with the conditions between fields,
and `ParsedItem` does so for whatever the snippet parser accepts. So `DraftsRevalidate`,
`ActiveFormsUnchanged` and `ParsedSnippetsAccepted` hold for forms with any combination of
fields and snippets of any length.

Its second part is about networks, for addresses of any number of bits. The code shifts an
address to the right and compares; that this keeps exactly the leading bits (`MembersAgree`)
and that a network within another has its members among the other's (`WithinMembers`) are
facts about powers of two, proved by induction; `ReachedIs` adds the mapped answers. `LookupsStayInside` and
`AdministrationPrivate` follow. Assumed: names resolve to addresses, prefixes are at most
the width (`LookupsAssumption`, `ConfigsAssumption`, `NetworksAssumption`), as the parser
demands.

`PageProofs`, for pages of any length and any list of items. What `Collect` gathers at one
location is a sequence of blocks, of items that nothing keeps out, in their order, none
looked for among the blocks before it, none forgotten (`Gathered`, by induction on the list). `InjectAt` puts it next to a tag
or does nothing (`InjectAtIs`); the tokens behind it move, so tags, elements and places are
where they were but for the move (`ElementMoves`, `Insertion`). After each location holds
`Built`: every new marker is that of an item which nothing kept out, its content behind it
(`Named`); the old page is embedded, in its order (`Embeds`); a marker is inside of the
element of its location (`Inside`), which is why the next location is behind it, though the
tags may be anywhere (`PlaceIsBehind`); so the markers are in the order of the items, and what
an item looks for is none of the contents inserted before it (`Sequenced`); and a location that has a place has no item that
waits for it (`Handled`), now or after later insertions. That the items are sorted is a
counting argument (`RankIs`): as many come before an item as go before it, and no two have
the same number. From `Built` follow `PagesInjectedExactly` (the page without its blocks is
counted off against the embedding), `BlocksInOrder`, `ScriptsLoadedOnce` and
`PreviewShowsTheTruth`; `SecondPassChangesNothing` rests on `Handled`. Assumed
(`PagesAssumption`): the ids of a route's items differ, as `validateItemCollection`
(`src/lib/model.mjs:78`) demands of what is activated, and priorities are numbers.

`ConsoleProofs`. `ConsoleInv` is the well-formedness of store, form and locals together
with `EditsOwnItem`, which is then inductive: every action that moves the items also closes
the item editor, or marks the list as rewritten. `OnlyConfirmedChanges` rests on the version
naming its own site: an activation is accepted only for the draft of the site in the path,
so the row it changes is the one that was confirmed.

`LifecycleProofs`. `LifecycleInv` follows a command along its plan. `OnPlan`: what is still
to do is the end of the steps of the command, or of those that answer its failure; from it
comes the table of what follows what (`Leads`: `Advance` for a step done, `Fallback` for one
that fails). `Remembers`: which of the files a command found are still as it found them, so
that what it recorded is what it has to put back. `Installed` and `StaysDown`: a service
runs from a unit, and the one a command has stopped stays down, since systemd restarts only
what failed. `Matches` and `UnitMatches` are `RunsInstalled` at every step, but between the
change of a file and the restart. `PutBack` is `FailedReinstates` at every step. `Restorable`:
the release and the address that a sound command found still come up, and, as long as
nothing was changed or once the check has passed or all was put back, are up. `Guarded`: while a restore replaces the database, every change
that was not given up is in a backup alone, which makes `NothingLost` inductive. There is
one lemma per step and one part per conjunct; `HealthPreserved`, `FailurePutsBack`,
`InstalledRuns` and `ChangesSurvive` read the invariant at the end of a command, for any
sets of releases and addresses, whichever of them come up. What is assumed, beyond what
section 10 says of the model, is that what is absent is not taken for something present
(`AbsentAssumption`).

Induction: the library's induction theorems take an operator as a parameter, which the
provers cannot instantiate. `Induct` states induction for a set of numbers, and the
recursive functions of `Network` and `Injection` are unfolded one step at a time.

Only model-checked: liveness (`Answered`, `RequestEnds`, `UpstreamReleased`, `StopEnds`,
`PeersCatchUp`), which is out of this prover's reach, as is `ENABLED`. Every invariant and
action property of a passing run is a theorem.

## 13. Where the code and its documents disagree

- `materialized`: `rollbackDraft` (`src/lib/store.mjs:209`) takes any superseded
  version as a source, one that was a draft only included, and the rollback
  handler does not materialize it. The route is then served without its profiles'
  items; `docs/INJECTION_PROFILES.md:3` says an activated route stores a snapshot.
- `reconfigure`: a move from one private address to another overwrites the
  certificate (`setup:347`); when the health check fails only `config.json` is set
  back. `docs/ADMIN_ACCESS.md:107` says the previous configuration is restored.
- `repair`: `setup:369` does not restart an active service. After an update that
  was cut short, repair succeeds while the old release runs; `docs/INSTALL.md:184`
  lists a restart.

Four more have no run of their own, since a property of a passing run states the exception
or the model shows the step:

- A script URL with an `&` is inserted as `&amp;` and looked for with the `&`
  (`src/lib/injection.mjs:42`, `:54`, `:168-174`). Two items insert it twice, and a page that
  has it escaped, as HTML asks, gets it again. `docs/INJECTION_PROFILES.md:46` says that
  equivalent script URLs prevent repeat injection. `ScriptOnce` excepts such URLs.
- A draft with a bracketed IPv6 host name in an item, or an address with dot or brackets as
  a server name, is accepted when it is saved and refused at every later validation:
  the exceptions of `DraftRevalidates`.
- A login in flight opens its session after a credential change (section 6).
- When the unit does not install during an update (`setup:264`), the link is set back
  without a restart; `docs/INSTALL.md:182` speaks of one. It makes a difference only if
  systemd restarted the service in between: `StaysHealthy` and `RunsInstalled` except it.

## 14. Not modelled

- Migrations of older databases (`migrate`, `migrateVersions`), the audit table and
  metadata: `migrate` creates what is missing and nothing reads the others to decide.
- Handlers that only read, and of the administration page clone, rollback, import, the
  profile editor (the last save wins), account and peers, which pass one request on.
- Which headers the proxy keeps, adds or drops; compression beyond success and failure.
- Attributes, nonces and wording of what is injected.
- `localStatus` of the NetBird client, which runs a command and keeps nothing.
- The fields of the configuration file that are not about the administration listener,
  paths and logging.
- `status`, `health`, `diagnostics` and `detect` of `setup`, accounts and permissions.
- Release tooling and bootstrap scripts, which download, copy and check files and keep no
  state; the sandbox and the tests.
