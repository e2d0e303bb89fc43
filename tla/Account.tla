------------------------------- MODULE Account -------------------------------
(***************************************************************************)
(* The administrator account: the account row of src/lib/store.mjs, the    *)
(* sessions and the login limiter of src/lib/security.mjs, and the login   *)
(* and account handlers of src/admin.mjs.                                  *)
(*                                                                         *)
(* A handler runs between two awaits without a break: it waits for its     *)
(* body (readJson), for scrypt to check a password (verifyPassword) and    *)
(* for scrypt to hash one (hashPassword).  Other requests run in between,  *)
(* so what a handler read before an await may be old after it, and the     *)
(* session that let it in may be gone.                                     *)
(*                                                                         *)
(* A second factor is abstracted to what it is good for: a secret stands   *)
(* for any valid TOTP code of that secret.  Time is the freedom of a       *)
(* session, a pending setup, a window or a block to end at any moment.     *)
(***************************************************************************)
EXTENDS Integers, FiniteSets

CONSTANTS
    Handlers,       \* requests that may be in progress at one time
    Sessions,       \* identities of session objects
    Usernames, Passwords, Secrets, Codes,
    CodesPerSet,    \* the count of generateRecoveryCodes
    Attempts,       \* the attempts of LoginLimiter
    NoSecret, NoSession, Nothing

VARIABLES
    account,    \* the row of admin_account; a secret is stored iff totp_enabled
    session,    \* the session objects: in SessionManager.sessions or not, pendingTotp
    limiter,    \* the entry of LoginLimiter for the one client address
    request,    \* what each handler in progress holds
    shown,      \* history: the recovery codes last shown for this secret
    uses,       \* history: how often each code was accepted
    chosen      \* history: the password of the last acknowledged choice

vars == <<account, session, limiter, request, shown, uses, chosen>>

ASSUME AccountAssumption ==
    /\ IsFiniteSet(Handlers) /\ CodesPerSet \in Nat \ {0} /\ Attempts \in Nat \ {0}
    /\ NoSecret \notin Secrets /\ NoSession \notin Sessions
    /\ Nothing \notin Usernames \cup Passwords \cup Secrets \cup Codes

Account ==
    [username : Usernames, password : Passwords,
     secret : Secrets \cup {NoSecret}, codes : SUBSET Codes]

NoEntry == [count |-> 0, over |-> FALSE, blocked |-> FALSE]

Idle == [op |-> "none", stage |-> "idle", session |-> NoSession, valid |-> FALSE,
         factor |-> Nothing, username |-> Nothing, password |-> Nothing, seen |-> Nothing]

Init ==
    /\ \E u \in Usernames, p \in Passwords :
          /\ account = [username |-> u, password |-> p, secret |-> NoSecret, codes |-> {}]
          /\ chosen = p
    /\ session = [s \in Sessions |-> [alive |-> FALSE, pending |-> NoSecret]]
    /\ limiter = NoEntry
    /\ request = [c \in Handlers |-> Idle]
    /\ shown = {}
    /\ uses = [k \in Codes |-> 0]

-----------------------------------------------------------------------------
(* Sessions and limiter.                                                   *)

Alive == {s \in Sessions : session[s].alive}

\* A new object: no map entry and no handler refers to it.
FreeSessions == (Sessions \ Alive) \ {request[c].session : c \in Handlers}

Create(s) == [session EXCEPT ![s] = [alive |-> TRUE, pending |-> NoSecret]]

\* destroyAllExcept; destroyAll keeps none.  The objects live on in handlers.
DestroyAllExcept(kept) ==
    [s \in Sessions |->
        IF s \in kept THEN session[s] ELSE [session[s] EXCEPT !.alive = FALSE]]

\* Fault (mutation only): a block does not keep logins out.
AlwaysAllowed == TRUE

Allowed == ~limiter.blocked

LimiterFailure ==
    LET n == IF limiter.over THEN 1 ELSE limiter.count + 1
    IN [count |-> n, over |-> FALSE, blocked |-> n >= Attempts]

-----------------------------------------------------------------------------
(* Steps that several handlers share.                                      *)

Start(c, op, s) == request' = [request EXCEPT ![c] = [Idle EXCEPT !.op = op, !.stage = "body", !.session = s]]

Finish(c) == request' = [request EXCEPT ![c] = Idle]

\* Only the handler's own progress changes.
Unchanged == UNCHANGED <<account, session, limiter, shown, uses, chosen>>

At(c, ops, stage) == request[c].op \in ops /\ request[c].stage = stage

\* Secrets and codes are random: a new one is known to nobody.
FreshSecrets ==
    Secrets \ ({account.secret} \cup {session[s].pending : s \in Sessions}
               \cup {request[c].factor : c \in Handlers}
               \cup {request[c].seen : c \in Handlers})

FreshCodes(new) ==
    /\ Cardinality(new) = CodesPerSet
    /\ \A k \in new : uses[k] = 0 /\ k \notin account.codes \cup shown
    /\ \A c \in Handlers : request[c].factor \notin new

\* Fault (mutation only): the list is written back as it was found.
NotSpliced(k) == account.codes

\* consumeAdminRecoveryCode reads the row anew inside its transaction.
Spliced(k) == account.codes \ {k}

\* secondFactorValid: a TOTP code of the given secret, or a recovery code.
IsTotp(secret, factor) == secret # NoSecret /\ factor = secret

HasCode(k) == account.secret # NoSecret /\ k \in account.codes

Used(k) == uses' = [uses EXCEPT ![k] = @ + 1]

-----------------------------------------------------------------------------
(* Arrival: the limiter before a login's body, requireAuth before the rest. *)

Operations == {"credentials", "setup", "enable", "codes", "disable"}

ArriveLogin(c) ==
    /\ request[c] = Idle
    /\ Allowed
    /\ Start(c, "login", NoSession)
    /\ Unchanged

ArriveOperation(c, s, op) ==
    /\ request[c] = Idle
    /\ s \in Alive
    /\ Start(c, op, s)
    /\ Unchanged

\* POST /api/logout, or a session presented after its time: sessions.get deletes
\* it then.  Every accepted request renews a session, so its life has no bound.
SessionEnds(s) ==
    /\ s \in Alive
    /\ session' = [session EXCEPT ![s].alive = FALSE]
    /\ UNCHANGED <<account, limiter, request, shown, uses, chosen>>

\* The body is not JSON or too large; no code or a wrong one confirms a setup.
BodyRefused(c) ==
    /\ At(c, Operations \cup {"login"}, "body")
    /\ Finish(c)
    /\ Unchanged

-----------------------------------------------------------------------------
(* POST /api/login.                                                        *)

LoginBody(c) ==
    /\ At(c, {"login"}, "body")
    /\ \E valid \in BOOLEAN, factor \in Secrets \cup Codes \cup {Nothing} :
          /\ valid \/ factor = Nothing    \* never read after a wrong password
          /\ request' = [request EXCEPT ![c] =
                [@ EXCEPT !.stage = "verify", !.valid = valid, !.factor = factor,
                          !.seen = account.secret]]
    /\ Unchanged

\* By TOTP or without a second factor: nothing of the account changes.
LoginPlain(c) ==
    /\ At(c, {"login"}, "verify") /\ request[c].valid
    /\ request[c].seen = NoSecret \/ IsTotp(request[c].seen, request[c].factor)
    /\ \E s \in FreeSessions : session' = Create(s)
    /\ limiter' = NoEntry
    /\ Finish(c)
    /\ UNCHANGED <<account, shown, uses, chosen>>

NeedsCode(c) ==
    /\ At(c, {"login"}, "verify") /\ request[c].valid
    /\ request[c].seen # NoSecret /\ ~IsTotp(request[c].seen, request[c].factor)

LoginByCode(c) ==
    LET k == request[c].factor IN
    /\ NeedsCode(c) /\ HasCode(k)
    /\ account' = [account EXCEPT !.codes = Spliced(k)]
    /\ Used(k)
    /\ \E s \in FreeSessions : session' = Create(s)
    /\ limiter' = NoEntry
    /\ Finish(c)
    /\ UNCHANGED <<shown, chosen>>

LoginFails(c) ==
    /\ \/ At(c, {"login"}, "verify") /\ ~request[c].valid
       \/ NeedsCode(c) /\ ~HasCode(request[c].factor)
    /\ limiter' = LimiterFailure
    /\ Finish(c)
    /\ UNCHANGED <<account, session, shown, uses, chosen>>

-----------------------------------------------------------------------------
(* The account operations.  All but "enable" ask for the current password. *)

BodyRead(r, valid, factor, u, p) ==
    [r EXCEPT !.stage = "verify", !.valid = valid, !.factor = factor,
              !.username = u, !.password = p,
              !.seen = IF r.op = "credentials" THEN account.password ELSE Nothing]

OperationBody(c) ==
    /\ At(c, Operations \ {"enable"}, "body")
    /\ \E valid \in BOOLEAN, factor \in Secrets \cup Codes \cup {Nothing},
          u \in Usernames \cup {Nothing}, p \in Passwords \cup {Nothing} :
          /\ (valid /\ request[c].op \in {"codes", "disable"}) \/ factor = Nothing
          /\ (valid /\ request[c].op = "credentials") \/ (u = Nothing /\ p = Nothing)
          /\ request' = [request EXCEPT ![c] = BodyRead(request[c], valid, factor, u, p)]
    /\ Unchanged

Verified(c, op) == At(c, {op}, "verify") /\ request[c].valid

\* A wrong password, a user name or password that is not acceptable or not new,
\* or a wrong second factor.
OperationRefused(c) ==
    /\ \/ At(c, Operations, "verify") /\ ~request[c].valid
       \/ Verified(c, "credentials")
       \/ Verified(c, "codes") /\ ~IsTotp(account.secret, request[c].factor)
       \/ /\ Verified(c, "disable")
          /\ ~IsTotp(account.secret, request[c].factor) /\ ~HasCode(request[c].factor)
    /\ Finish(c)
    /\ Unchanged

\* Fault (mutation only): the session that asked is kept.
WriteCredentialsKeepOwn(c, username, password) ==
    /\ account' = [account EXCEPT !.username = username, !.password = password]
    /\ session' = DestroyAllExcept({request[c].session})
    /\ Finish(c)

\* updateAdminCredentials writes both columns; the sessions end with it.
WriteCredentials(c, username, password) ==
    /\ account' = [account EXCEPT !.username = username, !.password = password]
    /\ session' = DestroyAllExcept({})
    /\ Finish(c)

\* Fault (mutation only): the hash that the current password was checked against.
HashBefore(r) == r.seen

\* getAdminAccount is called again when the password has been checked.
CurrentHash(r) == account.password

\* body.username undefined or empty: the name stays.
ChosenUsername(r) == IF r.username = Nothing THEN account.username ELSE r.username

\* Without a new password the write follows the read at once.
ChangeUsername(c) ==
    /\ Verified(c, "credentials") /\ request[c].password = Nothing
    /\ ChosenUsername(request[c]) # account.username
    /\ WriteCredentials(c, ChosenUsername(request[c]), CurrentHash(request[c]))
    /\ UNCHANGED <<limiter, shown, uses, chosen>>

\* With one, the user name is settled first and scrypt runs in between.
HashPassword(c) ==
    /\ Verified(c, "credentials") /\ request[c].password # Nothing
    /\ request' = [request EXCEPT ![c] =
          [@ EXCEPT !.stage = "hash", !.username = ChosenUsername(request[c]), !.seen = Nothing]]
    /\ Unchanged

ChangePassword(c) ==
    /\ At(c, {"credentials"}, "hash")
    /\ WriteCredentials(c, request[c].username, request[c].password)
    /\ chosen' = request[c].password
    /\ UNCHANGED <<limiter, shown, uses>>

-----------------------------------------------------------------------------
(* Two-factor authentication.                                              *)

Setup(c) ==
    /\ Verified(c, "setup")
    /\ IF account.secret # NoSecret
       THEN UNCHANGED session
       ELSE \E t \in FreshSecrets :
               session' = [session EXCEPT ![request[c].session].pending = t]
    /\ Finish(c)
    /\ UNCHANGED <<account, limiter, shown, uses, chosen>>

\* Fault (mutation only): the codes of an earlier secret stay valid too.
EnableRowMerging(secret, codes) == [account EXCEPT !.secret = secret, !.codes = @ \cup codes]

\* enableAdminTotp stores the secret and its codes in one statement.
EnableRow(secret, codes) == [account EXCEPT !.secret = secret, !.codes = codes]

Enable(c) ==
    LET s == request[c].session IN
    /\ At(c, {"enable"}, "body")
    /\ session[s].pending # NoSecret
    /\ \E new \in SUBSET Codes :
          /\ FreshCodes(new)
          /\ account' = EnableRow(session[s].pending, new)
          /\ shown' = new
    /\ session' = [DestroyAllExcept({s}) EXCEPT ![s].pending = NoSecret]
    /\ Finish(c)
    /\ UNCHANGED <<limiter, uses, chosen>>

\* The secret is compared with the row as it is now; a recovery code is no
\* second factor here.
ReplaceCodes(c) ==
    /\ Verified(c, "codes") /\ IsTotp(account.secret, request[c].factor)
    /\ \E new \in SUBSET Codes :
          /\ FreshCodes(new)
          /\ account' = [account EXCEPT !.codes = new]
          /\ shown' = new
    /\ session' = DestroyAllExcept({request[c].session})
    /\ Finish(c)
    /\ UNCHANGED <<limiter, uses, chosen>>

Disable(c) ==
    LET k == request[c].factor IN
    /\ Verified(c, "disable")
    /\ \/ IsTotp(account.secret, k) /\ UNCHANGED uses
       \/ ~IsTotp(account.secret, k) /\ HasCode(k) /\ Used(k)
    /\ account' = [account EXCEPT !.secret = NoSecret, !.codes = {}]
    /\ shown' = {}
    /\ session' = DestroyAllExcept({})
    /\ Finish(c)
    /\ UNCHANGED <<limiter, chosen>>

-----------------------------------------------------------------------------
(* Time.                                                                   *)

SetupLapses(s) ==
    /\ session[s].pending # NoSecret
    /\ session' = [session EXCEPT ![s].pending = NoSecret]
    /\ UNCHANGED <<account, limiter, request, shown, uses, chosen>>

\* A block is as long as the window and starts inside it, so it ends later.
WindowEnds ==
    /\ limiter.count > 0 /\ ~limiter.over
    /\ limiter' = [limiter EXCEPT !.over = TRUE]
    /\ UNCHANGED <<account, session, request, shown, uses, chosen>>

BlockEnds ==
    /\ limiter.over /\ limiter.blocked
    /\ limiter' = [limiter EXCEPT !.blocked = FALSE]
    /\ UNCHANGED <<account, session, request, shown, uses, chosen>>

-----------------------------------------------------------------------------
Login(c) == LoginBody(c) \/ LoginPlain(c) \/ LoginByCode(c) \/ LoginFails(c)

Operation(c) ==
    \/ OperationBody(c) \/ OperationRefused(c)
    \/ ChangeUsername(c) \/ HashPassword(c) \/ ChangePassword(c)
    \/ Setup(c) \/ Enable(c) \/ ReplaceCodes(c) \/ Disable(c)

Next ==
    \/ \E c \in Handlers : ArriveLogin(c) \/ BodyRefused(c) \/ Login(c) \/ Operation(c)
    \/ \E c \in Handlers, s \in Sessions, op \in Operations : ArriveOperation(c, s, op)
    \/ \E s \in Sessions : SessionEnds(s) \/ SetupLapses(s)
    \/ WindowEnds \/ BlockEnds

Spec == Init /\ [][Next]_vars

-----------------------------------------------------------------------------
(* Properties.                                                             *)

Request ==
    [op : Operations \cup {"none", "login"}, stage : {"idle", "body", "verify", "hash"},
     session : Sessions \cup {NoSession}, valid : BOOLEAN,
     factor : Secrets \cup Codes \cup {Nothing}, username : Usernames \cup {Nothing},
     password : Passwords \cup {Nothing}, seen : Secrets \cup {NoSecret} \cup Passwords \cup {Nothing}]

\* Type invariant.
TypeOK ==
    /\ account \in Account
    /\ session \in [Sessions -> [alive : BOOLEAN, pending : Secrets \cup {NoSecret}]]
    /\ limiter \in [count : Nat, over : BOOLEAN, blocked : BOOLEAN]
    /\ request \in [Handlers -> Request]
    /\ shown \subseteq Codes /\ uses \in [Codes -> Nat]
    /\ chosen \in Passwords

\* A recovery code lets somebody in or switches two-factor authentication off
\* at most once, however logins, disabling and credential changes overlap
\* (consumeAdminRecoveryCode finds and removes it in one transaction of a row
\* it reads anew).
RecoveryCodeOnce == \A k \in Codes : uses[k] <= 1

\* The codes the account accepts are the ones the administrator was shown when
\* the present secret was confirmed or its codes were last replaced, less the
\* ones used since: no overlapping request brings others back or loses one.
CodesAsShown == account.codes = {k \in shown : uses[k] = 0}

\* The password is the one of the last credential change that asked for one
\* and was answered: a change of the user name alone, checked earlier and
\* finished later, does not put an older hash back.
LastPasswordStands == account.password = chosen

CredentialsChange ==
    account'.username # account.username \/ account'.password # account.password

SecondFactorEnds == account.secret # NoSecret /\ account'.secret = NoSecret

SecondFactorChanges ==
    account'.secret # NoSecret /\ (account'.secret # account.secret \/ shown' # shown)

\* A change of the user name or the password and the end of two-factor
\* authentication leave no session in the map, not even that of the request
\* (admin.mjs calls destroyAll).  A new secret and a new set of codes leave at
\* most the session whose request is answered in this very step
\* (destroyAllExcept).  Nothing is said of a login in flight: it may have
\* checked the old password before the change and opens its session after it.
ChangeEndsSessions ==
    [][/\ CredentialsChange \/ SecondFactorEnds => Alive' = {}
       /\ SecondFactorChanges =>
             \E c \in Handlers :
                /\ request[c].op \in {"enable", "codes"} /\ request'[c] = Idle
                /\ Alive' \subseteq Alive \cap {request[c].session}]_vars

\* The limiter overshoots its limit by no more than the logins that were
\* already past it when the limit was reached.
FailuresBounded == limiter.count < Attempts + Cardinality(Handlers)
=============================================================================
