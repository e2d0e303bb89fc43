---------------------------- MODULE AccountProofs ----------------------------
(***************************************************************************)
(* Proofs about the account, for every number of requests, sessions,       *)
(* secrets and codes and every limit on attempts.                          *)
(***************************************************************************)
EXTENDS Account, FiniteSetTheorems, TLAPS

SessionObject == [alive : BOOLEAN, pending : Secrets \cup {NoSecret}]

\* What an operation holds once it is past the checks that the code makes
\* before: its session, and the name and password it is about to write.
RequestSound(q) ==
    /\ q.op \in Operations => q.session \in Sessions
    /\ q.op = "credentials" /\ q.stage = "hash" => q.username \in Usernames /\ q.password \in Passwords

RequestsSound == \A c \in Handlers : RequestSound(request[c])

\* The logins that the limiter has let in and that have not ended.
InFlight == {c \in Handlers : request[c].op = "login"}

\* Inside a window, no block means that the limit is not reached; under a
\* block, the failures and the logins that may still fail share the bound.
LimiterInv ==
    /\ ~limiter.over /\ ~limiter.blocked => limiter.count < Attempts
    /\ ~limiter.over /\ limiter.blocked =>
          limiter.count + Cardinality(InFlight) < Attempts + Cardinality(Handlers)
    /\ FailuresBounded

\* The inductive invariant of the account.
AccountInv ==
    /\ TypeOK /\ RequestsSound
    /\ RecoveryCodeOnce /\ CodesAsShown /\ LastPasswordStands

-----------------------------------------------------------------------------
(* The progress of handlers.                                               *)

LEMMA IdleType == Idle \in Request /\ RequestSound(Idle)
BY DEF Idle, Request, RequestSound, Operations

Factors == Secrets \cup Codes \cup {Nothing}

Remembered == Secrets \cup {NoSecret} \cup Passwords \cup {Nothing}

\* The fields with their ranges by name.
LEMMA RequestFields ==
    Request = [op : Operations \cup {"none", "login"}, stage : {"idle", "body", "verify", "hash"},
               session : Sessions \cup {NoSession}, valid : BOOLEAN, factor : Factors,
               username : Usernames \cup {Nothing}, password : Passwords \cup {Nothing},
               seen : Remembered]
BY DEF Request, Factors, Remembered

LEMMA FinishSound ==
    ASSUME TypeOK, RequestsSound, NEW c \in Handlers, Finish(c)
    PROVE  request' \in [Handlers -> Request] /\ RequestsSound'
BY IdleType DEF TypeOK, RequestsSound, Finish

\* Any other step of a handler stores one sound record.
LEMMA ProgressSound ==
    ASSUME TypeOK, RequestsSound, NEW c \in Handlers, NEW q \in Request, RequestSound(q),
           request' = [request EXCEPT ![c] = q]
    PROVE  request' \in [Handlers -> Request] /\ RequestsSound'
BY DEF TypeOK, RequestsSound

LEMMA StartSound ==
    ASSUME NEW op \in Operations \cup {"login"}, NEW s \in Sessions \cup {NoSession},
           op \in Operations => s \in Sessions
    PROVE  LET q == [Idle EXCEPT !.op = op, !.stage = "body", !.session = s]
           IN q \in Request /\ RequestSound(q)
BY DEF Idle, Request, RequestSound, Operations

\* A step that leaves account and histories alone keeps what is said of them.
LEMMA AccountKept ==
    ASSUME AccountInv, UNCHANGED <<account, shown, uses, chosen>>,
           session' \in [Sessions -> SessionObject],
           limiter' \in [count : Nat, over : BOOLEAN, blocked : BOOLEAN],
           request' \in [Handlers -> Request], RequestsSound'
    PROVE  AccountInv'
BY DEF AccountInv, TypeOK, SessionObject, RecoveryCodeOnce, CodesAsShown, LastPasswordStands

LEMMA ProgressInv ==
    ASSUME AccountInv, Unchanged, request' \in [Handlers -> Request], RequestsSound'
    PROVE  AccountInv'
BY AccountKept DEF AccountInv, TypeOK, Unchanged, SessionObject

-----------------------------------------------------------------------------
(* Sessions and limiter.                                                   *)

LEMMA CreateType ==
    ASSUME TypeOK, NEW s \in Sessions
    PROVE  Create(s) \in [Sessions -> SessionObject]
BY DEF TypeOK, Create, SessionObject

LEMMA DestroyType ==
    ASSUME TypeOK, NEW kept
    PROVE  /\ DestroyAllExcept(kept) \in [Sessions -> SessionObject]
           /\ \A s \in Sessions : DestroyAllExcept(kept)[s].alive => s \in kept /\ session[s].alive
<1>1. ASSUME NEW s \in Sessions
      PROVE  /\ DestroyAllExcept(kept)[s] \in SessionObject
             /\ DestroyAllExcept(kept)[s].alive => s \in kept /\ session[s].alive
  BY DEF TypeOK, DestroyAllExcept, SessionObject
<1>2. DestroyAllExcept(kept) = [s \in Sessions |-> DestroyAllExcept(kept)[s]]
  BY DEF DestroyAllExcept
<1> QED BY <1>1, <1>2

LEMMA LimiterType ==
    ASSUME TypeOK
    PROVE  /\ NoEntry \in [count : Nat, over : BOOLEAN, blocked : BOOLEAN]
           /\ LimiterFailure \in [count : Nat, over : BOOLEAN, blocked : BOOLEAN]
BY AccountAssumption DEF TypeOK, NoEntry, LimiterFailure

-----------------------------------------------------------------------------
(* One lemma per step that changes the account.                            *)

\* An accepted recovery code was unused, is counted once and is gone.
LEMMA CodeSpent ==
    ASSUME AccountInv, NEW k \in account.codes, Used(k), UNCHANGED shown
    PROVE  /\ uses' \in [Codes -> Nat]
           /\ RecoveryCodeOnce'
           /\ account.codes \ {k} = {j \in shown' : uses'[j] = 0}
<1>1. k \in Codes /\ k \in shown /\ uses[k] = 0
  BY DEF AccountInv, TypeOK, Account, CodesAsShown
<1>2. uses \in [Codes -> Nat] /\ shown \subseteq Codes
  BY DEF AccountInv, TypeOK
<1>3. uses' = [uses EXCEPT ![k] = 1]
  BY <1>1, <1>2 DEF Used
<1>4. RecoveryCodeOnce'
  BY <1>2, <1>3 DEF AccountInv, RecoveryCodeOnce
<1> QED BY <1>1, <1>2, <1>3, <1>4 DEF AccountInv, CodesAsShown

LEMMA LoginByCodeInv ==
    ASSUME AccountInv, NEW c \in Handlers, LoginByCode(c)
    PROVE  AccountInv'
<1> DEFINE k == request[c].factor
<1>1. /\ k \in account.codes /\ Used(k) /\ Finish(c)
      /\ account' = [account EXCEPT !.codes = account.codes \ {k}]
      /\ limiter' = NoEntry /\ UNCHANGED <<shown, chosen>>
      /\ \E s \in FreeSessions : session' = Create(s)
  BY DEF LoginByCode, NeedsCode, HasCode, Spliced
<1>2. account' \in Account /\ account'.codes = account.codes \ {k} /\ account'.password = account.password
  BY <1>1 DEF AccountInv, TypeOK, Account
<1>3. session' \in [Sessions -> SessionObject]
  BY <1>1, CreateType DEF AccountInv, FreeSessions, Alive
<1>4. request' \in [Handlers -> Request] /\ RequestsSound'
  BY <1>1, FinishSound DEF AccountInv
<1>5. limiter' \in [count : Nat, over : BOOLEAN, blocked : BOOLEAN]
  BY <1>1, LimiterType DEF AccountInv
<1>6. /\ uses' \in [Codes -> Nat] /\ RecoveryCodeOnce'
      /\ account'.codes = {j \in shown' : uses'[j] = 0}
  BY <1>1, <1>2, CodeSpent
<1> QED BY <1>1, <1>2, <1>3, <1>4, <1>5, <1>6
        DEF AccountInv, TypeOK, SessionObject, CodesAsShown, LastPasswordStands

LEMMA WriteCredentialsInv ==
    ASSUME AccountInv, NEW c \in Handlers, NEW u \in Usernames, NEW p \in Passwords,
           WriteCredentials(c, u, p), chosen' = p, UNCHANGED <<limiter, shown, uses>>
    PROVE  AccountInv'
<1>1. account' \in Account /\ account'.codes = account.codes /\ account'.password = p
  BY DEF AccountInv, TypeOK, Account, WriteCredentials
<1>2. session' \in [Sessions -> SessionObject]
  BY DestroyType DEF WriteCredentials, AccountInv
<1>3. request' \in [Handlers -> Request] /\ RequestsSound'
  BY FinishSound DEF WriteCredentials, AccountInv
<1> QED BY <1>1, <1>2, <1>3
        DEF AccountInv, TypeOK, SessionObject, RecoveryCodeOnce, CodesAsShown, LastPasswordStands

LEMMA ChangeUsernameInv ==
    ASSUME AccountInv, NEW c \in Handlers, ChangeUsername(c)
    PROVE  AccountInv'
<1>1. request[c] \in Request /\ account \in Account /\ chosen \in Passwords
  BY DEF AccountInv, TypeOK
<1>2. ChosenUsername(request[c]) \in Usernames
  BY <1>1 DEF ChosenUsername, Request, Account
<1>3. /\ account.password \in Passwords
      /\ WriteCredentials(c, ChosenUsername(request[c]), account.password)
      /\ chosen' = account.password /\ UNCHANGED <<limiter, shown, uses>>
  BY <1>1 DEF ChangeUsername, CurrentHash, AccountInv, LastPasswordStands, Account
<1> QED BY <1>2, <1>3, WriteCredentialsInv

LEMMA ChangePasswordInv ==
    ASSUME AccountInv, NEW c \in Handlers, ChangePassword(c)
    PROVE  AccountInv'
<1>1. request[c].username \in Usernames /\ request[c].password \in Passwords
  BY DEF ChangePassword, At, AccountInv, RequestsSound, RequestSound
<1> QED BY <1>1, WriteCredentialsInv DEF ChangePassword

\* A new set of codes is unused and shown as a whole.
LEMMA NewCodes ==
    ASSUME AccountInv, NEW new \in SUBSET Codes, FreshCodes(new), shown' = new, UNCHANGED uses
    PROVE  new = {k \in shown' : uses'[k] = 0} /\ RecoveryCodeOnce'
BY DEF FreshCodes, AccountInv, RecoveryCodeOnce

LEMMA EnableInv ==
    ASSUME AccountInv, NEW c \in Handlers, Enable(c)
    PROVE  AccountInv'
<1> DEFINE s == request[c].session
<1>1. PICK new \in SUBSET Codes :
         FreshCodes(new) /\ account' = EnableRow(session[s].pending, new) /\ shown' = new
  BY DEF Enable
<1>2. s \in Sessions
  BY DEF Enable, At, AccountInv, RequestsSound, RequestSound, Operations
<1>3. session[s].pending \in Secrets \cup {NoSecret}
  BY <1>2 DEF AccountInv, TypeOK
<1>4. account' \in Account /\ account'.codes = new /\ account'.password = account.password
  BY <1>1, <1>3 DEF EnableRow, AccountInv, TypeOK, Account
<1>5. session' \in [Sessions -> SessionObject]
  <2>1. session' = [DestroyAllExcept({s}) EXCEPT ![s].pending = NoSecret]
    BY DEF Enable
  <2>2. DestroyAllExcept({s}) \in [Sessions -> SessionObject]
    BY DestroyType DEF AccountInv
  <2> QED BY <1>2, <2>1, <2>2 DEF SessionObject
<1>6. request' \in [Handlers -> Request] /\ RequestsSound'
  BY FinishSound DEF Enable, AccountInv
<1>7. new = {k \in shown' : uses'[k] = 0} /\ RecoveryCodeOnce'
  BY <1>1, NewCodes DEF Enable
<1> QED BY <1>1, <1>4, <1>5, <1>6, <1>7
        DEF Enable, AccountInv, TypeOK, SessionObject, CodesAsShown, LastPasswordStands

LEMMA ReplaceCodesInv ==
    ASSUME AccountInv, NEW c \in Handlers, ReplaceCodes(c)
    PROVE  AccountInv'
<1>1. PICK new \in SUBSET Codes :
         FreshCodes(new) /\ account' = [account EXCEPT !.codes = new] /\ shown' = new
  BY DEF ReplaceCodes
<1>2. account' \in Account /\ account'.codes = new /\ account'.password = account.password
  BY <1>1 DEF AccountInv, TypeOK, Account
<1>3. session' \in [Sessions -> SessionObject]
  BY DestroyType DEF ReplaceCodes, AccountInv
<1>4. request' \in [Handlers -> Request] /\ RequestsSound'
  BY FinishSound DEF ReplaceCodes, AccountInv
<1>5. new = {k \in shown' : uses'[k] = 0} /\ RecoveryCodeOnce'
  BY <1>1, NewCodes DEF ReplaceCodes
<1> QED BY <1>1, <1>2, <1>3, <1>4, <1>5
        DEF ReplaceCodes, AccountInv, TypeOK, SessionObject, CodesAsShown, LastPasswordStands

LEMMA DisableInv ==
    ASSUME AccountInv, NEW c \in Handlers, Disable(c)
    PROVE  AccountInv'
<1> DEFINE k == request[c].factor
<1>1. account' \in Account /\ account'.codes = {} /\ account'.password = account.password
  BY DEF Disable, AccountInv, TypeOK, Account
<1>2. session' \in [Sessions -> SessionObject]
  BY DestroyType DEF Disable, AccountInv
<1>3. request' \in [Handlers -> Request] /\ RequestsSound'
  BY FinishSound DEF Disable, AccountInv
<1>4. uses' \in [Codes -> Nat] /\ RecoveryCodeOnce'
  <2>1. CASE UNCHANGED uses
    BY <2>1 DEF AccountInv, TypeOK, RecoveryCodeOnce
  <2>2. CASE HasCode(k) /\ Used(k)
    <3>1. k \in Codes /\ uses[k] = 0 /\ uses \in [Codes -> Nat]
      BY <2>2 DEF HasCode, AccountInv, TypeOK, CodesAsShown
    <3>2. uses' = [uses EXCEPT ![k] = 1]
      BY <2>2, <3>1 DEF Used
    <3> QED BY <3>1, <3>2 DEF AccountInv, RecoveryCodeOnce
  <2> QED BY <2>1, <2>2 DEF Disable
<1> QED BY <1>1, <1>2, <1>3, <1>4
        DEF Disable, AccountInv, TypeOK, SessionObject, CodesAsShown, LastPasswordStands

-----------------------------------------------------------------------------
(* The steps of one handler.                                               *)

LEMMA ArriveInv ==
    ASSUME AccountInv, NEW c \in Handlers,
           ArriveLogin(c) \/ \E s \in Sessions, op \in Operations : ArriveOperation(c, s, op)
    PROVE  AccountInv'
<1>1. ASSUME NEW op \in Operations \cup {"login"}, NEW s \in Sessions \cup {NoSession},
             op \in Operations => s \in Sessions, Start(c, op, s), Unchanged
      PROVE  AccountInv'
  <2> DEFINE q == [Idle EXCEPT !.op = op, !.stage = "body", !.session = s]
  <2>1. q \in Request /\ RequestSound(q)
    BY <1>1, StartSound
  <2>2. request' = [request EXCEPT ![c] = q]
    BY <1>1 DEF Start
  <2> HIDE DEF q
  <2>3. request' \in [Handlers -> Request] /\ RequestsSound'
    BY <2>1, <2>2, ProgressSound DEF AccountInv
  <2> QED BY <1>1, <2>3, ProgressInv
<1>2. CASE ArriveLogin(c)
  BY <1>1, <1>2 DEF ArriveLogin, Operations
<1>3. CASE \E s \in Sessions, op \in Operations : ArriveOperation(c, s, op)
  BY <1>1, <1>3 DEF ArriveOperation
<1> QED BY <1>2, <1>3

LEMMA LoginBodyInv ==
    ASSUME AccountInv, NEW c \in Handlers, LoginBody(c)
    PROVE  AccountInv'
<1>1. PICK valid \in BOOLEAN, factor \in Secrets \cup Codes \cup {Nothing} :
         request' = [request EXCEPT ![c] =
            [request[c] EXCEPT !.stage = "verify", !.valid = valid, !.factor = factor,
                               !.seen = account.secret]]
  BY DEF LoginBody
<1> DEFINE q == [request[c] EXCEPT !.stage = "verify", !.valid = valid, !.factor = factor,
                                   !.seen = account.secret]
<1>2. request[c] \in Request /\ request[c].op = "login" /\ account.secret \in Secrets \cup {NoSecret}
  BY DEF LoginBody, At, AccountInv, TypeOK, Account
<1>3. q \in Request
  BY <1>2, ZenonT(40) DEF Request
<1>4. RequestSound(q)
  <2>1. q.op = "login"
    BY <1>2 DEF Request
  <2> HIDE DEF q
  <2> QED BY <2>1 DEF RequestSound, Operations
<1> HIDE DEF q
<1>5. request' = [request EXCEPT ![c] = q]
  BY <1>1 DEF q
<1>6. request' \in [Handlers -> Request] /\ RequestsSound'
  BY <1>3, <1>4, <1>5, ProgressSound DEF AccountInv
<1> QED BY <1>6, ProgressInv DEF LoginBody

LEMMA BodyReadSound ==
    ASSUME TypeOK, NEW r \in Request, RequestSound(r), NEW valid \in BOOLEAN,
           NEW factor \in Factors, NEW u \in Usernames \cup {Nothing}, NEW p \in Passwords \cup {Nothing}
    PROVE  /\ BodyRead(r, valid, factor, u, p) \in Request
           /\ RequestSound(BodyRead(r, valid, factor, u, p))
<1> DEFINE q == BodyRead(r, valid, factor, u, p)
           old == IF r.op = "credentials" THEN account.password ELSE Nothing
<1>1. old \in Remembered
  BY DEF TypeOK, Account, Remembered
<1>2. q = [r EXCEPT !.stage = "verify", !.valid = valid, !.factor = factor,
                    !.username = u, !.password = p, !.seen = old]
  BY DEF BodyRead
<1> HIDE DEF q, old
<1> DEFINE Ops == Operations \cup {"none", "login"}
           Stages == {"idle", "body", "verify", "hash"}
           Names == Usernames \cup {Nothing}
           Words == Passwords \cup {Nothing}
           Ends == Sessions \cup {NoSession}
<1>3. q \in Request /\ q.op = r.op /\ q.session = r.session /\ q.stage = "verify"
  <2>1. "verify" \in Stages /\ u \in Names /\ p \in Words
    OBVIOUS
  <2>2. Request = [op : Ops, stage : Stages, session : Ends, valid : BOOLEAN, factor : Factors,
                   username : Names, password : Words, seen : Remembered]
    BY RequestFields
  <2> HIDE DEF Ops, Stages, Names, Words, Ends
  <2> QED BY <1>1, <1>2, <2>1, <2>2
<1>5. RequestSound(q)
  BY <1>3 DEF RequestSound
<1> QED BY <1>3, <1>5 DEF q

LEMMA OperationBodyInv ==
    ASSUME AccountInv, NEW c \in Handlers, OperationBody(c)
    PROVE  AccountInv'
<1>1. PICK valid \in BOOLEAN, factor \in Factors, u \in Usernames \cup {Nothing}, p \in Passwords \cup {Nothing} :
         request' = [request EXCEPT ![c] = BodyRead(request[c], valid, factor, u, p)]
  BY DEF OperationBody, Factors
<1> DEFINE q == BodyRead(request[c], valid, factor, u, p)
<1>2. q \in Request /\ RequestSound(q)
  BY BodyReadSound DEF AccountInv, TypeOK, RequestsSound
<1> HIDE DEF q
<1>3. request' = [request EXCEPT ![c] = q]
  BY <1>1 DEF q
<1>4. request' \in [Handlers -> Request] /\ RequestsSound'
  BY <1>2, <1>3, ProgressSound DEF AccountInv
<1> QED BY <1>4, ProgressInv DEF OperationBody

LEMMA HashPasswordInv ==
    ASSUME AccountInv, NEW c \in Handlers, HashPassword(c)
    PROVE  AccountInv'
<1> DEFINE q == [request[c] EXCEPT !.stage = "hash", !.username = ChosenUsername(request[c]),
                                   !.seen = Nothing]
<1>1. /\ request[c] \in Request /\ RequestSound(request[c]) /\ account \in Account
      /\ request[c].password # Nothing
  BY DEF HashPassword, AccountInv, TypeOK, RequestsSound
<1>2. ChosenUsername(request[c]) \in Usernames /\ request[c].password \in Passwords
  BY <1>1 DEF ChosenUsername, Request, Account
<1>3. q \in Request /\ RequestSound(q)
  BY <1>1, <1>2 DEF Request, RequestSound
<1>4. request' = [request EXCEPT ![c] = q]
  BY DEF HashPassword
<1>5. request' \in [Handlers -> Request] /\ RequestsSound'
  BY <1>3, <1>4, ProgressSound DEF AccountInv
<1> QED BY <1>5, ProgressInv DEF HashPassword

\* A handler that ends, at most with a session, a pending setup or an entry of
\* the limiter to show for it.
LEMMA EndInv ==
    ASSUME AccountInv, NEW c \in Handlers,
           BodyRefused(c) \/ LoginPlain(c) \/ LoginFails(c) \/ OperationRefused(c) \/ Setup(c)
    PROVE  AccountInv'
<1>1. Finish(c) /\ UNCHANGED <<account, shown, uses, chosen>>
  BY DEF BodyRefused, LoginPlain, LoginFails, OperationRefused, Setup, Unchanged
<1>2. request' \in [Handlers -> Request] /\ RequestsSound'
  BY <1>1, FinishSound DEF AccountInv
<1>3. session' \in [Sessions -> SessionObject]
  <2>1. CASE LoginPlain(c)
    BY <2>1, CreateType DEF LoginPlain, FreeSessions, Alive, AccountInv
  <2>2. CASE Setup(c)
    <3>1. session \in [Sessions -> SessionObject]
      BY DEF AccountInv, TypeOK, SessionObject
    <3>2. CASE UNCHANGED session
      BY <3>1, <3>2
    <3>3. CASE \E t \in FreshSecrets : session' = [session EXCEPT ![request[c].session].pending = t]
      <4>1. PICK t \in FreshSecrets : session' = [session EXCEPT ![request[c].session].pending = t]
        BY <3>3
      <4>2. t \in Secrets
        BY DEF FreshSecrets
      <4> QED BY <3>1, <4>1, <4>2 DEF SessionObject
    <3> QED BY <2>2, <3>2, <3>3 DEF Setup
  <2>3. CASE UNCHANGED session
    BY <2>3 DEF AccountInv, TypeOK, SessionObject
  <2> QED BY <2>1, <2>2, <2>3 DEF BodyRefused, LoginFails, OperationRefused, Unchanged
<1>4. limiter' \in [count : Nat, over : BOOLEAN, blocked : BOOLEAN]
  <2>1. limiter' \in {limiter, NoEntry, LimiterFailure}
    BY DEF BodyRefused, LoginPlain, LoginFails, OperationRefused, Setup, Unchanged
  <2> QED BY <2>1, LimiterType DEF AccountInv, TypeOK
<1> QED BY <1>1, <1>2, <1>3, <1>4, AccountKept

\* Time and the end of a session.
LEMMA TimeInv ==
    ASSUME AccountInv,
           \/ \E s \in Sessions : SessionEnds(s) \/ SetupLapses(s)
           \/ WindowEnds \/ BlockEnds
    PROVE  AccountInv'
<1>1. UNCHANGED <<account, request, shown, uses, chosen>>
  BY DEF SessionEnds, SetupLapses, WindowEnds, BlockEnds
<1>2. /\ session \in [Sessions -> SessionObject]
      /\ limiter \in [count : Nat, over : BOOLEAN, blocked : BOOLEAN]
      /\ request \in [Handlers -> Request] /\ RequestsSound
  BY DEF AccountInv, TypeOK, SessionObject
<1>3. session' \in [Sessions -> SessionObject]
  <2>1. CASE UNCHANGED session
    BY <1>2, <2>1
  <2>2. ASSUME NEW s \in Sessions, session' = [session EXCEPT ![s].alive = FALSE]
        PROVE  session' \in [Sessions -> SessionObject]
    BY <1>2, <2>2 DEF SessionObject
  <2>3. ASSUME NEW s \in Sessions, session' = [session EXCEPT ![s].pending = NoSecret]
        PROVE  session' \in [Sessions -> SessionObject]
    BY <1>2, <2>3 DEF SessionObject
  <2> QED BY <2>1, <2>2, <2>3 DEF SessionEnds, SetupLapses, WindowEnds, BlockEnds
<1>4. limiter' \in [count : Nat, over : BOOLEAN, blocked : BOOLEAN]
  BY <1>2 DEF SessionEnds, SetupLapses, WindowEnds, BlockEnds
<1>5. request' \in [Handlers -> Request] /\ RequestsSound'
  BY <1>1, <1>2 DEF RequestsSound
<1> QED BY <1>1, <1>3, <1>4, <1>5, AccountKept

LEMMA InitInv == Init => AccountInv
<1> SUFFICES ASSUME Init PROVE AccountInv
  OBVIOUS
<1>1. account \in Account /\ account.codes = {} /\ account.password = chosen /\ chosen \in Passwords
  BY DEF Init, Account
<1>2. request \in [Handlers -> Request] /\ RequestsSound
  BY IdleType DEF Init, RequestsSound
<1>3. session \in [Sessions -> SessionObject] /\ limiter \in [count : Nat, over : BOOLEAN, blocked : BOOLEAN]
  BY DEF Init, SessionObject, NoEntry
<1> QED BY <1>1, <1>2, <1>3
        DEF Init, AccountInv, TypeOK, SessionObject, RecoveryCodeOnce, CodesAsShown, LastPasswordStands

LEMMA StepInv == AccountInv /\ [Next]_vars => AccountInv'
<1> SUFFICES ASSUME AccountInv, [Next]_vars PROVE AccountInv'
  OBVIOUS
<1>1. CASE UNCHANGED vars
  BY <1>1 DEF vars, AccountInv, TypeOK, RequestsSound, RecoveryCodeOnce, CodesAsShown, LastPasswordStands
<1>2. ASSUME NEW c \in Handlers, ArriveLogin(c) \/ BodyRefused(c) \/ Login(c) \/ Operation(c)
      PROVE  AccountInv'
  BY <1>2, ArriveInv, EndInv, LoginBodyInv, LoginByCodeInv, OperationBodyInv, HashPasswordInv,
     ChangeUsernameInv, ChangePasswordInv, EnableInv, ReplaceCodesInv, DisableInv
     DEF Login, Operation
<1>3. ASSUME NEW c \in Handlers, NEW s \in Sessions, NEW op \in Operations, ArriveOperation(c, s, op)
      PROVE  AccountInv'
  BY <1>3, ArriveInv
<1> QED BY <1>1, <1>2, <1>3, TimeInv DEF Next

\* In every interleaving of any number of requests the account stays of its
\* type, no recovery code is accepted twice, the codes are the ones shown less
\* the ones used, and the password is the last one chosen.
THEOREM AccountInvariant == Spec => []AccountInv
BY InitInv, StepInv, PTL DEF Spec

THEOREM AccountTypes == Spec => []TypeOK
<1>1. AccountInv => TypeOK
  BY DEF AccountInv
<1> QED BY <1>1, AccountInvariant, PTL

\* consumeAdminRecoveryCode accepts a code at most once.
THEOREM CodesWorkOnce == Spec => []RecoveryCodeOnce
<1>1. AccountInv => RecoveryCodeOnce
  BY DEF AccountInv
<1> QED BY <1>1, AccountInvariant, PTL

\* enableAdminTotp, replaceAdminRecoveryCodes and consumeAdminRecoveryCode keep
\* the codes of the row in step with the codes on the administrator's screen.
THEOREM CodesStayShown == Spec => []CodesAsShown
<1>1. AccountInv => CodesAsShown
  BY DEF AccountInv
<1> QED BY <1>1, AccountInvariant, PTL

\* No credential change puts back a password that another one replaced.
THEOREM PasswordStands == Spec => []LastPasswordStands
<1>1. AccountInv => LastPasswordStands
  BY DEF AccountInv
<1> QED BY <1>1, AccountInvariant, PTL

-----------------------------------------------------------------------------
(* Ended sessions.                                                         *)

\* What the property asks of one step.
SessionsEnd ==
    /\ CredentialsChange \/ SecondFactorEnds => Alive' = {}
    /\ SecondFactorChanges =>
          \E c \in Handlers :
             /\ request[c].op \in {"enable", "codes"} /\ request'[c] = Idle
             /\ Alive' \subseteq Alive \cap {request[c].session}

\* destroyAll is called in the step of every credential change and of the end
\* of two-factor authentication; destroyAllExcept in that of a new secret or a
\* new set of codes, with the session of the request that is being answered.
THEOREM ChangesEndSessions == Spec => ChangeEndsSessions
<1>1. ASSUME AccountInv, [Next]_vars
      PROVE  SessionsEnd
  <2>0. account \in Account /\ request \in [Handlers -> Request]
    BY <1>1 DEF AccountInv, TypeOK
  <2>1. CASE UNCHANGED <<account, shown>>
    BY <2>1 DEF SessionsEnd, CredentialsChange, SecondFactorEnds, SecondFactorChanges
  <2>2. ASSUME NEW c \in Handlers, LoginByCode(c)
        PROVE  SessionsEnd
    <3>1. /\ account'.username = account.username /\ account'.password = account.password
          /\ account'.secret = account.secret /\ shown' = shown
      BY <2>0, <2>2 DEF LoginByCode, Account
    <3> QED BY <3>1 DEF SessionsEnd, CredentialsChange, SecondFactorEnds, SecondFactorChanges
  <2>3. ASSUME NEW c \in Handlers, ChangeUsername(c) \/ ChangePassword(c) \/ Disable(c)
        PROVE  SessionsEnd
    <3>1. session' = DestroyAllExcept({})
      BY <2>3 DEF ChangeUsername, ChangePassword, Disable, WriteCredentials
    <3>2. Alive' = {}
      BY <1>1, <3>1, DestroyType DEF AccountInv, Alive
    <3>3. ~SecondFactorChanges
      <4>1. CASE Disable(c)
        BY <2>0, <4>1 DEF Disable, SecondFactorChanges, Account
      <4>2. CASE ChangeUsername(c) \/ ChangePassword(c)
        <5>1. account'.secret = account.secret /\ shown' = shown
          BY <2>0, <4>2 DEF ChangeUsername, ChangePassword, WriteCredentials, Account
        <5> QED BY <5>1 DEF SecondFactorChanges
      <4> QED BY <2>3, <4>1, <4>2
    <3> QED BY <3>2, <3>3 DEF SessionsEnd
  <2>4. ASSUME NEW c \in Handlers, request[c].op \in {"enable", "codes"}, Finish(c),
               request[c].session \in Sessions,
               \A t \in Sessions : session'[t].alive => DestroyAllExcept({request[c].session})[t].alive,
               ~CredentialsChange, ~SecondFactorEnds
        PROVE  SessionsEnd
    <3>1. request'[c] = Idle
      BY <2>0, <2>4 DEF Finish
    <3>2. Alive' \subseteq Alive \cap {request[c].session}
      BY <1>1, <2>4, DestroyType DEF AccountInv, Alive
    <3> QED BY <2>4, <3>1, <3>2 DEF SessionsEnd
  <2>5. ASSUME NEW c \in Handlers, Enable(c)
        PROVE  SessionsEnd
    <3> DEFINE s == request[c].session
    <3>1. s \in Sessions /\ request[c].op = "enable" /\ Finish(c)
      BY <1>1, <2>5 DEF Enable, At, AccountInv, RequestsSound, RequestSound, Operations
    <3>2. session' = [DestroyAllExcept({s}) EXCEPT ![s].pending = NoSecret]
      BY <2>5 DEF Enable
    <3>3. DestroyAllExcept({s}) \in [Sessions -> SessionObject]
      BY <1>1, DestroyType DEF AccountInv
    <3>4. \A t \in Sessions : session'[t].alive = DestroyAllExcept({s})[t].alive
      BY <3>1, <3>2, <3>3 DEF SessionObject
    <3>5. ~CredentialsChange /\ ~SecondFactorEnds
      BY <2>0, <2>5 DEF Enable, EnableRow, CredentialsChange, SecondFactorEnds, Account
    <3> QED BY <2>4, <3>1, <3>4, <3>5
  <2>6. ASSUME NEW c \in Handlers, ReplaceCodes(c)
        PROVE  SessionsEnd
    <3> DEFINE s == request[c].session
    <3>1. s \in Sessions /\ request[c].op = "codes" /\ Finish(c)
      BY <1>1, <2>6 DEF ReplaceCodes, Verified, At, AccountInv, RequestsSound, RequestSound, Operations
    <3>2. session' = DestroyAllExcept({s})
      BY <2>6 DEF ReplaceCodes
    <3>3. ~CredentialsChange /\ ~SecondFactorEnds
      BY <2>0, <2>6 DEF ReplaceCodes, CredentialsChange, SecondFactorEnds, Account
    <3> QED BY <2>4, <3>1, <3>2, <3>3
  <2>7. \/ UNCHANGED <<account, shown>>
        \/ \E c \in Handlers : \/ LoginByCode(c) \/ ChangeUsername(c) \/ ChangePassword(c)
                               \/ Enable(c) \/ ReplaceCodes(c) \/ Disable(c)
    BY <1>1 DEF Next, vars, ArriveLogin, BodyRefused, Login, Operation, ArriveOperation, SessionEnds,
           SetupLapses, WindowEnds, BlockEnds, Unchanged, LoginBody, LoginPlain, LoginFails,
           OperationBody, OperationRefused, HashPassword, Setup
  <2> QED BY <2>1, <2>2, <2>3, <2>5, <2>6, <2>7
<1>2. AccountInv /\ [Next]_vars => [SessionsEnd]_vars
  BY <1>1
<1>3. ChangeEndsSessions <=> [][SessionsEnd]_vars
  BY PTL DEF ChangeEndsSessions, SessionsEnd
<1> QED BY <1>2, <1>3, AccountInvariant, PTL DEF Spec

-----------------------------------------------------------------------------
(* The limiter.                                                            *)

LEMMA FlightSize ==
    /\ IsFiniteSet(InFlight) /\ Cardinality(InFlight) \in Nat /\ Cardinality(Handlers) \in Nat
    /\ Cardinality(InFlight) <= Cardinality(Handlers)
<1>1. InFlight \subseteq Handlers
  BY DEF InFlight
<1> QED BY <1>1, AccountAssumption, FS_Subset, FS_CardinalityType

LEMMA FlightSizeNext ==
    /\ IsFiniteSet(InFlight') /\ Cardinality(InFlight') \in Nat
    /\ InFlight' \subseteq InFlight => Cardinality(InFlight') <= Cardinality(InFlight)
<1>1. InFlight' \subseteq Handlers
  BY DEF InFlight
<1>2. IsFiniteSet(InFlight')
  BY <1>1, AccountAssumption, FS_Subset
<1> QED BY <1>2, FlightSize, FS_Subset, FS_CardinalityType

\* A handler that ends is in flight no more.
LEMMA FinishFlight ==
    ASSUME TypeOK, NEW c \in Handlers, Finish(c)
    PROVE  InFlight' = InFlight \ {c}
<1>1. request' = [request EXCEPT ![c] = Idle] /\ Idle.op # "login" /\ request \in [Handlers -> Request]
  BY DEF Finish, Idle, TypeOK
<1> QED BY <1>1 DEF InFlight

\* Nor does a step within one handler let a login in.
LEMMA ProgressFlight ==
    ASSUME TypeOK, NEW c \in Handlers, NEW q, request' = [request EXCEPT ![c] = q],
           q.op = "login" => request[c].op = "login"
    PROVE  InFlight' \subseteq InFlight
BY DEF InFlight, TypeOK

LEMMA FlightStep ==
    ASSUME TypeOK, [Next]_vars,
           \A c \in Handlers : ~ArriveLogin(c)
    PROVE  InFlight' \subseteq InFlight
<1>1. CASE UNCHANGED request
  BY <1>1 DEF InFlight
<1>2. ASSUME NEW c \in Handlers, Finish(c)
      PROVE  InFlight' \subseteq InFlight
  BY <1>2, FinishFlight
<1>3. ASSUME NEW c \in Handlers, NEW s \in Sessions, NEW op \in Operations, Start(c, op, s)
      PROVE  InFlight' \subseteq InFlight
  <2> DEFINE q == [Idle EXCEPT !.op = op, !.stage = "body", !.session = s]
  <2>1. q.op # "login" /\ request' = [request EXCEPT ![c] = q]
    BY <1>3 DEF Start, Idle, Operations
  <2> HIDE DEF q
  <2> QED BY <2>1, ProgressFlight
<1>4. ASSUME NEW c \in Handlers, LoginBody(c)
      PROVE  InFlight' \subseteq InFlight
  <2>1. PICK q : request' = [request EXCEPT ![c] = q]
    BY <1>4 DEF LoginBody
  <2>2. request[c].op = "login"
    BY <1>4 DEF LoginBody, At
  <2> QED BY <2>1, <2>2, ProgressFlight
<1>5. ASSUME NEW c \in Handlers, OperationBody(c)
      PROVE  InFlight' \subseteq InFlight
  <2>1. PICK valid, factor, u, p : request' = [request EXCEPT ![c] = BodyRead(request[c], valid, factor, u, p)]
    BY <1>5, Zenon DEF OperationBody
  <2> DEFINE q == BodyRead(request[c], valid, factor, u, p)
  <2>2. request[c] \in Request
    BY DEF TypeOK
  <2>3. q.op = request[c].op
    BY <2>2 DEF BodyRead, Request
  <2> HIDE DEF q
  <2>4. request' = [request EXCEPT ![c] = q]
    BY <2>1 DEF q
  <2> QED BY <2>3, <2>4, ProgressFlight
<1>6. ASSUME NEW c \in Handlers, HashPassword(c)
      PROVE  InFlight' \subseteq InFlight
  <2> DEFINE q == [request[c] EXCEPT !.stage = "hash", !.username = ChosenUsername(request[c]), !.seen = Nothing]
  <2>1. request[c] \in Request
    BY DEF TypeOK
  <2>2. q.op = request[c].op
    BY <2>1 DEF Request
  <2>3. request' = [request EXCEPT ![c] = q]
    BY <1>6 DEF HashPassword
  <2> HIDE DEF q
  <2> QED BY <2>2, <2>3, ProgressFlight
<1>7. \/ UNCHANGED request
      \/ \E c \in Handlers : Finish(c) \/ LoginBody(c) \/ OperationBody(c) \/ HashPassword(c)
      \/ \E c \in Handlers, s \in Sessions, op \in Operations : Start(c, op, s)
  BY Zenon DEF Next, vars, BodyRefused, Login, Operation, ArriveOperation, SessionEnds, SetupLapses,
         WindowEnds, BlockEnds, LoginPlain, LoginByCode, LoginFails, OperationRefused,
         ChangeUsername, ChangePassword, WriteCredentials, Setup, Enable, ReplaceCodes, Disable
<1> QED BY <1>1, <1>2, <1>3, <1>4, <1>5, <1>6, <1>7

LEMMA LimiterStep == TypeOK /\ LimiterInv /\ [Next]_vars => LimiterInv'
<1> SUFFICES ASSUME TypeOK, LimiterInv, [Next]_vars PROVE LimiterInv'
  OBVIOUS
<1> DEFINE n == Cardinality(InFlight)
           m == Cardinality(InFlight')
           all == Cardinality(Handlers)
<1>0. /\ limiter.count \in Nat /\ limiter.over \in BOOLEAN /\ limiter.blocked \in BOOLEAN
      /\ Attempts \in Nat \ {0} /\ n \in Nat /\ m \in Nat /\ all \in Nat /\ n <= all
  BY FlightSize, FlightSizeNext, AccountAssumption DEF TypeOK
<1>1. ASSUME NEW c \in Handlers, LoginFails(c)
      PROVE  LimiterInv'
  <2>1. c \in InFlight /\ InFlight' = InFlight \ {c}
    BY <1>1, FinishFlight DEF LoginFails, NeedsCode, At, InFlight
  <2>2. m = n - 1
    BY <2>1, FlightSize, FS_RemoveElement
  <2> DEFINE k == IF limiter.over THEN 1 ELSE limiter.count + 1
  <2>3. limiter'.count = k /\ limiter'.over = FALSE /\ (limiter'.blocked <=> k >= Attempts)
    BY <1>1 DEF LoginFails, LimiterFailure
  <2>4. k \in Nat /\ (k >= Attempts => k + m < Attempts + all)
    BY <1>0, <2>2 DEF LimiterInv
  <2> HIDE DEF k, n, m, all
  <2> QED
    <3>1. k < Attempts + all
      BY <1>0, <2>4
    <3>2. /\ ~limiter'.blocked => k < Attempts
          /\ limiter'.blocked => k + Cardinality(InFlight') < Attempts + Cardinality(Handlers)
          /\ k < Attempts + Cardinality(Handlers)
      BY <1>0, <2>3, <2>4, <3>1 DEF m, all
    <3> QED BY <2>3, <3>2 DEF LimiterInv, FailuresBounded
<1>2. ASSUME limiter' = NoEntry
      PROVE  LimiterInv'
  BY <1>0, <1>2 DEF NoEntry, LimiterInv, FailuresBounded
<1>3. CASE WindowEnds \/ BlockEnds
  <2>1. limiter'.over = TRUE /\ limiter'.count = limiter.count
    BY <1>3 DEF WindowEnds, BlockEnds, TypeOK
  <2> QED BY <2>1 DEF LimiterInv, FailuresBounded
<1>4. ASSUME NEW c \in Handlers, ArriveLogin(c)
      PROVE  LimiterInv'
  <2>1. UNCHANGED limiter /\ ~limiter.blocked
    BY <1>4 DEF ArriveLogin, Unchanged, Allowed
  <2> QED BY <2>1 DEF LimiterInv, FailuresBounded
<1>5. CASE UNCHANGED limiter /\ \A c \in Handlers : ~ArriveLogin(c)
  <2>1. m <= n
    BY <1>5, FlightStep, FlightSizeNext
  <2> HIDE DEF n, m, all
  <2>2. limiter.count + n < Attempts + all => limiter.count + m < Attempts + all
    BY <1>0, <2>1, SMTT(30)
  <2> QED BY <1>5, <2>2 DEF LimiterInv, FailuresBounded, n, m, all
<1>6. \/ UNCHANGED limiter \/ limiter' = NoEntry \/ WindowEnds \/ BlockEnds
      \/ \E c \in Handlers : LoginFails(c)
  BY DEF Next, vars, Unchanged, ArriveLogin, BodyRefused, Login, Operation, ArriveOperation, SessionEnds,
         SetupLapses, LoginBody, LoginPlain, LoginByCode, OperationBody, OperationRefused,
         ChangeUsername, HashPassword, ChangePassword, Setup, Enable, ReplaceCodes, Disable
<1> QED BY <1>1, <1>2, <1>3, <1>4, <1>5, <1>6

\* However many logins are in flight when the limit is reached, the failures
\* counted in one window stay below the limit plus the number of handlers.
THEOREM FailuresStayBounded == Spec => []FailuresBounded
<1>1. Init => LimiterInv
  BY FlightSize, AccountAssumption DEF Init, NoEntry, LimiterInv, FailuresBounded
<1>2. LimiterInv => FailuresBounded
  BY DEF LimiterInv
<1> QED BY <1>1, <1>2, LimiterStep, AccountTypes, PTL DEF Spec

=============================================================================
