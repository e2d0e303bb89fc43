---------------------------- MODULE LifecycleProofs ----------------------------
(***************************************************************************)
(* What a command of setup leaves behind, and that no change of an         *)
(* administrator is lost, for any sets of releases and addresses, any      *)
(* number of changes, backups and faults.                                  *)
(***************************************************************************)
EXTENDS Lifecycle, SequenceTheorems, TLAPS

Changes == SUBSET (1..MaxChanges)

BackupType == [config : Addresses, db : Changes]

ProcessType ==
    [active : BOOLEAN, release : Releases \cup {NoRelease}, config : Addresses \cup {NoAddress},
     cert : Addresses \cup {NoAddress}, orphan : BOOLEAN]

Names == {"none", "install", "update", "rollback", "reconfigure", "repair", "reset", "backup",
          "restore", "uninstall"}

Failures == {"none", "backup", "unit", "check", "configure", "reset"}

Steps == {"release", "certificate", "configure", "unit", "start", "check", "restart", "link",
          "stop", "reset", "backup", "config", "database", "remove", "link-back", "unit-back",
          "config-back", "database-back"}

CommandType ==
    [name : Names, todo : Seq(Steps), target : Releases \cup {NoRelease},
     previous : Releases \cup {NoRelease}, wanted : Addresses \cup {NoAddress},
     saved : Addresses \cup {NoAddress}, source : BackupType \cup {NoBackup},
     savedDb : Changes \cup {NoDb}, failed : Failures, sound : BOOLEAN, consistent : BOOLEAN]

TypeInv ==
    /\ current \in Releases \cup {NoRelease} /\ unit \in Releases \cup {NoRelease}
    /\ config \in Addresses \cup {NoAddress} /\ cert \in Addresses \cup {NoAddress}
    /\ db \in Changes \cup {NoDb} /\ backups \in SUBSET BackupType
    /\ proc \in ProcessType /\ cmd \in CommandType
    /\ lastChange \in Nat

-----------------------------------------------------------------------------
(* Where a command is.                                                      *)

\* All the steps of the command, or all that answer its failure
Plan(c) ==
    IF c.name = "none" \/ c.failed = "backup" THEN <<>>
    ELSE IF c.failed # "none" THEN Undo(c.name, c.failed)
    ELSE IF c.name = "install" /\ c.saved # NoAddress THEN <<"release", "unit", "start", "check">>
    ELSE Script(c.name)

\* What is to do is the end of the plan.
OnPlan(c) == \E k \in 0..Len(Plan(c)) : c.todo = SubSeq(Plan(c), k + 1, Len(Plan(c)))

\* The step that follows a step.  Undoing is never begun but by a failure.
Leads(c, step, next) ==
    /\ c.failed # "backup"
    /\ c.failed = "none" =>
         /\ c.name = "install" =>
              <<step, next>> \in {<<"release", IF c.saved = NoAddress THEN "certificate" ELSE "unit">>,
                  <<"certificate", "configure">>, <<"configure", "unit">>, <<"unit", "start">>,
                  <<"start", "check">>, <<"check", "end">>}
         /\ c.name = "update" =>
              <<step, next>> \in {<<"backup", "release">>, <<"release", "unit">>, <<"unit", "restart">>,
                  <<"restart", "check">>, <<"check", "end">>}
         /\ c.name = "rollback" =>
              <<step, next>> \in {<<"backup", "link">>, <<"link", "unit">>, <<"unit", "restart">>,
                  <<"restart", "check">>, <<"check", "end">>}
         /\ c.name = "reconfigure" =>
              <<step, next>> \in {<<"certificate", "configure">>, <<"configure", "restart">>,
                  <<"restart", "check">>, <<"check", "end">>}
         /\ c.name = "repair" =>
              <<step, next>> \in {<<"unit", "start">>, <<"start", "check">>, <<"check", "end">>}
         /\ c.name = "reset" =>
              <<step, next>> \in {<<"backup", "stop">>, <<"stop", "reset">>, <<"reset", "start">>,
                  <<"start", "check">>, <<"check", "end">>}
         /\ c.name = "backup" => step = "backup" /\ next = "end"
         /\ c.name = "restore" =>
              <<step, next>> \in {<<"backup", "stop">>, <<"stop", "config">>, <<"config", "database">>,
                  <<"database", "start">>, <<"start", "check">>, <<"check", "end">>}
         /\ c.name = "uninstall" =>
              <<step, next>> \in {<<"stop", "remove">>, <<"remove", "end">>}
    /\ c.failed # "none" =>
         /\ c.name \in {"update", "rollback", "reconfigure", "restore", "reset"}
         /\ c.name = "update" =>
              <<step, next>> \in {<<"link-back", "unit-back">>, <<"restart", "end">>,
                  <<"unit-back", IF c.failed = "unit" THEN "end" ELSE "restart">>}
         /\ c.name = "rollback" =>
              <<step, next>> \in {<<"link-back", "unit-back">>, <<"unit-back", "restart">>,
                  <<"restart", "end">>}
         /\ c.name = "reconfigure" =>
              <<step, next>> \in {<<"config-back", "restart">>, <<"restart", "end">>}
         /\ c.name = "restore" =>
              <<step, next>> \in {<<"config-back", "database-back">>, <<"database-back", "restart">>,
                  <<"restart", "end">>}
         /\ c.name = "reset" => step = "start" /\ next = "end"

-----------------------------------------------------------------------------
(* The invariant.                                                           *)

Idle == cmd.name = "none"

Tries == cmd.failed = "none"

\* A service runs from a unit, and a unit is there only when all is installed.
Installed ==
    /\ unit # NoRelease => current # NoRelease /\ config # NoAddress
    /\ proc.active => unit # NoRelease

\* What a command found when it began, and what it did since.
Remembers ==
    /\ Idle => cmd = NoCommand
    /\ cmd.name \in {"update", "rollback"} =>
         /\ current # NoRelease /\ cmd.previous # NoRelease /\ cmd.target # NoRelease
         /\ config = cmd.saved
         /\ Upcoming \notin {"backup", "end"} => config # NoAddress
         /\ Tries /\ Upcoming \in {"backup", "release", "link"} => current = cmd.previous
    /\ cmd.name \in {"reconfigure", "repair", "reset", "backup", "restore"} =>
         current # NoRelease /\ current = cmd.previous /\ config # NoAddress /\ cmd.saved # NoAddress
    /\ cmd.name \in {"repair", "reset", "backup"} => config = cmd.saved
    /\ cmd.name = "reconfigure" =>
         /\ cmd.wanted # NoAddress
         /\ Tries /\ Upcoming \in {"certificate", "configure"} => config = cmd.saved
    /\ cmd.name = "restore" =>
         /\ cmd.source \in BackupType
         /\ Tries /\ Upcoming \in {"backup", "stop", "config"} => config = cmd.saved
    /\ cmd.name = "install" =>
         /\ cmd.target # NoRelease /\ cmd.wanted # NoAddress /\ ~cmd.sound
         /\ Tries /\ Upcoming = "release" => config = cmd.saved
         /\ Tries /\ Upcoming \in {"release", "certificate", "configure", "unit"} => unit = NoRelease
         /\ Upcoming \in {"certificate", "configure", "unit", "start"} => current # NoRelease
         /\ Upcoming \in {"unit", "start"} => config # NoAddress
         /\ Upcoming = "start" => ~proc.active

\* The service is down between the step that stops it and the one that starts it.
Down ==
    \/ cmd.name = "reset" /\ Upcoming \in {"reset", "start"}
    \/ cmd.name = "restore" /\ Upcoming \in {"config", "database", "start"}
    \/ cmd.name = "uninstall" /\ Upcoming = "remove"

StaysDown == Down => ~proc.active

\* The process matches the files but between their change and its restart.
ProcessMatches == proc.active => proc.release = current /\ proc.config = config

Changed ==
    \/ cmd.name \in {"update", "rollback"}
         /\ Upcoming \in {"unit", "restart", "link-back", "unit-back"}
    \/ cmd.name \in {"reconfigure", "restore"} /\ Upcoming \in {"restart", "database-back"}

UpdateHalfway == cmd.name = "update" /\ cmd.failed = "unit"

Matches ==
    ~Idle /\ (cmd.sound \/ cmd.consistent) /\ ~Changed /\ ~(UpdateHalfway /\ Upcoming = "end")
        => ProcessMatches

UnitMatches ==
    ~Idle /\ cmd.consistent /\ Upcoming \notin {"unit", "link-back", "unit-back"}
        => unit \in {NoRelease, current}

\* What a failed command has put back so far
PutBack ==
    ~Tries /\ cmd.failed # "backup" =>
        /\ cmd.name \in {"update", "rollback"} =>
             /\ Upcoming # "link-back" => current = cmd.previous
             /\ Upcoming \notin {"link-back", "unit-back"} => unit = current
        /\ cmd.name \in {"reconfigure", "restore"} /\ Upcoming # "config-back" => config = cmd.saved
        /\ cmd.name = "restore" /\ Upcoming \notin {"config-back", "database-back"} =>
             db # NoDb /\ cmd.savedDb \subseteq db

\* The installation serves again as it did when a sound command began.
Excepted ==
    \/ cmd.name = "uninstall" \/ UpdateHalfway
    \/ cmd.name = "reconfigure" /\ cmd.saved # Loopback /\ NewCertificate

Serves(r, a) == <<r, a>> \in Works /\ (a = Loopback \/ cert = a)

\* Nothing was changed yet, or all of it was put back, or the check has passed.
Settled ==
    \/ Upcoming \in {"backup", "end", "certificate", "configure"}
    \/ cmd.name \in {"update", "rollback"} /\ Upcoming \in {"release", "link"}
    \/ cmd.name = "reset" /\ Upcoming \in {"stop", "check"}
    \/ cmd.name = "restore" /\ Upcoming = "stop"
    \/ cmd.name = "repair"

Restorable ==
    ~Idle /\ cmd.sound /\ ~Excepted =>
        /\ unit # NoRelease
        /\ Serves(cmd.previous, cmd.saved)
        /\ Settled => Healthy /\ proc.release = current

\* Every change that was not given up is in a backup.
BackedUp == \A c \in (1..lastChange) \ forfeited : \E b \in backups : c \in b.db

Guarded ==
    cmd.name = "restore" =>
        /\ Upcoming \in {"stop", "config", "database", "start", "check", "config-back", "database-back"}
             => BackedUp /\ cmd.savedDb # NoDb
        /\ Upcoming \in {"start", "check"} => db # NoDb

LifecycleInv ==
    /\ TypeInv /\ OnPlan(cmd) /\ Installed /\ Remembers /\ StaysDown /\ Matches /\ UnitMatches
    /\ PutBack /\ Restorable /\ Guarded /\ NothingLost

-----------------------------------------------------------------------------
(* Plans.                                                                   *)

LEMMA UndoIs ==
    /\ Undo("update", "unit") = <<"link-back", "unit-back">>
    /\ Undo("update", "check") = <<"link-back", "unit-back", "restart">>
    /\ \A step : Undo("rollback", step) = <<"link-back", "unit-back", "restart">>
    /\ Undo("reconfigure", "check") = <<"config-back", "restart">>
    /\ \A step : step \notin {"unit", "check"} => Undo("update", step) = <<>>
    /\ \A step : step # "check" => Undo("reconfigure", step) = <<>>
    /\ \A step : Undo("restore", step) = <<"config-back", "database-back", "restart">>
    /\ Undo("reset", "reset") = <<"start">>
    /\ \A step : step # "reset" => Undo("reset", step) = <<>>
    /\ \A step : \A name \in {"install", "repair", "backup", "uninstall"} : Undo(name, step) = <<>>
<1>1. Undo("update", "unit") = <<"link-back", "unit-back">>
  BY Zenon DEF Undo
<1>2. Undo("update", "check") = <<"link-back", "unit-back", "restart">>
  BY Zenon DEF Undo
<1>3. \A step : Undo("rollback", step) = <<"link-back", "unit-back", "restart">>
  BY Zenon DEF Undo
<1>4. Undo("reconfigure", "check") = <<"config-back", "restart">>
  BY Zenon DEF Undo
<1>5. \A step : step # "check" => Undo("reconfigure", step) = <<>>
  BY Zenon DEF Undo
<1>6. \A step : Undo("restore", step) = <<"config-back", "database-back", "restart">>
  BY Zenon DEF Undo
<1>7. Undo("reset", "reset") = <<"start">>
  BY Zenon DEF Undo
<1>8. \A step : step # "reset" => Undo("reset", step) = <<>>
  BY Zenon DEF Undo
<1>9. \A step : \A name \in {"install", "repair", "backup", "uninstall"} : Undo(name, step) = <<>>
  BY Zenon DEF Undo
<1>10. \A step : step \notin {"unit", "check"} => Undo("update", step) = <<>>
  BY Zenon DEF Undo
<1> QED BY <1>1, <1>2, <1>3, <1>4, <1>5, <1>6, <1>7, <1>8, <1>9, <1>10, Zenon

\* A backup in front of a body
LEMMA BackupFirst ==
    ASSUME NEW body \in Seq(Steps), NEW t \in Seq(Steps), Len(t) = Len(body) + 1,
           t[1] = "backup", \A i \in 1..Len(body) : t[i + 1] = body[i]
    PROVE  <<"backup">> \o body = t
<1> DEFINE s == <<"backup">> \o body
<1>0. "backup" \in Steps
  BY DEF Steps
<1>1. <<"backup">> \in Seq(Steps) /\ Len(<<"backup">>) = 1 /\ <<"backup">>[1] = "backup"
  BY <1>0
<1>2. /\ s \in Seq(Steps) /\ Len(s) = 1 + Len(body)
      /\ \A i \in 1..(1 + Len(body)) : s[i] = IF i <= 1 THEN "backup" ELSE body[i - 1]
  BY <1>1, ConcatProperties
<1>3. Len(body) \in Nat
  OBVIOUS
<1>4. Len(s) = Len(t)
  BY <1>2, <1>3
<1>5. \A i \in 1..Len(s) : s[i] = t[i]
  <2> SUFFICES ASSUME NEW i \in 1..(1 + Len(body)) PROVE s[i] = t[i]
    BY <1>2
  <2>1. s[i] = IF i <= 1 THEN "backup" ELSE body[i - 1]
    BY <1>2
  <2> HIDE DEF s
  <2>2. CASE i = 1
    BY <2>1, <2>2
  <2>3. CASE i # 1
    <3>1. i - 1 \in 1..Len(body) /\ (i - 1) + 1 = i
      BY <1>3, <2>3
    <3>2. t[(i - 1) + 1] = body[i - 1]
      BY <3>1
    <3> QED BY <1>3, <2>1, <2>3, <3>1, <3>2
  <2> QED BY <2>2, <2>3
<1> HIDE DEF s
<1>6. s = t
  BY <1>2, <1>4, <1>5, SeqEqual
<1> QED BY <1>6 DEF s

LEMMA ScriptIs ==
    /\ Script("install") = <<"release", "certificate", "configure", "unit", "start", "check">>
    /\ Script("update") = <<"backup", "release", "unit", "restart", "check">>
    /\ Script("rollback") = <<"backup", "link", "unit", "restart", "check">>
    /\ Script("reconfigure") = <<"certificate", "configure", "restart", "check">>
    /\ Script("repair") = <<"unit", "start", "check">>
    /\ Script("reset") = <<"backup", "stop", "reset", "start", "check">>
    /\ Script("backup") = <<"backup">>
    /\ Script("restore") = <<"backup", "stop", "config", "database", "start", "check">>
    /\ Script("uninstall") = <<"stop", "remove">>
<1>1. Script("install") = <<"release", "certificate", "configure", "unit", "start", "check">>
  BY DEF Script, BacksUp, Body
<1>2. Script("reconfigure") = <<"certificate", "configure", "restart", "check">>
  BY DEF Script, BacksUp, Body
<1>3. Script("repair") = <<"unit", "start", "check">>
  BY DEF Script, BacksUp, Body
<1>4. Script("uninstall") = <<"stop", "remove">>
  BY DEF Script, BacksUp, Body
<1>5. Script("update") = <<"backup", "release", "unit", "restart", "check">>
  <2>1. Script("update") = <<"backup">> \o <<"release", "unit", "restart", "check">>
    BY DEF Script, BacksUp, Body
  <2>2. <<"release", "unit", "restart", "check">> \in Seq(Steps) /\ <<"backup", "release", "unit", "restart", "check">> \in Seq(Steps)
    BY DEF Steps
  <2>3. /\ Len(<<"backup", "release", "unit", "restart", "check">>) = Len(<<"release", "unit", "restart", "check">>) + 1 /\ <<"backup", "release", "unit", "restart", "check">>[1] = "backup"
        /\ \A i \in 1..Len(<<"release", "unit", "restart", "check">>) : <<"backup", "release", "unit", "restart", "check">>[i + 1] = <<"release", "unit", "restart", "check">>[i]
    OBVIOUS
  <2>4. <<"backup">> \o <<"release", "unit", "restart", "check">> = <<"backup", "release", "unit", "restart", "check">>
    BY <2>2, <2>3, BackupFirst
  <2> QED BY <2>1, <2>4
<1>6. Script("rollback") = <<"backup", "link", "unit", "restart", "check">>
  <2>1. Script("rollback") = <<"backup">> \o <<"link", "unit", "restart", "check">>
    BY DEF Script, BacksUp, Body
  <2>2. <<"link", "unit", "restart", "check">> \in Seq(Steps) /\ <<"backup", "link", "unit", "restart", "check">> \in Seq(Steps)
    BY DEF Steps
  <2>3. /\ Len(<<"backup", "link", "unit", "restart", "check">>) = Len(<<"link", "unit", "restart", "check">>) + 1 /\ <<"backup", "link", "unit", "restart", "check">>[1] = "backup"
        /\ \A i \in 1..Len(<<"link", "unit", "restart", "check">>) : <<"backup", "link", "unit", "restart", "check">>[i + 1] = <<"link", "unit", "restart", "check">>[i]
    OBVIOUS
  <2>4. <<"backup">> \o <<"link", "unit", "restart", "check">> = <<"backup", "link", "unit", "restart", "check">>
    BY <2>2, <2>3, BackupFirst
  <2> QED BY <2>1, <2>4
<1>7. Script("reset") = <<"backup", "stop", "reset", "start", "check">>
  <2>1. Script("reset") = <<"backup">> \o <<"stop", "reset", "start", "check">>
    BY DEF Script, BacksUp, Body
  <2>2. <<"stop", "reset", "start", "check">> \in Seq(Steps) /\ <<"backup", "stop", "reset", "start", "check">> \in Seq(Steps)
    BY DEF Steps
  <2>3. /\ Len(<<"backup", "stop", "reset", "start", "check">>) = Len(<<"stop", "reset", "start", "check">>) + 1 /\ <<"backup", "stop", "reset", "start", "check">>[1] = "backup"
        /\ \A i \in 1..Len(<<"stop", "reset", "start", "check">>) : <<"backup", "stop", "reset", "start", "check">>[i + 1] = <<"stop", "reset", "start", "check">>[i]
    OBVIOUS
  <2>4. <<"backup">> \o <<"stop", "reset", "start", "check">> = <<"backup", "stop", "reset", "start", "check">>
    BY <2>2, <2>3, BackupFirst
  <2> QED BY <2>1, <2>4
<1>8. Script("backup") = <<"backup">>
  <2>1. Script("backup") = <<"backup">> \o <<>>
    BY DEF Script, BacksUp, Body
  <2>2. <<>> \in Seq(Steps) /\ <<"backup">> \in Seq(Steps)
    BY DEF Steps
  <2>3. /\ Len(<<"backup">>) = Len(<<>>) + 1 /\ <<"backup">>[1] = "backup"
        /\ \A i \in 1..Len(<<>>) : <<"backup">>[i + 1] = <<>>[i]
    OBVIOUS
  <2>4. <<"backup">> \o <<>> = <<"backup">>
    BY <2>2, <2>3, BackupFirst
  <2> QED BY <2>1, <2>4
<1>9. Script("restore") = <<"backup", "stop", "config", "database", "start", "check">>
  <2>1. Script("restore") = <<"backup">> \o <<"stop", "config", "database", "start", "check">>
    BY DEF Script, BacksUp, Body
  <2>2. <<"stop", "config", "database", "start", "check">> \in Seq(Steps) /\ <<"backup", "stop", "config", "database", "start", "check">> \in Seq(Steps)
    BY DEF Steps
  <2>3. /\ Len(<<"backup", "stop", "config", "database", "start", "check">>) = Len(<<"stop", "config", "database", "start", "check">>) + 1 /\ <<"backup", "stop", "config", "database", "start", "check">>[1] = "backup"
        /\ \A i \in 1..Len(<<"stop", "config", "database", "start", "check">>) : <<"backup", "stop", "config", "database", "start", "check">>[i + 1] = <<"stop", "config", "database", "start", "check">>[i]
    OBVIOUS
  <2>4. <<"backup">> \o <<"stop", "config", "database", "start", "check">> = <<"backup", "stop", "config", "database", "start", "check">>
    BY <2>2, <2>3, BackupFirst
  <2> QED BY <2>1, <2>4
<1> QED BY <1>1, <1>2, <1>3, <1>4, <1>5, <1>6, <1>7, <1>8, <1>9

\* What a command does, step by step
Moves(c, step, next) ==
    \E i \in 1..Len(Plan(c)) :
        /\ Plan(c)[i] = step
        /\ next = IF i = Len(Plan(c)) THEN "end" ELSE Plan(c)[i + 1]

LEMMA PlanType ==
    ASSUME NEW c \in CommandType
    PROVE  Plan(c) \in Seq(Steps)
<1>1. /\ <<>> \in Seq(Steps) /\ <<"release", "unit", "start", "check">> \in Seq(Steps)
      /\ <<"link-back", "unit-back">> \in Seq(Steps)
      /\ <<"link-back", "unit-back", "restart">> \in Seq(Steps)
      /\ <<"config-back", "restart">> \in Seq(Steps) /\ <<"start">> \in Seq(Steps)
      /\ <<"config-back", "database-back", "restart">> \in Seq(Steps)
  BY DEF Steps
<1>2. Undo(c.name, c.failed) \in Seq(Steps)
  BY <1>1, ZenonT(40) DEF Undo
<1>3. c.name # "none" => Script(c.name) \in Seq(Steps)
  <2>1. /\ <<"release", "certificate", "configure", "unit", "start", "check">> \in Seq(Steps)
        /\ <<"backup", "release", "unit", "restart", "check">> \in Seq(Steps)
        /\ <<"backup", "link", "unit", "restart", "check">> \in Seq(Steps)
        /\ <<"certificate", "configure", "restart", "check">> \in Seq(Steps)
        /\ <<"unit", "start", "check">> \in Seq(Steps)
        /\ <<"backup", "stop", "reset", "start", "check">> \in Seq(Steps)
        /\ <<"backup">> \in Seq(Steps) /\ <<"stop", "remove">> \in Seq(Steps)
        /\ <<"backup", "stop", "config", "database", "start", "check">> \in Seq(Steps)
    BY DEF Steps
  <2>2. c.name \in Names
    BY DEF CommandType
  <2> QED BY <2>1, <2>2, ScriptIs DEF Names
<1> QED BY <1>1, <1>2, <1>3 DEF Plan

\* Doing a step of the plan leaves the rest of the plan.
LEMMA StepTaken ==
    ASSUME NEW c \in CommandType, OnPlan(c), c.todo # <<>>,
           NEW d, Plan(d) = Plan(c), d.todo = Tail(c.todo)
    PROVE  /\ OnPlan(d) /\ d.todo \in Seq(Steps)
           /\ Moves(c, Head(c.todo), IF d.todo = <<>> THEN "end" ELSE Head(d.todo))
<1> DEFINE p == Plan(c)
           n == Len(p)
<1>1. p \in Seq(Steps) /\ n \in Nat
  BY PlanType
<1>2. PICK k \in 0..n : c.todo = SubSeq(p, k + 1, n)
  BY DEF OnPlan
<1>3. k < n
  <2>1. SubSeq(p, n + 1, n) = <<>>
    BY <1>1, SubSeqEmpty
  <2> QED BY <1>1, <1>2, <2>1
<1>4. k + 1 \in 1..n /\ n \in (k + 1)..n
  BY <1>1, <1>3
<1>5. Head(c.todo) = p[k + 1] /\ d.todo = SubSeq(p, k + 2, n)
  <2>1. Head(c.todo) = p[k + 1] /\ d.todo = SubSeq(p, (k + 1) + 1, n)
    BY <1>1, <1>2, <1>4, HeadTailOfSubSeq
  <2>2. (k + 1) + 1 = k + 2
    BY <1>2
  <2> QED BY <2>1, <2>2, Zenon
<1>6. OnPlan(d)
  <2>1. k + 1 \in 0..n /\ k + 2 = (k + 1) + 1
    BY <1>4
  <2>2. d.todo = SubSeq(p, (k + 1) + 1, n)
    BY <1>5, <2>1, Zenon
  <2> QED BY <2>1, <2>2 DEF OnPlan
<1>7. c.todo \in Seq(Steps)
  BY DEF CommandType
<1>8. d.todo \in Seq(Steps)
  BY <1>7, HeadTailProperties
<1>9. CASE k + 1 = n
  <2>1. n < k + 2 /\ k + 2 \in Int /\ n \in Int
    BY <1>1, <1>9
  <2>2. SubSeq(p, k + 2, n) = <<>>
    BY <2>1, SubSeqEmpty
  <2>3. d.todo = <<>>
    BY <1>5, <2>2, Zenon
  <2> QED BY <1>4, <1>5, <1>6, <1>8, <1>9, <2>3 DEF Moves
<1>10. CASE k + 1 # n
  <2>1. k + 2 \in 1..n /\ n \in (k + 2)..n
    BY <1>1, <1>4, <1>10
  <2>3. Head(d.todo) = p[k + 2]
    BY <1>1, <1>5, <2>1, HeadTailOfSubSeq
  <2>4. d.todo # <<>>
    <3>1. \A i \in (k + 2)..n : p[i] \in Steps
      BY <1>1, <2>1
    <3>2. k + 2 \in Int /\ n \in Int /\ k + 2 <= n
      BY <1>1, <2>1
    <3> HIDE DEF p, n
    <3>3. Len(SubSeq(p, k + 2, n)) = n - (k + 2) + 1
      BY <3>1, <3>2, SubSeqProperties
    <3>4. Len(SubSeq(p, k + 2, n)) # 0
      BY <3>2, <3>3
    <3>5. SubSeq(p, k + 2, n) # <<>>
      BY <3>4, EmptySeq
    <3> QED BY <1>5, <3>5, Zenon
  <2> QED BY <1>4, <1>5, <1>6, <1>8, <1>10, <2>1, <2>3, <2>4 DEF Moves
<1> QED BY <1>9, <1>10

\* The table of what follows what
LEMMA MovesLead ==
    ASSUME NEW c \in CommandType, NEW step, NEW next, Moves(c, step, next)
    PROVE  c.name # "none" /\ Leads(c, step, next)
<1>1. PICK i \in 1..Len(Plan(c)) :
        Plan(c)[i] = step /\ next = IF i = Len(Plan(c)) THEN "end" ELSE Plan(c)[i + 1]
  BY DEF Moves
<1>2. c.name \in Names /\ c.failed \in Failures
  BY DEF CommandType
<1>3. c.name # "none" /\ c.failed # "backup"
  BY <1>1 DEF Plan
<1>4. CASE c.failed = "none"
  <2>1. Plan(c) = IF c.name = "install" /\ c.saved # NoAddress THEN <<"release", "unit", "start", "check">>
                  ELSE Script(c.name)
    BY <1>3, <1>4 DEF Plan
  <2>2. CASE c.name = "install" /\ c.saved # NoAddress
    <3>1. Plan(c) = <<"release", "unit", "start", "check">>
      BY <2>1, <2>2, ScriptIs, UndoIs
    <3>2. <<step, next>> \in {<<"release", "unit">>, <<"unit", "start">>, <<"start", "check">>,
            <<"check", "end">>}
      BY <1>1, <3>1
    <3> QED BY <2>2, <3>2, <1>3, <1>4 DEF Leads
  <2>3. CASE c.name = "install" /\ c.saved = NoAddress
    <3>1. Plan(c) = <<"release", "certificate", "configure", "unit", "start", "check">>
      BY <2>1, <2>3, ScriptIs, UndoIs
    <3>2. <<step, next>> \in {<<"release", "certificate">>, <<"certificate", "configure">>,
            <<"configure", "unit">>, <<"unit", "start">>, <<"start", "check">>,
            <<"check", "end">>}
      BY <1>1, <3>1
    <3> QED BY <2>3, <3>2, <1>3, <1>4 DEF Leads
  <2>4. CASE c.name = "update"
    <3>1. Plan(c) = <<"backup", "release", "unit", "restart", "check">>
      BY <2>1, <2>4, ScriptIs, UndoIs
    <3>2. <<step, next>> \in {<<"backup", "release">>, <<"release", "unit">>,
            <<"unit", "restart">>, <<"restart", "check">>, <<"check", "end">>}
      BY <1>1, <3>1
    <3> QED BY <2>4, <3>2, <1>3, <1>4 DEF Leads
  <2>5. CASE c.name = "rollback"
    <3>1. Plan(c) = <<"backup", "link", "unit", "restart", "check">>
      BY <2>1, <2>5, ScriptIs, UndoIs
    <3>2. <<step, next>> \in {<<"backup", "link">>, <<"link", "unit">>, <<"unit", "restart">>,
            <<"restart", "check">>, <<"check", "end">>}
      BY <1>1, <3>1
    <3> QED BY <2>5, <3>2, <1>3, <1>4 DEF Leads
  <2>6. CASE c.name = "reconfigure"
    <3>1. Plan(c) = <<"certificate", "configure", "restart", "check">>
      BY <2>1, <2>6, ScriptIs, UndoIs
    <3>2. <<step, next>> \in {<<"certificate", "configure">>, <<"configure", "restart">>,
            <<"restart", "check">>, <<"check", "end">>}
      BY <1>1, <3>1
    <3> QED BY <2>6, <3>2, <1>3, <1>4 DEF Leads
  <2>7. CASE c.name = "repair"
    <3>1. Plan(c) = <<"unit", "start", "check">>
      BY <2>1, <2>7, ScriptIs, UndoIs
    <3>2. <<step, next>> \in {<<"unit", "start">>, <<"start", "check">>, <<"check", "end">>}
      BY <1>1, <3>1
    <3> QED BY <2>7, <3>2, <1>3, <1>4 DEF Leads
  <2>8. CASE c.name = "reset"
    <3>1. Plan(c) = <<"backup", "stop", "reset", "start", "check">>
      BY <2>1, <2>8, ScriptIs, UndoIs
    <3>2. <<step, next>> \in {<<"backup", "stop">>, <<"stop", "reset">>, <<"reset", "start">>,
            <<"start", "check">>, <<"check", "end">>}
      BY <1>1, <3>1
    <3> QED BY <2>8, <3>2, <1>3, <1>4 DEF Leads
  <2>9. CASE c.name = "backup"
    <3>1. Plan(c) = <<"backup">>
      BY <2>1, <2>9, ScriptIs, UndoIs
    <3>2. <<step, next>> \in {<<"backup", "end">>}
      BY <1>1, <3>1
    <3> QED BY <2>9, <3>2, <1>3, <1>4 DEF Leads
  <2>10. CASE c.name = "restore"
    <3>1. Plan(c) = <<"backup", "stop", "config", "database", "start", "check">>
      BY <2>1, <2>10, ScriptIs, UndoIs
    <3>2. <<step, next>> \in {<<"backup", "stop">>, <<"stop", "config">>, <<"config", "database">>,
            <<"database", "start">>, <<"start", "check">>, <<"check", "end">>}
      BY <1>1, <3>1
    <3> QED BY <2>10, <3>2, <1>3, <1>4 DEF Leads
  <2>11. CASE c.name = "uninstall"
    <3>1. Plan(c) = <<"stop", "remove">>
      BY <2>1, <2>11, ScriptIs, UndoIs
    <3>2. <<step, next>> \in {<<"stop", "remove">>, <<"remove", "end">>}
      BY <1>1, <3>1
    <3> QED BY <2>11, <3>2, <1>3, <1>4 DEF Leads
  <2> QED BY <1>2, <1>3, <2>2, <2>3, <2>4, <2>5, <2>6, <2>7, <2>8, <2>9, <2>10, <2>11 DEF Names
<1>5. CASE c.failed # "none"
  <2>1. Plan(c) = Undo(c.name, c.failed)
    BY <1>3, <1>5 DEF Plan
  <2>2. CASE c.name = "update" /\ c.failed = "unit"
    <3>1. Plan(c) = <<"link-back", "unit-back">>
      BY <2>1, <2>2, ScriptIs, UndoIs
    <3>2. <<step, next>> \in {<<"link-back", "unit-back">>, <<"unit-back", "end">>}
      BY <1>1, <3>1
    <3> QED BY <2>2, <3>2, <1>3, <1>5 DEF Leads
  <2>3. CASE c.name = "update" /\ c.failed = "check"
    <3>1. Plan(c) = <<"link-back", "unit-back", "restart">>
      BY <2>1, <2>3, ScriptIs, UndoIs
    <3>2. <<step, next>> \in {<<"link-back", "unit-back">>, <<"unit-back", "restart">>,
            <<"restart", "end">>}
      BY <1>1, <3>1
    <3> QED BY <2>3, <3>2, <1>3, <1>5 DEF Leads
  <2>4. CASE c.name = "rollback"
    <3>1. Plan(c) = <<"link-back", "unit-back", "restart">>
      BY <2>1, <2>4, ScriptIs, UndoIs
    <3>2. <<step, next>> \in {<<"link-back", "unit-back">>, <<"unit-back", "restart">>,
            <<"restart", "end">>}
      BY <1>1, <3>1
    <3> QED BY <2>4, <3>2, <1>3, <1>5 DEF Leads
  <2>5. CASE c.name = "reconfigure" /\ c.failed = "check"
    <3>1. Plan(c) = <<"config-back", "restart">>
      BY <2>1, <2>5, ScriptIs, UndoIs
    <3>2. <<step, next>> \in {<<"config-back", "restart">>, <<"restart", "end">>}
      BY <1>1, <3>1
    <3> QED BY <2>5, <3>2, <1>3, <1>5 DEF Leads
  <2>6. CASE c.name = "restore"
    <3>1. Plan(c) = <<"config-back", "database-back", "restart">>
      BY <2>1, <2>6, ScriptIs, UndoIs
    <3>2. <<step, next>> \in {<<"config-back", "database-back">>, <<"database-back", "restart">>,
            <<"restart", "end">>}
      BY <1>1, <3>1
    <3> QED BY <2>6, <3>2, <1>3, <1>5 DEF Leads
  <2>7. CASE c.name = "reset" /\ c.failed = "reset"
    <3>1. Plan(c) = <<"start">>
      BY <2>1, <2>7, ScriptIs, UndoIs
    <3>2. <<step, next>> \in {<<"start", "end">>}
      BY <1>1, <3>1
    <3> QED BY <2>7, <3>2, <1>3, <1>5 DEF Leads
  <2>8. Plan(c) # <<>>
    BY <1>1
  <2>9. \/ c.name = "update" /\ c.failed \in {"unit", "check"}
        \/ c.name \in {"rollback", "restore"}
        \/ c.name = "reconfigure" /\ c.failed = "check"
        \/ c.name = "reset" /\ c.failed = "reset"
    BY <1>2, <1>3, <2>1, <2>8, UndoIs DEF Names
  <2> QED BY <2>2, <2>3, <2>4, <2>5, <2>6, <2>7, <2>9
<1> QED BY <1>3, <1>4, <1>5

-----------------------------------------------------------------------------
(* Where a step leads.                                                      *)

\* The command goes on as the one it is.
Keeps ==
    /\ cmd'.name = cmd.name /\ cmd'.failed = cmd.failed
    /\ cmd'.target = cmd.target /\ cmd'.previous = cmd.previous
    /\ cmd'.wanted = cmd.wanted /\ cmd'.saved = cmd.saved /\ cmd'.source = cmd.source
    /\ cmd'.sound = cmd.sound /\ cmd'.consistent = cmd.consistent

LEMMA UpcomingIs ==
    ASSUME NEW step \in Steps, Does(step)
    PROVE  cmd.todo # <<>> /\ Head(cmd.todo) = step
BY DEF Does, Upcoming, Steps

LEMMA Advance ==
    ASSUME TypeInv, OnPlan(cmd), NEW step \in Steps, Does(step),
           NEW saved \in Changes \cup {NoDb},
           cmd' = [cmd EXCEPT !.todo = Tail(@), !.savedDb = saved]
    PROVE  /\ cmd.name # "none" /\ Keeps /\ cmd'.savedDb = saved
           /\ cmd' \in CommandType /\ OnPlan(cmd)' /\ Leads(cmd, step, Upcoming')
<1>1. cmd \in CommandType
  BY DEF TypeInv
<1>2. Keeps /\ cmd'.savedDb = saved /\ cmd'.todo = Tail(cmd.todo)
  BY <1>1 DEF CommandType, Keeps
<1>3. Plan(cmd') = Plan(cmd)
  BY <1>2 DEF Plan, Keeps
<1>4. /\ OnPlan(cmd') /\ cmd'.todo \in Seq(Steps)
      /\ Moves(cmd, step, IF cmd'.todo = <<>> THEN "end" ELSE Head(cmd'.todo))
  BY <1>1, <1>2, <1>3, UpcomingIs, StepTaken
<1>5. Upcoming' = IF cmd'.todo = <<>> THEN "end" ELSE Head(cmd'.todo)
  BY DEF Upcoming
<1>6. cmd' \in CommandType
  BY <1>1, <1>4 DEF CommandType
<1>7. cmd.name # "none" /\ Leads(cmd, step, Upcoming')
  BY <1>1, <1>4, <1>5, MovesLead
<1> QED BY <1>2, <1>4, <1>6, <1>7

\* What a step leaves as it was and what follows it
Goes(step) ==
    /\ Upcoming = step /\ cmd.name \in Names \ {"none"} /\ Keeps /\ cmd'.savedDb = cmd.savedDb
    /\ cmd' \in CommandType /\ OnPlan(cmd)' /\ Leads(cmd, step, Upcoming')

LEMMA DoneGoes ==
    ASSUME TypeInv, OnPlan(cmd), NEW step \in Steps, Does(step), Done
    PROVE  Goes(step)
<1>1. /\ cmd' = [cmd EXCEPT !.todo = Tail(@), !.savedDb = cmd.savedDb]
      /\ cmd.savedDb \in Changes \cup {NoDb}
  BY DEF TypeInv, CommandType, Done
<1>2. cmd.name \in Names
  BY DEF TypeInv, CommandType
<1> QED BY <1>1, <1>2, Advance DEF Goes, Does

\* A step of a plan is a step that some command takes.
LEMMA DoesLead ==
    ASSUME TypeInv, OnPlan(cmd), NEW step \in Steps, Does(step)
    PROVE  cmd.name # "none" /\ \E next : Leads(cmd, step, next)
<1> DEFINE d == [cmd EXCEPT !.todo = Tail(@)]
<1>1. cmd \in CommandType
  BY DEF TypeInv
<1>2. /\ d.todo = Tail(cmd.todo) /\ d.name = cmd.name /\ d.failed = cmd.failed
      /\ d.saved = cmd.saved
  BY <1>1 DEF CommandType
<1> HIDE DEF d
<1>3. Plan(d) = Plan(cmd)
  BY <1>2 DEF Plan
<1>4. Moves(cmd, step, IF d.todo = <<>> THEN "end" ELSE Head(d.todo))
  BY <1>1, <1>2, <1>3, UpcomingIs, StepTaken
<1> QED BY <1>1, <1>4, MovesLead

\* The first step of the answer to a failure
LEMMA Fallback ==
    ASSUME TypeInv, OnPlan(cmd), NEW step \in {"unit", "check", "configure", "reset"},
           Does(step), Fails(step)
    PROVE  /\ cmd.name # "none" /\ cmd.failed = "none" /\ \E next : Leads(cmd, step, next)
           /\ cmd'.name = cmd.name /\ cmd'.failed = step
           /\ cmd'.target = cmd.target /\ cmd'.previous = cmd.previous
           /\ cmd'.wanted = cmd.wanted /\ cmd'.saved = cmd.saved /\ cmd'.source = cmd.source
           /\ cmd'.sound = cmd.sound /\ cmd'.consistent = cmd.consistent
           /\ cmd'.savedDb = cmd.savedDb
           /\ cmd' \in CommandType /\ OnPlan(cmd)'
           /\ Upcoming' = IF cmd.name \in {"update", "rollback"} THEN "link-back"
                          ELSE IF cmd.name = "restore" THEN "config-back"
                          ELSE IF cmd.name = "reconfigure" /\ step = "check" THEN "config-back"
                          ELSE IF cmd.name = "reset" /\ step = "reset" THEN "start"
                          ELSE "end"
<1>1. cmd \in CommandType /\ cmd' = [cmd EXCEPT !.todo = Undo(cmd.name, step), !.failed = step]
  BY DEF TypeInv, Fails
<1>2. step \in Steps /\ step \in Failures /\ step # "none" /\ step # "backup"
  BY DEF Steps, Failures
<1>3. cmd.name # "none" /\ \E next : Leads(cmd, step, next)
  BY <1>2, DoesLead
<1>4. cmd.failed = "none" /\ (cmd.name = "update" => step \in {"unit", "check"})
  BY <1>3 DEF Leads
<1>5. /\ cmd'.name = cmd.name /\ cmd'.failed = step
      /\ cmd'.target = cmd.target /\ cmd'.previous = cmd.previous
      /\ cmd'.wanted = cmd.wanted /\ cmd'.saved = cmd.saved /\ cmd'.source = cmd.source
      /\ cmd'.sound = cmd.sound /\ cmd'.consistent = cmd.consistent
      /\ cmd'.savedDb = cmd.savedDb /\ cmd'.todo = Undo(cmd.name, step)
  BY <1>1 DEF CommandType
<1> DEFINE d == [cmd EXCEPT !.failed = step]
<1>6. d \in CommandType /\ d.name = cmd.name /\ d.failed = step
  BY <1>1, <1>2 DEF CommandType
<1> HIDE DEF d
<1>7. Plan(d) = Undo(cmd.name, step) /\ Plan(cmd') = Undo(cmd.name, step)
  BY <1>2, <1>3, <1>5, <1>6 DEF Plan
<1>8. Undo(cmd.name, step) \in Seq(Steps)
  BY <1>6, <1>7, PlanType
<1>9. OnPlan(cmd')
  <2>1. SubSeq(Plan(cmd'), 0 + 1, Len(Plan(cmd'))) = cmd'.todo
    BY <1>5, <1>7, <1>8, SubSeqFull
  <2>2. 0 \in 0..Len(Plan(cmd'))
    BY <1>7, <1>8
  <2> QED BY <2>1, <2>2 DEF OnPlan
<1>10. cmd' \in CommandType
  BY <1>1, <1>2, <1>8 DEF CommandType
<1>11. Upcoming' = IF cmd'.todo = <<>> THEN "end" ELSE Head(cmd'.todo)
  BY DEF Upcoming
<1>12. cmd.name \in Names \ {"none"}
  BY <1>1, <1>3 DEF CommandType
<1>13. CASE cmd.name = "update" /\ step = "unit"
  <2>1. cmd'.todo = <<"link-back", "unit-back">>
    BY <1>5, <1>13, UndoIs
  <2> QED BY <1>3, <1>4, <1>5, <1>9, <1>10, <1>11, <1>13, <2>1
<1>14. CASE cmd.name = "rollback" \/ (cmd.name = "update" /\ step = "check")
  <2>1. cmd'.todo = <<"link-back", "unit-back", "restart">>
    BY <1>5, <1>14, UndoIs
  <2> QED BY <1>3, <1>4, <1>5, <1>9, <1>10, <1>11, <1>14, <2>1
<1>15. CASE cmd.name = "restore"
  <2>1. cmd'.todo = <<"config-back", "database-back", "restart">>
    BY <1>5, <1>15, UndoIs
  <2> QED BY <1>3, <1>4, <1>5, <1>9, <1>10, <1>11, <1>15, <2>1
<1>16. CASE cmd.name = "reconfigure" /\ step = "check"
  <2>1. cmd'.todo = <<"config-back", "restart">>
    BY <1>5, <1>16, UndoIs
  <2> QED BY <1>3, <1>4, <1>5, <1>9, <1>10, <1>11, <1>16, <2>1
<1>17. CASE cmd.name = "reset" /\ step = "reset"
  <2>1. cmd'.todo = <<"start">>
    BY <1>5, <1>17, UndoIs
  <2>2. Upcoming' = "start"
    BY <1>11, <2>1
  <2> QED BY <1>3, <1>4, <1>5, <1>9, <1>10, <1>17, <2>2
<1>18. CASE \/ cmd.name \in {"install", "repair", "backup", "uninstall"}
            \/ cmd.name = "reconfigure" /\ step # "check"
            \/ cmd.name = "reset" /\ step # "reset"
  <2>1. cmd'.todo = <<>>
    BY <1>5, <1>18, UndoIs
  <2> QED BY <1>3, <1>4, <1>5, <1>9, <1>10, <1>11, <1>18, <2>1
<1> QED BY <1>4, <1>12, <1>13, <1>14, <1>15, <1>16, <1>17, <1>18 DEF Names

-----------------------------------------------------------------------------
(* The service.                                                             *)

LEMMA LoadEffect ==
    ASSUME TypeInv, Load, UNCHANGED <<current, config, cert>>
    PROVE  /\ proc' \in ProcessType /\ db' \in Changes \cup {NoDb}
           /\ proc'.active /\ proc'.release = current /\ proc'.config = config /\ ~proc'.orphan
           /\ db' = db \/ (db = NoDb /\ db' = {})
           /\ Serves(current, config) => Healthy' /\ Serves(current, config)'
<1>1. /\ proc' = [active |-> TRUE, release |-> current, config |-> config,
                  cert |-> IF config = Loopback THEN NoAddress ELSE cert, orphan |-> FALSE]
      /\ db' = db \/ (db = NoDb /\ db' = {})
  BY DEF Load
<1>2. /\ proc'.active /\ proc'.release = current /\ proc'.config = config /\ ~proc'.orphan
      /\ proc'.cert = IF config = Loopback THEN NoAddress ELSE cert
  BY <1>1
<1>3. proc' \in ProcessType
  BY <1>1 DEF TypeInv, ProcessType
<1>4. db' \in Changes \cup {NoDb}
  BY <1>1 DEF TypeInv, Changes
<1>5. ASSUME Serves(current, config)
      PROVE  Healthy' /\ Serves(current, config)'
  <2>1. config # NoAddress
    BY <1>5, WorksAssumption, AbsentAssumption DEF Serves, AbsentAssumption
  <2> QED BY <1>2, <1>5, <2>1 DEF Serves, Healthy, Running
<1> QED BY <1>1, <1>2, <1>3, <1>4, <1>5

\* What is healthy and of the installed release would come up again.
LEMMA HealthyServes ==
    ASSUME Healthy, proc.release = current
    PROVE  Serves(current, config)
BY DEF Healthy, Running, Serves

LEMMA ServiceLoads ==
    ASSUME LifecycleInv, Load, unit # NoRelease, Idle \/ proc.active,
           UNCHANGED <<current, unit, config, cert, backups, cmd, lastChange, forfeited>>
    PROVE  LifecycleInv'
<1> USE DEF LifecycleInv
<1>1. /\ proc' \in ProcessType /\ db' \in Changes \cup {NoDb}
      /\ proc'.active /\ proc'.release = current /\ proc'.config = config
      /\ db' = db \/ (db = NoDb /\ db' = {})
      /\ Serves(current, config) => Healthy' /\ Serves(current, config)'
  BY LoadEffect
<1>2. Upcoming' = Upcoming /\ (OnPlan(cmd))'
  BY DEF Upcoming, OnPlan, Plan
<1>3. TypeInv'
  BY <1>1 DEF TypeInv
<1>4. Installed' /\ Remembers'
  BY <1>1, <1>2 DEF Installed, Remembers, Idle, Tries
<1>5. StaysDown'
  BY <1>2 DEF StaysDown, Down, Idle
<1>6. Matches' /\ UnitMatches'
  BY <1>1, <1>2 DEF Matches, ProcessMatches, UnitMatches, Idle, Changed, UpdateHalfway
<1>7. PutBack'
  BY <1>1, <1>2 DEF PutBack, Tries
<1>8. Restorable'
  <2>1. Excepted' <=> Excepted
    BY DEF Excepted, UpdateHalfway, NewCertificate
  <2>2. Settled' <=> Settled
    BY <1>2 DEF Settled
  <2>3. Serves(cmd.previous, cmd.saved) => Serves(cmd.previous, cmd.saved)'
    BY DEF Serves
  <2> QED BY <1>1, <2>1, <2>2, <2>3, HealthyServes DEF Restorable, Idle
<1>9. Guarded'
  BY <1>1, <1>2 DEF Guarded, BackedUp
<1>10. NothingLost'
  BY <1>1 DEF NothingLost
<1> QED BY <1>2, <1>3, <1>4, <1>5, <1>6, <1>7, <1>8, <1>9, <1>10

\* The changes made so far and one more
LEMMA ChangeKeeps ==
    ASSUME LifecycleInv, Change
    PROVE  LifecycleInv'
<1> DEFINE c == lastChange + 1
<1> USE DEF LifecycleInv
<1>1. /\ Running /\ db # NoDb /\ lastChange \in Nat /\ c \in 1..MaxChanges
      /\ db' = IF proc.orphan THEN db ELSE db \cup {c}
      /\ lastChange' = c
      /\ forfeited' = IF Exposed \/ proc.orphan THEN forfeited \cup {c} ELSE forfeited
      /\ UNCHANGED <<current, unit, config, cert, backups, proc, cmd>>
  BY BoundsAssumption DEF Change, TypeInv, BoundsAssumption
<1> HIDE DEF c
<1>2. Upcoming' = Upcoming /\ (OnPlan(cmd))'
  BY <1>1 DEF Upcoming, OnPlan, Plan
<1>3. db' \in Changes /\ db' # NoDb /\ db \subseteq db'
  <2>1. db' \in Changes /\ db \subseteq db'
    BY <1>1 DEF TypeInv, Changes
  <2> QED BY <2>1, AbsentAssumption DEF AbsentAssumption, Changes
<1>4. TypeInv'
  BY <1>1, <1>3 DEF TypeInv, c
<1>5. Installed' /\ Remembers' /\ StaysDown'
  BY <1>1, <1>2 DEF Installed, Remembers, Idle, Tries, StaysDown, Down
<1>6. Matches' /\ UnitMatches'
  BY <1>1, <1>2 DEF Matches, ProcessMatches, UnitMatches, Idle, Changed, UpdateHalfway
<1>7. PutBack'
  BY <1>1, <1>2, <1>3 DEF PutBack, Tries
<1>8. Restorable'
  BY <1>1, <1>2 DEF Restorable, Idle, Excepted, UpdateHalfway, NewCertificate, Serves, Settled,
                    Healthy, Running
<1>9. 1..lastChange' = 1..lastChange \cup {c}
  BY <1>1 DEF c
<1>10. NothingLost'
  BY <1>1, <1>3, <1>9 DEF NothingLost
<1>11. Guarded'
  <2>1. SUFFICES ASSUME cmd.name = "restore"
                 PROVE  /\ Upcoming \in {"stop", "config", "database", "start", "check",
                                         "config-back", "database-back"}
                             => BackedUp' /\ cmd.savedDb # NoDb
                        /\ Upcoming \in {"start", "check"} => db' # NoDb
    BY <1>1, <1>2 DEF Guarded
  <2>2. Upcoming \notin {"config", "database", "start"}
    BY <1>1, <2>1 DEF StaysDown, Down, Running
  <2>3. Upcoming \in {"stop", "check", "config-back", "database-back"} => c \in forfeited'
    BY <1>1, <2>1 DEF Exposed
  <2>4. BackedUp /\ c \in forfeited' => BackedUp'
    BY <1>1, <1>9 DEF BackedUp
  <2> QED BY <1>3, <2>1, <2>2, <2>3, <2>4 DEF Guarded
<1> QED BY <1>2, <1>4, <1>5, <1>6, <1>7, <1>8, <1>10, <1>11

LEMMA InitializeKeeps ==
    ASSUME LifecycleInv, InitializeState
    PROVE  LifecycleInv'
<1> USE DEF LifecycleInv
<1>1. /\ Upcoming = "backup" /\ cmd.name # "restore" /\ db = NoDb /\ ~Running /\ backups = {}
      /\ proc' = Stopped /\ db' = {}
      /\ UNCHANGED <<current, unit, config, cert, backups, cmd, lastChange, forfeited>>
  BY DEF InitializeState, Does, Rest
<1>2. Upcoming' = Upcoming /\ (OnPlan(cmd))'
  BY <1>1 DEF Upcoming, OnPlan, Plan
<1>3. ~proc'.active /\ proc' \in ProcessType /\ db' \in Changes
  BY <1>1 DEF Stopped, ProcessType, Changes
<1>4. TypeInv'
  BY <1>1, <1>3 DEF TypeInv
<1>5. Installed' /\ Remembers' /\ StaysDown'
  BY <1>1, <1>2, <1>3 DEF Installed, Remembers, Idle, Tries, StaysDown, Down
<1>6. Matches' /\ UnitMatches'
  BY <1>1, <1>2, <1>3 DEF Matches, ProcessMatches, UnitMatches, Idle
<1>7. PutBack'
  BY <1>1, <1>2 DEF PutBack, Tries
<1>8. Restorable'
  <2>1. ~(~Idle /\ cmd.sound /\ ~Excepted)
    BY <1>1 DEF Restorable, Settled, Healthy
  <2> QED BY <1>1, <2>1 DEF Restorable, Idle, Excepted, UpdateHalfway, NewCertificate
<1>9. Guarded' /\ NothingLost'
  BY <1>1 DEF Guarded, NothingLost
<1> QED BY <1>2, <1>4, <1>5, <1>6, <1>7, <1>8, <1>9

-----------------------------------------------------------------------------
(* The beginning and the end of a command.                                  *)

LEMMA NoCommandType == NoCommand \in CommandType
BY DEF NoCommand, CommandType, Names, Failures, Steps

LEMMA StopsKeep ==
    ASSUME LifecycleInv, cmd' = NoCommand, UNCHANGED <<files, proc, lastChange, forfeited>>
    PROVE  LifecycleInv'
<1> USE DEF LifecycleInv, files
<1>1. /\ cmd'.name = "none" /\ cmd'.failed = "none" /\ cmd'.todo = <<>>
      /\ cmd'.sound = FALSE /\ cmd'.consistent = FALSE
  BY DEF NoCommand
<1>2. OnPlan(cmd)'
  <2>1. Plan(cmd') = <<>>
    BY <1>1 DEF Plan
  <2>2. SubSeq(<<>>, 0 + 1, Len(<<>>)) = <<>>
    BY SubSeqEmpty
  <2> QED BY <1>1, <2>1, <2>2 DEF OnPlan
<1>3. TypeInv'
  BY NoCommandType DEF TypeInv
<1>4. Installed' /\ Remembers' /\ StaysDown'
  BY <1>1 DEF Installed, Remembers, Idle, StaysDown, Down
<1>5. Matches' /\ UnitMatches' /\ PutBack' /\ Restorable' /\ Guarded'
  BY <1>1 DEF Matches, UnitMatches, PutBack, Tries, Restorable, Guarded, Idle
<1>6. NothingLost'
  BY DEF NothingLost
<1> QED BY <1>2, <1>3, <1>4, <1>5, <1>6

\* What each command knows when it begins
Founded(name, c) ==
    /\ c \in CommandType /\ c.failed = "none"
    /\ name \in {"update", "rollback"} => current # NoRelease /\ c.target # NoRelease
    /\ name \in {"reconfigure", "repair", "reset", "backup", "restore"} =>
         current # NoRelease /\ config # NoAddress
    /\ name = "reconfigure" => c.wanted # NoAddress
    /\ name = "restore" => c.source \in BackupType
    /\ name = "install" =>
         /\ current = NoRelease \/ config = NoAddress
         /\ c.target # NoRelease /\ c.wanted # NoAddress

LEMMA FirstStep ==
    ASSUME LifecycleInv, NEW name \in Names \ {"none"}, NEW c, Founded(name, c), Begin(name, c)
    PROVE  /\ cmd'.name = name /\ cmd'.failed = "none"
           /\ cmd'.previous = current /\ cmd'.saved = config
           /\ cmd'.target = c.target /\ cmd'.wanted = c.wanted /\ cmd'.source = c.source
           /\ cmd'.sound = (Healthy /\ proc.release = current) /\ cmd'.consistent = Consistent
           /\ cmd' \in CommandType /\ OnPlan(cmd)'
           /\ Upcoming' = IF name = "install" THEN "release"
                          ELSE IF name = "reconfigure" THEN "certificate"
                          ELSE IF name = "repair" THEN "unit"
                          ELSE IF name = "uninstall" THEN "stop"
                          ELSE "backup"
<1> DEFINE todo == IF name = "install" /\ config # NoAddress
                   THEN <<"release", "unit", "start", "check">> ELSE Script(name)
           sound == Healthy /\ proc.release = current
<1>1. c \in CommandType /\ c.failed = "none"
  BY DEF Founded
<1>2. cmd' = [c EXCEPT !.name = name, !.previous = current, !.saved = config, !.todo = todo,
                       !.sound = sound, !.consistent = Consistent]
  BY DEF Begin
<1>3. sound \in BOOLEAN /\ Consistent \in BOOLEAN
  BY DEF Healthy, Running, Consistent
<1>4. current \in Releases \cup {NoRelease} /\ config \in Addresses \cup {NoAddress}
  BY DEF LifecycleInv, TypeInv
<1> HIDE DEF todo, sound
<1>5. /\ cmd'.name = name /\ cmd'.failed = "none" /\ cmd'.todo = todo
      /\ cmd'.previous = current /\ cmd'.saved = config
      /\ cmd'.target = c.target /\ cmd'.wanted = c.wanted /\ cmd'.source = c.source
      /\ cmd'.sound = sound /\ cmd'.consistent = Consistent
  BY <1>1, <1>2 DEF CommandType
<1> DEFINE d == [c EXCEPT !.name = name, !.saved = config]
<1>6. d \in CommandType /\ d.name = name /\ d.failed = "none" /\ d.saved = config
  <2>1. name \in Names
    OBVIOUS
  <2>2. d \in CommandType
    BY <1>1, <2>1, <1>4 DEF CommandType
  <2> QED BY <1>1, <2>2 DEF CommandType
<1> HIDE DEF d
<1>7. Plan(d) = todo /\ Plan(cmd') = todo
  BY <1>5, <1>6 DEF Plan, todo
<1>8. todo \in Seq(Steps)
  BY <1>6, <1>7, PlanType
<1>9. cmd' \in CommandType
  <2>1. name \in Names
    OBVIOUS
  <2> QED BY <1>1, <1>2, <1>3, <1>8, <1>4, <2>1 DEF CommandType
<1>10. OnPlan(cmd)'
  <2>1. SubSeq(todo, 0 + 1, Len(todo)) = todo /\ 0 \in 0..Len(todo)
    BY <1>8, SubSeqFull
  <2> QED BY <1>5, <1>7, <2>1 DEF OnPlan
<1>11. Upcoming' = IF todo = <<>> THEN "end" ELSE Head(todo)
  BY <1>5 DEF Upcoming
<1>12. name = "install" => Upcoming' = "release"
  BY <1>11, ScriptIs DEF todo
<1>13. name = "reconfigure" => Upcoming' = "certificate"
  BY <1>11, ScriptIs DEF todo
<1>14. name = "repair" => Upcoming' = "unit"
  BY <1>11, ScriptIs DEF todo
<1>15. name = "uninstall" => Upcoming' = "stop"
  BY <1>11, ScriptIs DEF todo
<1>16. name \in {"update", "rollback", "reset", "restore"} => Upcoming' = "backup"
  BY <1>11, ScriptIs DEF todo
<1>17. name = "backup" => Upcoming' = "backup"
  BY <1>11, ScriptIs DEF todo
<1>18. Upcoming' = IF name = "install" THEN "release"
                   ELSE IF name = "reconfigure" THEN "certificate"
                   ELSE IF name = "repair" THEN "unit"
                   ELSE IF name = "uninstall" THEN "stop"
                   ELSE "backup"
  BY <1>12, <1>13, <1>14, <1>15, <1>16, <1>17 DEF Names
<1> QED BY <1>5, <1>9, <1>10, <1>18 DEF sound

LEMMA BeginKeeps ==
    ASSUME LifecycleInv, NEW name \in Names \ {"none"}, NEW c, Founded(name, c), Begin(name, c)
    PROVE  LifecycleInv'
<1> USE DEF LifecycleInv
<1>1. /\ cmd'.name = name /\ cmd'.failed = "none"
      /\ cmd'.previous = current /\ cmd'.saved = config
      /\ cmd'.target = c.target /\ cmd'.wanted = c.wanted /\ cmd'.source = c.source
      /\ cmd'.sound = (Healthy /\ proc.release = current) /\ cmd'.consistent = Consistent
      /\ cmd' \in CommandType /\ OnPlan(cmd)'
      /\ Upcoming' = IF name = "install" THEN "release"
                     ELSE IF name = "reconfigure" THEN "certificate"
                     ELSE IF name = "repair" THEN "unit"
                     ELSE IF name = "uninstall" THEN "stop"
                     ELSE "backup"
  BY FirstStep
<1>2. UNCHANGED <<current, unit, config, cert, db, backups, proc, lastChange, forfeited>>
  BY DEF Begin, files
<1>3. TypeInv'
  BY <1>1, <1>2 DEF TypeInv
<1>4. Installed' /\ StaysDown'
  BY <1>1, <1>2 DEF Installed, StaysDown, Down
<1>5. Healthy => current # NoRelease /\ config # NoAddress /\ unit # NoRelease
  BY DEF Healthy, Running, Installed
<1>6. Remembers'
  BY <1>1, <1>2, <1>5 DEF Remembers, Founded, Idle, Tries, Installed
<1>7. Matches' /\ UnitMatches'
  BY <1>1, <1>2 DEF Matches, ProcessMatches, UnitMatches, Idle, Consistent, Healthy
<1>8. PutBack' /\ NothingLost' /\ Guarded'
  BY <1>1, <1>2 DEF PutBack, Tries, NothingLost, Guarded
<1>9. Restorable'
  BY <1>1, <1>2, <1>5, HealthyServes DEF Restorable, Serves, Healthy, Running
<1> QED BY <1>1, <1>3, <1>4, <1>6, <1>7, <1>8, <1>9

LEMMA BeginSomeKeeps ==
    ASSUME LifecycleInv, BeginSome
    PROVE  LifecycleInv'
<1> USE AbsentAssumption, NoCommandType DEF AbsentAssumption
<1>0. NoCommand.failed = "none"
  BY DEF NoCommand
<1>1. ASSUME NEW r \in Releases, Update(r)
      PROVE  LifecycleInv'
  <2> DEFINE c == [NoCommand EXCEPT !.target = r]
  <2>1. c \in CommandType /\ c.failed = "none" /\ c.target = r
    BY <1>0 DEF CommandType
  <2>2. Founded("update", c) /\ Begin("update", c)
    BY <1>1, <2>1 DEF Founded, Update
  <2> QED BY <2>2, BeginKeeps DEF Names
<1>2. ASSUME NEW r \in Releases, Rollback(r)
      PROVE  LifecycleInv'
  <2> DEFINE c == [NoCommand EXCEPT !.target = r]
  <2>1. c \in CommandType /\ c.failed = "none" /\ c.target = r
    BY <1>0 DEF CommandType
  <2>2. Founded("rollback", c) /\ Begin("rollback", c)
    BY <1>2, <2>1 DEF Founded, Rollback
  <2> QED BY <2>2, BeginKeeps DEF Names
<1>3. ASSUME NEW r \in Releases, NEW a \in Addresses, Install(r, a)
      PROVE  LifecycleInv'
  <2> DEFINE c == [NoCommand EXCEPT !.target = r, !.wanted = a]
  <2>1. c \in CommandType /\ c.failed = "none" /\ c.target = r /\ c.wanted = a
    BY <1>0 DEF CommandType
  <2>2. Founded("install", c) /\ Begin("install", c)
    BY <1>3, <2>1 DEF Founded, Install
  <2> QED BY <2>2, BeginKeeps DEF Names
<1>4. ASSUME NEW a \in Addresses, Reconfigure(a)
      PROVE  LifecycleInv'
  <2> DEFINE c == [NoCommand EXCEPT !.wanted = a]
  <2>1. c \in CommandType /\ c.failed = "none" /\ c.wanted = a
    BY <1>0 DEF CommandType
  <2>2. Founded("reconfigure", c) /\ Begin("reconfigure", c)
    BY <1>4, <2>1 DEF Founded, Reconfigure
  <2> QED BY <2>2, BeginKeeps DEF Names
<1>5. ASSUME NEW b \in backups, Restore(b)
      PROVE  LifecycleInv'
  <2> DEFINE c == [NoCommand EXCEPT !.source = b]
  <2>1. b \in BackupType
    BY DEF LifecycleInv, TypeInv
  <2>2. c \in CommandType /\ c.failed = "none" /\ c.source = b
    BY <1>0, <2>1 DEF CommandType
  <2>3. Founded("restore", c) /\ Begin("restore", c)
    BY <1>5, <2>1, <2>2 DEF Founded, Restore
  <2> QED BY <2>3, BeginKeeps DEF Names
<1>6. CASE Repair
  <2>1. Founded("repair", NoCommand) /\ Begin("repair", NoCommand)
    BY <1>0, <1>6 DEF Founded, Repair
  <2> QED BY <2>1, BeginKeeps DEF Names
<1>7. CASE ResetAdmin
  <2>1. Founded("reset", NoCommand) /\ Begin("reset", NoCommand)
    BY <1>0, <1>7 DEF Founded, ResetAdmin
  <2> QED BY <2>1, BeginKeeps DEF Names
<1>8. CASE Backup
  <2>1. Founded("backup", NoCommand) /\ Begin("backup", NoCommand)
    BY <1>0, <1>8 DEF Founded, Backup
  <2> QED BY <2>1, BeginKeeps DEF Names
<1>9. CASE Uninstall
  <2>1. Founded("uninstall", NoCommand) /\ Begin("uninstall", NoCommand)
    BY <1>0, <1>9 DEF Founded, Uninstall
  <2> QED BY <2>1, BeginKeeps DEF Names
<1> QED BY <1>1, <1>2, <1>3, <1>4, <1>5, <1>6, <1>7, <1>8, <1>9 DEF BeginSome

-----------------------------------------------------------------------------
(* The steps.                                                               *)

LEMMA StopKeeps ==
    ASSUME LifecycleInv, Stop
    PROVE  LifecycleInv'
<1> USE DEF LifecycleInv
<1>1. Goes("stop")
  BY DoneGoes DEF Stop, Steps
<1>2. ~proc'.active /\ proc' \in ProcessType
  BY DEF Stop, Stopped, ProcessType
<1>3. UNCHANGED <<current, unit, config, cert, db, backups, lastChange, forfeited>>
  BY DEF Stop, files, Rest
<1>4. TypeInv' /\ OnPlan(cmd)'
  BY <1>1, <1>2, <1>3 DEF TypeInv, Goes
<1>5. Installed' /\ StaysDown'
  BY <1>2, <1>3 DEF Installed, StaysDown
<1>6. Remembers'
  BY <1>1, <1>2, <1>3 DEF Remembers, Goes, Keeps, Leads, Idle, Tries
<1>7. Matches' /\ UnitMatches'
  BY <1>1, <1>2, <1>3 DEF Matches, ProcessMatches, UnitMatches, Goes, Keeps, Leads, Idle
<1>8. PutBack'
  BY <1>1, <1>2, <1>3 DEF PutBack, Goes, Keeps, Leads, Tries
<1>9. Restorable'
  <2>1. Excepted' <=> Excepted
    BY <1>1 DEF Goes, Keeps, Excepted, UpdateHalfway, NewCertificate
  <2>2. ~Excepted => ~Settled'
    BY <1>1 DEF Goes, Keeps, Leads, Excepted, Settled, Names
  <2> QED BY <1>1, <1>3, <2>1, <2>2 DEF Restorable, Goes, Keeps, Idle, Serves
<1>10. Guarded' /\ NothingLost'
  BY <1>1, <1>2, <1>3 DEF Guarded, BackedUp, NothingLost, Goes, Keeps, Leads
<1> QED BY <1>4, <1>5, <1>6, <1>7, <1>8, <1>9, <1>10

LEMMA CheckPassesKeeps ==
    ASSUME LifecycleInv, CheckPasses
    PROVE  LifecycleInv'
<1> USE DEF LifecycleInv
<1>1. Goes("check") /\ Healthy
  BY DoneGoes DEF CheckPasses, Steps
<1>2. UNCHANGED <<current, unit, config, cert, db, backups, proc, lastChange, forfeited>>
  BY DEF CheckPasses, files, Rest
<1>3. TypeInv' /\ OnPlan(cmd)'
  BY <1>1, <1>2 DEF TypeInv, Goes
<1>4. Installed' /\ StaysDown'
  BY <1>1, <1>2 DEF Installed, StaysDown, Down, Goes, Keeps, Leads
<1>5. Remembers'
  BY <1>1, <1>2 DEF Remembers, Goes, Keeps, Leads, Idle, Tries
<1>6. Matches' /\ UnitMatches'
  BY <1>1, <1>2 DEF Matches, ProcessMatches, UnitMatches, Goes, Keeps, Leads, Idle, Changed, UpdateHalfway
<1>7. PutBack'
  BY <1>1, <1>2 DEF PutBack, Goes, Keeps, Leads, Tries
<1>8. Restorable'
  <2>1. Healthy'
    BY <1>1, <1>2 DEF Healthy, Running
  <2>2. ~Idle /\ cmd.sound => proc.release = current
    BY <1>1 DEF Matches, ProcessMatches, Changed, UpdateHalfway, Healthy, Running, Goes
  <2> QED BY <1>1, <1>2, <2>1, <2>2 DEF Restorable, Goes, Keeps, Leads, Idle, Excepted, UpdateHalfway,
                          NewCertificate, Settled, Serves
<1>9. Guarded' /\ NothingLost'
  BY <1>1, <1>2 DEF Guarded, BackedUp, NothingLost, Goes, Keeps, Leads
<1> QED BY <1>3, <1>4, <1>5, <1>6, <1>7, <1>8, <1>9

LEMMA MakeBackupKeeps ==
    ASSUME LifecycleInv, MakeBackup
    PROVE  LifecycleInv'
<1> DEFINE b == [config |-> config, db |-> db]
<1> USE DEF LifecycleInv
<1>1. /\ Upcoming = "backup" /\ config # NoAddress /\ db # NoDb
      /\ backups' = backups \cup {b}
      /\ UNCHANGED <<current, unit, config, cert, db, proc, lastChange, forfeited>>
  BY DEF MakeBackup, Does, Rest
<1>2. /\ cmd.name # "none" /\ Keeps /\ cmd'.savedDb = db
      /\ cmd' \in CommandType /\ OnPlan(cmd)' /\ Leads(cmd, "backup", Upcoming')
  <2>1. db \in Changes \cup {NoDb} /\ "backup" \in Steps
    BY DEF TypeInv, Steps
  <2> QED BY <2>1, Advance DEF MakeBackup
<1>3. b \in BackupType /\ b.db = db
  BY <1>1 DEF TypeInv, BackupType
<1> HIDE DEF b
<1>4. TypeInv'
  BY <1>1, <1>2, <1>3 DEF TypeInv
<1>5. Installed' /\ StaysDown'
  BY <1>1, <1>2 DEF Installed, StaysDown, Down, Keeps, Leads
<1>6. Remembers'
  BY <1>1, <1>2 DEF Remembers, Keeps, Leads, Idle, Tries
<1>7. Matches' /\ UnitMatches'
  BY <1>1, <1>2 DEF Matches, ProcessMatches, UnitMatches, Keeps, Leads, Idle, Changed, UpdateHalfway
<1>8. PutBack'
  BY <1>1, <1>2 DEF PutBack, Keeps, Leads, Tries
<1>9. Restorable'
  <2>1. Excepted' <=> Excepted
    BY <1>2 DEF Keeps, Excepted, UpdateHalfway, NewCertificate
  <2>2. Settled /\ (Healthy' <=> Healthy)
    BY <1>1 DEF Settled, Healthy, Running
  <2> QED BY <1>1, <1>2, <2>1, <2>2 DEF Restorable, Keeps, Idle, Serves
<1>10. BackedUp'
  BY <1>1, <1>3 DEF BackedUp, NothingLost
<1>11. Guarded' /\ NothingLost'
  BY <1>1, <1>2, <1>10 DEF Guarded, NothingLost, Keeps, Leads
<1> QED BY <1>2, <1>4, <1>5, <1>6, <1>7, <1>8, <1>9, <1>11

LEMMA NoStateKeeps ==
    ASSUME LifecycleInv, NoState
    PROVE  LifecycleInv'
<1> USE DEF LifecycleInv
<1>1. /\ Upcoming = "backup" /\ cmd' = [cmd EXCEPT !.todo = <<>>, !.failed = "backup"]
      /\ UNCHANGED <<current, unit, config, cert, db, backups, proc, lastChange, forfeited>>
  BY DEF NoState, Does, files, Rest
<1>2. cmd.name # "none" /\ \E next : Leads(cmd, "backup", next)
  BY DoesLead DEF NoState, Steps
<1>3. /\ cmd'.name = cmd.name /\ cmd'.failed = "backup" /\ cmd'.todo = <<>>
      /\ cmd'.target = cmd.target /\ cmd'.previous = cmd.previous
      /\ cmd'.wanted = cmd.wanted /\ cmd'.saved = cmd.saved /\ cmd'.source = cmd.source
      /\ cmd'.sound = cmd.sound /\ cmd'.consistent = cmd.consistent
      /\ cmd'.savedDb = cmd.savedDb
  BY <1>1 DEF TypeInv, CommandType
<1>4. cmd' \in CommandType
  <2>1. <<>> \in Seq(Steps) /\ "backup" \in Failures
    BY DEF Failures
  <2> QED BY <1>1, <2>1 DEF TypeInv, CommandType
<1>5. Upcoming' = "end"
  BY <1>3 DEF Upcoming
<1>6. OnPlan(cmd)'
  <2>1. Plan(cmd') = <<>> /\ SubSeq(<<>>, 0 + 1, Len(<<>>)) = <<>>
    BY <1>3, SubSeqEmpty DEF Plan
  <2> QED BY <1>3, <2>1 DEF OnPlan
<1>7. TypeInv'
  BY <1>1, <1>4 DEF TypeInv
<1>8. Installed' /\ StaysDown'
  BY <1>1, <1>5 DEF Installed, StaysDown, Down
<1>9. Remembers'
  BY <1>1, <1>2, <1>3, <1>5 DEF Remembers, Leads, Idle, Tries
<1>10. Matches' /\ UnitMatches'
  BY <1>1, <1>2, <1>3, <1>5 DEF Matches, ProcessMatches, UnitMatches, Leads, Idle, Changed, UpdateHalfway
<1>11. PutBack'
  BY <1>3 DEF PutBack
<1>12. Restorable'
  <2>1. cmd.failed = "none"
    BY <1>2 DEF Leads
  <2>2. Excepted' <=> Excepted
    BY <1>3, <2>1 DEF Excepted, UpdateHalfway, NewCertificate
  <2>3. Settled /\ (Healthy' <=> Healthy)
    BY <1>1 DEF Settled, Healthy, Running
  <2> QED BY <1>1, <1>2, <1>3, <2>2, <2>3 DEF Restorable, Idle, Serves
<1>13. Guarded' /\ NothingLost'
  BY <1>1, <1>5 DEF Guarded, NothingLost
<1> QED BY <1>6, <1>7, <1>8, <1>9, <1>10, <1>11, <1>12, <1>13

LEMMA PutReleaseKeeps ==
    ASSUME LifecycleInv, PutRelease
    PROVE  LifecycleInv'
<1> USE DEF LifecycleInv
<1>1. /\ current' = cmd.target
      /\ UNCHANGED <<unit, config, cert, db, backups, proc, lastChange, forfeited>>
  BY DEF PutRelease, Rest
<1>2. Goes("release")
  BY DoneGoes DEF PutRelease, Steps
<1>3. /\ cmd.failed = "none" /\ cmd'.failed = "none"
      /\ \/ cmd.name = "install" /\ Upcoming' \in {"certificate", "unit"}
              /\ (Upcoming' = "unit" => cmd.saved # NoAddress)
         \/ cmd.name = "update" /\ Upcoming' = "unit"
  BY <1>2 DEF Goes, Keeps, Leads, Names
<1>4. TypeInv' /\ OnPlan(cmd)'
  <2>1. cmd.target \in Releases \cup {NoRelease}
    BY DEF TypeInv, CommandType
  <2> QED BY <1>1, <1>2, <2>1 DEF TypeInv, Goes
<1>5. cmd.target # NoRelease
  BY <1>3 DEF Remembers
<1>6. Installed' /\ StaysDown'
  BY <1>1, <1>3, <1>5 DEF Installed, StaysDown, Down
<1>7. Remembers'
  BY <1>1, <1>2, <1>3, <1>5 DEF Remembers, Goes, Keeps, Idle, Tries
<1>8. cmd.name = "install" => unit = NoRelease /\ ~proc.active
  BY <1>2, <1>3 DEF Remembers, Goes, Tries, Installed
<1>9. Matches' /\ UnitMatches'
  BY <1>1, <1>2, <1>3, <1>8 DEF Matches, ProcessMatches, UnitMatches, Changed, Goes, Keeps
<1>10. PutBack'
  BY <1>3 DEF PutBack, Tries
<1>11. Restorable'
  <2>1. cmd'.sound => cmd.sound /\ cmd.name = "update"
    BY <1>2, <1>3 DEF Goes, Keeps, Remembers
  <2>2. ~Excepted' => ~Excepted
    BY <1>2 DEF Goes, Keeps, Excepted, UpdateHalfway, NewCertificate
  <2>3. cmd.name = "update" => ~Settled'
    BY <1>2, <1>3 DEF Goes, Keeps, Settled
  <2> QED BY <1>1, <1>2, <2>1, <2>2, <2>3 DEF Restorable, Goes, Keeps, Idle, Serves
<1>12. Guarded' /\ NothingLost'
  BY <1>1, <1>2, <1>3 DEF Guarded, NothingLost, Goes, Keeps
<1> QED BY <1>4, <1>6, <1>7, <1>9, <1>10, <1>11, <1>12

LEMMA LinkKeeps ==
    ASSUME LifecycleInv, Link
    PROVE  LifecycleInv'
<1> USE DEF LifecycleInv
<1>1. UNCHANGED <<unit, config, cert, db, backups, proc, lastChange, forfeited>>
  BY DEF Link, Rest
<1>2. \/ Goes("link") /\ current' = cmd.target
      \/ Goes("link-back") /\ current' = cmd.previous
  BY DoneGoes DEF Link, Steps
<1>3. /\ cmd.name \in {"update", "rollback"} /\ cmd'.failed = cmd.failed
      /\ \/ Upcoming' = "unit" /\ cmd.failed = "none" /\ cmd.name = "rollback"
            /\ current' = cmd.target /\ Upcoming = "link"
         \/ Upcoming' = "unit-back" /\ cmd.failed # "none" /\ current' = cmd.previous
            /\ Upcoming = "link-back"
  BY <1>2 DEF Goes, Keeps, Leads, Names
<1>4. Keeps /\ OnPlan(cmd)' /\ cmd' \in CommandType
  BY <1>2 DEF Goes
<1>5. TypeInv'
  <2>1. cmd.target \in Releases \cup {NoRelease} /\ cmd.previous \in Releases \cup {NoRelease}
    BY DEF TypeInv, CommandType
  <2> QED BY <1>1, <1>3, <1>4, <2>1 DEF TypeInv
<1>6. current' # NoRelease
  BY <1>3 DEF Remembers
<1>7. Installed' /\ StaysDown'
  BY <1>1, <1>3, <1>4, <1>6 DEF Installed, StaysDown, Down, Keeps
<1>8. Remembers'
  BY <1>1, <1>3, <1>4, <1>6 DEF Remembers, Keeps, Idle, Tries
<1>9. Matches' /\ UnitMatches'
  BY <1>3, <1>4 DEF Matches, UnitMatches, Changed, Keeps
<1>10. PutBack'
  BY <1>1, <1>3, <1>4 DEF PutBack, Keeps, Tries
<1>11. Restorable'
  <2>1. Excepted' <=> Excepted
    BY <1>4 DEF Keeps, Excepted, UpdateHalfway, NewCertificate
  <2>2. ~Settled'
    BY <1>3, <1>4 DEF Keeps, Settled
  <2> QED BY <1>1, <1>4, <2>1, <2>2 DEF Restorable, Keeps, Idle, Serves
<1>12. Guarded' /\ NothingLost'
  BY <1>1, <1>3, <1>4 DEF Guarded, NothingLost, Keeps
<1> QED BY <1>4, <1>5, <1>7, <1>8, <1>9, <1>10, <1>11, <1>12

LEMMA PutUnitKeeps ==
    ASSUME LifecycleInv, PutUnit
    PROVE  LifecycleInv'
<1> USE DEF LifecycleInv
<1>1. /\ unit' = current
      /\ UNCHANGED <<current, config, cert, db, backups, proc, lastChange, forfeited>>
  BY DEF PutUnit, Rest
<1>2. Goes("unit") \/ Goes("unit-back")
  BY DoneGoes DEF PutUnit, Steps
<1>3. \/ cmd.name \in {"install", "repair"} /\ cmd.failed = "none"
           /\ Upcoming = "unit" /\ Upcoming' = "start"
      \/ cmd.name \in {"update", "rollback"} /\ cmd.failed = "none"
           /\ Upcoming = "unit" /\ Upcoming' = "restart"
      \/ cmd.name \in {"update", "rollback"} /\ cmd.failed # "none"
           /\ Upcoming = "unit-back" /\ Upcoming' = "restart"
      \/ UpdateHalfway /\ Upcoming = "unit-back" /\ Upcoming' = "end"
  BY <1>2 DEF Goes, Leads, Names, UpdateHalfway
<1>4. Keeps /\ OnPlan(cmd)' /\ cmd' \in CommandType /\ cmd.name # "none"
  BY <1>2 DEF Goes
<1>5. TypeInv'
  BY <1>1, <1>4 DEF TypeInv
<1>6. current # NoRelease /\ config # NoAddress
  BY <1>3 DEF Remembers, UpdateHalfway
<1>7. Installed' /\ StaysDown'
  BY <1>1, <1>3, <1>4, <1>6 DEF Installed, StaysDown, Down, Keeps, UpdateHalfway
<1>8. cmd.name = "install" => ~proc.active
  BY <1>3 DEF Remembers, Tries, Installed, UpdateHalfway
<1>9. Remembers'
  BY <1>1, <1>3, <1>4, <1>8 DEF Remembers, Keeps, Idle, Tries, UpdateHalfway
<1>10. Matches' /\ UnitMatches'
  <2>1. ProcessMatches' <=> ProcessMatches
    BY <1>1 DEF ProcessMatches
  <2>2. cmd.name = "install" => ProcessMatches
    BY <1>8 DEF ProcessMatches
  <2> QED BY <1>1, <1>3, <1>4, <2>1, <2>2 DEF Matches, UnitMatches, Changed, Keeps, UpdateHalfway, Idle
<1>11. PutBack'
  BY <1>1, <1>3, <1>4 DEF PutBack, Keeps, Tries, UpdateHalfway
<1>12. Restorable'
  <2>1. Excepted' <=> Excepted
    BY <1>4 DEF Keeps, Excepted, UpdateHalfway, NewCertificate
  <2>2. cmd.sound /\ ~Excepted /\ Settled' => Settled
    BY <1>3, <1>4 DEF Keeps, Settled, Excepted, Remembers
  <2>3. Healthy' <=> Healthy
    BY <1>1 DEF Healthy, Running
  <2> QED BY <1>1, <1>4, <1>6, <2>1, <2>2, <2>3 DEF Restorable, Keeps, Idle, Serves
<1>13. Guarded' /\ NothingLost'
  BY <1>1, <1>3, <1>4 DEF Guarded, NothingLost, Keeps, UpdateHalfway
<1> QED BY <1>4, <1>5, <1>7, <1>9, <1>10, <1>11, <1>12, <1>13

LEMMA UnitFailsKeeps ==
    ASSUME LifecycleInv, UnitFails
    PROVE  LifecycleInv'
<1> USE DEF LifecycleInv
<1>1. /\ Upcoming = "unit" /\ cmd.name \in {"update", "rollback"} /\ unit' \in {unit, current}
      /\ UNCHANGED <<current, config, cert, db, backups, proc, lastChange, forfeited>>
  BY DEF UnitFails, Does, Rest
<1>2. /\ cmd.failed = "none"
      /\ cmd'.name = cmd.name /\ cmd'.failed = "unit"
      /\ cmd'.target = cmd.target /\ cmd'.previous = cmd.previous
      /\ cmd'.wanted = cmd.wanted /\ cmd'.saved = cmd.saved /\ cmd'.source = cmd.source
      /\ cmd'.sound = cmd.sound /\ cmd'.consistent = cmd.consistent
      /\ cmd' \in CommandType /\ OnPlan(cmd)' /\ Upcoming' = "link-back"
  BY <1>1, Fallback DEF UnitFails
<1>3. TypeInv'
  BY <1>1, <1>2 DEF TypeInv
<1>4. Installed' /\ StaysDown'
  BY <1>1, <1>2 DEF Installed, StaysDown, Down, Remembers
<1>5. Remembers'
  BY <1>1, <1>2 DEF Remembers, Idle, Tries
<1>6. Matches' /\ UnitMatches' /\ PutBack'
  BY <1>1, <1>2 DEF Matches, UnitMatches, Changed, PutBack, Tries
<1>7. Restorable'
  <2>1. ~Excepted' => ~Excepted
    BY <1>1, <1>2 DEF Excepted, UpdateHalfway, NewCertificate
  <2>2. ~Settled'
    BY <1>1, <1>2 DEF Settled
  <2>3. current # NoRelease
    BY <1>1 DEF Remembers
  <2> QED BY <1>1, <1>2, <2>1, <2>2, <2>3 DEF Restorable, Idle, Serves
<1>8. Guarded' /\ NothingLost'
  BY <1>1, <1>2 DEF Guarded, NothingLost
<1> QED BY <1>2, <1>3, <1>4, <1>5, <1>6, <1>7, <1>8

\* systemctl start or restart, as the unit allows it
LEMMA LaunchEffect ==
    ASSUME TypeInv, Installed, Launch, UNCHANGED <<current, unit, config, cert>>
    PROVE  /\ proc' \in ProcessType /\ db' \in Changes \cup {NoDb}
           /\ ProcessMatches'
           /\ proc'.active => unit # NoRelease
           /\ db # NoDb => db' = db
           /\ db' = db \/ (db = NoDb /\ db' = {})
           /\ unit # NoRelease /\ Serves(current, config) =>
                Healthy' /\ proc'.release = current
<1>1. CASE unit = NoRelease
  <2>1. UNCHANGED <<proc, db>>
    BY <1>1 DEF Launch
  <2> QED BY <1>1, <2>1 DEF Installed, ProcessMatches, TypeInv
<1>2. CASE unit # NoRelease
  <2>1. Load
    BY <1>2 DEF Launch
  <2> QED BY <1>2, <2>1, LoadEffect DEF ProcessMatches
<1> QED BY <1>1, <1>2

LEMMA RestartKeeps ==
    ASSUME LifecycleInv, Restart
    PROVE  LifecycleInv'
<1> USE DEF LifecycleInv
<1>1. Launch /\ UNCHANGED <<current, unit, config, cert, backups, lastChange, forfeited>>
  BY DEF Restart, Rest
<1>2. Goes("restart")
  BY DoneGoes DEF Restart, Steps
<1>3. /\ Upcoming = "restart" /\ cmd.failed # "backup" /\ Keeps /\ cmd'.savedDb = cmd.savedDb
      /\ OnPlan(cmd)' /\ cmd' \in CommandType /\ cmd.name # "none"
      /\ \/ cmd.failed = "none" /\ Upcoming' = "check"
                /\ cmd.name \in {"update", "rollback", "reconfigure"}
         \/ cmd.failed # "none" /\ Upcoming' = "end"
                /\ cmd.name \in {"update", "rollback", "reconfigure", "restore"}
  BY <1>2 DEF Goes, Leads, Names
<1>4. /\ proc' \in ProcessType /\ db' \in Changes \cup {NoDb} /\ ProcessMatches'
      /\ proc'.active => unit # NoRelease
      /\ db # NoDb => db' = db
      /\ db' = db \/ (db = NoDb /\ db' = {})
      /\ unit # NoRelease /\ Serves(current, config) => Healthy' /\ proc'.release = current
  BY <1>1, LaunchEffect
<1>5. TypeInv'
  BY <1>1, <1>3, <1>4 DEF TypeInv
<1>6. Installed' /\ StaysDown'
  BY <1>1, <1>3, <1>4 DEF Installed, StaysDown, Down, Keeps
<1>7. Remembers'
  BY <1>1, <1>3 DEF Remembers, Keeps, Idle, Tries
<1>8. Matches' /\ UnitMatches'
  BY <1>1, <1>3, <1>4 DEF Matches, UnitMatches, Keeps, Idle
<1>9. PutBack'
  BY <1>1, <1>3, <1>4 DEF PutBack, Keeps, Tries
<1>10. Restorable'
  <2>1. Excepted' <=> Excepted
    BY <1>3 DEF Keeps, Excepted, UpdateHalfway, NewCertificate
  <2>2. ~Excepted /\ Settled' => cmd.failed # "none"
    BY <1>3 DEF Keeps, Settled
  <2>3. ~Excepted /\ Settled' => current = cmd.previous /\ config = cmd.saved
    BY <1>3, <2>2 DEF PutBack, Remembers, Tries
  <2> QED BY <1>1, <1>3, <1>4, <2>1, <2>3 DEF Restorable, Keeps, Idle, Serves
<1>11. Guarded' /\ NothingLost'
  BY <1>1, <1>3, <1>4 DEF Guarded, NothingLost, Keeps
<1> QED BY <1>3, <1>5, <1>6, <1>7, <1>8, <1>9, <1>10, <1>11

LEMMA StartKeeps ==
    ASSUME LifecycleInv, Start
    PROVE  LifecycleInv'
<1> USE DEF LifecycleInv
<1>1. /\ IF proc.active THEN UNCHANGED <<proc, db>> ELSE Launch
      /\ UNCHANGED <<current, unit, config, cert, backups, lastChange, forfeited>>
  BY DEF Start, Rest
<1>2. Goes("start")
  BY DoneGoes DEF Start, Steps
<1>3. /\ Upcoming = "start" /\ Keeps /\ cmd'.savedDb = cmd.savedDb
      /\ OnPlan(cmd)' /\ cmd' \in CommandType
      /\ cmd.name \in {"install", "repair", "reset", "restore"}
      /\ \/ cmd.failed = "none" /\ Upcoming' = "check"
         \/ cmd.failed # "none" /\ Upcoming' = "end" /\ cmd.name = "reset"
  BY <1>2 DEF Goes, Leads, Names
<1>4. cmd.name # "repair" => ~proc.active
  BY <1>3 DEF Remembers, StaysDown, Down
<1>5. ~proc.active =>
        /\ proc' \in ProcessType /\ db' \in Changes \cup {NoDb} /\ ProcessMatches'
        /\ proc'.active => unit # NoRelease
        /\ db # NoDb => db' = db
        /\ db' = db \/ (db = NoDb /\ db' = {})
        /\ unit # NoRelease /\ Serves(current, config) => Healthy' /\ proc'.release = current
  BY <1>1, LaunchEffect
<1>6. proc.active => UNCHANGED <<proc, db>>
  BY <1>1
<1>7. TypeInv'
  BY <1>1, <1>3, <1>5, <1>6 DEF TypeInv
<1>8. Installed' /\ StaysDown'
  BY <1>1, <1>3, <1>5, <1>6 DEF Installed, StaysDown, Down, Keeps
<1>9. Remembers'
  BY <1>1, <1>3 DEF Remembers, Keeps, Idle, Tries
<1>10. Matches' /\ UnitMatches'
  BY <1>1, <1>3, <1>4, <1>5, <1>6 DEF Matches, ProcessMatches, UnitMatches, Keeps, Idle, Changed, UpdateHalfway
<1>11. PutBack'
  BY <1>3 DEF PutBack, Keeps, Tries
<1>12. Restorable'
  <2>1. Excepted' <=> Excepted
    BY <1>3 DEF Keeps, Excepted, UpdateHalfway, NewCertificate
  <2>2. Serves(cmd.previous, cmd.saved)' <=> Serves(cmd.previous, cmd.saved)
    BY <1>1, <1>3 DEF Keeps, Serves
  <2>3. ASSUME cmd.sound, cmd.name \in {"reset"}, unit # NoRelease, Serves(cmd.previous, cmd.saved)
        PROVE  Healthy' /\ proc'.release = current
    BY <1>4, <1>5, <2>3 DEF Remembers
  <2>4. ASSUME cmd.sound, cmd.name = "repair", Healthy, proc.release = current
        PROVE  Healthy' /\ proc'.release = current
    BY <1>1, <2>4 DEF Healthy, Running
  <2>5. cmd.name = "restore" => ~Settled'
    BY <1>3 DEF Keeps, Settled
  <2>6. cmd.name = "install" => ~cmd.sound
    BY DEF Remembers
  <2>7. cmd.name = "repair" => Settled
    BY DEF Settled
  <2> QED BY <1>1, <1>3, <2>1, <2>2, <2>3, <2>4, <2>5, <2>6, <2>7 DEF Restorable, Keeps, Idle
<1>13. Guarded' /\ NothingLost'
  BY <1>1, <1>3, <1>5, <1>6 DEF Guarded, BackedUp, NothingLost, Keeps
<1> QED BY <1>3, <1>7, <1>8, <1>9, <1>10, <1>11, <1>12, <1>13

LEMMA CheckFailsKeeps ==
    ASSUME LifecycleInv, CheckFails
    PROVE  LifecycleInv'
<1> USE DEF LifecycleInv
<1>1. /\ Upcoming = "check"
      /\ UNCHANGED <<current, unit, config, cert, db, backups, proc, lastChange, forfeited>>
  BY DEF CheckFails, Does, files, Rest
<1>2. /\ cmd.failed = "none" /\ \E next : Leads(cmd, "check", next)
      /\ cmd'.name = cmd.name /\ cmd'.failed = "check"
      /\ cmd'.target = cmd.target /\ cmd'.previous = cmd.previous
      /\ cmd'.wanted = cmd.wanted /\ cmd'.saved = cmd.saved /\ cmd'.source = cmd.source
      /\ cmd'.sound = cmd.sound /\ cmd'.consistent = cmd.consistent /\ cmd'.savedDb = cmd.savedDb
      /\ cmd' \in CommandType /\ OnPlan(cmd)'
      /\ Upcoming' = IF cmd.name \in {"update", "rollback"} THEN "link-back"
                     ELSE IF cmd.name \in {"reconfigure", "restore"} THEN "config-back"
                     ELSE "end"
  BY Fallback DEF CheckFails
<1>3. cmd.name \in {"install", "update", "rollback", "reconfigure", "repair", "reset", "restore"}
  <2>1. cmd.name \in Names /\ cmd.name # "none"
    BY Fallback DEF CheckFails, TypeInv, CommandType
  <2> QED BY <1>2, <2>1 DEF Names, Leads
<1>4. TypeInv'
  BY <1>1, <1>2 DEF TypeInv
<1>5. Installed' /\ StaysDown'
  BY <1>1, <1>2 DEF Installed, StaysDown, Down
<1>6. Remembers'
  BY <1>1, <1>2, <1>3 DEF Remembers, Idle, Tries
<1>7. Matches' /\ UnitMatches'
  BY <1>1, <1>2, <1>3 DEF Matches, ProcessMatches, UnitMatches, Idle, Changed, UpdateHalfway
<1>8. PutBack'
  BY <1>2 DEF PutBack, Tries
<1>9. Restorable'
  <2>1. Excepted' <=> Excepted
    BY <1>2 DEF Excepted, UpdateHalfway, NewCertificate
  <2>2. cmd.name \in {"reset", "repair"} => Settled
    BY <1>1 DEF Settled
  <2>3. cmd.name \in {"update", "rollback", "reconfigure", "restore"} => ~Settled'
    BY <1>2 DEF Settled
  <2>4. cmd.name = "install" => ~cmd.sound
    BY DEF Remembers
  <2>5. Healthy' <=> Healthy
    BY <1>1 DEF Healthy, Running
  <2> QED BY <1>1, <1>2, <1>3, <2>1, <2>2, <2>3, <2>4, <2>5 DEF Restorable, Idle, Serves
<1>10. Guarded' /\ NothingLost'
  BY <1>1, <1>2 DEF Guarded, BackedUp, NothingLost
<1> QED BY <1>2, <1>4, <1>5, <1>6, <1>7, <1>8, <1>9, <1>10

LEMMA MakeCertificateKeeps ==
    ASSUME LifecycleInv, MakeCertificate
    PROVE  LifecycleInv'
<1> USE DEF LifecycleInv
<1>1. /\ cert' = IF NewCertificate THEN cmd.wanted ELSE cert
      /\ UNCHANGED <<current, unit, config, db, backups, proc, lastChange, forfeited>>
  BY DEF MakeCertificate, Rest
<1>2. Goes("certificate")
  BY DoneGoes DEF MakeCertificate, Steps
<1>3. /\ Upcoming = "certificate" /\ Keeps /\ OnPlan(cmd)' /\ cmd' \in CommandType
      /\ cmd.failed = "none" /\ Upcoming' = "configure"
      /\ cmd.name \in {"install", "reconfigure"}
  BY <1>2 DEF Goes, Leads, Names
<1>4. TypeInv'
  <2>1. cmd.wanted \in Addresses \cup {NoAddress}
    BY DEF TypeInv, CommandType
  <2> QED BY <1>1, <1>3, <2>1 DEF TypeInv
<1>5. Installed' /\ StaysDown'
  BY <1>1, <1>3 DEF Installed, StaysDown, Down, Keeps
<1>6. Remembers'
  BY <1>1, <1>3 DEF Remembers, Keeps, Idle, Tries
<1>7. Matches' /\ UnitMatches'
  BY <1>1, <1>3 DEF Matches, ProcessMatches, UnitMatches, Keeps, Idle, Changed, UpdateHalfway
<1>8. PutBack'
  BY <1>3 DEF PutBack, Keeps, Tries
<1>9. Restorable'
  <2>1. Excepted' <=> Excepted
    BY <1>3 DEF Keeps, Excepted, UpdateHalfway, NewCertificate
  <2>2. cmd.name = "install" => ~cmd.sound
    BY DEF Remembers
  <2>3. cmd.name = "reconfigure" => config = cmd.saved
    BY <1>3 DEF Remembers, Tries
  <2>4. cmd.name = "reconfigure" /\ ~Excepted => cmd.saved = Loopback \/ cert' = cert
    BY <1>1 DEF Excepted
  <2>5. Serves(cmd.previous, cmd.saved) /\ (cmd.saved = Loopback \/ cert' = cert)
          => Serves(cmd.previous, cmd.saved)'
    BY <1>3 DEF Serves, Keeps
  <2>6. config = cmd.saved /\ (cmd.saved = Loopback \/ cert' = cert) /\ Healthy => Healthy'
    BY <1>1 DEF Healthy, Running
  <2>7. Settled
    BY <1>3 DEF Settled
  <2> QED BY <1>1, <1>3, <2>1, <2>2, <2>3, <2>4, <2>5, <2>6, <2>7 DEF Restorable, Keeps, Idle
<1>10. Guarded' /\ NothingLost'
  BY <1>1, <1>3 DEF Guarded, NothingLost, Keeps
<1> QED BY <1>3, <1>4, <1>5, <1>6, <1>7, <1>8, <1>9, <1>10

LEMMA ConfigureKeeps ==
    ASSUME LifecycleInv, Configure
    PROVE  LifecycleInv'
<1> USE DEF LifecycleInv
<1>1. UNCHANGED <<current, unit, cert, db, backups, proc, lastChange, forfeited>>
  BY DEF Configure, Rest
<1>2. \/ Goes("configure") /\ config' = cmd.wanted
      \/ Goes("config") /\ config' = cmd.source.config
      \/ Goes("config-back") /\ config' = cmd.saved
  BY DoneGoes DEF Configure, Steps
<1>3. /\ Keeps /\ cmd'.savedDb = cmd.savedDb /\ OnPlan(cmd)' /\ cmd' \in CommandType
      /\ cmd.name # "none"
      /\ \/ /\ Upcoming = "configure" /\ config' = cmd.wanted /\ cmd.failed = "none"
            /\ \/ cmd.name = "install" /\ Upcoming' = "unit"
               \/ cmd.name = "reconfigure" /\ Upcoming' = "restart"
         \/ /\ Upcoming = "config" /\ config' = cmd.source.config /\ cmd.failed = "none"
            /\ cmd.name = "restore" /\ Upcoming' = "database"
         \/ /\ Upcoming = "config-back" /\ config' = cmd.saved /\ cmd.failed # "none"
            /\ \/ cmd.name = "restore" /\ Upcoming' = "database-back"
               \/ cmd.name = "reconfigure" /\ Upcoming' = "restart"
  BY <1>2 DEF Goes, Leads, Names
<1>4. config' \in Addresses
  <2>1. /\ cmd.wanted \in Addresses \cup {NoAddress} /\ cmd.saved \in Addresses \cup {NoAddress}
        /\ cmd.source \in BackupType => cmd.source.config \in Addresses
    BY DEF TypeInv, CommandType, BackupType
  <2>2. /\ cmd.name \in {"install", "reconfigure"} => cmd.wanted # NoAddress
        /\ cmd.name \in {"restore", "reconfigure"} => cmd.saved # NoAddress
        /\ cmd.name = "restore" => cmd.source \in BackupType
    BY DEF Remembers
  <2> QED BY <1>3, <2>1, <2>2
<1>5. config' # NoAddress
  BY <1>4, AbsentAssumption DEF AbsentAssumption
<1>6. TypeInv'
  BY <1>1, <1>3, <1>4 DEF TypeInv
<1>7. Installed'
  BY <1>1, <1>5 DEF Installed
<1>8. StaysDown'
  BY <1>1, <1>3 DEF StaysDown, Down, Keeps
<1>9. Remembers'
  BY <1>1, <1>3, <1>5 DEF Remembers, Keeps, Idle, Tries
<1>10. Matches' /\ UnitMatches'
  <2>1. cmd.name = "install" => ~proc.active
    BY <1>3 DEF Remembers, Tries, Installed
  <2>2. cmd.name = "restore" /\ cmd.failed = "none" => ~proc.active
    BY <1>3 DEF StaysDown, Down
  <2>3. ~proc.active => ProcessMatches'
    BY <1>1 DEF ProcessMatches
  <2>4. cmd.name # "install" /\ (cmd.name = "restore" => cmd.failed # "none") => Changed'
    BY <1>3 DEF Changed, Keeps
  <2>5. Matches'
    BY <2>1, <2>2, <2>3, <2>4 DEF Matches
  <2>6. UnitMatches'
    BY <1>1, <1>3 DEF UnitMatches, Keeps, Idle, Remembers, Tries
  <2> QED BY <2>5, <2>6
<1>11. PutBack'
  BY <1>1, <1>3 DEF PutBack, Keeps, Tries
<1>12. Restorable'
  <2>1. Excepted' <=> Excepted
    BY <1>3 DEF Keeps, Excepted, UpdateHalfway, NewCertificate
  <2>2. ~Settled'
    BY <1>3 DEF Keeps, Settled
  <2> QED BY <1>1, <1>3, <2>1, <2>2 DEF Restorable, Keeps, Idle, Serves
<1>13. Guarded' /\ NothingLost'
  BY <1>1, <1>3 DEF Guarded, BackedUp, NothingLost, Keeps
<1> QED BY <1>3, <1>6, <1>7, <1>8, <1>9, <1>10, <1>11, <1>12, <1>13

LEMMA ConfigureRejectsKeeps ==
    ASSUME LifecycleInv, ConfigureRejects
    PROVE  LifecycleInv'
<1> USE DEF LifecycleInv
<1>1. /\ Upcoming = "configure"
      /\ UNCHANGED <<current, unit, config, cert, db, backups, proc, lastChange, forfeited>>
  BY DEF ConfigureRejects, Does, files, Rest
<1>2. /\ cmd.failed = "none" /\ cmd.name # "none" /\ \E next : Leads(cmd, "configure", next)
      /\ cmd'.name = cmd.name /\ cmd'.failed = "configure"
      /\ cmd'.target = cmd.target /\ cmd'.previous = cmd.previous
      /\ cmd'.wanted = cmd.wanted /\ cmd'.saved = cmd.saved /\ cmd'.source = cmd.source
      /\ cmd'.sound = cmd.sound /\ cmd'.consistent = cmd.consistent /\ cmd'.savedDb = cmd.savedDb
      /\ cmd' \in CommandType /\ OnPlan(cmd)'
      /\ Upcoming' = IF cmd.name \in {"update", "rollback"} THEN "link-back"
                     ELSE IF cmd.name = "restore" THEN "config-back"
                     ELSE "end"
  BY Fallback DEF ConfigureRejects
<1>3. cmd.name \in {"install", "reconfigure"} /\ Upcoming' = "end"
  <2>1. cmd.name \in Names
    BY DEF TypeInv, CommandType
  <2> QED BY <1>2, <2>1 DEF Names, Leads
<1>4. TypeInv'
  BY <1>1, <1>2 DEF TypeInv
<1>5. Installed' /\ StaysDown'
  BY <1>1, <1>2, <1>3 DEF Installed, StaysDown, Down
<1>6. Remembers'
  BY <1>1, <1>2, <1>3 DEF Remembers, Idle, Tries
<1>7. Matches' /\ UnitMatches'
  BY <1>1, <1>2, <1>3 DEF Matches, ProcessMatches, UnitMatches, Idle, Changed, UpdateHalfway
<1>8. PutBack'
  BY <1>1, <1>2, <1>3 DEF PutBack, Tries, Remembers
<1>9. Restorable'
  <2>1. Excepted' <=> Excepted
    BY <1>2, <1>3 DEF Excepted, UpdateHalfway, NewCertificate
  <2>2. Settled /\ (Healthy' <=> Healthy)
    BY <1>1 DEF Settled, Healthy, Running
  <2> QED BY <1>1, <1>2, <2>1, <2>2 DEF Restorable, Idle, Serves
<1>10. Guarded' /\ NothingLost'
  BY <1>1, <1>2, <1>3 DEF Guarded, NothingLost
<1> QED BY <1>2, <1>4, <1>5, <1>6, <1>7, <1>8, <1>9, <1>10

LEMMA PutDatabaseKeeps ==
    ASSUME LifecycleInv, PutDatabase
    PROVE  LifecycleInv'
<1> USE DEF LifecycleInv
<1>1. /\ proc' = [proc EXCEPT !.orphan = proc.active]
      /\ UNCHANGED <<current, unit, config, cert, backups, lastChange, forfeited>>
  BY DEF PutDatabase, Rest
<1>2. \/ Goes("database") /\ db' = cmd.source.db
      \/ Goes("database-back") /\ db' = cmd.savedDb
  BY DoneGoes DEF PutDatabase, Steps
<1>3. /\ Keeps /\ cmd'.savedDb = cmd.savedDb /\ OnPlan(cmd)' /\ cmd' \in CommandType
      /\ cmd.name = "restore"
      /\ \/ Upcoming = "database" /\ db' = cmd.source.db /\ cmd.failed = "none" /\ Upcoming' = "start"
         \/ Upcoming = "database-back" /\ db' = cmd.savedDb /\ cmd.failed # "none"
              /\ Upcoming' = "restart"
  BY <1>2 DEF Goes, Leads, Names
<1>4. /\ proc' \in ProcessType /\ proc'.active = proc.active
      /\ proc'.release = proc.release /\ proc'.config = proc.config
  BY <1>1 DEF TypeInv, ProcessType
<1>5. db' \in Changes
  <2>1. cmd.savedDb \in Changes \cup {NoDb} /\ (cmd.source \in BackupType => cmd.source.db \in Changes)
    BY DEF TypeInv, CommandType, BackupType
  <2> QED BY <1>3, <2>1 DEF Remembers, Guarded
<1>6. db' # NoDb
  BY <1>5, AbsentAssumption DEF AbsentAssumption, Changes
<1>7. TypeInv'
  BY <1>1, <1>3, <1>4, <1>5 DEF TypeInv
<1>8. Installed'
  BY <1>1, <1>4 DEF Installed
<1>9. StaysDown'
  BY <1>3, <1>4 DEF StaysDown, Down, Keeps
<1>10. Remembers'
  BY <1>1, <1>3 DEF Remembers, Keeps, Idle, Tries
<1>11. Matches' /\ UnitMatches'
  BY <1>1, <1>3, <1>4 DEF Matches, ProcessMatches, UnitMatches, Keeps, Idle, Changed, StaysDown, Down
<1>12. PutBack'
  BY <1>1, <1>3, <1>6 DEF PutBack, Keeps, Tries
<1>13. Restorable'
  <2>1. Excepted' <=> Excepted
    BY <1>3 DEF Keeps, Excepted, UpdateHalfway, NewCertificate
  <2>2. ~Settled'
    BY <1>3 DEF Keeps, Settled
  <2> QED BY <1>1, <1>3, <2>1, <2>2 DEF Restorable, Keeps, Idle, Serves
<1>14. BackedUp' /\ cmd.savedDb # NoDb
  BY <1>1, <1>3 DEF Guarded, BackedUp
<1>15. Guarded' /\ NothingLost'
  BY <1>3, <1>6, <1>14 DEF Guarded, BackedUp, NothingLost
<1> QED BY <1>3, <1>7, <1>8, <1>9, <1>10, <1>11, <1>12, <1>13, <1>15

LEMMA ResetKeeps ==
    ASSUME LifecycleInv, Reset
    PROVE  LifecycleInv'
<1> USE DEF LifecycleInv
<1>1. /\ Upcoming = "reset"
      /\ UNCHANGED <<current, unit, config, cert, db, backups, proc, lastChange, forfeited>>
  BY DEF Reset, Does, files, Rest
<1>2. /\ cmd.name = "reset" /\ cmd'.name = cmd.name
      /\ cmd'.previous = cmd.previous /\ cmd'.saved = cmd.saved
      /\ cmd'.sound = cmd.sound /\ cmd'.consistent = cmd.consistent
      /\ cmd' \in CommandType /\ OnPlan(cmd)' /\ Upcoming' = "start"
  <2>1. cmd.name \in Names
    BY DEF TypeInv, CommandType
  <2>2. CASE Done
    <3>1. Goes("reset")
      BY <2>2, DoneGoes DEF Reset, Steps
    <3> QED BY <3>1 DEF Goes, Keeps, Leads, Names
  <2>3. CASE Fails("reset")
    <3>1. /\ cmd.failed = "none" /\ cmd.name # "none" /\ \E next : Leads(cmd, "reset", next)
          /\ cmd'.name = cmd.name
          /\ cmd'.previous = cmd.previous /\ cmd'.saved = cmd.saved
          /\ cmd'.sound = cmd.sound /\ cmd'.consistent = cmd.consistent
          /\ cmd' \in CommandType /\ OnPlan(cmd)'
          /\ cmd.name = "reset" => Upcoming' = "start"
      BY <2>3, Fallback DEF Reset
    <3>2. cmd.name = "reset"
      BY <2>1, <3>1 DEF Names, Leads
    <3> QED BY <3>1, <3>2
  <2> QED BY <2>2, <2>3 DEF Reset
<1>3. TypeInv'
  BY <1>1, <1>2 DEF TypeInv
<1>4. Installed' /\ StaysDown'
  BY <1>1, <1>2 DEF Installed, StaysDown, Down
<1>5. Remembers'
  BY <1>1, <1>2 DEF Remembers, Idle
<1>6. Matches' /\ UnitMatches'
  BY <1>1, <1>2 DEF Matches, ProcessMatches, UnitMatches, Idle, StaysDown, Down
<1>7. PutBack' /\ Guarded' /\ NothingLost'
  BY <1>1, <1>2 DEF PutBack, Guarded, NothingLost
<1>8. Restorable'
  <2>1. ~Excepted /\ ~Settled'
    BY <1>2 DEF Excepted, UpdateHalfway, Settled
  <2> QED BY <1>1, <1>2, <2>1 DEF Restorable, Idle, Serves
<1> QED BY <1>2, <1>3, <1>4, <1>5, <1>6, <1>7, <1>8

LEMMA RemoveKeeps ==
    ASSUME LifecycleInv, Remove
    PROVE  LifecycleInv'
<1> USE DEF LifecycleInv
<1>1. /\ current' = NoRelease /\ unit' = NoRelease
      /\ config' \in {config, NoAddress} /\ cert' \in {cert, NoAddress}
      /\ db' \in {db, NoDb} /\ backups' \in {backups, {}}
      /\ \/ db' = db /\ backups' = backups /\ forfeited' = forfeited
         \/ forfeited' = 1..lastChange
      /\ UNCHANGED <<proc, lastChange>>
  BY DEF Remove
<1>2. Goes("remove")
  BY DoneGoes DEF Remove, Steps
<1>3. /\ Upcoming = "remove" /\ Keeps /\ OnPlan(cmd)' /\ cmd' \in CommandType
      /\ cmd.name = "uninstall" /\ Upcoming' = "end" /\ cmd.failed = "none"
  BY <1>2 DEF Goes, Leads, Names
<1>4. ~proc'.active
  BY <1>1, <1>3 DEF StaysDown, Down
<1>5. TypeInv'
  BY <1>1, <1>3 DEF TypeInv
<1>6. Installed' /\ StaysDown'
  BY <1>1, <1>4 DEF Installed, StaysDown
<1>7. Remembers' /\ PutBack' /\ Guarded'
  BY <1>3 DEF Remembers, PutBack, Guarded, Keeps, Idle, Tries
<1>8. Matches' /\ UnitMatches'
  BY <1>1, <1>4 DEF Matches, ProcessMatches, UnitMatches
<1>9. Restorable'
  BY <1>3 DEF Restorable, Keeps, Excepted
<1>10. NothingLost'
  BY <1>1 DEF NothingLost
<1> QED BY <1>3, <1>5, <1>6, <1>7, <1>8, <1>9, <1>10

-----------------------------------------------------------------------------
(* The theorems.                                                            *)

LEMMA LifecycleInit == Init => LifecycleInv
<1> SUFFICES ASSUME Init PROVE LifecycleInv
  OBVIOUS
<1>1. /\ current = NoRelease /\ unit = NoRelease /\ config = NoAddress /\ cert = NoAddress
      /\ db = NoDb /\ backups = {} /\ proc = Stopped /\ cmd = NoCommand
      /\ lastChange = 0 /\ forfeited = {}
  BY DEF Init
<1>2. /\ cmd.name = "none" /\ cmd.failed = "none" /\ cmd.todo = <<>>
      /\ cmd.sound = FALSE /\ cmd.consistent = FALSE
  BY <1>1 DEF NoCommand
<1>3. ~proc.active /\ proc \in ProcessType
  BY <1>1 DEF Stopped, ProcessType
<1>4. TypeInv
  BY <1>1, <1>3, NoCommandType DEF TypeInv
<1>5. OnPlan(cmd)
  <2>1. Plan(cmd) = <<>> /\ SubSeq(<<>>, 0 + 1, Len(<<>>)) = <<>>
    BY <1>2, SubSeqEmpty DEF Plan
  <2> QED BY <1>2, <2>1 DEF OnPlan
<1>6. Installed /\ Remembers /\ StaysDown
  BY <1>1, <1>2, <1>3 DEF Installed, Remembers, Idle, StaysDown
<1>7. Matches /\ UnitMatches /\ PutBack /\ Restorable /\ Guarded
  BY <1>2 DEF Matches, UnitMatches, PutBack, Tries, Restorable, Guarded, Idle
<1>8. NothingLost
  BY <1>1 DEF NothingLost
<1> QED BY <1>4, <1>5, <1>6, <1>7, <1>8 DEF LifecycleInv

LEMMA StutterKeeps ==
    ASSUME LifecycleInv, UNCHANGED vars
    PROVE  LifecycleInv'
<1> USE DEF LifecycleInv, vars, files
<1>1. Upcoming' = Upcoming /\ OnPlan(cmd)'
  BY DEF Upcoming, OnPlan, Plan
<1>2. TypeInv' /\ Installed' /\ StaysDown' /\ Remembers'
  BY <1>1 DEF TypeInv, Installed, StaysDown, Down, Remembers, Idle, Tries
<1>3. Matches' /\ UnitMatches' /\ PutBack' /\ Guarded' /\ NothingLost'
  BY <1>1 DEF Matches, ProcessMatches, UnitMatches, Idle, Changed, UpdateHalfway, PutBack, Tries,
              Guarded, BackedUp, NothingLost
<1>4. Restorable'
  BY <1>1 DEF Restorable, Idle, Excepted, UpdateHalfway, NewCertificate, Serves, Settled, Healthy,
              Running
<1> QED BY <1>1, <1>2, <1>3, <1>4

LEMMA LifecycleNext == LifecycleInv /\ [Next]_vars => LifecycleInv'
<1> SUFFICES ASSUME LifecycleInv, [Next]_vars PROVE LifecycleInv'
  OBVIOUS
<1>1. CASE ServiceStarts \/ ServiceCrashes
  <2>1. /\ Load /\ unit # NoRelease /\ (Idle \/ proc.active)
        /\ UNCHANGED <<current, unit, config, cert, backups, cmd, lastChange, forfeited>>
    BY <1>1 DEF ServiceStarts, ServiceCrashes, LifecycleInv, Installed, Running, Idle, NoCommand
  <2> QED BY <2>1, ServiceLoads
<1>2. CASE End \/ Die
  <2>1. cmd' = NoCommand /\ UNCHANGED <<files, proc, lastChange, forfeited>>
    BY <1>2 DEF End, Die, Rest
  <2> QED BY <2>1, StopsKeep
<1>3. CASE Change
  BY <1>3, ChangeKeeps
<1>4. CASE BeginSome
  BY <1>4, BeginSomeKeeps
<1>5. CASE MakeBackup \/ InitializeState \/ NoState
  BY <1>5, MakeBackupKeeps, InitializeKeeps, NoStateKeeps
<1>6. CASE PutRelease \/ Link \/ PutUnit \/ UnitFails
  BY <1>6, PutReleaseKeeps, LinkKeeps, PutUnitKeeps, UnitFailsKeeps
<1>7. CASE Stop \/ Start \/ Restart \/ CheckPasses \/ CheckFails
  BY <1>7, StopKeeps, StartKeeps, RestartKeeps, CheckPassesKeeps, CheckFailsKeeps
<1>8. CASE MakeCertificate \/ Configure \/ ConfigureRejects \/ PutDatabase \/ Reset \/ Remove
  BY <1>8, MakeCertificateKeeps, ConfigureKeeps, ConfigureRejectsKeeps, PutDatabaseKeeps, ResetKeeps,
     RemoveKeeps
<1>9. CASE UNCHANGED vars
  BY <1>9, StutterKeeps
<1> QED BY <1>1, <1>2, <1>3, <1>4, <1>5, <1>6, <1>7, <1>8, <1>9 DEF Next

\* A command follows its plan, remembers what it found, and keeps what it needs
\* to put everything back; every change not given up is in the database or in a
\* backup, and in a backup alone while a restore replaces the database.
THEOREM LifecycleInvariant == Spec => []LifecycleInv
BY LifecycleInit, LifecycleNext, PTL DEF Spec

LEMMA EndIsReached ==
    ASSUME Ended
    PROVE  Upcoming = "end" /\ ~Idle
BY DEF Ended, Upcoming, Idle

\* A command that found the installed release healthy, and was not cut short,
\* leaves it healthy, whether it succeeded or failed.
THEOREM HealthPreserved == Spec => []StaysHealthy
<1>1. LifecycleInv => StaysHealthy
  BY EndIsReached DEF LifecycleInv, StaysHealthy, Restorable, Settled, Excepted, UpdateHalfway
<1> QED BY <1>1, LifecycleInvariant, PTL

\* A command that fails puts back every file it replaced.
THEOREM FailurePutsBack == Spec => []FailedReinstates
<1>1. LifecycleInv => FailedReinstates
  BY EndIsReached DEF LifecycleInv, FailedReinstates, PutBack, Tries, Ended
<1> QED BY <1>1, LifecycleInvariant, PTL

\* A command that found the process, the unit, the link and the configuration in
\* agreement leaves them so.
THEOREM InstalledRuns == Spec => []RunsInstalled
<1>1. LifecycleInv => RunsInstalled
  BY EndIsReached DEF LifecycleInv, RunsInstalled, Consistent, Matches, ProcessMatches, UnitMatches,
                      Changed, UpdateHalfway
<1> QED BY <1>1, LifecycleInvariant, PTL

\* Wherever a command is cut short, no change that an administrator made and did
\* not give up is lost.
THEOREM ChangesSurvive == Spec => []NothingLost
<1>1. LifecycleInv => NothingLost
  BY DEF LifecycleInv
<1> QED BY <1>1, LifecycleInvariant, PTL
=============================================================================
